---------------------------- MODULE MCSieveCache ----------------------------
(* SieveCache on a few keys: more keys than capacity, so that it evicts. *)
EXTENDS SieveCache

CONSTANTS k1, k2, k3, k4, v1, v2

MCKeys   == {k1, k2, k3, k4}
MCValues == {v1, v2}
=============================================================================
