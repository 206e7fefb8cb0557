---------------------------- MODULE MCSieveSweep ----------------------------
(* SieveSweep on a few keys; the values play no part in the loop. *)
EXTENDS SieveSweep

CONSTANTS k1, k2, k3, k4, v1

MCKeys   == {k1, k2, k3, k4}
MCValues == {v1}
=============================================================================
