------------------------- MODULE MCModuleLifecycle -------------------------
(* ModuleLifecycle with one or two connections and module ids. *)
EXTENDS ModuleLifecycle, TLC

CONSTANTS c1, c2, a, b

OneConn  == {c1}
TwoConns == {c1, c2}
OneId    == {a}
TwoIds   == {a, b}

Interchangeable == Permutations(TwoConns) \cup Permutations(TwoIds)
=============================================================================
