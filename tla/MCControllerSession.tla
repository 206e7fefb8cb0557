------------------------- MODULE MCControllerSession -------------------------
(* Two connections and two subscriptions with two events: one connection  *)
(* polls while the other wants the mutex, polls the same subscription or     *)
(* asks for a shutdown, and clients leave and come back.                     *)
EXTENDS ControllerSession

CONSTANTS c1, c2, s1, s2

MCConns == {c1, c2}
MCSubs  == {s1, s2}
=============================================================================
