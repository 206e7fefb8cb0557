---------------------------- MODULE BoundedStore ----------------------------
(***************************************************************************)
(* What the daemon's data store promises its callers, whatever it does to  *)
(* choose a victim: a map from keys to values that changes only by writes  *)
(* and deletes, never holds more than Limit entries, and forgets one other *)
(* entry exactly when a new key finds it full.                             *)
(***************************************************************************)
EXTENDS Integers, FiniteSets

CONSTANTS Keys,      \* the keys callers use
          Values,    \* the values they store
          Limit      \* the number of entries the store may hold

VARIABLE store       \* the entries held: a function on the keys present

Init == store = [k \in {} |-> k]

\* A write to a key that is held replaces its value and forgets nothing.
Overwrite(k, v) ==
    /\ k \in DOMAIN store
    /\ store' = [store EXCEPT ![k] = v]

\* A write to a new key: a full store forgets one entry, no other one does.
Add(k, v) ==
    /\ k \notin DOMAIN store
    /\ \E kept \in SUBSET DOMAIN store :
          /\ IF Cardinality(DOMAIN store) < Limit
                THEN kept = DOMAIN store
                ELSE \E forgotten \in DOMAIN store :
                        kept = DOMAIN store \ {forgotten}
          /\ store' = [x \in kept \cup {k} |-> IF x = k THEN v ELSE store[x]]

Delete(k) ==
    /\ k \in DOMAIN store
    /\ store' = [x \in DOMAIN store \ {k} |-> store[x]]

Next ==
    \E k \in Keys : \/ \E v \in Values : Overwrite(k, v) \/ Add(k, v)
                    \/ Delete(k)

Spec == Init /\ [][Next]_store
=============================================================================
