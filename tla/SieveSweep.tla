----------------------------- MODULE SieveSweep -----------------------------
(***************************************************************************)
(* evict_one taken apart: one step per turn of its loop, on the variables  *)
(* of SieveCache, whose InsertNew does the whole eviction at once.  The    *)
(* loop indexes the queue without a check, so a hand out of range panics   *)
(* while the data layer's write lock is held.                              *)
(***************************************************************************)
EXTENDS SieveCache

VARIABLES pc,        \* "idle", "loop" in evict_one, "store" after it
          swept,     \* entries the loop has passed
          queueLen,  \* queue_len, read once before the loop
          job,       \* the key and value insert is to store
          before     \* the cache when insert was called (for the refinement)

sweepVars == <<data, queue, hand, pc, swept, queueLen, job, before>>

NoJob == [key |-> CHOOSE k \in Keys : TRUE, value |-> CHOOSE v \in Values : TRUE]

Nothing == [data |-> [k \in {} |-> k], queue |-> <<>>, hand |-> 0]

SweepInit ==
    /\ Init
    /\ pc = "idle" /\ swept = 0 /\ queueLen = 0
    /\ job = NoJob /\ before = Nothing

\* get, remove, insert of a key held, insert of a new key that needs no room.
Call ==
    /\ pc = "idle"
    /\ \E k \in Keys :
          \/ Get(k)
          \/ Remove(k)
          \/ \E v \in Values : \/ Update(k, v)
                               \/ InsertNew(k, v) /\ (~Full \/ queue = <<>>)
    /\ UNCHANGED <<pc, swept, queueLen, job, before>>

\* insert of a new key into a full cache, up to the loop: the hand is wrapped.
Enter(k, v) ==
    /\ pc = "idle" /\ k \notin DOMAIN data
    /\ Full /\ queue # <<>>
    /\ pc' = "loop"
    /\ hand' = Wrapped
    /\ swept' = 0 /\ queueLen' = Len(queue)
    /\ job' = [key |-> k, value |-> v]
    /\ before' = [data |-> data, queue |-> queue, hand |-> hand]
    /\ UNCHANGED <<data, queue>>

Used(k) == k \in DOMAIN data /\ data[k].visited

\* A turn that passes a visited entry.
SeededCleared(k) == data
BitCleared(k) == [data EXCEPT ![k].visited = FALSE]

SeededAdvanced == hand + 1
Advanced == (hand + 1) % Len(queue)

Pass ==
    /\ pc = "loop" /\ swept < queueLen
    /\ Used(At(hand))
    /\ data' = BitCleared(At(hand))
    /\ hand' = Advanced
    /\ swept' = swept + 1
    /\ UNCHANGED <<queue, pc, queueLen, job, before>>

\* What ends the loop: an entry that is not visited, one the map does not hold,
\* or, after a whole round, the entry at the hand.
Drop ==
    /\ pc = "loop"
    /\ swept < queueLen => ~Used(At(hand))
    /\ data' = [x \in DOMAIN data \ {At(hand)} |-> data[x]]
    /\ queue' = Without(hand)
    /\ hand' = IF hand >= Len(queue) - 1 /\ Len(queue) > 1 THEN 0 ELSE hand
    /\ pc' = "store"
    /\ UNCHANGED <<swept, queueLen, job, before>>

\* The rest of insert; the eviction's locals go out of scope.
StoreNew ==
    /\ pc = "store"
    /\ data' = Put(data, job.key, [value |-> job.value, visited |-> FALSE])
    /\ queue' = Append(queue, job.key)
    /\ pc' = "idle" /\ swept' = 0 /\ queueLen' = 0
    /\ job' = NoJob /\ before' = Nothing
    /\ UNCHANGED hand

SweepNext ==
    \/ Call
    \/ \E k \in Keys, v \in Values : Enter(k, v)
    \/ Pass
    \/ Drop
    \/ StoreNew

SweepSpec == SweepInit /\ [][SweepNext]_sweepVars

-----------------------------------------------------------------------------
\* Every turn of the loop, and the eviction after it, indexes the queue where
\* there is an entry: queue[hand] and queue.remove(hand).unwrap() never panic
\* (sieve.rs:99, 108, 130).
IndexSafe == pc = "loop" => hand \in 0..(Len(queue) - 1)

\* The loop does to the cache what SieveCache's InsertNew does in one step.
Atomic == INSTANCE SieveCache
             WITH data  <- IF pc = "idle" THEN data  ELSE before.data,
                  queue <- IF pc = "idle" THEN queue ELSE before.queue,
                  hand  <- IF pc = "idle" THEN hand  ELSE before.hand

ImplementsAtomic == Atomic!Spec
=============================================================================
