----------------------------- MODULE SieveCache -----------------------------
(***************************************************************************)
(* The SIEVE cache of storage/sieve.rs, one atomic step per public         *)
(* operation: the data layer (storage/cache.rs) runs each of them under    *)
(* the write half of one RwLock, so no caller sees a state in between.     *)
(* SieveSweep.tla takes the eviction loop apart.                           *)
(*                                                                         *)
(* `hand' counts from 0, as in the code; TLA+ sequences count from 1, so   *)
(* At(i) is queue[i] of the program.                                       *)
(***************************************************************************)
EXTENDS Integers, Sequences, FiniteSets

CONSTANTS Keys,      \* the keys callers use
          Values,    \* the values they store
          Capacity   \* SieveCache::capacity, the configured max_keys

ASSUME CapacityAssumption == Capacity \in Nat

VARIABLES data,      \* HashMap: a function on the keys present
          queue,     \* VecDeque of the keys in insertion order
          hand       \* eviction pointer

vars == <<data, queue, hand>>

Entry == [value : Values, visited : BOOLEAN]

Init ==
    /\ data = [k \in {} |-> k]
    /\ queue = <<>>
    /\ hand = 0

-----------------------------------------------------------------------------
\* queue without its element at index pos, counted from 0.
Without(pos) == [i \in 1..(Len(queue) - 1) |->
                    IF i <= pos THEN queue[i] ELSE queue[i + 1]]

At(i) == queue[i + 1]

\* The map with e stored under k.
Put(map, k, e) == [x \in DOMAIN map \cup {k} |-> IF x = k THEN e ELSE map[x]]

\* Where the hand is once evict_one has wrapped it.
Wrapped == IF hand >= Len(queue) THEN 0 ELSE hand

\* The index the hand reaches after i turns of the loop.
Reached(i) == IF Wrapped + i < Len(queue) THEN Wrapped + i
                                          ELSE Wrapped + i - Len(queue)

\* The loop passes a visited entry and ends at any other.
SeededPassesNone(i) == i \in {}
Passes(i) == LET k == At(Reached(i)) IN k \in DOMAIN data /\ data[k].visited

\* The turns the loop makes before it removes something: up to the first
\* entry it does not pass, or one round when it passes them all.
IsSweep(t) ==
    /\ \A i \in 0..(t - 1) : Passes(i)
    /\ t < Len(queue) => ~Passes(t)

Turns == CHOOSE t \in 0..Len(queue) : IsSweep(t)

\* The keys whose visited bit the sweep clears; `Seeded' operators are mistakes
\* the properties below must catch, none is used by the specification.
SeededAllCleared == DOMAIN data
Cleared == {At(Reached(i)) : i \in 0..(Turns - 1)}

\* The hand once the entry at pos is gone: on the entry that moves into its
\* place, or back at the front when pos was the last index.
SeededNoWrap(pos) == pos
HandAfter(pos) == IF pos >= Len(queue) - 1 THEN 0 ELSE pos

EvictOne ==
    IF queue = <<>> THEN [data |-> data, queue |-> queue, hand |-> hand]
    ELSE LET pos == Reached(Turns)
         IN  [data  |-> [k \in DOMAIN data \ {At(pos)} |->
                            [value   |-> data[k].value,
                             visited |-> data[k].visited /\ k \notin Cleared]],
              queue |-> Without(pos),
              hand  |-> HandAfter(pos)]

\* insert evicts when the map is at its capacity.
SeededFullTooEarly == Cardinality(DOMAIN data) + 1 >= Capacity
Full == Cardinality(DOMAIN data) >= Capacity

MakeRoom ==
    IF Full THEN EvictOne ELSE [data |-> data, queue |-> queue, hand |-> hand]

-----------------------------------------------------------------------------
\* get: a hit marks the entry visited.
Get(k) ==
    /\ k \in DOMAIN data
    /\ data' = [data EXCEPT ![k].visited = TRUE]
    /\ UNCHANGED <<queue, hand>>

SeededUpdateRequeues(k, v) ==
    /\ k \in DOMAIN data
    /\ data' = Put(data, k, [value |-> v, visited |-> TRUE])
    /\ queue' = Append(queue, k)
    /\ UNCHANGED hand

\* insert, key present.
Update(k, v) ==
    /\ k \in DOMAIN data
    /\ data' = Put(data, k, [value |-> v, visited |-> TRUE])
    /\ UNCHANGED <<queue, hand>>

\* insert, key absent.
InsertNew(k, v) ==
    /\ k \notin DOMAIN data
    /\ LET room == MakeRoom
       IN  /\ data'  = Put(room.data, k, [value |-> v, visited |-> FALSE])
           /\ queue' = Append(room.queue, k)
           /\ hand'  = room.hand

\* The first index of k in the queue, Len(queue) when k is not queued.
IsPosition(k, p) ==
    /\ \A i \in 0..(p - 1) : At(i) # k
    /\ p < Len(queue) => At(p) = k

Position(k) == CHOOSE p \in 0..Len(queue) : IsPosition(k, p)

\* The hand once remove has taken the entry at pos: it keeps pointing at its
\* entry when an earlier one leaves.
SeededHandOffByOne(pos) == IF hand >= pos THEN hand - 1 ELSE hand
HandShifted(pos) == IF hand > pos THEN hand - 1 ELSE hand

\* remove
Remove(k) ==
    /\ k \in DOMAIN data
    /\ data' = [x \in DOMAIN data \ {k} |-> data[x]]
    /\ LET pos == Position(k)
       IN  IF pos < Len(queue)
              THEN queue' = Without(pos) /\ hand' = HandShifted(pos)
              ELSE UNCHANGED <<queue, hand>>

Next ==
    \E k \in Keys : \/ Get(k)
                    \/ \E v \in Values : Update(k, v) \/ InsertNew(k, v)
                    \/ Remove(k)

Spec == Init /\ [][Next]_vars

-----------------------------------------------------------------------------
\* The types of the struct's fields.
TypeOK ==
    /\ DOMAIN data \subseteq Keys
    /\ data \in [DOMAIN data -> Entry]
    /\ queue \in Seq(Keys)
    /\ hand \in Nat

\* The entries the cache can hold: the code keeps one with a capacity of 0,
\* because evict_one has nothing to remove and insert stores all the same.
Limit == IF Capacity = 0 THEN 1 ELSE Capacity

\* No key is queued twice.
QueueInjective ==
    \A i, j \in 1..Len(queue) : queue[i] = queue[j] => i = j

\* The map and the queue hold the same keys, each queued once, so that the
\* branch evict_one marks "shouldn't happen" is dead and nothing held by the
\* map can escape eviction (sieve.rs:44-81, 116-124).
QueueMatchesData ==
    /\ QueueInjective
    /\ DOMAIN data = {queue[i] : i \in 1..Len(queue)}

\* The hand is never further than one past the end, whatever sequence of
\* removals and evictions moved the queue under it (sieve.rs:74-77, 111-113).
HandInRange == hand <= Len(queue)

\* The queue never outgrows the limit (sieve.rs:53-55).
WithinLimit == Len(queue) <= Limit

\* "Maximum capacity" (sieve.rs:16): what the field's comment says, for every
\* capacity the configuration accepts. False for Capacity = 0, where insert
\* evicts from an empty queue and stores (sieve.rs:53-66); Limit says what holds.
WithinCapacity == Cardinality(DOMAIN data) <= Capacity

\* The entry the next sweep looks at first.
Designated == At(Wrapped)

\* A key leaves to make room, or because a caller removed it.
Evicts(k) == k \in DOMAIN data /\ k \notin DOMAIN data'
             /\ ~(DOMAIN data' \subseteq DOMAIN data)

\* An entry used since the hand last passed it is evicted only when every
\* entry was used, and then every survivor has lost its visited bit and its
\* next use counts afresh (sieve.rs:94-135).
SecondChance ==
    [][\A k \in Keys : Evicts(k) /\ data[k].visited =>
          /\ \A x \in DOMAIN data : data[x].visited
          /\ \A x \in DOMAIN data' : ~data'[x].visited]_vars

\* An eviction takes the use bit only from entries between the old hand and the
\* victim: an entry the sweep did not reach keeps its second chance
\* (sieve.rs:98-115).
SweepIsMinimal ==
    [][\A k \in Keys : Evicts(k) /\ ~data[k].visited =>
          \A x \in DOMAIN data \cap DOMAIN data' :
             data[x].visited /\ ~data'[x].visited =>
                \E i, j \in 0..(Len(queue) - 1) :
                   i < j /\ At(Reached(i)) = x /\ At(Reached(j)) = k]_vars

\* When an entry leaves, the hand stays on the entry it was on, or moves to the
\* one after the entry that left if that was its own (sieve.rs:74-77, 110-113).
HandFollowsQueue ==
    [][\A i \in 0..(Len(queue) - 1) :
          At(i) \notin DOMAIN data' /\ Len(queue) > 1 =>
             Designated' = IF At(i) = Designated \/ Evicts(At(i))
                              THEN At((i + 1) % Len(queue))
                              ELSE Designated]_vars

\* Every change of what the cache holds is one the bounded store allows: a value
\* changes only by a write to its key, and an entry is forgotten only by a delete,
\* or alone, to make room in a full cache (sieve.rs:44-81).
Store == INSTANCE BoundedStore
            WITH store <- [k \in DOMAIN data |-> data[k].value]

ImplementsStore == Store!Spec
=============================================================================
