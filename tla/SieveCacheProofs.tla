-------------------------- MODULE SieveCacheProofs --------------------------
(***************************************************************************)
(* The SIEVE cache keeps its map and its queue in step, its hand in range  *)
(* and its size within the limit, gives every used entry its second        *)
(* chance, sweeps no further than it must, keeps its hand on its entry and *)
(* implements the bounded store: for every set of keys and values and      *)
(* every capacity.                                                         *)
(***************************************************************************)
EXTENDS SieveCache, FiniteSetTheorems, SequenceTheorems, WellFoundedInduction, TLAPS

\* The four invariants together: none is inductive alone. The map's size, which
\* insert compares with the capacity, is the queue's length only because both
\* hold the same keys once each, and an eviction shortens both only if the hand
\* it starts from is in range of a queue whose keys are all in the map.
IInv == TypeOK /\ QueueMatchesData /\ HandInRange /\ WithinLimit

Queued == {queue[i] : i \in 1..Len(queue)}

-----------------------------------------------------------------------------
\* A set of naturals below a bound has a least element: the provers have no
\* induction, so it comes from the order of finite sets by inclusion.
LEMMA LeastElement ==
    ASSUME NEW n \in Nat, NEW S \in SUBSET (0..n), S # {}
    PROVE  \E x \in S : \A y \in S : x <= y
<1> DEFINE Below(x) == 0..(x - 1)
           U == 0..n
           T == {Below(x) : x \in S}
<1>1. IsWellFoundedOn(StrictSubsetOrdering(U), SUBSET U)
  <2>1. IsFiniteSet(U)
    BY FS_Interval
  <2> HIDE DEF U
  <2> QED BY <2>1, FS_StrictSubsetOrderingWellFounded, FS_FiniteSubsetsOfFinite
<1>2. T \subseteq SUBSET U /\ T # {}
  <2>1. \A x \in S : Below(x) \in SUBSET U
    OBVIOUS
  <2>2. PICK x \in S : TRUE
    OBVIOUS
  <2>3. Below(x) \in T
    OBVIOUS
  <2> QED BY <2>1, <2>3
<1>3. PICK m \in T : \A t \in T : ~(<<t, m>> \in StrictSubsetOrdering(U))
  <2> HIDE DEF T, U
  <2> QED BY <1>1, <1>2, WFMin
<1>4. PICK x \in S : m = Below(x)
  OBVIOUS
<1>5. ASSUME NEW y \in S, y < x PROVE FALSE
  <2>1. y \in Below(x) /\ y \notin Below(y) /\ Below(y) \subseteq Below(x)
    BY <1>5
  <2>2. Below(y) \in T
    OBVIOUS
  <2> QED BY <2>1, <2>2, <1>2, <1>3, <1>4 DEF StrictSubsetOrdering
<1> QED BY <1>5

\* The loop ends: there is a number of turns after which it removes something.
LEMMA TurnsDefined ==
    ASSUME TypeOK, queue # <<>>
    PROVE  Turns \in 0..Len(queue) /\ IsSweep(Turns)
<1> DEFINE n == Len(queue)
           S == {i \in 0..n : i < n => ~Passes(i)}
<1>1. n \in Nat
  BY DEF TypeOK
<1>2. n \in S
  BY <1>1
<1>3. PICK t \in S : \A y \in S : t <= y
  BY <1>1, <1>2, LeastElement
<1>4. \A i \in 0..(t - 1) : Passes(i)
  BY <1>1, <1>3
<1>5. t \in 0..Len(queue) /\ IsSweep(t)
  BY <1>1, <1>3, <1>4 DEF IsSweep
<1> QED BY <1>5 DEF Turns

LEMMA ReachedInQueue ==
    ASSUME TypeOK, queue # <<>>, NEW i \in 0..Len(queue)
    PROVE  Reached(i) \in 0..(Len(queue) - 1)
<1>1. Len(queue) \in Nat \ {0} /\ hand \in Nat
  BY DEF TypeOK
<1>2. Wrapped \in 0..(Len(queue) - 1)
  BY <1>1 DEF Wrapped
<1> QED BY <1>1, <1>2 DEF Reached

LEMMA PositionDefined ==
    ASSUME TypeOK, NEW k \in Queued
    PROVE  /\ Position(k) \in 0..(Len(queue) - 1)
           /\ IsPosition(k, Position(k))
           /\ At(Position(k)) = k
<1> DEFINE n == Len(queue)
           S == {p \in 0..n : p < n => At(p) = k}
<1>1. n \in Nat
  BY DEF TypeOK
<1>2. n \in S
  BY <1>1
<1>3. PICK p \in S : \A y \in S : p <= y
  BY <1>1, <1>2, LeastElement
<1>4. PICK i \in 1..n : queue[i] = k
  BY DEF Queued
<1>5. i - 1 \in S
  BY <1>1, <1>4 DEF At
<1>6. p \in 0..n /\ IsPosition(k, p)
  BY <1>1, <1>3 DEF IsPosition
<1>7. Position(k) \in 0..n /\ IsPosition(k, Position(k))
  BY <1>6 DEF Position
<1>8. Position(k) # n
  <2>1. i - 1 \in 0..(n - 1) /\ At(i - 1) = k
    BY <1>1, <1>4 DEF At
  <2> QED BY <1>7, <2>1 DEF IsPosition
<1> QED BY <1>1, <1>7, <1>8 DEF IsPosition

\* Taking one element out of a queue without duplicates.
LEMMA WithoutProperties ==
    ASSUME TypeOK, QueueInjective, NEW pos \in 0..(Len(queue) - 1)
    PROVE  LET q == Without(pos)
           IN  /\ q \in Seq(Keys)
               /\ Len(q) = Len(queue) - 1
               /\ \A i, j \in 1..Len(q) : q[i] = q[j] => i = j
               /\ {q[i] : i \in 1..Len(q)} = Queued \ {At(pos)}
<1> DEFINE q == Without(pos)
           n == Len(queue)
<1>1. n \in Nat /\ queue \in [1..n -> Keys] /\ pos \in 0..(n - 1)
  BY DEF TypeOK
<1>2. q \in [1..(n - 1) -> Keys]
  BY <1>1 DEF Without
<1>3. q \in Seq(Keys) /\ Len(q) = n - 1
  <2> HIDE DEF q
  <2>1. n - 1 \in Nat
    BY <1>1
  <2> QED BY <1>2, <2>1, LenProperties
<1>4. \A i, j \in 1..Len(q) : q[i] = q[j] => i = j
  BY <1>1, <1>3 DEF Without, QueueInjective
<1>5. ASSUME NEW k \in Queued \ {At(pos)} PROVE k \in {q[i] : i \in 1..Len(q)}
  <2>1. PICK i \in 1..n : queue[i] = k
    BY DEF Queued
  <2>2. i # pos + 1
    BY <2>1 DEF At
  <2>3. CASE i <= pos
    BY <1>1, <1>3, <2>1, <2>3 DEF Without
  <2>4. CASE i > pos + 1
    <3>1. i - 1 \in 1..(n - 1) /\ q[i - 1] = queue[i]
      BY <1>1, <2>4 DEF Without
    <3> QED BY <1>3, <2>1, <3>1
  <2> QED BY <1>1, <2>2, <2>3, <2>4
<1>6. ASSUME NEW i \in 1..Len(q) PROVE q[i] \in Queued \ {At(pos)}
  BY <1>1, <1>3 DEF Without, QueueInjective, Queued, At
<1>7. {q[i] : i \in 1..Len(q)} = Queued \ {At(pos)}
  BY <1>5, <1>6
<1> QED BY <1>3, <1>4, <1>7

\* Without duplicates, as many keys are queued as the queue is long.
LEMMA QueuedCardinality ==
    ASSUME TypeOK, QueueInjective
    PROVE  IsFiniteSet(Queued) /\ Cardinality(Queued) = Len(queue)
<1> DEFINE n == Len(queue)
           f == [i \in 1..n |-> queue[i]]
<1>1. n \in Nat
  BY DEF TypeOK
<1>2. f \in Bijection(1..n, Queued)
  BY DEF QueueInjective, Queued, Bijection, Injection, Surjection, IsInjective
<1>3. IsFiniteSet(1..n) /\ Cardinality(1..n) = n
  <2> HIDE DEF n
  <2> QED BY <1>1, FS_Interval
<1>4. ExistsBijection(1..n, Queued)
  BY <1>2 DEF ExistsBijection
<1> QED BY <1>3, <1>4, FS_Bijection

\* One eviction: exactly one key leaves, from the map and from the queue, and
\* the hand is on an entry of what is left (or at 0 when nothing is).
LEMMA EvictOneProperties ==
    ASSUME TypeOK, QueueMatchesData, HandInRange, queue # <<>>
    PROVE  LET room == EvictOne
               v    == At(Reached(Turns))
           IN  /\ v \in DOMAIN data
               /\ DOMAIN room.data = DOMAIN data \ {v}
               /\ room.data \in [DOMAIN room.data -> Entry]
               /\ \A k \in DOMAIN room.data : room.data[k].value = data[k].value
               /\ room.queue = Without(Reached(Turns))
               /\ room.queue \in Seq(Keys)
               /\ Len(room.queue) = Len(queue) - 1
               /\ \A i, j \in 1..Len(room.queue) :
                     room.queue[i] = room.queue[j] => i = j
               /\ DOMAIN room.data = {room.queue[i] : i \in 1..Len(room.queue)}
               /\ room.hand \in Nat /\ room.hand <= Len(room.queue)
<1> DEFINE room == EvictOne
           pos == Reached(Turns)
           v == At(pos)
           q == Without(pos)
<1>1. pos \in 0..(Len(queue) - 1)
  BY TurnsDefined, ReachedInQueue
<1>2. v \in Queued
  BY <1>1 DEF At, Queued, TypeOK
<1>3. Queued = DOMAIN data
  BY DEF Queued, QueueMatchesData
<1>4. /\ room.data = [k \in DOMAIN data \ {v} |->
                         [value   |-> data[k].value,
                          visited |-> data[k].visited /\ k \notin Cleared]]
      /\ room.queue = q
      /\ room.hand = HandAfter(pos)
  BY DEF EvictOne
<1>5. DOMAIN room.data = DOMAIN data \ {v}
  BY <1>4
<1>6. room.data \in [DOMAIN room.data -> Entry]
  <2>1. \A k \in DOMAIN data \ {v} :
           [value   |-> data[k].value,
            visited |-> data[k].visited /\ k \notin Cleared] \in Entry
    BY DEF TypeOK, Entry
  <2> QED BY <1>4, <2>1
<1>7. \A k \in DOMAIN room.data : room.data[k].value = data[k].value
  BY <1>4
<1>8. /\ q \in Seq(Keys)
      /\ Len(q) = Len(queue) - 1
      /\ \A i, j \in 1..Len(q) : q[i] = q[j] => i = j
      /\ {q[i] : i \in 1..Len(q)} = Queued \ {v}
  BY <1>1, WithoutProperties DEF QueueMatchesData
<1>9. room.hand \in Nat /\ room.hand <= Len(queue) - 1
  BY <1>1, <1>4 DEF HandAfter, TypeOK
<1> HIDE DEF room, pos, v, q
<1>10. /\ v \in DOMAIN data
       /\ DOMAIN room.data = DOMAIN data \ {v}
       /\ room.data \in [DOMAIN room.data -> Entry]
       /\ \A k \in DOMAIN room.data : room.data[k].value = data[k].value
       /\ room.queue = q
       /\ room.queue \in Seq(Keys)
       /\ Len(room.queue) = Len(queue) - 1
       /\ \A i, j \in 1..Len(room.queue) :
             room.queue[i] = room.queue[j] => i = j
       /\ DOMAIN room.data = {room.queue[i] : i \in 1..Len(room.queue)}
       /\ room.hand \in Nat /\ room.hand <= Len(room.queue)
  BY <1>2, <1>3, <1>4, <1>5, <1>6, <1>7, <1>8, <1>9
<1> QED BY <1>10 DEF room, pos, v, q

\* What insert finds after making room: one entry fewer if the cache was full,
\* the cache itself otherwise, and a free place in both cases.
LEMMA MakeRoomProperties ==
    ASSUME IInv
    PROVE  LET room == MakeRoom
           IN  /\ DOMAIN room.data \subseteq DOMAIN data
               /\ room.data \in [DOMAIN room.data -> Entry]
               /\ \A k \in DOMAIN room.data : room.data[k].value = data[k].value
               /\ room.queue \in Seq(Keys)
               /\ Len(room.queue) < Limit
               /\ \A i, j \in 1..Len(room.queue) :
                     room.queue[i] = room.queue[j] => i = j
               /\ DOMAIN room.data = {room.queue[i] : i \in 1..Len(room.queue)}
               /\ room.hand \in Nat /\ room.hand <= Len(room.queue)
               /\ IF Cardinality(DOMAIN data) < Limit
                     THEN DOMAIN room.data = DOMAIN data
                     ELSE \E v \in DOMAIN data :
                             DOMAIN room.data = DOMAIN data \ {v}
<1> DEFINE room == MakeRoom
<1> USE DEF IInv
<1>1. Cardinality(DOMAIN data) = Len(queue)
  BY QueuedCardinality DEF Queued, QueueMatchesData
<1>2. Len(queue) \in Nat /\ Capacity \in Nat
  BY CapacityAssumption DEF TypeOK
<1>3. CASE Full /\ queue # <<>>
  <2>1. room = EvictOne
    BY <1>3 DEF MakeRoom
  <2>2. ~(Cardinality(DOMAIN data) < Limit)
    <3>1. Len(queue) # 0
      BY <1>3 DEF TypeOK
    <3> QED BY <1>1, <1>2, <1>3, <3>1 DEF Full, Limit
  <2>3. Len(queue) - 1 < Limit
    BY <1>2 DEF WithinLimit, Limit
  <2> QED BY <1>3, <2>1, <2>2, <2>3, EvictOneProperties
<1>4. CASE ~Full \/ queue = <<>>
  <2>1. room = [data |-> data, queue |-> queue, hand |-> hand]
    BY <1>4 DEF MakeRoom, EvictOne
  <2>2. Len(queue) < Limit
    <3>1. CASE ~Full
      BY <1>1, <1>2, <3>1 DEF Full, Limit
    <3>2. CASE queue = <<>>
      BY <1>2, <3>2 DEF Limit
    <3> QED BY <1>4, <3>1, <3>2
  <2> QED BY <1>1, <2>1, <2>2
           DEF TypeOK, QueueMatchesData, QueueInjective, HandInRange
<1> QED BY <1>3, <1>4

-----------------------------------------------------------------------------
LEMMA InitIInv == Init => IInv
<1> SUFFICES ASSUME Init PROVE IInv
  OBVIOUS
<1>1. Len(queue) = 0 /\ DOMAIN data = {} /\ hand = 0 /\ queue \in Seq(Keys)
  BY DEF Init
<1>2. TypeOK
  BY <1>1 DEF TypeOK
<1>3. QueueMatchesData /\ HandInRange
  BY <1>1 DEF QueueMatchesData, QueueInjective, HandInRange
<1>4. WithinLimit
  BY <1>1, CapacityAssumption DEF WithinLimit, Limit
<1> QED BY <1>2, <1>3, <1>4 DEF IInv

LEMMA GetKeepsIInv ==
    ASSUME IInv, NEW k \in Keys, Get(k)
    PROVE  IInv'
<1>1. data' \in [DOMAIN data' -> Entry] /\ DOMAIN data' = DOMAIN data
  BY DEF Get, IInv, TypeOK, Entry
<1> QED BY <1>1 DEF Get, IInv, TypeOK, QueueMatchesData, QueueInjective,
                    HandInRange, WithinLimit

LEMMA UpdateKeepsIInv ==
    ASSUME IInv, NEW k \in Keys, NEW v \in Values, Update(k, v)
    PROVE  IInv'
<1>1. data' \in [DOMAIN data' -> Entry] /\ DOMAIN data' = DOMAIN data
  BY DEF Update, Put, IInv, TypeOK, Entry
<1>2. queue' = queue /\ hand' = hand
  BY DEF Update
<1> QED BY <1>1, <1>2 DEF IInv, TypeOK, QueueMatchesData, QueueInjective,
                          HandInRange, WithinLimit

\* A cache with room for one entry more, which does not hold k.
HasRoomFor(room, k) ==
    /\ DOMAIN room.data \subseteq Keys \ {k}
    /\ room.data \in [DOMAIN room.data -> Entry]
    /\ room.queue \in Seq(Keys) /\ Len(room.queue) < Limit
    /\ \A i, j \in 1..Len(room.queue) : room.queue[i] = room.queue[j] => i = j
    /\ DOMAIN room.data = {room.queue[i] : i \in 1..Len(room.queue)}
    /\ room.hand \in Nat /\ room.hand <= Len(room.queue)

\* Storing a new entry there: at the end of the queue, in a free place.
LEMMA StoringKeepsIInv ==
    ASSUME NEW room, NEW k \in Keys, NEW v \in Values, HasRoomFor(room, k),
           data' = Put(room.data, k, [value |-> v, visited |-> FALSE]),
           queue' = Append(room.queue, k),
           hand' = room.hand
    PROVE  IInv'
<1> DEFINE n == Len(room.queue)
<1>1. /\ DOMAIN room.data \subseteq Keys \ {k}
      /\ room.data \in [DOMAIN room.data -> Entry]
      /\ room.queue \in Seq(Keys)
      /\ n < Limit
      /\ \A i, j \in 1..n : room.queue[i] = room.queue[j] => i = j
      /\ DOMAIN room.data = {room.queue[i] : i \in 1..n}
      /\ room.hand \in Nat /\ room.hand <= n
  BY DEF HasRoomFor
<1>2. /\ k \notin DOMAIN room.data
      /\ data' = Put(room.data, k, [value |-> v, visited |-> FALSE])
      /\ queue' = Append(room.queue, k)
      /\ hand' = room.hand
  BY <1>1
<1>3. n \in Nat /\ Limit \in Nat
  BY <1>1, CapacityAssumption DEF Limit
<1>4. /\ queue' \in Seq(Keys)
      /\ Len(queue') = n + 1
      /\ \A i \in 1..n : queue'[i] = room.queue[i]
      /\ queue'[n + 1] = k
  BY <1>1, <1>2, AppendProperties
<1>5. DOMAIN data' = DOMAIN room.data \cup {k}
  BY <1>2 DEF Put
<1>6. TypeOK'
  <2>1. data' \in [DOMAIN data' -> Entry]
    BY <1>1, <1>2 DEF Put, Entry
  <2>2. DOMAIN data' \subseteq Keys
    BY <1>1, <1>5
  <2> QED BY <1>1, <1>2, <1>4, <2>1, <2>2 DEF TypeOK
<1>7. QueueMatchesData'
  <2>1. \A i \in 1..n : queue'[i] # k
    BY <1>1, <1>2, <1>4
  <2>2. QueueInjective'
    BY <1>1, <1>3, <1>4, <2>1 DEF QueueInjective
  <2>3. DOMAIN data' = {queue'[i] : i \in 1..Len(queue')}
    <3>1. ASSUME NEW x \in DOMAIN data' PROVE \E i \in 1..Len(queue') : queue'[i] = x
      <4>1. CASE x = k
        BY <1>3, <1>4, <4>1
      <4>2. CASE x # k
        <5>1. PICK i \in 1..n : room.queue[i] = x
          BY <1>1, <1>5, <4>2
        <5> QED BY <1>3, <1>4, <5>1
      <4> QED BY <4>1, <4>2
    <3>2. \A i \in 1..Len(queue') : queue'[i] \in DOMAIN data'
      <4>1. \A i \in 1..n : room.queue[i] \in DOMAIN room.data
        BY <1>1
      <4> QED BY <1>3, <1>4, <1>5, <4>1
    <3> QED BY <3>1, <3>2
  <2> QED BY <2>2, <2>3 DEF QueueMatchesData
<1>8. HandInRange' /\ WithinLimit'
  BY <1>1, <1>2, <1>3, <1>4 DEF HandInRange, WithinLimit, Limit
<1> QED BY <1>6, <1>7, <1>8 DEF IInv

LEMMA InsertNewKeepsIInv ==
    ASSUME IInv, NEW k \in Keys, NEW v \in Values, InsertNew(k, v)
    PROVE  IInv'
<1> DEFINE room == MakeRoom
<1>1. HasRoomFor(room, k) /\ k \notin DOMAIN data
  <2>1. k \notin DOMAIN data /\ DOMAIN data \subseteq Keys
    BY DEF InsertNew, IInv, TypeOK
  <2> QED BY <2>1, MakeRoomProperties DEF HasRoomFor
<1>2. /\ data' = Put(room.data, k, [value |-> v, visited |-> FALSE])
      /\ queue' = Append(room.queue, k)
      /\ hand' = room.hand
  BY DEF InsertNew
<1> HIDE DEF room
<1> QED BY <1>1, <1>2, StoringKeepsIInv

LEMMA RemoveKeepsIInv ==
    ASSUME IInv, NEW k \in Keys, Remove(k)
    PROVE  IInv'
<1> DEFINE pos == Position(k)
           q == Without(pos)
<1> USE DEF IInv
<1>1. k \in Queued /\ Queued = DOMAIN data
  BY DEF Remove, Queued, QueueMatchesData
<1>2. pos \in 0..(Len(queue) - 1) /\ At(pos) = k
  BY <1>1, PositionDefined
<1>3. /\ data' = [x \in DOMAIN data \ {k} |-> data[x]]
      /\ queue' = q
      /\ hand' = HandShifted(pos)
  BY <1>2 DEF Remove, TypeOK
<1>4. /\ q \in Seq(Keys)
      /\ Len(q) = Len(queue) - 1
      /\ \A i, j \in 1..Len(q) : q[i] = q[j] => i = j
      /\ {q[i] : i \in 1..Len(q)} = Queued \ {k}
  BY <1>2, WithoutProperties DEF QueueMatchesData
<1>5. Len(queue) \in Nat /\ hand \in Nat
  BY DEF TypeOK
<1>6. hand' \in Nat /\ hand' <= Len(queue) - 1
  BY <1>2, <1>3, <1>5 DEF HandShifted, HandInRange
<1> HIDE DEF pos, q
<1>7. TypeOK'
  <2>1. data' \in [DOMAIN data' -> Entry] /\ DOMAIN data' \subseteq Keys
    BY <1>3 DEF TypeOK
  <2> QED BY <1>3, <1>4, <1>6, <2>1 DEF TypeOK
<1>8. QueueMatchesData'
  <2>1. QueueInjective'
    BY <1>3, <1>4 DEF QueueInjective
  <2>2. DOMAIN data' = {queue'[i] : i \in 1..Len(queue')}
    BY <1>1, <1>3, <1>4
  <2> QED BY <2>1, <2>2 DEF QueueMatchesData
<1>9. HandInRange' /\ WithinLimit'
  <2>1. Limit \in Nat
    BY CapacityAssumption DEF Limit
  <2> QED BY <1>3, <1>4, <1>5, <1>6, <2>1 DEF HandInRange, WithinLimit, Limit
<1> QED BY <1>7, <1>8, <1>9

\* Spec => []IInv. The map and the queue stay in step, the hand in range and the
\* size within the limit over every sequence of get, insert and remove.
THEOREM Invariance == Spec => []IInv
<1>1. IInv /\ [Next]_vars => IInv'
  <2> SUFFICES ASSUME IInv, [Next]_vars PROVE IInv'
    OBVIOUS
  <2>1. CASE \E k \in Keys : Get(k)
    BY <2>1, GetKeepsIInv
  <2>2. CASE \E k \in Keys, v \in Values : Update(k, v)
    BY <2>2, UpdateKeepsIInv
  <2>3. CASE \E k \in Keys, v \in Values : InsertNew(k, v)
    BY <2>3, InsertNewKeepsIInv
  <2>4. CASE \E k \in Keys : Remove(k)
    BY <2>4, RemoveKeepsIInv
  <2>5. CASE UNCHANGED vars
    BY <2>5 DEF vars, IInv, TypeOK, QueueMatchesData, QueueInjective,
                HandInRange, WithinLimit
  <2> QED BY <2>1, <2>2, <2>3, <2>4, <2>5 DEF Next
<1> QED BY InitIInv, <1>1, PTL DEF Spec

\* The types of the fields, at all times.
THEOREM TypeCorrect == Spec => []TypeOK
<1>1. IInv => TypeOK
  BY DEF IInv
<1> QED BY Invariance, <1>1, PTL

\* The branch marked "shouldn't happen" is dead, the hand indexes no further
\* than one past the end, and the queue is never longer than the limit.
THEOREM StructureKept == Spec => [](QueueMatchesData /\ HandInRange /\ WithinLimit)
<1>1. IInv => QueueMatchesData /\ HandInRange /\ WithinLimit
  BY DEF IInv
<1> QED BY Invariance, <1>1, PTL

-----------------------------------------------------------------------------
\* One round of the hand meets every entry.
LEMMA RoundMeetsAll ==
    ASSUME IInv, queue # <<>>, NEW x \in DOMAIN data
    PROVE  \E i \in 0..(Len(queue) - 1) : At(Reached(i)) = x
<1> DEFINE n == Len(queue)
<1>1. PICK j \in 1..n : queue[j] = x
  BY DEF IInv, QueueMatchesData
<1>2. n \in Nat \ {0} /\ Wrapped \in 0..(n - 1)
  BY DEF IInv, TypeOK, Wrapped
<1>3. CASE j - 1 >= Wrapped
  <2>1. j - 1 - Wrapped \in 0..(n - 1) /\ Reached(j - 1 - Wrapped) = j - 1
    BY <1>1, <1>2, <1>3 DEF Reached
  <2> QED BY <1>1, <2>1 DEF At
<1>4. CASE j - 1 < Wrapped
  <2>1. n + j - 1 - Wrapped \in 0..(n - 1) /\ Reached(n + j - 1 - Wrapped) = j - 1
    BY <1>1, <1>2, <1>4 DEF Reached
  <2> QED BY <1>1, <2>1 DEF At
<1> QED BY <1>1, <1>2, <1>3, <1>4

\* A sweep that ends on a visited entry has passed them all, and cleared them.
LEMMA VisitedVictim ==
    ASSUME IInv, queue # <<>>, data[At(Reached(Turns))].visited
    PROVE  \A x \in DOMAIN data : data[x].visited /\ x \in Cleared
<1>1. Turns \in 0..Len(queue) /\ IsSweep(Turns)
  BY TurnsDefined DEF IInv
<1>2. At(Reached(Turns)) \in DOMAIN data
  BY EvictOneProperties DEF IInv
<1>3. ~(Turns < Len(queue))
  BY <1>1, <1>2 DEF IsSweep, Passes
<1>4. Turns = Len(queue)
  BY <1>1, <1>3 DEF IInv, TypeOK
<1>5. \A i \in 0..(Len(queue) - 1) : Passes(i)
  BY <1>1, <1>4 DEF IsSweep
<1>6. ASSUME NEW x \in DOMAIN data PROVE data[x].visited /\ x \in Cleared
  <2>1. PICK i \in 0..(Len(queue) - 1) : At(Reached(i)) = x
    BY RoundMeetsAll
  <2> QED BY <1>4, <1>5, <2>1 DEF Passes, Cleared
<1> QED BY <1>6

\* Spec => SecondChance. An entry in use is evicted only when all are, and then
\* every survivor starts afresh.
THEOREM SecondChanceKept == Spec => SecondChance
<1> DEFINE A == \A k \in Keys : Evicts(k) /\ data[k].visited =>
                    /\ \A x \in DOMAIN data : data[x].visited
                    /\ \A x \in DOMAIN data' : ~data'[x].visited
<1>1. ASSUME IInv, [Next]_vars PROVE A
  <2> SUFFICES ASSUME NEW k \in Keys, Evicts(k), data[k].visited
               PROVE  /\ \A x \in DOMAIN data : data[x].visited
                      /\ \A x \in DOMAIN data' : ~data'[x].visited
    OBVIOUS
  <2>1. PICK key \in Keys, v \in Values : InsertNew(key, v)
    BY <1>1 DEF Next, Get, Update, Put, Remove, Evicts, vars
  <2> DEFINE room == MakeRoom
             victim == At(Reached(Turns))
  <2>2. DOMAIN data' = DOMAIN room.data \cup {key}
    BY <2>1 DEF InsertNew, Put
  <2>3. k \in DOMAIN data /\ k \notin DOMAIN room.data
    BY <2>2 DEF Evicts
  <2>4. Full /\ queue # <<>>
    BY <2>3 DEF MakeRoom, EvictOne
  <2>5. room = EvictOne
    BY <2>4 DEF MakeRoom
  <2>6. DOMAIN room.data = DOMAIN data \ {victim}
    BY <1>1, <2>4, <2>5, EvictOneProperties DEF IInv
  <2>7. k = victim
    BY <2>3, <2>6
  <2>8. \A x \in DOMAIN data : data[x].visited /\ x \in Cleared
    BY <1>1, <2>4, <2>7, VisitedVictim
  <2>9. \A x \in DOMAIN room.data : room.data[x].visited = FALSE
    BY <2>4, <2>5, <2>8 DEF EvictOne
  <2>10. \A x \in DOMAIN data' : ~data'[x].visited
    BY <2>1, <2>2, <2>9 DEF InsertNew, Put
  <2> QED BY <2>8, <2>10
<1> QED BY Invariance, <1>1, PTL DEF Spec, SecondChance

-----------------------------------------------------------------------------
\* The entries as the bounded store sees them.
Held == [k \in DOMAIN data |-> data[k].value]

LEMMA InsertNewIsAdd ==
    ASSUME IInv, NEW k \in Keys, NEW v \in Values, InsertNew(k, v)
    PROVE  Store!Add(k, v)
<1> DEFINE room == MakeRoom
           kept == DOMAIN room.data
<1>1. /\ kept \subseteq DOMAIN data
      /\ \A x \in kept : room.data[x].value = data[x].value
      /\ IF Cardinality(DOMAIN data) < Limit
            THEN kept = DOMAIN data
            ELSE \E x \in DOMAIN data : kept = DOMAIN data \ {x}
  BY MakeRoomProperties
<1>2. /\ k \notin DOMAIN data
      /\ data' = Put(room.data, k, [value |-> v, visited |-> FALSE])
  BY DEF InsertNew
<1>3. DOMAIN Held = DOMAIN data
  BY DEF Held
<1> HIDE DEF room
<1>4. Held' = [x \in kept \cup {k} |-> IF x = k THEN v ELSE Held[x]]
  <2>1. DOMAIN data' = kept \cup {k}
    BY <1>2 DEF Put
  <2>2. \A x \in kept \cup {k} :
           data'[x].value = IF x = k THEN v ELSE Held[x]
    BY <1>1, <1>2 DEF Put, Held
  <2> QED BY <2>1, <2>2 DEF Held
<1> HIDE DEF kept
<1>5. Store!Cardinality(DOMAIN data) = Cardinality(DOMAIN data)
  BY DEF Store!Cardinality, Cardinality
<1> QED BY <1>1, <1>2, <1>3, <1>4, <1>5 DEF Store!Add, Held

\* Spec => Store!Spec. The cache implements the bounded store.
THEOREM CacheImplementsStore == Spec => ImplementsStore
<1>1. Init => Store!Init
  BY DEF Init, Store!Init
<1>2. IInv /\ [Next]_vars => [Store!Next]_Held
  <2> SUFFICES ASSUME IInv, [Next]_vars PROVE Store!Next \/ UNCHANGED Held
    OBVIOUS
  <2>1. CASE \E k \in Keys : Get(k)
    BY <2>1 DEF Get, Held, IInv, TypeOK, Entry
  <2>2. ASSUME NEW k \in Keys, NEW v \in Values, Update(k, v)
        PROVE  Store!Overwrite(k, v)
    BY <2>2 DEF Update, Put, Store!Overwrite
  <2>3. ASSUME NEW k \in Keys, NEW v \in Values, InsertNew(k, v)
        PROVE  Store!Add(k, v)
    BY <2>3, InsertNewIsAdd
  <2>4. ASSUME NEW k \in Keys, Remove(k)
        PROVE  Store!Delete(k)
    BY <2>4 DEF Remove, Store!Delete
  <2>5. CASE UNCHANGED vars
    BY <2>5 DEF vars, Held
  <2> QED BY <2>1, <2>2, <2>3, <2>4, <2>5 DEF Next, Store!Next
<1> QED BY <1>1, <1>2, Invariance, PTL
         DEF Spec, ImplementsStore, Store!Spec, Held


-----------------------------------------------------------------------------
\* The position modulo the length of the queue: the next one, or the first again.
LEMMA NextPosition ==
    ASSUME NEW n \in Nat, NEW i \in 0..(n - 1)
    PROVE  (i + 1) % n = IF i = n - 1 THEN 0 ELSE i + 1
<1>1. CASE i = n - 1
  <2>1. i + 1 = n /\ n % n = 0
    BY <1>1
  <2> QED BY <1>1, <2>1
<1>2. CASE i # n - 1
  <2>1. PICK x \in 0..(n - 1) : x = i + 1
    BY <1>2
  <2>2. x % n = x
    OBVIOUS
  <2> QED BY <1>2, <2>1, <2>2
<1> QED BY <1>1, <1>2

\* What an insert that forgets k did: k is where the sweep ended.
LEMMA EvictedByInsert ==
    ASSUME IInv, NEW key \in Keys, NEW v \in Values, InsertNew(key, v),
           NEW k \in DOMAIN data, k \notin DOMAIN data'
    PROVE  /\ Full /\ queue # <<>> /\ MakeRoom = EvictOne
           /\ k = At(Reached(Turns))
           /\ \A x \in DOMAIN data \cap DOMAIN data' : data'[x] = EvictOne.data[x]
<1> DEFINE room == MakeRoom
<1>1. key \notin DOMAIN data /\ data' = Put(room.data, key, [value |-> v, visited |-> FALSE])
  BY DEF InsertNew
<1>2. k \notin DOMAIN room.data /\ DOMAIN data' = DOMAIN room.data \cup {key}
  BY <1>1 DEF Put
<1>3. Full /\ queue # <<>>
  BY <1>2 DEF MakeRoom, EvictOne
<1>4. room = EvictOne
  BY <1>3 DEF MakeRoom
<1>5. DOMAIN room.data = DOMAIN data \ {At(Reached(Turns))}
  BY <1>3, <1>4, EvictOneProperties DEF IInv
<1> HIDE DEF room
<1>6. \A x \in DOMAIN data \cap DOMAIN data' : data'[x] = room.data[x]
  BY <1>1 DEF Put
<1> QED BY <1>2, <1>3, <1>4, <1>5, <1>6 DEF room

\* Spec => SweepIsMinimal. An eviction takes the use bit only from entries the hand
\* passed on its way to the victim (sieve.rs:98-115).
THEOREM SweepMinimal == Spec => SweepIsMinimal
<1> DEFINE A == \A k \in Keys : Evicts(k) /\ ~data[k].visited =>
                   \A x \in DOMAIN data \cap DOMAIN data' :
                      data[x].visited /\ ~data'[x].visited =>
                         \E i, j \in 0..(Len(queue) - 1) :
                            i < j /\ At(Reached(i)) = x /\ At(Reached(j)) = k
<1>1. ASSUME IInv, [Next]_vars PROVE A
  <2> SUFFICES ASSUME NEW k \in Keys, Evicts(k), ~data[k].visited,
                      NEW x \in DOMAIN data \cap DOMAIN data',
                      data[x].visited, ~data'[x].visited
               PROVE  \E i, j \in 0..(Len(queue) - 1) :
                         i < j /\ At(Reached(i)) = x /\ At(Reached(j)) = k
    OBVIOUS
  <2>1. PICK key \in Keys, v \in Values : InsertNew(key, v)
    BY <1>1 DEF Next, Get, Update, Put, Remove, Evicts, vars
  <2>2. k \in DOMAIN data /\ k \notin DOMAIN data'
    BY DEF Evicts
  <2>3. /\ queue # <<>> /\ k = At(Reached(Turns)) /\ data'[x] = EvictOne.data[x]
    BY <1>1, <2>1, <2>2, EvictedByInsert
  <2>4. x # k
    BY <2>2
  <2>5. Turns \in 0..Len(queue) /\ IsSweep(Turns) /\ Len(queue) \in Nat
    BY <1>1, <2>3, TurnsDefined DEF IInv, TypeOK
  <2>6. x \in Cleared
    <3>1. SUFFICES ASSUME x \notin Cleared PROVE FALSE
      OBVIOUS
    <3>2. data[x].visited = TRUE
      BY <1>1 DEF IInv, TypeOK, Entry
    <3>3. EvictOne.data[x].visited = TRUE
      BY <2>3, <2>4, <3>1, <3>2 DEF EvictOne
    <3> QED BY <2>3, <3>3
  <2>7. PICK i \in 0..(Turns - 1) : At(Reached(i)) = x
    BY <2>6 DEF Cleared
  <2>8. Turns # Len(queue)
    <3>1. SUFFICES ASSUME Turns = Len(queue) PROVE FALSE
      OBVIOUS
    <3>2. PICK j \in 0..(Len(queue) - 1) : At(Reached(j)) = k
      BY <1>1, <2>2, <2>3, RoundMeetsAll
    <3>3. Passes(j)
      BY <2>5, <3>1, <3>2 DEF IsSweep
    <3> QED BY <3>2, <3>3 DEF Passes
  <2>9. i \in 0..(Len(queue) - 1) /\ Turns \in 0..(Len(queue) - 1) /\ i < Turns
    BY <2>5, <2>8
  <2> QED BY <2>3, <2>7, <2>9
<1> QED BY Invariance, <1>1, PTL DEF Spec, SweepIsMinimal

\* The hand after a removal: on its entry still, or on the one after it.
LEMMA HandAfterRemove ==
    ASSUME IInv, NEW k \in Keys, Remove(k), Len(queue) > 1,
           NEW i \in 0..(Len(queue) - 1), At(i) = k
    PROVE  Designated' = IF At(i) = Designated THEN At((i + 1) % Len(queue)) ELSE Designated
<1>1. PICK n : n = Len(queue)
  OBVIOUS
<1>2. n \in Nat /\ n > 1 /\ hand \in 0..n /\ queue \in Seq(Keys) /\ i \in 0..(n - 1)
  BY <1>1 DEF IInv, TypeOK, HandInRange
<1>3. \A a, b \in 0..(n - 1) : At(a) = At(b) => a = b
  <2>1. ASSUME NEW a \in 0..(n - 1), NEW b \in 0..(n - 1), At(a) = At(b) PROVE a = b
    <3>1. a + 1 \in 1..n /\ b + 1 \in 1..n /\ queue[a + 1] = queue[b + 1]
      BY <1>2, <2>1 DEF At
    <3>2. a + 1 = b + 1
      BY <1>1, <3>1 DEF IInv, QueueMatchesData, QueueInjective
    <3> QED BY <1>2, <3>2
  <2> QED BY <2>1
<1>4. Position(k) = i
  <2>1. k \in Queued
    BY <1>1, <1>2 DEF Queued, At
  <2>2. PICK p : p = Position(k)
    OBVIOUS
  <2>3. p \in 0..(n - 1) /\ At(p) = k
    BY <1>1, <2>1, <2>2, PositionDefined DEF IInv
  <2> QED BY <1>2, <1>3, <2>2, <2>3
<1>5. /\ queue' = [j \in 1..(n - 1) |-> IF j <= i THEN queue[j] ELSE queue[j + 1]]
      /\ hand' = IF hand > i THEN hand - 1 ELSE hand
  BY <1>1, <1>2, <1>4 DEF Remove, Without, HandShifted
<1>6. Len(queue') = n - 1
  <2>1. queue' \in [1..(n - 1) -> Keys]
    BY <1>1, <1>2, <1>5
  <2> QED BY <1>2, <2>1, LenProperties
<1>7. PICK w \in 0..(n - 2) : w = Wrapped'
  BY <1>2, <1>5, <1>6 DEF Wrapped
<1>8. Designated' = queue'[w + 1]
  BY <1>7 DEF Designated, At
<1>9. Designated' = IF w + 1 <= i THEN queue[w + 1] ELSE queue[w + 2]
  <2>1. w + 1 \in 1..(n - 1)
    BY <1>2
  <2> QED BY <1>2, <1>5, <1>8, <2>1
<1>10. (i + 1) % n = IF i = n - 1 THEN 0 ELSE i + 1
  BY <1>2, NextPosition
<1>11. PICK m : m = Wrapped
  OBVIOUS
<1>12. m \in 0..(n - 1) /\ m = IF hand >= n THEN 0 ELSE hand
  BY <1>1, <1>2, <1>11 DEF Wrapped
<1>13. w = IF hand' >= n - 1 THEN 0 ELSE hand'
  BY <1>6, <1>7 DEF Wrapped
<1>14. CASE m = i
  <2>1. Designated = At(i)
    BY <1>11, <1>14 DEF Designated
  <2>2. Designated' = IF i = n - 1 THEN queue[1] ELSE queue[i + 2]
    BY <1>2, <1>5, <1>9, <1>12, <1>13, <1>14
  <2>3. At(IF i = n - 1 THEN 0 ELSE i + 1) = IF i = n - 1 THEN queue[1] ELSE queue[i + 2]
    <3>1. 0 + 1 = 1 /\ i + 1 + 1 = i + 2
      BY <1>2
    <3> QED BY <3>1 DEF At
  <2> QED BY <1>1, <1>10, <2>1, <2>2, <2>3
<1>15. CASE m # i
  <2>1. Designated = At(m) /\ Designated = queue[m + 1]
    BY <1>11 DEF Designated, At
  <2>2. At(i) # Designated
    BY <1>2, <1>3, <1>12, <1>15, <2>1
  <2>3. (w + 1 <= i /\ w = m) \/ (~(w + 1 <= i) /\ w + 2 = m + 1)
    BY <1>2, <1>5, <1>12, <1>13, <1>15
  <2>4. Designated' = queue[m + 1]
    BY <1>9, <2>3
  <2> QED BY <2>1, <2>2, <2>4
<1> QED BY <1>14, <1>15

\* The hand after an eviction: on the entry that followed the victim.
LEMMA HandAfterEvict ==
    ASSUME IInv, NEW key \in Keys, NEW v \in Values, InsertNew(key, v), Len(queue) > 1,
           NEW i \in 0..(Len(queue) - 1), At(i) \in DOMAIN data, At(i) \notin DOMAIN data'
    PROVE  Designated' = At((i + 1) % Len(queue))
<1>1. PICK n : n = Len(queue)
  OBVIOUS
<1>2. n \in Nat /\ n > 1 /\ queue \in Seq(Keys) /\ i \in 0..(n - 1)
  BY <1>1 DEF IInv, TypeOK
<1>3. queue # <<>> /\ MakeRoom = EvictOne /\ At(i) = At(Reached(Turns))
  BY EvictedByInsert
<1>4. PICK p : p = Reached(Turns)
  OBVIOUS
<1>5. p \in 0..(n - 1)
  BY <1>1, <1>3, <1>4, TurnsDefined, ReachedInQueue DEF IInv
<1>6. p = i
  <2>1. i + 1 \in 1..n /\ p + 1 \in 1..n /\ queue[i + 1] = queue[p + 1]
    BY <1>2, <1>3, <1>4, <1>5 DEF At
  <2>2. i + 1 = p + 1
    BY <1>1, <2>1 DEF IInv, QueueMatchesData, QueueInjective
  <2> QED BY <1>2, <1>5, <2>2
<1>7. PICK q : q = [j \in 1..(n - 1) |-> IF j <= i THEN queue[j] ELSE queue[j + 1]]
  OBVIOUS
<1>8. queue' = Append(q, key) /\ hand' = IF i >= n - 1 THEN 0 ELSE i
  <2>1. EvictOne.queue = Without(p) /\ EvictOne.hand = HandAfter(p)
    BY <1>3, <1>4 DEF EvictOne
  <2>2. Without(p) = q
    BY <1>1, <1>6, <1>7 DEF Without
  <2> QED BY <1>1, <1>3, <1>6, <2>1, <2>2 DEF InsertNew, HandAfter
<1>9. q \in Seq(Keys) /\ Len(q) = n - 1
  <2>1. q \in [1..(n - 1) -> Keys]
    BY <1>1, <1>2, <1>7
  <2> QED BY <1>2, <2>1, LenProperties
<1>10. Len(queue') = n /\ \A j \in 1..(n - 1) : queue'[j] = q[j]
  BY <1>2, <1>8, <1>9, AppendProperties
<1>11. Wrapped' = hand' /\ hand' \in 0..(n - 2)
  BY <1>2, <1>8, <1>10 DEF Wrapped
<1>12. Designated' = q[hand' + 1]
  <2>1. hand' + 1 \in 1..(n - 1)
    BY <1>2, <1>11
  <2> QED BY <1>10, <1>11, <2>1 DEF Designated, At
<1>13. (i + 1) % n = IF i = n - 1 THEN 0 ELSE i + 1
  BY <1>2, NextPosition
<1>14. CASE i = n - 1
  <2>1. hand' + 1 = 1 /\ 1 \in 1..(n - 1) /\ 1 <= i /\ 0 + 1 = 1
    BY <1>2, <1>8, <1>14
  <2>2. Designated' = queue[1]
    BY <1>7, <1>12, <2>1
  <2> QED BY <1>1, <1>13, <1>14, <2>1, <2>2 DEF At
<1>15. CASE i # n - 1
  <2>1. hand' + 1 = i + 1 /\ i + 1 \in 1..(n - 1) /\ ~(i + 1 <= i)
    BY <1>2, <1>8, <1>15
  <2>2. Designated' = queue[i + 1 + 1]
    BY <1>7, <1>12, <2>1
  <2> QED BY <1>1, <1>13, <1>15, <2>2 DEF At
<1> QED BY <1>14, <1>15

\* Spec => HandFollowsQueue. The hand stays on the entry it was on when another leaves,
\* and moves to the next when that one is removed or evicted (sieve.rs:74-77, 110-113).
THEOREM HandFollows == Spec => HandFollowsQueue
<1> DEFINE A == \A i \in 0..(Len(queue) - 1) :
                   At(i) \notin DOMAIN data' /\ Len(queue) > 1 =>
                      Designated' = IF At(i) = Designated \/ Evicts(At(i))
                                       THEN At((i + 1) % Len(queue))
                                       ELSE Designated
<1>1. ASSUME IInv, [Next]_vars PROVE A
  <2> SUFFICES ASSUME NEW i \in 0..(Len(queue) - 1), At(i) \notin DOMAIN data', Len(queue) > 1
               PROVE  Designated' = IF At(i) = Designated \/ Evicts(At(i))
                                       THEN At((i + 1) % Len(queue))
                                       ELSE Designated
    OBVIOUS
  <2>1. At(i) \in DOMAIN data
    <3>1. i + 1 \in 1..Len(queue)
      BY <1>1 DEF IInv, TypeOK
    <3> QED BY <1>1, <3>1 DEF IInv, QueueMatchesData, At
  <2>2. CASE \E k \in Keys : Remove(k)
    <3>1. PICK k \in Keys : Remove(k)
      BY <2>2
    <3>2. At(i) = k /\ DOMAIN data' \subseteq DOMAIN data
      BY <2>1, <3>1 DEF Remove
    <3>3. Designated' = IF At(i) = Designated THEN At((i + 1) % Len(queue)) ELSE Designated
      BY <1>1, <3>1, <3>2, HandAfterRemove
    <3> QED BY <3>2, <3>3 DEF Evicts
  <2>3. CASE \E key \in Keys, v \in Values : InsertNew(key, v)
    <3>1. PICK key \in Keys, v \in Values : InsertNew(key, v)
      BY <2>3
    <3>2. Designated' = At((i + 1) % Len(queue))
      BY <1>1, <2>1, <3>1, HandAfterEvict
    <3>3. Evicts(At(i))
      BY <2>1, <3>1 DEF Evicts, InsertNew, Put
    <3> QED BY <3>2, <3>3
  <2>4. CASE /\ ~(\E k \in Keys : Remove(k))
             /\ ~(\E key \in Keys, v \in Values : InsertNew(key, v))
    <3>1. DOMAIN data' = DOMAIN data
      BY <1>1, <2>4 DEF Next, Get, Update, Put, vars, IInv, TypeOK
    <3> QED BY <2>1, <3>1
  <2> QED BY <2>2, <2>3, <2>4
<1> QED BY Invariance, <1>1, PTL DEF Spec, HandFollowsQueue
=============================================================================
