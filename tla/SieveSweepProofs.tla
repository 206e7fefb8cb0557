-------------------------- MODULE SieveSweepProofs --------------------------
(***************************************************************************)
(* The eviction loop, turn by turn, never indexes the queue where there is *)
(* no entry, and does to the cache what SieveCache says in one step: for   *)
(* every set of keys and values and every capacity.                        *)
(***************************************************************************)
EXTENDS SieveSweep, SieveCacheProofs

\* Where the hand started, where it is after i turns, and what it has met there,
\* on the cache as it was when insert was called.
Start == IF before.hand >= Len(before.queue) THEN 0 ELSE before.hand

ReachedBy(i) == IF Start + i < Len(before.queue) THEN Start + i
                                                 ELSE Start + i - Len(before.queue)

MetAt(i) == before.queue[ReachedBy(i) + 1]

Met(t) == {MetAt(i) : i \in 0..(t - 1)}

PassedAt(i) == MetAt(i) \in DOMAIN before.data /\ before.data[MetAt(i)].visited

\* An insert that evicts: what it is to store, and that it has to make room.
Evicting ==
    /\ job.key \in Keys /\ job.value \in Values
    /\ job.key \notin DOMAIN data \cup DOMAIN before.data
    /\ before.queue \in Seq(Keys) /\ before.queue # <<>> /\ before.hand \in Nat
    /\ Cardinality(DOMAIN before.data) >= Capacity

\* The entry without its use bit if it was met.
Swept(t) ==
    [k \in DOMAIN before.data |->
        [value   |-> before.data[k].value,
         visited |-> before.data[k].visited /\ k \notin Met(t)]]

\* In the loop the hand is `swept' turns on from where it started, every entry met
\* was in use, and these entries have lost their bit while nothing else changed.
Looping ==
    /\ Evicting
    /\ queue = before.queue /\ queueLen = Len(queue)
    /\ swept \in 0..Len(queue) /\ hand = ReachedBy(swept)
    /\ \A i \in 0..(swept - 1) : PassedAt(i)
    /\ data = Swept(swept) /\ DOMAIN before.data = DOMAIN data

\* After it the cache is the old one after an eviction.
Evicted ==
    /\ Evicting /\ Len(queue) < Limit
    /\ \E t \in 0..Len(before.queue) :
          /\ \A i \in 0..(t - 1) : PassedAt(i)
          /\ t < Len(before.queue) => ~PassedAt(t)
          /\ data = [k \in DOMAIN before.data \ {MetAt(t)} |-> Swept(t)[k]]
          /\ queue = [i \in 1..(Len(before.queue) - 1) |->
                         IF i <= ReachedBy(t) THEN before.queue[i] ELSE before.queue[i + 1]]
          /\ hand = IF ReachedBy(t) >= Len(before.queue) - 1 THEN 0 ELSE ReachedBy(t)

SweepInv ==
    /\ IInv
    /\ pc \in {"idle", "loop", "store"}
    /\ pc = "loop" => Looping
    /\ pc = "store" => Evicted

-----------------------------------------------------------------------------
LEMMA ReachedByInQueue ==
    ASSUME before.queue \in Seq(Keys), before.queue # <<>>, before.hand \in Nat,
           NEW i \in 0..Len(before.queue)
    PROVE  /\ ReachedBy(i) \in 0..(Len(before.queue) - 1)
           /\ ReachedBy(0) = Start
           /\ i < Len(before.queue) =>
                 ReachedBy(i + 1) = (ReachedBy(i) + 1) % Len(before.queue)
           /\ \A j \in 0..(i - 1) : i < Len(before.queue) => ReachedBy(j) # ReachedBy(i)
  <1>1. PICK n : n = Len(before.queue)
    OBVIOUS
  <1>2. n \in Nat \ {0}
    BY <1>1, EmptySeq
  <1>3. Start \in 0..(n - 1)
    BY <1>1, <1>2 DEF Start
  <1>4. PICK s \in 0..(n - 1) : s = Start
    BY <1>3
  <1>5. \A j : ReachedBy(j) = IF s + j < n THEN s + j ELSE s + j - n
    BY <1>1, <1>4 DEF ReachedBy
  <1>6. ReachedBy(i) \in 0..(n - 1) /\ ReachedBy(0) = s
    BY <1>1, <1>2, <1>5
  <1>7. ASSUME i < n PROVE ReachedBy(i + 1) = (ReachedBy(i) + 1) % n
    <2>0. i \in Nat /\ s \in Nat /\ i < n /\ s < n
      BY <1>1, <1>2, <1>7
    <2>1. CASE s + i + 1 < n
      <3>1. ReachedBy(i + 1) = s + i + 1 /\ ReachedBy(i) = s + i
        BY <1>2, <1>5, <2>0, <2>1
      <3>2. PICK x \in 0..(n - 1) : x = s + i + 1
        BY <1>2, <2>0, <2>1
      <3>3. x % n = x
        BY <1>2
      <3>4. ReachedBy(i) + 1 = x /\ ReachedBy(i + 1) = x
        BY <3>1, <3>2
      <3>. QED BY <3>3, <3>4
    <2>2. CASE s + i + 1 = n
      <3>1. ReachedBy(i + 1) = 0 /\ ReachedBy(i) + 1 = n
        BY <1>1, <1>2, <1>5, <2>2
      <3>2. n % n = 0
        BY <1>2
      <3>. QED BY <3>1, <3>2
    <2>3. CASE s + i + 1 > n
      <3>1. ReachedBy(i + 1) = s + (i + 1) - n /\ ReachedBy(i) = s + i - n
        <4>1. ~(s + (i + 1) < n) /\ ~(s + i < n)
          BY <1>2, <2>0, <2>3
        <4>. QED BY <1>5, <4>1
      <3>2. PICK x \in 0..(n - 1) : x = s + i + 1 - n
        BY <1>2, <2>0, <2>3
      <3>3. x % n = x
        BY <1>2
      <3>4. ReachedBy(i) + 1 = x /\ ReachedBy(i + 1) = x
        BY <1>2, <2>0, <3>1, <3>2
      <3>. QED BY <3>3, <3>4
    <2>. QED BY <1>2, <2>0, <2>1, <2>2, <2>3
  <1>8. \A j \in 0..(i - 1) : i < n => ReachedBy(j) # ReachedBy(i)
    BY <1>1, <1>2, <1>5
  <1>. QED BY <1>1, <1>4, <1>6, <1>7, <1>8

LEMMA LoopHand ==
    ASSUME IInv, Looping
    PROVE  hand \in 0..(Len(queue) - 1) /\ At(hand) = MetAt(swept) /\ At(hand) \in DOMAIN data
  <1>1. hand \in 0..(Len(queue) - 1)
    BY ReachedByInQueue DEF Looping, Evicting
  <1>2. At(hand) = MetAt(swept)
    BY DEF Looping, At, MetAt
  <1>3. At(hand) \in DOMAIN data
    <2>1. hand + 1 \in 1..Len(queue)
      BY <1>1 DEF IInv, TypeOK
    <2>. QED BY <2>1 DEF At, IInv, QueueMatchesData
  <1>. QED BY <1>1, <1>2, <1>3

\* Before the round is over the hand is on an entry not met before.
LEMMA NotMetYet ==
    ASSUME IInv, Looping, swept < queueLen
    PROVE  At(hand) \notin Met(swept) /\ (Used(At(hand)) <=> PassedAt(swept))
  <1>1. ASSUME NEW j \in 0..(swept - 1) PROVE MetAt(j) # At(hand)
    <2>1. /\ ReachedBy(j) \in 0..(Len(queue) - 1) /\ ReachedBy(swept) \in 0..(Len(queue) - 1)
          /\ ReachedBy(j) # ReachedBy(swept)
      <3>1. j \in 0..Len(before.queue) /\ swept \in 0..Len(before.queue)
        BY DEF Looping, Evicting
      <3>. QED BY <3>1, ReachedByInQueue DEF Looping, Evicting
    <2>2. Len(queue) \in Nat /\ queue = before.queue /\ hand = ReachedBy(swept)
      BY DEF Looping, IInv, TypeOK
    <2>3. PICK x, y : x = ReachedBy(j) + 1 /\ y = ReachedBy(swept) + 1
      OBVIOUS
    <2>4. x \in 1..Len(queue) /\ y \in 1..Len(queue) /\ x # y
      BY <2>1, <2>2, <2>3
    <2>5. queue[x] # queue[y]
      BY <2>4 DEF IInv, QueueMatchesData, QueueInjective
    <2>. QED BY <2>2, <2>3, <2>5 DEF MetAt, At
  <1>2. At(hand) \notin Met(swept)
    BY <1>1 DEF Met
  <1>3. At(hand) = MetAt(swept) /\ At(hand) \in DOMAIN data
    BY LoopHand
  <1>4. data[At(hand)].visited <=> before.data[At(hand)].visited
    BY <1>2, <1>3 DEF Looping, Swept
  <1>. QED BY <1>2, <1>3, <1>4 DEF Used, PassedAt, Looping


LEMMA CallKeeps ==
    ASSUME SweepInv, Call
    PROVE  SweepInv'
  <1>1. pc = "idle" /\ pc' = "idle"
    BY DEF Call
  <1>2. PICK k \in Keys : \/ Get(k) \/ Remove(k)
                          \/ \E v \in Values : Update(k, v) \/ InsertNew(k, v)
    BY DEF Call
  <1>3. IInv
    BY DEF SweepInv
  <1>4. IInv'
    <2>1. CASE Get(k)
      BY <1>3, <2>1, GetKeepsIInv
    <2>2. CASE Remove(k)
      BY <1>3, <2>2, RemoveKeepsIInv
    <2>3. CASE \E v \in Values : Update(k, v)
      BY <1>3, <2>3, UpdateKeepsIInv
    <2>4. CASE \E v \in Values : InsertNew(k, v)
      BY <1>3, <2>4, InsertNewKeepsIInv
    <2>. QED BY <1>2, <2>1, <2>2, <2>3, <2>4
  <1>. QED BY <1>1, <1>4 DEF SweepInv

LEMMA EnterKeeps ==
    ASSUME SweepInv, NEW k \in Keys, NEW v \in Values, Enter(k, v)
    PROVE  SweepInv'
  <1>1. /\ k \notin DOMAIN data /\ Full /\ queue # <<>>
        /\ pc' = "loop" /\ hand' = Wrapped /\ swept' = 0 /\ queueLen' = Len(queue)
        /\ job' = [key |-> k, value |-> v]
        /\ before' = [data |-> data, queue |-> queue, hand |-> hand]
        /\ data' = data /\ queue' = queue
    BY DEF Enter
  <1>2. /\ queue \in Seq(Keys) /\ Len(queue) \in Nat /\ hand \in Nat /\ hand <= Len(queue)
        /\ data \in [DOMAIN data -> Entry]
    BY DEF SweepInv, IInv, TypeOK, HandInRange
  <1>3. hand' \in Nat /\ hand' <= Len(queue)
    BY <1>1, <1>2 DEF Wrapped
  <1>4. IInv'
    BY <1>1, <1>3 DEF SweepInv, IInv, TypeOK, QueueMatchesData, QueueInjective, HandInRange,
                      WithinLimit
  <1>5. Evicting'
    BY <1>1, <1>2 DEF Evicting, Full
  <1>6. hand' = ReachedBy(0)'
    BY <1>1, <1>2 DEF ReachedBy, Start, Wrapped
  <1>7. data' = Swept(0)'
    <2>1. Met(0)' = {}
      BY DEF Met
    <2>2. ASSUME NEW x \in DOMAIN data
          PROVE  data[x] = [value   |-> data[x].value,
                            visited |-> data[x].visited /\ x \notin {}]
      BY <1>2 DEF Entry
    <2>. QED BY <1>1, <1>2, <2>1, <2>2 DEF Swept
  <1>8. Looping'
    BY <1>1, <1>2, <1>5, <1>6, <1>7 DEF Looping
  <1>. QED BY <1>1, <1>4, <1>8 DEF SweepInv

LEMMA PassKeeps ==
    ASSUME SweepInv, Pass
    PROVE  SweepInv'
  <1> DEFINE x == At(hand)
  <1>1. /\ pc = "loop" /\ pc' = "loop" /\ swept < queueLen /\ Used(x)
        /\ data' = [data EXCEPT ![x].visited = FALSE]
        /\ hand' = (hand + 1) % Len(queue) /\ swept' = swept + 1
        /\ UNCHANGED <<queue, queueLen, job, before>>
    BY DEF Pass, BitCleared, Advanced
  <1>2. IInv /\ Looping
    BY <1>1 DEF SweepInv
  <1>3. x \notin Met(swept) /\ PassedAt(swept)
    BY <1>1, <1>2, NotMetYet
  <1>4. hand \in 0..(Len(queue) - 1) /\ x = MetAt(swept) /\ x \in DOMAIN data
    BY <1>2, LoopHand
  <1>5. /\ Evicting /\ queue = before.queue /\ queueLen = Len(queue)
        /\ swept \in 0..Len(queue) /\ hand = ReachedBy(swept)
        /\ \A i \in 0..(swept - 1) : PassedAt(i)
        /\ data = Swept(swept) /\ DOMAIN before.data = DOMAIN data
    BY <1>2 DEF Looping
  <1>6. /\ Len(queue) \in Nat /\ data \in [DOMAIN data -> Entry]
        /\ queue \in Seq(Keys) /\ queue # <<>> /\ before.hand \in Nat
    BY <1>2, <1>5 DEF IInv, TypeOK, Evicting
  <1> HIDE DEF x
  <1>7. hand' = ReachedBy(swept + 1)
    BY <1>1, <1>5, <1>6, ReachedByInQueue
  <1>8. swept + 1 \in 0..Len(queue) /\ \A i \in 0..(swept + 1 - 1) : PassedAt(i)
    BY <1>1, <1>3, <1>5, <1>6
  <1>9. data' \in [DOMAIN data -> Entry] /\ DOMAIN data' = DOMAIN data
    BY <1>1, <1>4, <1>6 DEF Entry
  <1>10. IInv'
    <2>1. hand' \in Nat /\ hand' <= Len(queue)
      BY <1>1, <1>4, <1>6
    <2>. QED BY <1>1, <1>2, <1>9, <2>1 DEF IInv, TypeOK, QueueMatchesData, QueueInjective,
                                           HandInRange, WithinLimit
  <1>11. data' = Swept(swept + 1)
    <2>1. Met(swept + 1) = Met(swept) \cup {x}
      <3>1. 0..(swept + 1 - 1) = 0..(swept - 1) \cup {swept}
        BY <1>5, <1>6
      <3>. QED BY <1>4, <3>1 DEF Met
    <2>2. \A k \in DOMAIN data :
             data[k] = [value   |-> before.data[k].value,
                        visited |-> before.data[k].visited /\ k \notin Met(swept)]
      BY <1>5 DEF Swept
    <2>3. ASSUME NEW k \in DOMAIN data
          PROVE  data'[k] = [value   |-> before.data[k].value,
                             visited |-> before.data[k].visited /\ k \notin Met(swept + 1)]
      <3>1. CASE k = x
        <4>1. data'[k] = [data[k] EXCEPT !.visited = FALSE]
          BY <1>1, <1>4, <3>1
        <4>2. k \in Met(swept + 1)
          BY <2>1, <3>1
        <4>3. data'[k] = [value |-> data[k].value, visited |-> FALSE]
          BY <1>6, <4>1 DEF Entry
        <4>4. data[k].value = before.data[k].value
          BY <2>2
        <4>. QED BY <4>2, <4>3, <4>4
      <3>2. CASE k # x
        BY <1>1, <2>1, <2>2, <3>2
      <3>. QED BY <3>1, <3>2
    <2>. QED BY <1>5, <1>9, <2>3 DEF Swept
  <1>12. Looping'
    <2>0. before' = before /\ swept' = swept + 1
      BY <1>1
    <2>1. Evicting'
      BY <1>1, <1>5, <1>9 DEF Evicting
    <2>2. (hand = ReachedBy(swept))'
      BY <1>1, <1>7 DEF ReachedBy, Start
    <2>3. (\A i \in 0..(swept - 1) : PassedAt(i))'
      <3>1. ASSUME NEW i \in 0..(swept' - 1) PROVE PassedAt(i)'
        <4>1. PassedAt(i)
          <5>0. swept \in Nat
            BY <1>5, <1>6
          <5>1. i \in 0..(swept + 1 - 1)
            BY <2>0, <5>0
          <5>. QED BY <1>8, <5>1
        <4>2. MetAt(i)' = MetAt(i)
          BY <2>0 DEF MetAt, ReachedBy, Start
        <4>. QED BY <2>0, <4>1, <4>2 DEF PassedAt
      <3>. QED BY <3>1
    <2>4. (data = Swept(swept))'
      BY <1>11, <2>0 DEF Swept, Met, MetAt, ReachedBy, Start
    <2>. QED BY <1>1, <1>5, <1>8, <1>9, <2>1, <2>2, <2>3, <2>4 DEF Looping
  <1>. QED BY <1>1, <1>10, <1>12 DEF SweepInv


LEMMA DropKeeps ==
    ASSUME SweepInv, Drop
    PROVE  SweepInv'
  <1> DEFINE x == At(hand)
             n == Len(queue)
             q == Without(hand)
  <1>1. /\ pc = "loop" /\ pc' = "store" /\ (swept < queueLen => ~Used(x))
        /\ data' = [k \in DOMAIN data \ {x} |-> data[k]]
        /\ queue' = q
        /\ hand' = IF hand >= n - 1 /\ n > 1 THEN 0 ELSE hand
        /\ UNCHANGED <<swept, queueLen, job, before>>
    BY DEF Drop
  <1>2. IInv /\ Looping
    BY <1>1 DEF SweepInv
  <1>3. hand \in 0..(n - 1) /\ x = MetAt(swept) /\ x \in DOMAIN data
    BY <1>2, LoopHand
  <1>4. /\ Evicting /\ queue = before.queue /\ queueLen = n
        /\ swept \in 0..n /\ hand = ReachedBy(swept)
        /\ \A i \in 0..(swept - 1) : PassedAt(i)
        /\ data = Swept(swept) /\ DOMAIN before.data = DOMAIN data
    BY <1>2 DEF Looping
  <1>5. swept < n => ~PassedAt(swept)
    BY <1>1, <1>2, <1>4, NotMetYet
  <1>6. /\ n \in Nat /\ data \in [DOMAIN data -> Entry] /\ DOMAIN data \subseteq Keys
        /\ QueueInjective /\ n <= Limit /\ TypeOK
        /\ DOMAIN data = {queue[i] : i \in 1..n}
    BY <1>2 DEF IInv, TypeOK, QueueMatchesData, WithinLimit
  <1>7. /\ q \in Seq(Keys) /\ Len(q) = n - 1
        /\ \A i, j \in 1..Len(q) : q[i] = q[j] => i = j
        /\ {q[i] : i \in 1..Len(q)} = DOMAIN data \ {x}
    BY <1>3, <1>6, WithoutProperties DEF Queued
  <1>8. hand' = IF hand >= n - 1 THEN 0 ELSE hand
    BY <1>1, <1>3, <1>6
  <1>9. q = [i \in 1..(Len(before.queue) - 1) |->
                IF i <= ReachedBy(swept) THEN before.queue[i] ELSE before.queue[i + 1]]
    BY <1>4 DEF Without
  <1> HIDE DEF x, q
  <1>10. IInv'
    <2>1. DOMAIN data' = DOMAIN data \ {x} /\ data' \in [DOMAIN data' -> Entry]
      BY <1>1, <1>6
    <2>2. hand' \in Nat /\ hand' <= n - 1
      BY <1>3, <1>6, <1>8
    <2>3. TypeOK'
      BY <1>1, <1>6, <1>7, <2>1, <2>2 DEF TypeOK
    <2>4. QueueMatchesData'
      BY <1>1, <1>7, <2>1 DEF QueueMatchesData, QueueInjective
    <2>5. HandInRange' /\ WithinLimit'
      <3>1. Limit \in Nat /\ Limit' = Limit
        BY CapacityAssumption DEF Limit
      <3>. QED BY <1>1, <1>6, <1>7, <2>2, <3>1 DEF HandInRange, WithinLimit
    <2>. QED BY <2>3, <2>4, <2>5 DEF IInv
  <1>11. Evicted'
    <2>0. before' = before /\ swept' = swept /\ job' = job
      BY <1>1
    <2>1. Evicting'
      BY <1>1, <1>4, <2>0 DEF Evicting
    <2>2. Len(queue') < Limit'
      BY <1>1, <1>6, <1>7, CapacityAssumption DEF Limit
    <2>3. \A i : ReachedBy(i)' = ReachedBy(i) /\ MetAt(i)' = MetAt(i)
      BY <2>0 DEF MetAt, ReachedBy, Start
    <2>4. \A i : PassedAt(i)' <=> PassedAt(i)
      BY <2>0, <2>3 DEF PassedAt
    <2>5. Swept(swept)' = Swept(swept)
      BY <2>0, <2>3 DEF Swept, Met
    <2>6. data' = [k \in DOMAIN before.data \ {MetAt(swept)} |-> Swept(swept)[k]]
      BY <1>1, <1>3, <1>4
    <2>. QED BY <1>1, <1>4, <1>5, <1>8, <1>9, <2>0, <2>1, <2>2, <2>3, <2>4, <2>5, <2>6
             DEF Evicted
  <1>. QED BY <1>1, <1>10, <1>11 DEF SweepInv

LEMMA StoreKeeps ==
    ASSUME SweepInv, StoreNew
    PROVE  SweepInv'
  <1> DEFINE room == [data |-> data, queue |-> queue, hand |-> hand]
  <1>1. /\ pc = "store" /\ pc' = "idle"
        /\ data' = Put(room.data, job.key, [value |-> job.value, visited |-> FALSE])
        /\ queue' = Append(room.queue, job.key) /\ hand' = room.hand
    BY DEF StoreNew
  <1>2. IInv /\ Evicted
    BY <1>1 DEF SweepInv
  <1>3. job.key \in Keys /\ job.value \in Values /\ HasRoomFor(room, job.key)
    <2>1. job.key \in Keys /\ job.key \notin DOMAIN data /\ job.value \in Values
          /\ Len(queue) < Limit
      BY <1>2 DEF Evicted, Evicting
    <2>2. /\ DOMAIN data \subseteq Keys /\ data \in [DOMAIN data -> Entry]
          /\ queue \in Seq(Keys) /\ hand \in Nat /\ hand <= Len(queue)
          /\ \A i, j \in 1..Len(queue) : queue[i] = queue[j] => i = j
          /\ DOMAIN data = {queue[i] : i \in 1..Len(queue)}
      BY <1>2 DEF IInv, TypeOK, QueueMatchesData, QueueInjective, HandInRange
    <2>. QED BY <2>1, <2>2 DEF HasRoomFor
  <1> HIDE DEF room
  <1>4. IInv'
    BY <1>1, <1>3, StoringKeepsIInv
  <1>. QED BY <1>1, <1>4 DEF SweepInv

\* SweepSpec => []SweepInv: the sweep so far, at every turn of the loop.
LEMMA SweepInvariance == SweepSpec => []SweepInv
  <1>1. SweepInit => SweepInv
    BY InitIInv DEF SweepInit, SweepInv
  <1>2. ASSUME SweepInv, [SweepNext]_sweepVars PROVE SweepInv'
    <2>1. CASE Call
      BY <1>2, <2>1, CallKeeps
    <2>2. CASE \E k \in Keys, v \in Values : Enter(k, v)
      BY <1>2, <2>2, EnterKeeps
    <2>3. CASE Pass
      BY <1>2, <2>3, PassKeeps
    <2>4. CASE Drop
      BY <1>2, <2>4, DropKeeps
    <2>5. CASE StoreNew
      BY <1>2, <2>5, StoreKeeps
    <2>6. CASE UNCHANGED sweepVars
      <3>1. /\ data' = data /\ queue' = queue /\ hand' = hand /\ pc' = pc /\ swept' = swept
            /\ queueLen' = queueLen /\ job' = job /\ before' = before
        BY <2>6 DEF sweepVars
      <3>2. IInv'
        BY <1>2, <3>1 DEF SweepInv, IInv, TypeOK, QueueMatchesData, QueueInjective,
                          HandInRange, WithinLimit
      <3>3. Evicting' <=> Evicting
        BY <3>1 DEF Evicting
      <3>4. \A i : ReachedBy(i)' = ReachedBy(i) /\ MetAt(i)' = MetAt(i)
        BY <3>1 DEF MetAt, ReachedBy, Start
      <3>5. \A i : (PassedAt(i)' <=> PassedAt(i)) /\ Swept(i)' = Swept(i)
        BY <3>1, <3>4 DEF PassedAt, Swept, Met
      <3>6. Looping' <=> Looping
        BY <3>1, <3>3, <3>4, <3>5 DEF Looping
      <3>7. Evicted' <=> Evicted
        BY <3>1, <3>3, <3>4, <3>5 DEF Evicted
      <3>. QED BY <1>2, <3>1, <3>2, <3>6, <3>7 DEF SweepInv
    <2>. QED BY <1>2, <2>1, <2>2, <2>3, <2>4, <2>5, <2>6 DEF SweepNext
  <1>. QED BY <1>1, <1>2, PTL DEF SweepSpec

\* SweepSpec => []IndexSafe: every turn of evict_one indexes the queue where there is
\* an entry, so neither queue[hand] nor queue.remove(hand).unwrap() panics
\* (sieve.rs:99, 108, 130).
THEOREM SweepIndexesSafely == SweepSpec => []IndexSafe
  <1>1. SweepInv => IndexSafe
    BY LoopHand DEF SweepInv, IndexSafe
  <1>. QED BY <1>1, SweepInvariance, PTL


-----------------------------------------------------------------------------
\* The first place of a key in the queue is the same for the atomic cache, which in an
\* idle state is the cache itself.
LEMMA AtomicRemove ==
    ASSUME IInv, pc = "idle", pc' = "idle", NEW k \in Keys, Remove(k)
    PROVE  Atomic!Remove(k)
  <1>1. /\ k \in DOMAIN data /\ data' = [x \in DOMAIN data \ {k} |-> data[x]]
        /\ IF Position(k) < Len(queue)
              THEN queue' = Without(Position(k)) /\ hand' = HandShifted(Position(k))
              ELSE UNCHANGED <<queue, hand>>
    BY DEF Remove
  <1>2. PICK p : p = Position(k)
    OBVIOUS
  <1>3. p \in 0..(Len(queue) - 1) /\ IsPosition(k, p) /\ At(p) = k /\ Len(queue) \in Nat
    BY <1>1, <1>2, PositionDefined DEF IInv, TypeOK, QueueMatchesData, Queued
  <1>4. \A x : Atomic!At(x) = At(x) /\ Atomic!Without(x) = Without(x)
               /\ Atomic!HandShifted(x) = HandShifted(x)
    BY DEF Atomic!At, At, Atomic!Without, Without, Atomic!HandShifted, HandShifted
  <1>5. \A x : Atomic!IsPosition(k, x) <=> IsPosition(k, x)
    BY <1>4 DEF Atomic!IsPosition, IsPosition
  <1>6. PICK c : c = Atomic!Position(k)
    OBVIOUS
  <1>7. c \in 0..Len(queue) /\ Atomic!IsPosition(k, c)
    <2>1. p \in 0..Len(queue) /\ Atomic!IsPosition(k, p)
      BY <1>3, <1>5
    <2>. QED BY <1>6, <2>1 DEF Atomic!Position
  <1>8. c = p
    <2>1. (\A i \in 0..(c - 1) : At(i) # k) /\ (c < Len(queue) => At(c) = k)
      BY <1>5, <1>7 DEF IsPosition
    <2>2. \A i \in 0..(p - 1) : At(i) # k
      BY <1>3 DEF IsPosition
    <2>. QED BY <1>3, <1>7, <2>1, <2>2
  <1>9. queue' = Without(p) /\ hand' = HandShifted(p) /\ p < Len(queue)
    BY <1>1, <1>2, <1>3
  <1>. QED BY <1>1, <1>4, <1>6, <1>8, <1>9 DEF Atomic!Remove

\* A call that does not evict is the atomic cache's step.
LEMMA AtomicCall ==
    ASSUME IInv, Call
    PROVE  Atomic!Next
  <1>1. pc = "idle" /\ pc' = "idle"
    BY DEF Call
  <1>2. PICK k \in Keys : \/ Get(k) \/ Remove(k)
                          \/ \E v \in Values : \/ Update(k, v)
                                               \/ InsertNew(k, v) /\ (~Full \/ queue = <<>>)
    BY DEF Call
  <1>3. CASE Get(k)
    BY <1>1, <1>3 DEF Get, Atomic!Get, Atomic!Next
  <1>4. CASE Remove(k)
    BY <1>1, <1>4, AtomicRemove DEF Atomic!Next
  <1>5. ASSUME NEW v \in Values, Update(k, v) PROVE Atomic!Next
    BY <1>1, <1>5 DEF Update, Atomic!Update, Put, Atomic!Put, Atomic!Next
  <1>6. ASSUME NEW v \in Values, InsertNew(k, v), ~Full \/ queue = <<>> PROVE Atomic!Next
    <2>1. MakeRoom = [data |-> data, queue |-> queue, hand |-> hand]
      BY <1>6 DEF MakeRoom, EvictOne
    <2>2. Atomic!Full <=> Full
      BY <1>1 DEF Atomic!Full, Full, Atomic!Cardinality, Cardinality
    <2>3. Atomic!MakeRoom = [data |-> data, queue |-> queue, hand |-> hand]
      BY <1>1, <1>6, <2>2 DEF Atomic!MakeRoom, Atomic!EvictOne
    <2>4. Atomic!InsertNew(k, v)
      BY <1>1, <1>6, <2>1, <2>3 DEF InsertNew, Atomic!InsertNew, Put, Atomic!Put
    <2>. QED BY <2>4 DEF Atomic!Next
  <1>. QED BY <1>2, <1>3, <1>4, <1>5, <1>6

\* The turns of a sweep are determined by the entries it meets.
LEMMA AtomicTurns ==
    ASSUME Evicting, pc = "store", NEW t \in 0..Len(before.queue),
           \A i \in 0..(t - 1) : PassedAt(i),
           t < Len(before.queue) => ~PassedAt(t)
    PROVE  /\ \A i : Atomic!Reached(i) = ReachedBy(i) /\ Atomic!At(ReachedBy(i)) = MetAt(i)
           /\ Atomic!Turns = t
  <1>1. Atomic!Wrapped = Start
    BY DEF Atomic!Wrapped, Start
  <1>2. \A i : Atomic!Reached(i) = ReachedBy(i)
    BY <1>1 DEF Atomic!Reached, ReachedBy
  <1>3. \A x : Atomic!At(x) = before.queue[x + 1]
    BY DEF Atomic!At
  <1>4. \A i : Atomic!Passes(i) <=> PassedAt(i)
    BY <1>2, <1>3 DEF Atomic!Passes, PassedAt, MetAt
  <1>5. \A u : Atomic!IsSweep(u) <=> /\ \A i \in 0..(u - 1) : PassedAt(i)
                                     /\ u < Len(before.queue) => ~PassedAt(u)
    BY <1>4 DEF Atomic!IsSweep
  <1>6. Len(before.queue) \in Nat
    BY DEF Evicting
  <1>7. PICK u : u = Atomic!Turns
    OBVIOUS
  <1>8. u \in 0..Len(before.queue) /\ Atomic!IsSweep(u)
    <2>1. Atomic!IsSweep(t)
      BY <1>5
    <2>. QED BY <1>7, <2>1 DEF Atomic!Turns
  <1>9. u = t
    <2>1. (\A i \in 0..(u - 1) : PassedAt(i)) /\ (u < Len(before.queue) => ~PassedAt(u))
      BY <1>5, <1>8
    <2>. QED BY <1>6, <1>8, <2>1
  <1>. QED BY <1>2, <1>3, <1>7, <1>9 DEF MetAt

\* The store after the loop is the atomic cache's insert, made all at once.
LEMMA AtomicStore ==
    ASSUME SweepInv, StoreNew
    PROVE  Atomic!InsertNew(job.key, job.value)
  <1>1. /\ pc = "store" /\ pc' = "idle"
        /\ data' = Put(data, job.key, [value |-> job.value, visited |-> FALSE])
        /\ queue' = Append(queue, job.key) /\ hand' = hand
    BY DEF StoreNew
  <1>2. Evicted /\ Evicting
    BY <1>1 DEF SweepInv, Evicted
  <1>3. PICK t \in 0..Len(before.queue) :
          /\ \A i \in 0..(t - 1) : PassedAt(i)
          /\ t < Len(before.queue) => ~PassedAt(t)
          /\ data = [k \in DOMAIN before.data \ {MetAt(t)} |-> Swept(t)[k]]
          /\ queue = [i \in 1..(Len(before.queue) - 1) |->
                         IF i <= ReachedBy(t) THEN before.queue[i] ELSE before.queue[i + 1]]
          /\ hand = IF ReachedBy(t) >= Len(before.queue) - 1 THEN 0 ELSE ReachedBy(t)
    BY <1>2 DEF Evicted
  <1>4. /\ \A i : Atomic!Reached(i) = ReachedBy(i) /\ Atomic!At(ReachedBy(i)) = MetAt(i)
        /\ Atomic!Turns = t
    BY <1>1, <1>2, <1>3, AtomicTurns
  <1>5. Atomic!Cleared = Met(t)
    BY <1>4 DEF Atomic!Cleared, Met
  <1>6. Atomic!Full /\ before.queue # <<>> /\ job.key \notin DOMAIN before.data
    BY <1>1, <1>2 DEF Evicting, Atomic!Full, Atomic!Cardinality, Cardinality
  <1>7. Atomic!EvictOne.data = data
    BY <1>1, <1>3, <1>4, <1>5, <1>6 DEF Atomic!EvictOne, Swept
  <1>8. Atomic!EvictOne.queue = queue
    BY <1>1, <1>3, <1>4, <1>6 DEF Atomic!EvictOne, Atomic!Without
  <1>9. Atomic!EvictOne.hand = hand
    BY <1>1, <1>3, <1>4, <1>6 DEF Atomic!EvictOne, Atomic!HandAfter
  <1>10. Atomic!MakeRoom = Atomic!EvictOne
    BY <1>6 DEF Atomic!MakeRoom
  <1>. QED BY <1>1, <1>6, <1>7, <1>8, <1>9, <1>10 DEF Atomic!InsertNew, Atomic!Put, Put

\* SweepSpec => ImplementsAtomic: the loop, turn by turn, does to the cache what the
\* insert of SieveCache does in one step (sieve.rs:44-66, 94-135), so everything proved of
\* that module holds of the loop.
THEOREM SweepImplementsAtomic == SweepSpec => ImplementsAtomic
  <1>1. SweepInit => Atomic!Init
    BY DEF SweepInit, Init, Atomic!Init
  <1>2. ASSUME SweepInv, [SweepNext]_sweepVars PROVE [Atomic!Next]_(Atomic!vars)
    <2>1. CASE Call
      BY <1>2, <2>1, AtomicCall DEF SweepInv
    <2>2. CASE \E k \in Keys, v \in Values : Enter(k, v)
      BY <2>2 DEF Enter, Atomic!vars
    <2>3. CASE Pass
      BY <2>3 DEF Pass, Atomic!vars
    <2>4. CASE Drop
      BY <2>4 DEF Drop, Atomic!vars
    <2>5. CASE StoreNew
      <3>1. Atomic!InsertNew(job.key, job.value)
        BY <1>2, <2>5, AtomicStore
      <3>2. job.key \in Keys /\ job.value \in Values
        BY <1>2, <2>5 DEF StoreNew, SweepInv, Evicted, Evicting
      <3>. QED BY <3>1, <3>2 DEF Atomic!Next
    <2>6. CASE UNCHANGED sweepVars
      BY <2>6 DEF sweepVars, Atomic!vars
    <2>. QED BY <1>2, <2>1, <2>2, <2>3, <2>4, <2>5, <2>6 DEF SweepNext
  <1>. QED BY <1>1, <1>2, SweepInvariance, PTL DEF SweepSpec, ImplementsAtomic, Atomic!Spec
=============================================================================
