----------------------- MODULE ControllerSessionProofs -----------------------
(***************************************************************************)
(* The receiver map's mutex and the events behind it, for any number of    *)
(* connections, subscriptions and events.  The queue of the mutex is a     *)
(* list of the tasks that are at bus.subscribe or bus.recv; every event    *)
(* taken from a channel has one place: a response to be written, a client, *)
(* or a connection that is gone.                                           *)
(***************************************************************************)
EXTENDS ControllerSession, TLAPS, SequenceTheorems, FunctionTheorems, FiniteSetTheorems

-----------------------------------------------------------------------------
\* The queue holds each asking task once, and who waits for an event is first.
QueueOfAsking ==
    /\ \A i \in 1..Len(lockq) : lockq[i] \in Asking
    /\ \A c \in Asking : \E i \in 1..Len(lockq) : lockq[i] = c
    /\ \A i, j \in 1..Len(lockq) : lockq[i] = lockq[j] => i = j
    /\ \A c \in Conns : task[c] = "wait" => Holds(c)

\* A step is one of these.
LEMMA SessionSteps ==
    ASSUME [Next]_vars
    PROVE  \/ \E c \in Conns : Connect(c) \/ Leave(c) \/ Other(c) \/ AskShutdown(c)
           \/ \E c \in Conns : Hangup(c)
           \/ \E c \in Conns : Respond(c)
           \/ \E c \in Conns : StoreReceiver(c)
           \/ \E c \in Conns : Lookup(c)
           \/ \E c \in Conns : RecvEvent(c)
           \/ \E c \in Conns : RecvTimeout(c)
           \/ \E c \in Conns : SendShutdown(c)
           \/ \E c \in Conns, s \in Subs : BusSubscribe(c, s)
           \/ \E c \in Conns, s \in Subs \cup {None} : BusRecv(c, s)
           \/ \E s \in Subs : BusSends(s)
           \/ Begin
           \/ End
           \/ UNCHANGED vars
  BY DEF Next, Serve

-----------------------------------------------------------------------------
\* Types.
LEMMA InitSessionType == Init => TypeOK
  <1>. SUFFICES ASSUME Init PROVE TypeOK OBVIOUS
  <1>1. \A S : <<>> \in Seq(S)
    OBVIOUS
  <1>. QED BY <1>1, SessionAssumption DEF Init, TypeOK, States

\* No subscription gets more events than there are.
LEMMA RoomForEvent ==
    ASSUME TypeOK, NEW s \in Subs, BusSends(s)
    PROVE  sent[s] < MaxEvents
  <1>. DEFINE P == {r \in Subs \X (1..MaxEvents) : r[2] <= sent[r[1]]}
              Q == {s} \X (1..MaxEvents)
  <1>1. MaxEvents \in Nat /\ IsFiniteSet(Subs) /\ sent[s] \in 0..MaxEvents
    BY SessionAssumption DEF TypeOK
  <1>2. IsFiniteSet(1..MaxEvents) /\ Cardinality(1..MaxEvents) = MaxEvents
    BY <1>1, FS_Interval
  <1>3. IsFiniteSet({s}) /\ Cardinality({s}) = 1
    BY FS_Singleton
  <1>4. IsFiniteSet(Q) /\ Cardinality(Q) = MaxEvents
    <2>1. IsFiniteSet(Q) /\ Cardinality(Q) = Cardinality({s}) * Cardinality(1..MaxEvents)
      BY <1>2, <1>3, FS_Product
    <2>. HIDE DEF Q
    <2>2. Cardinality(Q) = 1 * MaxEvents
      BY <1>2, <1>3, <2>1
    <2>. QED BY <1>1, <2>1, <2>2
  <1>5. IsFiniteSet(Subs \X (1..MaxEvents))
    BY <1>1, <1>2, FS_Product
  <1>6. IsFiniteSet(P)
    BY <1>5, FS_Subset
  <1>7. Cardinality(P) < MaxEvents
    BY DEF BusSends
  <1>. SUFFICES ASSUME sent[s] = MaxEvents PROVE FALSE
    BY <1>1
  <1>8. Q \subseteq P
    OBVIOUS
  <1>9. Cardinality(Q) <= Cardinality(P)
    BY <1>6, <1>8, FS_Subset
  <1>10. Cardinality(P) \in Nat
    BY <1>6, FS_CardinalityType
  <1>. HIDE DEF P, Q
  <1>. QED BY <1>1, <1>4, <1>7, <1>9, <1>10

\* What handling a request leaves behind.
LEMMA AnswerTypes ==
    ASSUME TypeOK, NEW c \in Conns, NEW r \in Response, Answer(c, r)
    PROVE  /\ task' \in [Conns -> States] /\ arg' \in [Conns -> Subs \cup {None}]
           /\ away' \subseteq Conns /\ reply' \in [Conns -> Response \cup {None}]
           /\ task'[c] = "write" /\ reply'[c] = r /\ r # None
           /\ \A d \in Conns \ {c} : /\ task'[d] = task[d] /\ arg'[d] = arg[d]
                                     /\ reply'[d] = reply[d]
  BY SessionAssumption DEF TypeOK, Answer, States

LEMMA SessionTypeStep ==
    ASSUME TypeOK, QueueOfAsking, [Next]_vars
    PROVE  TypeOK'
  <1>. DEFINE Rest == /\ made' \subseteq Subs /\ receivers' \subseteq made'
                      /\ lockq' \in Seq(Conns)
                      /\ sent' \in [Subs -> 0..MaxEvents] /\ taken' \in [Subs -> 0..MaxEvents]
                      /\ got' \in [Subs -> Seq([by : Conns, n : Nat])]
                      /\ lost' \subseteq Subs \X Nat
                      /\ requests' \in {0, 1} /\ main' \in {"run", "stop", "end"}
                      /\ \A s \in Subs : taken'[s] <= sent'[s]
  <1>1. Ok \in Response /\ TimedOut \in Response
    BY DEF Ok, TimedOut, Response
  <1>2. \A c \in Conns : Holds(c) => Release \in Seq(Conns)
    BY HeadTailProperties DEF TypeOK, Holds, Release
  <1>3. ASSUME NEW c \in Conns, NEW r \in Response, Answer(c, r), Rest,
               made \subseteq made', receivers \subseteq receivers'
        PROVE  TypeOK'
    BY <1>3, AnswerTypes DEF TypeOK
  <1>4. ASSUME NEW c \in Conns, Connect(c) \/ Leave(c) \/ AskShutdown(c) PROVE TypeOK'
    BY <1>4 DEF Connect, Leave, AskShutdown, TypeOK, States, pollVars, mainVars
  <1>5. ASSUME NEW c \in Conns, Other(c) PROVE TypeOK'
    BY <1>1, <1>3, <1>5 DEF Other, TypeOK, pollVars, mainVars
  <1>6. ASSUME NEW C \in SUBSET Conns PROVE Carried(C) \subseteq Subs \X Nat
    <2>1. ASSUME NEW c \in HoldsEvent PROVE reply[c].sub \in Subs /\ reply[c].n \in Nat
      <3>1. reply[c] \in Response /\ reply[c].kind = "event"
        BY DEF HoldsEvent, TypeOK
      <3>. QED BY <3>1 DEF Response
    <2>. QED BY <2>1 DEF Carried
  <1>7. ASSUME NEW c \in Conns, Hangup(c) PROVE TypeOK'
    BY <1>6, <1>7 DEF Hangup, Close, TypeOK, States, pollVars, mainVars
  <1>8. ASSUME NEW c \in Conns, Respond(c) PROVE TypeOK'
    <2>1. CASE Close(c) /\ UNCHANGED <<got, pollVars, mainVars>>
      BY <1>6, <2>1 DEF Close, TypeOK, States, pollVars, mainVars
    <2>2. ASSUME Written(c), UNCHANGED <<pollVars, mainVars>>,
                 got' \in [Subs -> Seq([by : Conns, n : Nat])], lost' \subseteq Subs \X Nat
          PROVE  TypeOK'
      BY <2>2 DEF Written, TypeOK, States, pollVars, mainVars
    <2>3. ASSUME task[c] = "write" PROVE Received(c) \in [Subs -> Seq([by : Conns, n : Nat])]
      <3>1. reply[c] \in Response
        BY <2>3 DEF TypeOK
      <3>2. CASE reply[c].kind # "event"
        BY <3>2 DEF Received, TypeOK
      <3>3. CASE reply[c].kind = "event"
        <4>1. reply[c].sub \in Subs /\ reply[c].n \in Nat
          BY <3>1, <3>3 DEF Response
        <4>. DEFINE e == [by |-> c, n |-> reply[c].n]
        <4>2. e \in [by : Conns, n : Nat]
          BY <4>1
        <4>. HIDE DEF e
        <4>3. got[reply[c].sub] \in Seq([by : Conns, n : Nat])
          BY <4>1 DEF TypeOK
        <4>4. Append(got[reply[c].sub], e) \in Seq([by : Conns, n : Nat])
          BY <4>2, <4>3, AppendProperties
        <4>. QED BY <3>3, <4>4 DEF Received, TypeOK, e
      <3>. QED BY <3>2, <3>3
    <2>. QED BY <1>6, <1>8, <2>1, <2>2, <2>3 DEF Respond, TypeOK
  <1>9. ASSUME NEW c \in Conns, StoreReceiver(c) PROVE TypeOK'
    <2>1. Rest /\ made \subseteq made' /\ receivers \subseteq receivers'
      BY <1>2, <1>9 DEF StoreReceiver, TypeOK, mainVars
    <2>. QED BY <1>1, <1>3, <1>9, <2>1 DEF StoreReceiver
  <1>10. ASSUME NEW c \in Conns, Lookup(c) PROVE TypeOK'
    <2>1. CASE arg[c] \in receivers
      BY <1>10, <2>1 DEF Lookup, TypeOK, States, mainVars
    <2>2. CASE arg[c] \notin receivers
      <3>1. Rest /\ made \subseteq made' /\ receivers \subseteq receivers'
        BY <1>2, <1>10, <2>2 DEF Lookup, TypeOK, mainVars
      <3>. QED BY <1>1, <1>3, <1>10, <2>2, <3>1 DEF Lookup
    <2>. QED BY <2>1, <2>2
  <1>11. ASSUME NEW c \in Conns, RecvEvent(c) PROVE TypeOK'
    <2>1. PICK s \in Subs : s = arg[c]
      BY <1>11 DEF RecvEvent, TypeOK
    <2>2. taken[s] < sent[s] /\ taken' = [taken EXCEPT ![s] = @ + 1]
      BY <1>11, <2>1 DEF RecvEvent
    <2>3. taken[s] \in 0..MaxEvents /\ sent[s] \in 0..MaxEvents /\ MaxEvents \in Nat
      BY SessionAssumption DEF TypeOK
    <2>4. taken[s] + 1 \in 0..MaxEvents /\ taken[s] + 1 <= sent[s]
      BY <2>2, <2>3
    <2>5. /\ taken' \in [Subs -> 0..MaxEvents]
          /\ \A x \in Subs : taken'[x] <= sent[x]
      BY <2>2, <2>4 DEF TypeOK
    <2>6. lockq' \in Seq(Conns)
      BY <1>2, <1>11 DEF RecvEvent, AfterEvent, QueueOfAsking
    <2>7. Rest /\ made \subseteq made' /\ receivers \subseteq receivers'
      BY <1>11, <2>5, <2>6 DEF RecvEvent, TypeOK, mainVars
    <2>8. Event(s, taken[s] + 1) \in Response
      BY <2>4, SessionAssumption DEF Event, Response
    <2>. QED BY <1>3, <1>11, <2>1, <2>7, <2>8 DEF RecvEvent
  <1>12. ASSUME NEW c \in Conns, RecvTimeout(c) PROVE TypeOK'
    <2>1. lockq' \in Seq(Conns)
      BY <1>2, <1>12 DEF RecvTimeout, QueueOfAsking
    <2>2. Rest /\ made \subseteq made' /\ receivers \subseteq receivers'
      BY <1>12, <2>1 DEF RecvTimeout, Expiry, TypeOK, mainVars
    <2>. QED BY <1>1, <1>3, <1>12, <2>2 DEF RecvTimeout
  <1>13. ASSUME NEW c \in Conns, SendShutdown(c) PROVE TypeOK'
    <2>1. Rest /\ made \subseteq made' /\ receivers \subseteq receivers'
      BY <1>13 DEF SendShutdown, TypeOK, pollVars
    <2>. QED BY <1>1, <1>3, <1>13, <2>1 DEF SendShutdown
  <1>14. ASSUME NEW c \in Conns, NEW s \in Subs, BusSubscribe(c, s) PROVE TypeOK'
    <2>1. Append(lockq, c) \in Seq(Conns)
      BY AppendProperties DEF TypeOK
    <2>. QED BY <1>14, <2>1 DEF BusSubscribe, TypeOK, States, mainVars
  <1>15. ASSUME NEW c \in Conns, NEW s \in Subs \cup {None}, BusRecv(c, s) PROVE TypeOK'
    <2>1. Append(lockq, c) \in Seq(Conns)
      BY AppendProperties DEF TypeOK
    <2>. QED BY <1>15, <2>1 DEF BusRecv, TypeOK, States, mainVars
  <1>16. ASSUME NEW s \in Subs, BusSends(s) PROVE TypeOK'
    <2>1. sent[s] + 1 \in 0..MaxEvents
      <3>1. sent[s] < MaxEvents
        BY <1>16, RoomForEvent
      <3>. QED BY <3>1, SessionAssumption DEF TypeOK
    <2>2. sent' = [sent EXCEPT ![s] = @ + 1]
      BY <1>16 DEF BusSends
    <2>3. sent' \in [Subs -> 0..MaxEvents] /\ \A x \in Subs : taken[x] <= sent'[x]
      BY <2>1, <2>2, SessionAssumption DEF TypeOK
    <2>. QED BY <1>16, <2>3 DEF BusSends, TypeOK, connVars, mainVars
  <1>17. CASE Begin
    BY <1>17 DEF Begin, TypeOK, connVars, pollVars
  <1>18. CASE End
    <2>1. <<>> \in Seq(Conns)
      OBVIOUS
    <2>. QED BY <1>6, <1>18, <2>1 DEF End, TypeOK, States
  <1>19. CASE UNCHANGED vars
    BY <1>19 DEF vars, connVars, pollVars, mainVars, TypeOK
  <1>. QED BY <1>4, <1>5, <1>7, <1>8, <1>9, <1>10, <1>11, <1>12, <1>13, <1>14, <1>15, <1>16,
              <1>17, <1>18, <1>19, SessionSteps

-----------------------------------------------------------------------------
\* The mutex. Its queue changes in three ways.
LEMMA SameQueue ==
    ASSUME QueueOfAsking, lockq' = lockq, Asking' = Asking,
           \A c \in Conns : task'[c] = "wait" => Holds(c)
    PROVE  QueueOfAsking'
  BY DEF QueueOfAsking, Holds

LEMMA Queued ==
    ASSUME TypeOK, QueueOfAsking, NEW c \in Conns, c \notin Asking,
           lockq' = Append(lockq, c), Asking' = Asking \cup {c},
           \A d \in Conns : task'[d] = "wait" => task[d] = "wait"
    PROVE  QueueOfAsking'
  <1>1. /\ Len(lockq) \in Nat /\ Len(lockq') = Len(lockq) + 1
        /\ \A i \in 1..Len(lockq) : lockq'[i] = lockq[i]
        /\ lockq'[Len(lockq) + 1] = c
    BY AppendProperties, LenProperties DEF TypeOK
  <1>2. \A i \in 1..Len(lockq') : i \in 1..Len(lockq) \/ i = Len(lockq) + 1
    BY <1>1
  <1>3. \A i \in 1..Len(lockq) : i \in 1..Len(lockq') /\ lockq[i] # c
    BY <1>1 DEF QueueOfAsking
  <1>4. \A i \in 1..Len(lockq') : lockq'[i] \in Asking'
    BY <1>1, <1>2 DEF QueueOfAsking
  <1>5. ASSUME NEW d \in Asking' PROVE \E i \in 1..Len(lockq') : lockq'[i] = d
    <2>1. CASE d = c
      <3>1. Len(lockq) + 1 \in 1..Len(lockq')
        BY <1>1
      <3>. QED BY <1>1, <2>1, <3>1
    <2>2. CASE d # c
      <3>1. PICK i \in 1..Len(lockq) : lockq[i] = d
        BY <2>2 DEF QueueOfAsking
      <3>. QED BY <1>1, <1>3, <3>1
    <2>. QED BY <2>1, <2>2
  <1>6. \A i, j \in 1..Len(lockq') : lockq'[i] = lockq'[j] => i = j
    BY <1>1, <1>2, <1>3 DEF QueueOfAsking
  <1>7. ASSUME NEW d \in Conns, task'[d] = "wait" PROVE lockq' # <<>> /\ Head(lockq') = d
    <2>1. lockq # <<>> /\ Head(lockq) = d
      BY <1>7 DEF QueueOfAsking, Holds
    <2>2. 1 \in 1..Len(lockq) /\ lockq[1] = d
      BY <2>1, HeadTailProperties, LenProperties DEF TypeOK
    <2>3. lockq' \in Seq(Conns) /\ Len(lockq') # 0 /\ lockq'[1] = d
      BY <1>1, <2>2, AppendProperties DEF TypeOK
    <2>. QED BY <2>3, HeadTailProperties
  <1>. QED BY <1>4, <1>5, <1>6, <1>7 DEF QueueOfAsking, Holds

LEMMA LetGo ==
    ASSUME TypeOK, QueueOfAsking, NEW c \in Conns, Holds(c),
           lockq' = Release, Asking' = Asking \ {c},
           \A d \in Conns : task'[d] = "wait" => d # c /\ task[d] = "wait"
    PROVE  QueueOfAsking'
  <1>1. /\ lockq \in Seq(Conns) /\ lockq # <<>> /\ Len(lockq) \in Nat
        /\ Len(lockq) >= 1 /\ lockq[1] = c
    BY HeadTailProperties, LenProperties DEF TypeOK, Holds
  <1>2. /\ Len(lockq') = Len(lockq) - 1
        /\ \A i \in 1..Len(lockq') : lockq'[i] = lockq[i + 1]
    BY <1>1, HeadTailProperties DEF Release
  <1>3. \A i \in 1..Len(lockq') : i + 1 \in 1..Len(lockq) /\ lockq[i + 1] # c
    BY <1>1, <1>2 DEF QueueOfAsking
  <1>4. \A i \in 1..Len(lockq') : lockq'[i] \in Asking'
    BY <1>2, <1>3 DEF QueueOfAsking
  <1>5. ASSUME NEW d \in Asking' PROVE \E i \in 1..Len(lockq') : lockq'[i] = d
    <2>1. PICK k \in 1..Len(lockq) : lockq[k] = d
      BY DEF QueueOfAsking
    <2>2. k # 1 /\ k - 1 \in 1..Len(lockq') /\ (k - 1) + 1 = k
      BY <1>1, <1>2, <2>1
    <2>. QED BY <1>2, <2>1, <2>2
  <1>6. ASSUME NEW i \in 1..Len(lockq'), NEW j \in 1..Len(lockq'), lockq'[i] = lockq'[j]
        PROVE  i = j
    <2>1. i + 1 = j + 1
      BY <1>2, <1>3, <1>6 DEF QueueOfAsking
    <2>. QED BY <2>1
  <1>7. \A d \in Conns : task'[d] # "wait"
    BY DEF QueueOfAsking, Holds
  <1>. QED BY <1>4, <1>5, <1>6, <1>7 DEF QueueOfAsking

LEMMA QueueStep ==
    ASSUME TypeOK, QueueOfAsking, [Next]_vars
    PROVE  QueueOfAsking'
  <1>1. ASSUME UNCHANGED lockq, NEW c \in Conns, task[c] \notin {"store", "lookup", "wait"},
               NEW t \in {"closed", "idle", "shutdown", "write"},
               task' = [task EXCEPT ![c] = t]
        PROVE  QueueOfAsking'
    <2>1. Asking' = Asking
      BY <1>1 DEF Asking, TypeOK
    <2>2. \A d \in Conns : task'[d] = "wait" => Holds(d)
      BY <1>1 DEF QueueOfAsking, TypeOK
    <2>. QED BY <1>1, <2>1, <2>2, SameQueue
  <1>2. ASSUME UNCHANGED <<lockq, task>> PROVE QueueOfAsking'
    <2>1. Asking' = Asking
      BY <1>2 DEF Asking
    <2>. QED BY <1>2, <2>1, SameQueue DEF QueueOfAsking
  <1>3. ASSUME NEW c \in Conns, task[c] = "idle", task' = [task EXCEPT ![c] = "store"]
                                \/ task' = [task EXCEPT ![c] = "lookup"],
               lockq' = Append(lockq, c)
        PROVE  QueueOfAsking'
    <2>1. c \notin Asking /\ Asking' = Asking \cup {c}
      BY <1>3 DEF Asking, TypeOK
    <2>2. \A d \in Conns : task'[d] = "wait" => task[d] = "wait"
      BY <1>3 DEF TypeOK
    <2>. QED BY <1>3, <2>1, <2>2, Queued
  <1>4. ASSUME NEW c \in Conns, Holds(c), task[c] \in {"store", "lookup", "wait"},
               task' = [task EXCEPT ![c] = "write"], lockq' = Release
        PROVE  QueueOfAsking'
    <2>1. Asking' = Asking \ {c}
      BY <1>4 DEF Asking, TypeOK
    <2>2. \A d \in Conns : task'[d] = "wait" => d # c /\ task[d] = "wait"
      BY <1>4 DEF TypeOK
    <2>. QED BY <1>4, <2>1, <2>2, LetGo
  <1>5. ASSUME NEW c \in Conns, Connect(c) \/ Leave(c) \/ Other(c) \/ AskShutdown(c)
        PROVE  QueueOfAsking'
    BY <1>1, <1>2, <1>5 DEF Connect, Leave, Other, AskShutdown, Answer, pollVars
  <1>6. ASSUME NEW c \in Conns, Hangup(c) \/ Respond(c) \/ SendShutdown(c)
        PROVE  QueueOfAsking'
    BY <1>1, <1>6 DEF Hangup, Respond, SendShutdown, Answer, Close, Written, pollVars
  <1>7. ASSUME NEW c \in Conns, StoreReceiver(c) PROVE QueueOfAsking'
    BY <1>4, <1>7 DEF StoreReceiver, Answer
  <1>8. ASSUME NEW c \in Conns, Lookup(c) PROVE QueueOfAsking'
    <2>1. CASE arg[c] \in receivers
      <3>1. /\ task[c] = "lookup" /\ Holds(c) /\ UNCHANGED lockq
            /\ task' = [task EXCEPT ![c] = "wait"]
        BY <1>8, <2>1 DEF Lookup
      <3>2. Asking' = Asking
        BY <3>1 DEF Asking, TypeOK
      <3>3. \A d \in Conns : task'[d] = "wait" => Holds(d)
        BY <3>1 DEF QueueOfAsking, TypeOK
      <3>. QED BY <3>1, <3>2, <3>3, SameQueue
    <2>2. CASE arg[c] \notin receivers
      BY <1>4, <1>8, <2>2 DEF Lookup, Answer
    <2>. QED BY <2>1, <2>2
  <1>9. ASSUME NEW c \in Conns, RecvEvent(c) \/ RecvTimeout(c) PROVE QueueOfAsking'
    <2>1. task[c] = "wait" /\ task' = [task EXCEPT ![c] = "write"] /\ lockq' = Release
      BY <1>9 DEF RecvEvent, RecvTimeout, AfterEvent, Answer
    <2>. QED BY <1>4, <2>1 DEF QueueOfAsking
  <1>10. ASSUME NEW c \in Conns, NEW s, BusSubscribe(c, s) \/ BusRecv(c, s)
         PROVE  QueueOfAsking'
    BY <1>3, <1>10 DEF BusSubscribe, BusRecv
  <1>11. ASSUME (\E s \in Subs : BusSends(s)) \/ Begin PROVE QueueOfAsking'
    BY <1>2, <1>11 DEF BusSends, Begin, connVars, pollVars
  <1>12. CASE End
    <2>1. Asking' = {} /\ lockq' = <<>> /\ \A c \in Conns : task'[c] # "wait"
      BY <1>12 DEF End, Asking
    <2>. QED BY <2>1 DEF QueueOfAsking
  <1>13. CASE UNCHANGED vars
    BY <1>2, <1>13 DEF vars, connVars, pollVars
  <1>. QED BY <1>5, <1>6, <1>7, <1>8, <1>9, <1>10, <1>11, <1>12, <1>13, SessionSteps

\* Its length: the queue numbers the tasks.
LEMMA QueueCounts ==
    ASSUME TypeOK, QueueOfAsking
    PROVE  MapLocked
  <1>1. lockq \in Seq(Conns) /\ Len(lockq) \in Nat
    BY LenProperties DEF TypeOK
  <1>2. {lockq[i] : i \in 1..Len(lockq)} = Asking
    BY DEF QueueOfAsking
  <1>. DEFINE f == [i \in 1..Len(lockq) |-> lockq[i]]
  <1>3. f \in Bijection(1..Len(lockq), Asking)
    BY <1>1 DEF QueueOfAsking, Bijection, Injection, Surjection, IsInjective
  <1>4. Len(lockq) = Cardinality(Asking)
    BY <1>1, <1>3, FS_CountingElements DEF ExistsBijection
  <1>. QED BY <1>2, <1>4 DEF MapLocked, QueueOfAsking

-----------------------------------------------------------------------------
\* The places of an event. Those clients have:
GotOnce ==
    \A s \in Subs :
        /\ \A i \in 1..Len(got[s]) : got[s][i].n \in 1..taken[s]
        /\ \A i, j \in 1..Len(got[s]) :
              /\ got[s][i].n = got[s][j].n => i = j
              /\ i < j /\ got[s][i].by = got[s][j].by => got[s][i].n < got[s][j].n

\* those in a response, which its client gets after all it has got,
HeldOnce ==
    \A c \in HoldsEvent :
        /\ reply[c].n \in 1..taken[reply[c].sub]
        /\ \A d \in HoldsEvent :
              reply[d].sub = reply[c].sub /\ reply[d].n = reply[c].n => d = c
        /\ <<reply[c].sub, reply[c].n>> \notin lost
        /\ \A i \in 1..Len(got[reply[c].sub]) :
              /\ got[reply[c].sub][i].n # reply[c].n
              /\ got[reply[c].sub][i].by = c => got[reply[c].sub][i].n < reply[c].n

\* those nobody gets,
LostOnce ==
    \A s \in Subs, n \in Nat : <<s, n>> \in lost =>
        /\ n \in 1..taken[s]
        /\ \A i \in 1..Len(got[s]) : got[s][i].n # n

\* and there are no other.
Covered ==
    \A s \in Subs : \A n \in 1..taken[s] :
        \/ \E i \in 1..Len(got[s]) : got[s][i].n = n
        \/ \E c \in HoldsEvent : reply[c].sub = s /\ reply[c].n = n
        \/ <<s, n>> \in lost

Accounted == GotOnce /\ HeldOnce /\ LostOnce /\ Covered

\* A step after which the events of the connections C are lost.
Loses(C) ==
    /\ UNCHANGED <<got, taken>>
    /\ HoldsEvent' = HoldsEvent \ C
    /\ \A c \in HoldsEvent' : reply'[c] = reply[c]
    /\ lost' = lost \cup Carried(C)

LEMMA HeldTypes ==
    ASSUME TypeOK, NEW c \in HoldsEvent
    PROVE  /\ c \in Conns /\ reply[c] \in Response /\ reply[c].kind = "event"
           /\ reply[c].sub \in Subs /\ reply[c].n \in Nat
           /\ reply[c] = Event(reply[c].sub, reply[c].n)
  <1>1. c \in Conns /\ reply[c] \in Response /\ reply[c].kind = "event"
    BY DEF HoldsEvent, TypeOK
  <1>. QED BY <1>1 DEF Response, Event

LEMMA LossKeeps ==
    ASSUME TypeOK, Accounted, NEW C, Loses(C)
    PROVE  Accounted'
  <1>1. GotOnce'
    BY DEF Accounted, GotOnce, Loses
  <1>2. HeldOnce'
    <2>. SUFFICES ASSUME NEW c \in HoldsEvent, c \notin C
                  PROVE  /\ reply[c].n \in 1..taken[reply[c].sub]
                         /\ \A d \in HoldsEvent \ C :
                               reply[d].sub = reply[c].sub /\ reply[d].n = reply[c].n => d = c
                         /\ <<reply[c].sub, reply[c].n>> \notin lost \cup Carried(C)
                         /\ \A i \in 1..Len(got[reply[c].sub]) :
                               /\ got[reply[c].sub][i].n # reply[c].n
                               /\ got[reply[c].sub][i].by = c
                                    => got[reply[c].sub][i].n < reply[c].n
      BY DEF HeldOnce, Loses
    <2>1. <<reply[c].sub, reply[c].n>> \notin Carried(C)
      BY DEF Accounted, HeldOnce, Carried
    <2>. QED BY <2>1 DEF Accounted, HeldOnce
  <1>3. LostOnce'
    <2>. SUFFICES ASSUME NEW s \in Subs, NEW n \in Nat, <<s, n>> \in lost \cup Carried(C)
                  PROVE  /\ n \in 1..taken[s]
                         /\ \A i \in 1..Len(got[s]) : got[s][i].n # n
      BY DEF LostOnce, Loses
    <2>1. CASE <<s, n>> \in lost
      BY <2>1 DEF Accounted, LostOnce
    <2>2. CASE <<s, n>> \in Carried(C)
      <3>1. PICK c \in HoldsEvent : s = reply[c].sub /\ n = reply[c].n
        BY <2>2 DEF Carried
      <3>. QED BY <3>1 DEF Accounted, HeldOnce
    <2>. QED BY <2>1, <2>2
  <1>4. Covered'
    <2>. SUFFICES ASSUME NEW s \in Subs, NEW n \in 1..taken[s]
                  PROVE  \/ \E i \in 1..Len(got[s]) : got[s][i].n = n
                         \/ \E c \in HoldsEvent \ C : reply[c].sub = s /\ reply[c].n = n
                         \/ <<s, n>> \in lost \cup Carried(C)
      BY DEF Covered, Loses
    <2>1. ASSUME NEW c \in HoldsEvent, c \in C, reply[c].sub = s, reply[c].n = n
          PROVE  <<s, n>> \in Carried(C)
      BY <2>1, HeldTypes DEF Carried
    <2>. QED BY <2>1 DEF Accounted, Covered
  <1>. QED BY <1>1, <1>2, <1>3, <1>4 DEF Accounted

\* A step that takes the next event of s into c's response.
Takes(c, s) ==
    /\ UNCHANGED <<got, lost>>
    /\ taken' = [taken EXCEPT ![s] = @ + 1]
    /\ c \notin HoldsEvent /\ HoldsEvent' = HoldsEvent \cup {c}
    /\ reply'[c].sub = s /\ reply'[c].n = taken[s] + 1
    /\ \A d \in HoldsEvent : reply'[d] = reply[d]

\* A step that gives c's client the n-th event of s, the one its response has.
Gives(c, s, n) ==
    /\ UNCHANGED <<taken, lost>>
    /\ c \in HoldsEvent /\ HoldsEvent' = HoldsEvent \ {c}
    /\ s = reply[c].sub /\ n = reply[c].n
    /\ \A d \in HoldsEvent \ {c} : reply'[d] = reply[d]
    /\ got' = [got EXCEPT ![s] = Append(@, [by |-> c, n |-> n])]

LEMMA TakeKeeps ==
    ASSUME TypeOK, Accounted, NEW c \in Conns, NEW s \in Subs, Takes(c, s)
    PROVE  Accounted'
  <1>1. /\ \A x \in Subs : taken[x] \in Nat
        /\ \A x \in Subs : taken'[x] = IF x = s THEN taken[s] + 1 ELSE taken[x]
    BY SessionAssumption DEF TypeOK, Takes
  <1>2. \A x \in Subs : /\ taken'[x] \in Nat /\ taken[x] <= taken'[x]
                       /\ 1..taken[x] \subseteq 1..taken'[x]
    BY <1>1
  <1>3. GotOnce'
    <2>. SUFFICES ASSUME NEW x \in Subs
                  PROVE  /\ \A i \in 1..Len(got[x]) : got[x][i].n \in 1..taken'[x]
                         /\ \A i, j \in 1..Len(got[x]) :
                               /\ got[x][i].n = got[x][j].n => i = j
                               /\ i < j /\ got[x][i].by = got[x][j].by
                                    => got[x][i].n < got[x][j].n
      BY DEF GotOnce, Takes
    <2>. QED BY <1>2 DEF Accounted, GotOnce
  <1>4. HeldOnce'
    <2>1. ASSUME NEW d \in HoldsEvent
          PROVE  /\ reply[d].sub \in Subs /\ reply[d].n \in 1..taken[reply[d].sub]
                 /\ reply'[d] = reply[d]
                 /\ ~(reply[d].sub = s /\ reply[d].n = taken[s] + 1)
      <3>1. reply[d].sub \in Subs /\ reply[d].n \in 1..taken[reply[d].sub]
        BY HeldTypes DEF Accounted, HeldOnce
      <3>. QED BY <1>1, <3>1 DEF Takes
    <2>2. ASSUME NEW d \in HoldsEvent
          PROVE  /\ reply'[d].n \in 1..taken'[reply'[d].sub]
                 /\ \A e \in HoldsEvent' :
                       reply'[e].sub = reply'[d].sub /\ reply'[e].n = reply'[d].n => e = d
                 /\ <<reply'[d].sub, reply'[d].n>> \notin lost'
                 /\ \A i \in 1..Len(got'[reply'[d].sub]) :
                       /\ got'[reply'[d].sub][i].n # reply'[d].n
                       /\ got'[reply'[d].sub][i].by = d
                            => got'[reply'[d].sub][i].n < reply'[d].n
      <3>1. reply'[d].n \in 1..taken'[reply'[d].sub]
        BY <1>2, <2>1
      <3>2. ASSUME NEW e \in HoldsEvent', reply'[e].sub = reply'[d].sub,
                   reply'[e].n = reply'[d].n
            PROVE  e = d
        <4>1. CASE e = c
          BY <2>1, <3>2, <4>1 DEF Takes
        <4>2. CASE e \in HoldsEvent
          BY <2>1, <3>2, <4>2 DEF Accounted, HeldOnce
        <4>. QED BY <4>1, <4>2 DEF Takes
      <3>3. got' = got /\ lost' = lost
        BY DEF Takes
      <3>. QED BY <2>1, <3>1, <3>2, <3>3 DEF Accounted, HeldOnce
    <2>3. /\ reply'[c].n \in 1..taken'[reply'[c].sub]
          /\ \A e \in HoldsEvent' :
                reply'[e].sub = reply'[c].sub /\ reply'[e].n = reply'[c].n => e = c
          /\ <<reply'[c].sub, reply'[c].n>> \notin lost'
          /\ \A i \in 1..Len(got'[reply'[c].sub]) : got'[reply'[c].sub][i].n < reply'[c].n
      <3>1. reply'[c].sub = s /\ reply'[c].n = taken[s] + 1 /\ got' = got /\ lost' = lost
        BY DEF Takes
      <3>2. reply'[c].n \in 1..taken'[s] /\ taken[s] + 1 \in Nat
        BY <1>1, <3>1
      <3>3. \A e \in HoldsEvent' : e = c \/ e \in HoldsEvent
        BY DEF Takes
      <3>4. <<s, taken[s] + 1>> \notin lost
        BY <1>1, <3>2 DEF Accounted, LostOnce
      <3>5. \A i \in 1..Len(got[s]) : got[s][i].n < taken[s] + 1
        BY <1>1 DEF Accounted, GotOnce
      <3>. QED BY <2>1, <3>1, <3>2, <3>3, <3>4, <3>5
    <2>4. \A i \in 1..Len(got'[reply'[c].sub]) : got'[reply'[c].sub][i].n # reply'[c].n
      <3>1. reply'[c].sub = s /\ reply'[c].n = taken[s] + 1 /\ got' = got
        BY DEF Takes
      <3>2. \A i \in 1..Len(got[s]) : got[s][i].n # taken[s] + 1
        BY <1>1 DEF Accounted, GotOnce
      <3>. QED BY <3>1, <3>2
    <2>. QED BY <2>2, <2>3, <2>4 DEF HeldOnce, Takes
  <1>5. LostOnce'
    <2>. SUFFICES ASSUME NEW x \in Subs, NEW n \in Nat, <<x, n>> \in lost
                  PROVE  /\ n \in 1..taken'[x]
                         /\ \A i \in 1..Len(got[x]) : got[x][i].n # n
      BY DEF LostOnce, Takes
    <2>. QED BY <1>2 DEF Accounted, LostOnce
  <1>6. Covered'
    <2>. SUFFICES ASSUME NEW x \in Subs, NEW n \in 1..taken'[x]
                  PROVE  \/ \E i \in 1..Len(got[x]) : got[x][i].n = n
                         \/ \E d \in HoldsEvent \cup {c} : reply'[d].sub = x /\ reply'[d].n = n
                         \/ <<x, n>> \in lost
      BY DEF Covered, Takes
    <2>1. CASE n \in 1..taken[x]
      BY <2>1 DEF Accounted, Covered, Takes
    <2>2. CASE n \notin 1..taken[x]
      <3>1. x = s /\ n = taken[s] + 1
        BY <1>1, <2>2
      <3>. QED BY <3>1 DEF Takes
    <2>. QED BY <2>1, <2>2
  <1>. QED BY <1>3, <1>4, <1>5, <1>6 DEF Accounted

LEMMA GiveKeeps ==
    ASSUME TypeOK, Accounted, NEW c \in Conns, NEW s \in Subs, NEW n \in Nat, Gives(c, s, n)
    PROVE  Accounted'
  <1>. DEFINE len == Len(got[s])
  <1>1. /\ len \in Nat /\ Len(got'[s]) = len + 1
        /\ \A i \in 1..len : got'[s][i] = got[s][i]
        /\ got'[s][len + 1].n = n /\ got'[s][len + 1].by = c
        /\ \A x \in Subs \ {s} : got'[x] = got[x]
    <2>1. PICK e \in [by : Conns, n : Nat] : e = [by |-> c, n |-> n]
      OBVIOUS
    <2>2. PICK q \in Seq([by : Conns, n : Nat]) : q = got[s]
      BY DEF TypeOK
    <2>3. got' = [got EXCEPT ![s] = Append(q, e)]
      BY <2>1, <2>2 DEF Gives
    <2>4. got'[s] = Append(q, e) /\ \A x \in Subs \ {s} : got'[x] = got[x]
      BY <2>3 DEF TypeOK
    <2>. QED BY <2>1, <2>2, <2>4, AppendProperties, LenProperties
  <1>2. \A i \in 1..Len(got'[s]) : i \in 1..len \/ i = len + 1
    BY <1>1
  <1>3. /\ n \in 1..taken[s] /\ <<s, n>> \notin lost
        /\ \A d \in HoldsEvent : reply[d].sub = s /\ reply[d].n = n => d = c
        /\ \A i \in 1..len : /\ got[s][i].n # n
                             /\ got[s][i].by = c => got[s][i].n < n
    BY DEF Gives, Accounted, HeldOnce
  <1>4. \A i, j \in 1..len :
           /\ got[s][i].n \in 1..taken[s]
           /\ got[s][i].n = got[s][j].n => i = j
           /\ i < j /\ got[s][i].by = got[s][j].by => got[s][i].n < got[s][j].n
    BY DEF Accounted, GotOnce
  <1>. HIDE DEF len
  <1>5. /\ HoldsEvent' = HoldsEvent \ {c} /\ taken' = taken /\ lost' = lost
        /\ \A d \in HoldsEvent \ {c} : reply'[d] = reply[d]
    BY DEF Gives
  <1>6. GotOnce'
    <2>1. ASSUME NEW i \in 1..Len(got'[s]) PROVE got'[s][i].n \in 1..taken[s]
      BY <1>1, <1>2, <1>3, <1>4
    <2>2. ASSUME NEW i \in 1..Len(got'[s]), NEW j \in 1..Len(got'[s]),
                 got'[s][i].n = got'[s][j].n
          PROVE  i = j
      <3>1. CASE i \in 1..len /\ j \in 1..len
        BY <1>1, <1>4, <2>2, <3>1
      <3>2. CASE i = len + 1 \/ j = len + 1
        <4>1. \A k \in 1..len : got'[s][k].n # n
          BY <1>1, <1>3
        <4>. QED BY <1>1, <1>2, <2>2, <3>2, <4>1
      <3>. QED BY <1>2, <3>1, <3>2
    <2>3. ASSUME NEW i \in 1..Len(got'[s]), NEW j \in 1..Len(got'[s]),
                 i < j, got'[s][i].by = got'[s][j].by
          PROVE  got'[s][i].n < got'[s][j].n
      <3>1. i \in 1..len
        BY <1>1, <2>3
      <3>. QED BY <1>1, <1>2, <1>3, <1>4, <2>3, <3>1
    <2>4. ASSUME NEW x \in Subs
          PROVE  /\ \A i \in 1..Len(got'[x]) : got'[x][i].n \in 1..taken[x]
                 /\ \A i, j \in 1..Len(got'[x]) :
                       /\ got'[x][i].n = got'[x][j].n => i = j
                       /\ i < j /\ got'[x][i].by = got'[x][j].by
                            => got'[x][i].n < got'[x][j].n
      <3>1. CASE x = s
        BY <2>1, <2>2, <2>3, <3>1
      <3>2. CASE x # s
        BY <1>1, <3>2 DEF Accounted, GotOnce
      <3>. QED BY <3>1, <3>2
    <2>. QED BY <1>5, <2>4 DEF GotOnce
  <1>7. HeldOnce'
    <2>. SUFFICES ASSUME NEW d \in HoldsEvent, d # c
                  PROVE  /\ reply[d].n \in 1..taken[reply[d].sub]
                         /\ \A e \in HoldsEvent \ {c} :
                               reply[e].sub = reply[d].sub /\ reply[e].n = reply[d].n => e = d
                         /\ <<reply[d].sub, reply[d].n>> \notin lost
                         /\ \A i \in 1..Len(got'[reply[d].sub]) :
                               /\ got'[reply[d].sub][i].n # reply[d].n
                               /\ got'[reply[d].sub][i].by = d
                                    => got'[reply[d].sub][i].n < reply[d].n
      BY <1>5 DEF HeldOnce
    <2>1. reply[d].sub \in Subs
      BY HeldTypes
    <2>2. CASE reply[d].sub = s
      <3>1. \A i \in 1..len : /\ got[s][i].n # reply[d].n
                              /\ got[s][i].by = d => got[s][i].n < reply[d].n
        BY <2>2 DEF Accounted, HeldOnce, len
      <3>2. reply[d].n # n
        BY <1>3, <2>2
      <3>3. ASSUME NEW i \in 1..Len(got'[s])
            PROVE  /\ got'[s][i].n # reply[d].n
                   /\ got'[s][i].by = d => got'[s][i].n < reply[d].n
        BY <1>1, <1>2, <3>1, <3>2
      <3>. QED BY <2>2, <3>3 DEF Accounted, HeldOnce
    <2>3. CASE reply[d].sub # s
      BY <1>1, <2>1, <2>3 DEF Accounted, HeldOnce
    <2>. QED BY <2>2, <2>3
  <1>8. LostOnce'
    <2>. SUFFICES ASSUME NEW x \in Subs, NEW m \in Nat, <<x, m>> \in lost
                  PROVE  /\ m \in 1..taken[x]
                         /\ \A i \in 1..Len(got'[x]) : got'[x][i].n # m
      BY <1>5 DEF LostOnce
    <2>1. m \in 1..taken[x] /\ \A i \in 1..Len(got[x]) : got[x][i].n # m
      BY DEF Accounted, LostOnce
    <2>2. CASE x = s
      <3>1. m # n
        BY <1>3, <2>2
      <3>. QED BY <1>1, <1>2, <2>1, <2>2, <3>1 DEF len
    <2>3. CASE x # s
      BY <1>1, <2>1, <2>3
    <2>. QED BY <2>2, <2>3
  <1>9. Covered'
    <2>. SUFFICES ASSUME NEW x \in Subs, NEW m \in 1..taken[x]
                  PROVE  \/ \E i \in 1..Len(got'[x]) : got'[x][i].n = m
                         \/ \E d \in HoldsEvent \ {c} : reply[d].sub = x /\ reply[d].n = m
                         \/ <<x, m>> \in lost
      BY <1>5 DEF Covered
    <2>1. ASSUME NEW i \in 1..Len(got[x]) PROVE i \in 1..Len(got'[x]) /\ got'[x][i] = got[x][i]
      BY <1>1 DEF len
    <2>2. CASE x = s /\ m = n
      <3>1. len + 1 \in 1..Len(got'[s])
        BY <1>1
      <3>. QED BY <1>1, <2>2, <3>1
    <2>3. CASE ~(x = s /\ m = n)
      <3>1. \/ \E i \in 1..Len(got[x]) : got[x][i].n = m
            \/ \E d \in HoldsEvent : reply[d].sub = x /\ reply[d].n = m
            \/ <<x, m>> \in lost
        BY DEF Accounted, Covered
      <3>2. ASSUME NEW d \in HoldsEvent, reply[d].sub = x, reply[d].n = m PROVE d # c
        BY <2>3, <3>2 DEF Gives
      <3>. QED BY <2>1, <3>1, <3>2
    <2>. QED BY <2>2, <2>3
  <1>. QED BY <1>6, <1>7, <1>8, <1>9 DEF Accounted

\* Who has an event to write, after a response is set or dropped.
LEMMA HeldAfter ==
    ASSUME TypeOK, NEW c \in Conns, NEW r \in Response \cup {None},
           reply' = [reply EXCEPT ![c] = r]
    PROVE  /\ r = None \/ r.kind # "event" => HoldsEvent' = HoldsEvent \ {c}
           /\ r # None /\ r.kind = "event" => HoldsEvent' = HoldsEvent \cup {c}
           /\ reply'[c] = r
           /\ \A d \in Conns \ {c} : reply'[d] = reply[d]
           /\ task[c] # "write" => c \notin HoldsEvent
  <1>1. reply'[c] = r /\ \A d \in Conns \ {c} : reply'[d] = reply[d]
    BY DEF TypeOK
  <1>2. HoldsEvent' = {d \in Conns : reply'[d] # None /\ reply'[d].kind = "event"}
    BY DEF HoldsEvent
  <1>3. r = None \/ r.kind # "event" => HoldsEvent' = HoldsEvent \ {c}
    BY <1>1, <1>2 DEF HoldsEvent
  <1>4. r # None /\ r.kind = "event" => HoldsEvent' = HoldsEvent \cup {c}
    BY <1>1, <1>2 DEF HoldsEvent
  <1>5. task[c] # "write" => c \notin HoldsEvent
    BY DEF HoldsEvent, TypeOK
  <1>. QED BY <1>1, <1>3, <1>4, <1>5

\* A step that drops c's response, if it has one, without giving it to a client.
LEMMA DropLoses ==
    ASSUME TypeOK, NEW c \in Conns, UNCHANGED <<got, taken>>,
           NEW r \in {Ok, TimedOut, None}, reply' = [reply EXCEPT ![c] = r],
           lost' = lost \cup Carried({c})
    PROVE  Loses({c})
  <1>1. r \in Response \cup {None} /\ (r = None \/ r.kind # "event")
    BY DEF Ok, TimedOut, Response
  <1>2. HoldsEvent' = HoldsEvent \ {c} /\ \A d \in Conns \ {c} : reply'[d] = reply[d]
    BY <1>1, HeldAfter
  <1>3. HoldsEvent \subseteq Conns
    BY DEF HoldsEvent
  <1>. QED BY <1>2, <1>3 DEF Loses

LEMMA NothingCarried ==
    ASSUME NEW c, c \notin HoldsEvent
    PROVE  Carried({c}) = {}
  BY DEF Carried

LEMMA AccountedStep ==
    ASSUME TypeOK, QueueOfAsking, Accounted, [Next]_vars
    PROVE  Accounted'
  <1>1. ASSUME UNCHANGED <<reply, got, taken, lost>> PROVE Accounted'
    <2>1. HoldsEvent' = HoldsEvent \ {}
      BY <1>1 DEF HoldsEvent
    <2>2. Carried({}) = {}
      BY DEF Carried
    <2>3. Loses({})
      BY <1>1, <2>1, <2>2 DEF Loses
    <2>. QED BY <2>3, LossKeeps
  <1>2. ASSUME NEW c \in Conns, NEW r \in {Ok, TimedOut, None}, task[c] # "write",
               reply' = [reply EXCEPT ![c] = r], UNCHANGED <<got, taken, lost>>
        PROVE  Accounted'
    <2>1. c \notin HoldsEvent
      BY <1>2 DEF HoldsEvent, TypeOK
    <2>2. lost' = lost \cup Carried({c})
      BY <1>2, <2>1, NothingCarried
    <2>3. Loses({c})
      BY <1>2, <2>2, DropLoses
    <2>. QED BY <2>3, LossKeeps
  <1>3. ASSUME NEW c \in Conns, reply' = [reply EXCEPT ![c] = None],
               UNCHANGED <<got, taken>>, lost' = lost \cup Carried({c})
        PROVE  Accounted'
    <2>1. Loses({c})
      BY <1>3, DropLoses
    <2>. QED BY <2>1, LossKeeps
  <1>4. ASSUME NEW c \in Conns, Connect(c) \/ Leave(c) \/ AskShutdown(c) PROVE Accounted'
    BY <1>1, <1>4 DEF Connect, Leave, AskShutdown, pollVars
  <1>5. ASSUME NEW c \in Conns, Other(c) PROVE Accounted'
    BY <1>2, <1>5 DEF Other, Answer, pollVars
  <1>6. ASSUME NEW c \in Conns, Hangup(c) PROVE Accounted'
    BY <1>3, <1>6 DEF Hangup, Close, pollVars
  <1>7. ASSUME NEW c \in Conns, Respond(c) PROVE Accounted'
    <2>1. UNCHANGED taken /\ reply' = [reply EXCEPT ![c] = None] /\ reply[c] \in Response
      BY <1>7 DEF Respond, Written, Close, pollVars, TypeOK
    <2>2. CASE lost' = lost \cup Carried({c}) /\ UNCHANGED got
      BY <1>3, <2>1, <2>2
    <2>3. CASE got' = Received(c) /\ UNCHANGED lost
      <3>1. CASE reply[c].kind # "event"
        <4>1. c \notin HoldsEvent
          BY <3>1 DEF HoldsEvent
        <4>2. got' = got
          BY <2>3, <3>1 DEF Received
        <4>3. lost' = lost \cup Carried({c})
          BY <2>3, <4>1, NothingCarried
        <4>. QED BY <1>3, <2>1, <4>2, <4>3
      <3>2. CASE reply[c].kind = "event"
        <4>1. c \in HoldsEvent
          BY <2>1, <3>2, SessionAssumption DEF HoldsEvent
        <4>2. PICK s \in Subs, n \in Nat : s = reply[c].sub /\ n = reply[c].n
          BY <4>1, HeldTypes
        <4>3. got' = [got EXCEPT ![s] = Append(@, [by |-> c, n |-> n])]
          BY <2>3, <3>2, <4>2 DEF Received
        <4>4. /\ HoldsEvent' = HoldsEvent \ {c}
              /\ \A d \in Conns \ {c} : reply'[d] = reply[d]
          BY <2>1, HeldAfter
        <4>5. HoldsEvent \subseteq Conns
          BY DEF HoldsEvent
        <4>6. Gives(c, s, n)
          BY <2>1, <2>3, <4>1, <4>2, <4>3, <4>4, <4>5 DEF Gives
        <4>. QED BY <4>6, GiveKeeps
      <3>. QED BY <3>1, <3>2
    <2>. QED BY <1>7, <2>2, <2>3 DEF Respond, Close
  <1>8. ASSUME NEW c \in Conns, StoreReceiver(c) PROVE Accounted'
    BY <1>2, <1>8 DEF StoreReceiver, Answer
  <1>9. ASSUME NEW c \in Conns, Lookup(c) PROVE Accounted'
    BY <1>1, <1>2, <1>9 DEF Lookup, Answer
  <1>10. ASSUME NEW c \in Conns, RecvEvent(c) PROVE Accounted'
    <2>1. task[c] = "wait" /\ arg[c] \in Subs
      BY <1>10 DEF RecvEvent, TypeOK
    <2>2. PICK s \in Subs : s = arg[c]
      BY <2>1
    <2>3. PICK n \in Nat : n = taken[s] + 1
      BY SessionAssumption DEF TypeOK
    <2>4. PICK r \in Response : r = Event(s, n)
      BY DEF Event, Response
    <2>5. r # None /\ r.kind = "event" /\ r.sub = s /\ r.n = n
      BY <2>4, SessionAssumption DEF Event
    <2>6. reply' = [reply EXCEPT ![c] = r] /\ UNCHANGED <<got, lost>>
          /\ taken' = [taken EXCEPT ![s] = @ + 1]
      BY <1>10, <2>2, <2>3, <2>4 DEF RecvEvent, Answer
    <2>7. /\ c \notin HoldsEvent /\ HoldsEvent' = HoldsEvent \cup {c} /\ reply'[c] = r
          /\ \A d \in Conns \ {c} : reply'[d] = reply[d]
      BY <2>1, <2>5, <2>6, HeldAfter
    <2>8. HoldsEvent \subseteq Conns
      BY DEF HoldsEvent
    <2>9. Takes(c, s)
      BY <2>3, <2>5, <2>6, <2>7, <2>8 DEF Takes
    <2>. QED BY <2>9, TakeKeeps
  <1>11. ASSUME NEW c \in Conns, RecvTimeout(c) PROVE Accounted'
    BY <1>2, <1>11 DEF RecvTimeout, Expiry, Answer
  <1>12. ASSUME NEW c \in Conns, SendShutdown(c) PROVE Accounted'
    BY <1>2, <1>12 DEF SendShutdown, Answer, pollVars
  <1>13. ASSUME NEW c, NEW s, BusSubscribe(c, s) \/ BusRecv(c, s) PROVE Accounted'
    BY <1>1, <1>13 DEF BusSubscribe, BusRecv
  <1>14. ASSUME (\E s \in Subs : BusSends(s)) \/ Begin \/ UNCHANGED vars PROVE Accounted'
    BY <1>1, <1>14 DEF BusSends, Begin, vars, connVars, pollVars
  <1>15. CASE End
    <2>1. HoldsEvent' = HoldsEvent \ Conns
      BY <1>15 DEF End, HoldsEvent
    <2>2. HoldsEvent' = {}
      BY <2>1 DEF HoldsEvent
    <2>3. Loses(Conns)
      BY <1>15, <2>1, <2>2 DEF End, Loses
    <2>. QED BY <2>3, LossKeeps
  <1>. QED BY <1>4, <1>5, <1>6, <1>7, <1>8, <1>9, <1>10, <1>11, <1>12, <1>13, <1>14, <1>15,
              SessionSteps

\* The places of the events of s, as EachEventOnce names them.
With(s)    == {got[s][i].n : i \in 1..Len(got[s])}
Holders(s) == {c \in HoldsEvent : reply[c].sub = s}
ToWrite(s) == {n \in 1..MaxEvents : \E c \in HoldsEvent : reply[c] = Event(s, n)}
Gone(s)    == {n \in 1..MaxEvents : <<s, n>> \in lost}

\* They cover the events taken, and none has two places.
LEMMA Places ==
    ASSUME TypeOK, Accounted, NEW s \in Subs
    PROVE  /\ With(s) \cup ToWrite(s) \cup Gone(s) = 1..taken[s]
           /\ With(s) \cap ToWrite(s) = {}
           /\ (With(s) \cup ToWrite(s)) \cap Gone(s) = {}
  <1>1. 1..taken[s] \subseteq 1..MaxEvents /\ 1..MaxEvents \subseteq Nat
    BY SessionAssumption DEF TypeOK
  <1>2. \A n : n \in With(s) <=> \E i \in 1..Len(got[s]) : got[s][i].n = n
    BY DEF With
  <1>3. \A n : n \in ToWrite(s) <=> \E c \in HoldsEvent : reply[c].sub = s /\ reply[c].n = n
    <2>1. ASSUME NEW n \in ToWrite(s)
          PROVE  \E c \in HoldsEvent : reply[c].sub = s /\ reply[c].n = n
      BY <2>1 DEF ToWrite, Event
    <2>2. ASSUME NEW c \in HoldsEvent, reply[c].sub = s
          PROVE  reply[c].n \in ToWrite(s)
      <3>1. reply[c].n \in 1..MaxEvents
        BY <1>1, <2>2 DEF Accounted, HeldOnce
      <3>. QED BY <2>2, <3>1, HeldTypes DEF ToWrite
    <2>. QED BY <2>1, <2>2
  <1>4. \A n : n \in Gone(s) <=> n \in Nat /\ <<s, n>> \in lost
    BY <1>1 DEF Gone, Accounted, LostOnce
  <1>5. \A n \in With(s) : n \in 1..taken[s]
    BY <1>2 DEF Accounted, GotOnce
  <1>6. \A n \in ToWrite(s) : n \in 1..taken[s] /\ n \notin With(s) /\ <<s, n>> \notin lost
    <2>1. ASSUME NEW c \in HoldsEvent, reply[c].sub = s
          PROVE  /\ reply[c].n \in 1..taken[s] /\ reply[c].n \notin With(s)
                 /\ <<s, reply[c].n>> \notin lost
      BY <1>2, <2>1 DEF Accounted, HeldOnce
    <2>. QED BY <1>3, <2>1
  <1>7. \A n \in Gone(s) : n \in 1..taken[s] /\ n \notin With(s)
    BY <1>2, <1>4 DEF Accounted, LostOnce
  <1>8. \A n \in 1..taken[s] : n \in With(s) \/ n \in ToWrite(s) \/ n \in Gone(s)
    <2>. SUFFICES ASSUME NEW n \in 1..taken[s]
                  PROVE  n \in With(s) \/ n \in ToWrite(s) \/ n \in Gone(s)
      OBVIOUS
    <2>1. \/ \E i \in 1..Len(got[s]) : got[s][i].n = n
          \/ \E c \in HoldsEvent : reply[c].sub = s /\ reply[c].n = n
          \/ <<s, n>> \in lost
      BY DEF Accounted, Covered
    <2>. QED BY <1>1, <1>2, <1>3, <1>4, <2>1
  <1>. QED BY <1>4, <1>5, <1>6, <1>7, <1>8

\* Each place has as many events as clients or responses hold.
LEMMA PlaceSizes ==
    ASSUME TypeOK, Accounted, NEW s \in Subs
    PROVE  /\ IsFiniteSet(With(s)) /\ Cardinality(With(s)) = Len(got[s])
           /\ IsFiniteSet(ToWrite(s)) /\ Cardinality(ToWrite(s)) = Cardinality(Holders(s))
           /\ IsFiniteSet(Gone(s))
  <1>1. Len(got[s]) \in Nat /\ IsFiniteSet(1..MaxEvents)
    BY SessionAssumption, LenProperties, FS_Interval DEF TypeOK
  <1>2. IsFiniteSet(ToWrite(s)) /\ IsFiniteSet(Gone(s))
    BY <1>1, FS_Subset DEF ToWrite, Gone
  <1>3. IsFiniteSet(With(s)) /\ Cardinality(With(s)) = Len(got[s])
    <2>. DEFINE f == [i \in 1..Len(got[s]) |-> got[s][i].n]
    <2>1. f \in Bijection(1..Len(got[s]), With(s))
      BY DEF With, Accounted, GotOnce, Bijection, Injection, Surjection, IsInjective
    <2>2. ExistsBijection(1..Len(got[s]), With(s))
      BY <2>1 DEF ExistsBijection
    <2>3. IsFiniteSet(1..Len(got[s])) /\ Cardinality(1..Len(got[s])) = Len(got[s])
      BY <1>1, FS_Interval
    <2>. QED BY <2>2, <2>3, FS_Bijection
  <1>4. Cardinality(ToWrite(s)) = Cardinality(Holders(s))
    <2>. DEFINE f == [c \in Holders(s) |-> reply[c].n]
    <2>1. ASSUME NEW c \in Holders(s) PROVE f[c] \in ToWrite(s)
      <3>1. reply[c].n \in 1..MaxEvents
        <4>1. reply[c].n \in 1..taken[s]
          BY DEF Holders, Accounted, HeldOnce
        <4>. QED BY <4>1, SessionAssumption DEF TypeOK
      <3>. QED BY <3>1, HeldTypes DEF Holders, ToWrite
    <2>2. ASSUME NEW c \in Holders(s), NEW d \in Holders(s), f[c] = f[d] PROVE c = d
      BY <2>2 DEF Holders, Accounted, HeldOnce
    <2>3. ASSUME NEW n \in ToWrite(s) PROVE \E c \in Holders(s) : f[c] = n
      <3>1. PICK c \in HoldsEvent : reply[c] = Event(s, n)
        BY DEF ToWrite
      <3>. QED BY <3>1 DEF Event, Holders
    <2>4. f \in Bijection(Holders(s), ToWrite(s))
      BY <2>1, <2>2, <2>3 DEF Bijection, Injection, Surjection, IsInjective
    <2>5. ExistsBijection(ToWrite(s), Holders(s))
      BY <2>4, Fun_ExistsBijSymmetric DEF ExistsBijection
    <2>. QED BY <1>2, <2>5, FS_Bijection
  <1>. QED BY <1>2, <1>3, <1>4

LEMMA AccountedCounts ==
    ASSUME TypeOK, Accounted
    PROVE  EachEventOnce
  <1>. SUFFICES ASSUME NEW s \in Subs
                PROVE  /\ With(s) \cup ToWrite(s) \cup Gone(s) = 1..taken[s]
                       /\ Len(got[s]) + Cardinality(Holders(s)) + Cardinality(Gone(s))
                            = taken[s]
                       /\ \A i, j \in 1..Len(got[s]) :
                             i < j /\ got[s][i].by = got[s][j].by
                               => got[s][i].n < got[s][j].n
    BY DEF EachEventOnce, With, ToWrite, Holders, Gone
  <1>1. taken[s] \in Nat /\ Cardinality(1..taken[s]) = taken[s]
    <2>1. taken[s] \in Nat
      BY SessionAssumption DEF TypeOK
    <2>. QED BY <2>1, FS_Interval
  <1>2. PICK A, B, D : A = With(s) /\ B = ToWrite(s) /\ D = Gone(s)
    OBVIOUS
  <1>3. IsFiniteSet(A) /\ IsFiniteSet(B) /\ IsFiniteSet(D)
        /\ Cardinality(A) = Len(got[s]) /\ Cardinality(B) = Cardinality(Holders(s))
    BY <1>2, PlaceSizes
  <1>4. A \cap B = {} /\ (A \cup B) \cap D = {} /\ A \cup B \cup D = 1..taken[s]
    BY <1>2, Places
  <1>5. Cardinality({}) = 0
    BY FS_EmptySet
  <1>6. /\ Cardinality(A) \in Nat /\ Cardinality(B) \in Nat /\ Cardinality(D) \in Nat
    BY <1>3, FS_CardinalityType
  <1>7. IsFiniteSet(A \cup B) /\ Cardinality(A \cup B) = Cardinality(A) + Cardinality(B)
    <2>1. IsFiniteSet(A \cup B)
          /\ Cardinality(A \cup B) = Cardinality(A) + Cardinality(B) - Cardinality(A \cap B)
      BY <1>3, FS_Union
    <2>. QED BY <1>4, <1>5, <1>6, <2>1
  <1>8. Cardinality((A \cup B) \cup D) = Cardinality(A \cup B) + Cardinality(D)
    <2>1. PICK U : U = A \cup B
      OBVIOUS
    <2>2. IsFiniteSet(U) /\ Cardinality(U) \in Nat /\ Cardinality(U \cap D) = 0
      BY <1>4, <1>5, <1>7, <2>1, FS_CardinalityType
    <2>3. Cardinality(U \cup D) = Cardinality(U) + Cardinality(D) - Cardinality(U \cap D)
      BY <1>3, <2>2, FS_Union
    <2>4. Cardinality(U \cup D) = Cardinality(U) + Cardinality(D)
      BY <1>6, <2>2, <2>3
    <2>. QED BY <2>1, <2>4
  <1>9. Len(got[s]) + Cardinality(Holders(s)) + Cardinality(D) = taken[s]
    BY <1>1, <1>3, <1>4, <1>6, <1>7, <1>8
  <1>. QED BY <1>2, <1>4, <1>9 DEF Accounted, GotOnce

-----------------------------------------------------------------------------
\* Nobody asks for the mutex and no event is anywhere when the server starts.
LEMMA InitAccounted == Init => QueueOfAsking /\ Accounted
  <1>. SUFFICES ASSUME Init PROVE QueueOfAsking /\ Accounted OBVIOUS
  <1>1. Asking = {} /\ Len(lockq) = 0 /\ HoldsEvent = {} /\ \A s \in Subs : Len(got[s]) = 0
    BY DEF Init, Asking, HoldsEvent
  <1>2. QueueOfAsking
    BY <1>1 DEF Init, QueueOfAsking
  <1>3. GotOnce /\ HeldOnce /\ LostOnce
    BY <1>1 DEF Init, GotOnce, HeldOnce, LostOnce
  <1>4. Covered
    BY <1>1 DEF Init, Covered
  <1>. QED BY <1>2, <1>3, <1>4 DEF Accounted

\* The types, the queue of the mutex and the places of the events.
SessionInv == TypeOK /\ QueueOfAsking /\ Accounted

\* Every step of a controller, of the bus and of main keeps the three
\* (controller/server.rs:53-108, handler.rs:219-271, main.rs:101-128).
THEOREM SessionInvariant == Spec => []SessionInv
  <1>1. Init => SessionInv
    BY InitSessionType, InitAccounted DEF SessionInv
  <1>2. SessionInv /\ [Next]_vars => SessionInv'
    BY SessionTypeStep, QueueStep, AccountedStep DEF SessionInv
  <1>. QED BY <1>1, <1>2, PTL DEF Spec

\* What the tasks, the map, the channels and the responses may hold: a task that
\* waits has its receiver in the map, and a response is there only to be written
\* (handler.rs:219-271, server.rs:76-108).
THEOREM SessionTypeCorrect == Spec => []TypeOK
  BY SessionInvariant, PTL DEF SessionInv

\* The mutex of the receiver map is held or asked for, once each, by the tasks at
\* bus.subscribe and bus.recv and by no task that is gone, and only its holder
\* waits for an event (handler.rs:226-228, 258-269; server.rs:53-60).
THEOREM MapLockedKept == Spec => []MapLocked
  <1>1. SessionInv => MapLocked
    BY QueueCounts DEF SessionInv
  <1>. QED BY <1>1, SessionInvariant, PTL

\* No event a subscription was sent is handed out twice, lost by a poll that times
\* out or seen out of order by a client: each is in the channel, in one response,
\* with one client or gone with a connection (handler.rs:252-271, server.rs:92-108).
THEOREM EachEventOnceKept == Spec => []EachEventOnce
  <1>1. SessionInv => EachEventOnce
    BY AccountedCounts DEF SessionInv
  <1>. QED BY <1>1, SessionInvariant, PTL

=============================================================================
