-------------------------- MODULE MessageBusProofs --------------------------
(***************************************************************************)
(* What MessageBus guarantees for every set of publishers, subscriptions,  *)
(* patterns and topics.  The inductive invariant says where each message   *)
(* is: the queue is the tail of the log that is not routed yet, the        *)
(* message in hand is the last one taken, and what a channel holds or is   *)
(* about to get was routed while it was registered.                        *)
(***************************************************************************)
EXTENDS MessageBus, TLAPS

-----------------------------------------------------------------------------
\* The messages the processor has taken from the queue.
Taken == IF pc = "route" THEN routed + 1 ELSE routed

\* What is not taken is queued, in the order of the log, and the processor holds
\* the last message it took.
QueueIsTail ==
    /\ Len(log) = Taken + Len(queue)
    /\ \A i \in 1..Len(queue) : queue[i] = log[Taken + i]
    /\ pc # "recv" => Taken \in 1..Len(log) /\ cur = log[Taken]

SeqIsPlace == \A n \in 1..Len(log) : log[n].seq = n

\* A channel no subscribe call has made is known to nobody, and the history of
\* the others is not ahead of the processor.
ChannelsKnown ==
    \A c \in Channels :
        /\ joined[c] <= routed /\ left[c] <= routed
        /\ sub[c] = None => c \notin registry /\ c \notin targets /\ inbox[c] = <<>>

\* A channel left to serve is owed the message in hand and has only older ones.
TargetsOwed ==
    \A c \in targets :
        /\ joined[c] < routed /\ routed <= Until(c)
        /\ InterestedIn(c, routed)
        /\ \A i \in 1..Len(inbox[c]) : inbox[c][i].seq < routed

\* Ids grow along the log for each publisher, and its draft has a later one.
IdsGrow ==
    /\ \A i, j \in 1..Len(log) :
          i < j /\ log[i].from = log[j].from => log[i].id < log[j].id
    /\ \A i \in 1..Len(log) : log[i].id < nextId
    /\ \A p \in Publishers : draft[p] # None =>
          /\ draft[p].id < nextId
          /\ \A i \in 1..Len(log) : log[i].from = p => log[i].id < draft[p].id

-----------------------------------------------------------------------------
\* A step is one of these.
LEMMA Steps ==
    ASSUME Next
    PROVE  \/ \E p \in Publishers, t \in Topics : Stamp(p, t)
           \/ \E p \in Publishers : Publish(p)
           \/ Receive
           \/ Route
           \/ \E c \in Channels : Deliver(c)
           \/ \E c \in Channels, s \in Subscribers, p \in Patterns : Subscribe(c, s, p)
           \/ \E gone \in SUBSET registry : Unregister(gone)
           \/ \E c \in Channels : DropReceiver(c)
  <1>1. CASE \E p \in Publishers : (\E t \in Topics : Stamp(p, t)) \/ Publish(p)
    BY <1>1
  <1>2. CASE Processor
    BY <1>2 DEF Processor
  <1>3. ASSUME NEW s \in Subscribers, NEW p \in Patterns, Unsubscribe(s, p)
        PROVE  \E gone \in SUBSET registry : Unregister(gone)
    <2>. DEFINE gone == {c \in registry : sub[c].subscriber = s /\ sub[c].pattern = p}
    <2>1. Unregister(gone) /\ gone \in SUBSET registry
      BY <1>3 DEF Unsubscribe
    <2>. QED BY <2>1
  <1>4. ASSUME NEW s \in Subscribers, UnsubscribeAll(s)
        PROVE  \E gone \in SUBSET registry : Unregister(gone)
    <2>. DEFINE gone == {c \in registry : sub[c].subscriber = s}
    <2>1. Unregister(gone) /\ gone \in SUBSET registry
      BY <1>4 DEF UnsubscribeAll
    <2>. QED BY <2>1
  <1>. QED BY <1>1, <1>2, <1>3, <1>4 DEF Next

-----------------------------------------------------------------------------
LEMMA InitType == Init => TypeOK
  <1>. SUFFICES ASSUME Init PROVE TypeOK OBVIOUS
  <1>. QED BY DEF Init, TypeOK

LEMMA TypeStep == TypeOK /\ [Next]_vars => TypeOK'
  <1>. SUFFICES ASSUME TypeOK, [Next]_vars PROVE TypeOK' OBVIOUS
  <1>. USE DEF TypeOK
  <1>1. ASSUME NEW p \in Publishers, NEW t \in Topics, Stamp(p, t) PROVE TypeOK'
    BY <1>1 DEF Stamp, subVars, historyVars, Draft
  <1>2. ASSUME NEW p \in Publishers, Publish(p) PROVE TypeOK'
    <2>. DEFINE m == [id |-> draft[p].id, topic |-> draft[p].topic, from |-> p,
                      seq |-> Len(log) + 1]
    <2>1. draft[p] \in Draft
      BY <1>2 DEF Publish
    <2>2. m \in Message
      BY <2>1 DEF Draft, Message
    <2>. HIDE DEF m
    <2>3. Append(queue, m) \in Seq(Message) /\ Append(log, m) \in Seq(Message)
      BY <2>2
    <2>. QED BY <1>2, <2>3 DEF Publish, subVars, m
  <1>3. CASE Receive
    <2>1. Head(queue) \in Message /\ Tail(queue) \in Seq(Message)
      BY <1>3 DEF Receive
    <2>. QED BY <1>3, <2>1, NoneAssumption DEF Receive, subVars, historyVars, Message
  <1>4. CASE Route
    BY <1>4 DEF Route, Selected, subVars
  <1>5. ASSUME NEW c \in Channels, Deliver(c) PROVE TypeOK'
    <2>1. cur \in Message
      BY <1>5 DEF Deliver
    <2>2. Append(inbox[c], cur) \in Seq(Message)
      BY <2>1
    <2>. QED BY <1>5, <2>1, <2>2 DEF Deliver, Remaining, historyVars
  <1>6. ASSUME NEW c \in Channels, NEW s \in Subscribers, NEW p \in Patterns,
               Subscribe(c, s, p)
        PROVE  TypeOK'
    BY <1>6 DEF Subscribe, busVars, Subscription
  <1>7. ASSUME NEW gone \in SUBSET registry, Unregister(gone) PROVE TypeOK'
    BY <1>7 DEF Unregister, busVars
  <1>8. ASSUME NEW c \in Channels, DropReceiver(c) PROVE TypeOK'
    BY <1>8 DEF DropReceiver, busVars, historyVars
  <1>9. CASE UNCHANGED vars
    BY <1>9 DEF vars
  <1>. QED BY <1>1, <1>2, <1>3, <1>4, <1>5, <1>6, <1>7, <1>8, <1>9, Steps

\* Type correctness (processor.rs, subscriber.rs): every variable keeps its type,
\* the processor holds a message exactly when it is at work on one, and senders
\* are left to serve exactly while it sends.
THEOREM TypeCorrect == Spec => []TypeOK
  <1>1. Init => TypeOK
    BY InitType
  <1>2. TypeOK /\ [Next]_vars => TypeOK'
    BY TypeStep
  <1>. QED BY <1>1, <1>2, PTL DEF Spec

-----------------------------------------------------------------------------
\* Where the messages are.
Placement == TypeOK /\ QueueIsTail /\ SeqIsPlace

LEMMA PublishPlaces ==
    ASSUME Placement, NEW p \in Publishers, Publish(p)
    PROVE  QueueIsTail' /\ SeqIsPlace'
  <1>. DEFINE m == [id |-> draft[p].id, topic |-> draft[p].topic, from |-> p,
                    seq |-> Len(log) + 1]
  <1>1. queue' = Append(queue, m) /\ log' = Append(log, m) /\ m.seq = Len(log) + 1
    BY DEF Publish
  <1>. HIDE DEF m
  <1>2. /\ queue \in Seq(Message) /\ log \in Seq(Message)
        /\ routed \in Nat /\ Taken \in Nat
    BY DEF Placement, TypeOK, Taken
  <1>3. UNCHANGED <<pc, cur, routed, Taken>>
    BY DEF Publish, subVars, Taken
  <1>4. /\ Len(log') = Len(log) + 1 /\ log'[Len(log) + 1] = m
        /\ \A n \in 1..Len(log) : log'[n] = log[n]
        /\ Len(queue') = Len(queue) + 1 /\ queue'[Len(queue) + 1] = m
        /\ \A n \in 1..Len(queue) : queue'[n] = queue[n]
    BY <1>1, <1>2
  <1>5. SeqIsPlace'
    BY <1>1, <1>2, <1>4 DEF Placement, SeqIsPlace
  <1>6. QueueIsTail'
    <2>1. Len(log') = Taken' + Len(queue')
      BY <1>2, <1>3, <1>4 DEF Placement, QueueIsTail
    <2>2. ASSUME NEW i \in 1..Len(queue') PROVE queue'[i] = log'[Taken' + i]
      <3>1. CASE i \in 1..Len(queue)
        <4>1. queue[i] = log[Taken + i] /\ Taken + i \in 1..Len(log)
          BY <1>2, <3>1 DEF Placement, QueueIsTail
        <4>. QED BY <1>3, <1>4, <3>1, <4>1
      <3>2. CASE i = Len(queue) + 1
        <4>1. Taken + i = Len(log) + 1
          BY <1>2, <3>2 DEF Placement, QueueIsTail
        <4>. QED BY <1>3, <1>4, <3>2, <4>1
      <3>. QED BY <1>2, <1>4, <3>1, <3>2
    <2>3. pc' # "recv" => Taken' \in 1..Len(log') /\ cur' = log'[Taken']
      BY <1>2, <1>3, <1>4 DEF Placement, QueueIsTail
    <2>. QED BY <2>1, <2>2, <2>3 DEF QueueIsTail
  <1>. QED BY <1>5, <1>6

LEMMA ReceivePlaces ==
    ASSUME Placement, Receive
    PROVE  QueueIsTail' /\ SeqIsPlace'
  <1>1. /\ queue \in Seq(Message) /\ queue # <<>> /\ log \in Seq(Message)
        /\ routed \in Nat /\ Taken = routed /\ Taken' = routed + 1
        /\ cur' = Head(queue) /\ queue' = Tail(queue)
        /\ UNCHANGED <<log, routed>>
    BY DEF Placement, TypeOK, Taken, Receive, historyVars
  <1>2. /\ Len(queue) >= 1 /\ Head(queue) = queue[1]
        /\ Len(queue') = Len(queue) - 1
        /\ \A i \in 1..Len(queue') : queue'[i] = queue[i + 1]
    BY <1>1
  <1>3. Len(log) = routed + Len(queue) /\ queue[1] = log[routed + 1]
    BY <1>1, <1>2 DEF Placement, QueueIsTail
  <1>4. ASSUME NEW i \in 1..Len(queue') PROVE queue'[i] = log'[Taken' + i]
    <2>1. i + 1 \in 1..Len(queue) /\ routed + (i + 1) = (routed + 1) + i
      BY <1>1, <1>2
    <2>2. queue[i + 1] = log[routed + (i + 1)]
      BY <2>1, <1>1 DEF Placement, QueueIsTail
    <2>. QED BY <2>1, <2>2, <1>1, <1>2
  <1>5. Len(log') = Taken' + Len(queue') /\ Taken' \in 1..Len(log') /\ cur' = log'[Taken']
    BY <1>1, <1>2, <1>3
  <1>. QED BY <1>1, <1>4, <1>5 DEF Placement, QueueIsTail, SeqIsPlace

LEMMA InitPlacement == Init => QueueIsTail /\ SeqIsPlace
  BY DEF Init, QueueIsTail, SeqIsPlace, Taken

LEMMA PlacementStep == Placement /\ [Next]_vars => (QueueIsTail /\ SeqIsPlace)'
  <1>. SUFFICES ASSUME Placement, [Next]_vars PROVE QueueIsTail' /\ SeqIsPlace'
    OBVIOUS
  <1>1. ASSUME UNCHANGED <<queue, log, pc, cur, routed>>
        PROVE  QueueIsTail' /\ SeqIsPlace'
    BY <1>1 DEF Placement, QueueIsTail, SeqIsPlace, Taken
  <1>2. ASSUME NEW p \in Publishers, NEW t \in Topics, Stamp(p, t)
        PROVE  QueueIsTail' /\ SeqIsPlace'
    BY <1>1, <1>2 DEF Stamp, historyVars
  <1>3. ASSUME NEW p \in Publishers, Publish(p) PROVE QueueIsTail' /\ SeqIsPlace'
    BY <1>3, PublishPlaces
  <1>4. CASE Receive
    BY <1>4, ReceivePlaces
  <1>5. CASE Route
    <2>1. /\ Taken = routed + 1 /\ Taken' = routed + 1 /\ UNCHANGED <<queue, log>>
          /\ pc' # "recv" => cur' = cur
      BY <1>5 DEF Route, Taken
    <2>. QED BY <1>5, <2>1 DEF Placement, QueueIsTail, SeqIsPlace, Route
  <1>6. ASSUME NEW c \in Channels, Deliver(c) PROVE QueueIsTail' /\ SeqIsPlace'
    <2>1. /\ Taken = routed /\ Taken' = routed /\ UNCHANGED <<queue, log>>
          /\ pc' # "recv" => cur' = cur
      BY <1>6 DEF Deliver, Taken, historyVars
    <2>. QED BY <1>6, <2>1 DEF Placement, QueueIsTail, SeqIsPlace, Deliver
  <1>7. ASSUME NEW c \in Channels, NEW s \in Subscribers, NEW p \in Patterns,
               Subscribe(c, s, p)
        PROVE  QueueIsTail' /\ SeqIsPlace'
    BY <1>1, <1>7 DEF Subscribe, busVars
  <1>8. ASSUME NEW gone \in SUBSET registry, Unregister(gone)
        PROVE  QueueIsTail' /\ SeqIsPlace'
    BY <1>1, <1>8 DEF Unregister, busVars
  <1>9. ASSUME NEW c \in Channels, DropReceiver(c) PROVE QueueIsTail' /\ SeqIsPlace'
    BY <1>1, <1>9 DEF DropReceiver, busVars, historyVars
  <1>10. CASE UNCHANGED vars
    BY <1>1, <1>10 DEF vars
  <1>. QED BY <1>2, <1>3, <1>4, <1>5, <1>6, <1>7, <1>8, <1>9, <1>10, Steps

THEOREM PlacementInvariant == Spec => []Placement
  <1>1. Init => QueueIsTail /\ SeqIsPlace
    BY InitPlacement
  <1>2. Placement /\ [Next]_vars => (QueueIsTail /\ SeqIsPlace)'
    BY PlacementStep
  <1>3. Placement <=> TypeOK /\ QueueIsTail /\ SeqIsPlace
    BY DEF Placement
  <1>. QED BY <1>1, <1>2, <1>3, TypeCorrect, PTL DEF Spec

-----------------------------------------------------------------------------
\* What every channel has got and will get.
Delivery ==
    /\ ChannelsKnown /\ TargetsOwed
    /\ FifoPerSubscription /\ OnlyWhatItSubscribedTo /\ NothingMissed

\* The types and bounds the delivery proofs compare places with.
LEMMA Places ==
    ASSUME Placement
    PROVE  /\ routed \in Nat /\ Len(log) \in Nat /\ routed <= Len(log)
           /\ \A c \in Channels : /\ joined[c] \in Nat /\ left[c] \in Nat
                                  /\ Until(c) \in Nat
                                  /\ inbox[c] \in Seq(Message)
                                  /\ Len(inbox[c]) \in Nat
                                  /\ \A i \in 1..Len(inbox[c]) : inbox[c][i].seq \in Nat
  <1>1. routed \in Nat /\ Len(log) \in Nat /\ Len(queue) \in Nat
    BY DEF Placement, TypeOK
  <1>2. routed <= Len(log)
    BY <1>1 DEF Placement, QueueIsTail, Taken
  <1>3. ASSUME NEW c \in Channels
        PROVE  /\ joined[c] \in Nat /\ left[c] \in Nat /\ Until(c) \in Nat
               /\ inbox[c] \in Seq(Message)
    BY DEF Placement, TypeOK, Until
  <1>4. ASSUME NEW c \in Channels, NEW i \in 1..Len(inbox[c])
        PROVE  inbox[c][i].seq \in Nat
    <2>1. inbox[c][i] \in Message
      BY <1>3
    <2>. QED BY <2>1 DEF Message
  <1>. QED BY <1>1, <1>2, <1>3, <1>4

LEMMA UntilBounded ==
    ASSUME Placement, ChannelsKnown, NEW c \in Channels
    PROVE  Until(c) <= routed
  BY Places DEF Until, ChannelsKnown

\* A message that joins the log is nobody's concern yet.
LEMMA PublishDelivers ==
    ASSUME Placement, Delivery, NEW p \in Publishers, Publish(p)
    PROVE  Delivery'
  <1>. DEFINE m == [id |-> draft[p].id, topic |-> draft[p].topic, from |-> p,
                    seq |-> Len(log) + 1]
  <1>1. log' = Append(log, m)
        /\ UNCHANGED <<targets, registry, sub, inbox, open, routed, joined, left>>
    BY DEF Publish, subVars
  <1>. HIDE DEF m
  <1>2. Len(log') = Len(log) + 1 /\ \A n \in 1..Len(log) : log'[n] = log[n]
    BY <1>1 DEF Placement, TypeOK
  <1>3. \A c \in Channels, n \in 1..Len(log) : InterestedIn(c, n)' = InterestedIn(c, n)
    BY <1>1, <1>2 DEF InterestedIn
  <1>4. \A c \in Channels : Until(c)' = Until(c) /\ \A n : Got(c, n)' = Got(c, n)
    BY <1>1 DEF Until, Got
  <1>5. ChannelsKnown' /\ FifoPerSubscription'
    BY <1>1 DEF Delivery, ChannelsKnown, FifoPerSubscription
  <1>6. TargetsOwed'
    <2>. SUFFICES ASSUME NEW c \in targets
                  PROVE  /\ joined[c] < routed /\ routed <= Until(c)
                         /\ InterestedIn(c, routed)'
                         /\ \A i \in 1..Len(inbox[c]) : inbox[c][i].seq < routed
      BY <1>1, <1>4 DEF TargetsOwed, Placement, TypeOK
    <2>1. c \in Channels /\ joined[c] < routed /\ InterestedIn(c, routed)
      BY DEF Delivery, TargetsOwed, Placement, TypeOK
    <2>2. routed \in 1..Len(log)
      BY <2>1, Places
    <2>3. InterestedIn(c, routed)'
      BY <1>1, <1>2, <2>1, <2>2 DEF InterestedIn
    <2>. QED BY <2>3 DEF Delivery, TargetsOwed
  <1>7. OnlyWhatItSubscribedTo'
    <2>. SUFFICES ASSUME NEW c \in Channels, NEW i \in 1..Len(inbox[c]),
                         NEW n, n = inbox[c][i].seq
                  PROVE  /\ n \in 1..Len(log') /\ log'[n] = inbox[c][i]
                         /\ joined[c] < n /\ n <= Until(c)
                         /\ InterestedIn(c, n)'
      BY <1>1, <1>4 DEF OnlyWhatItSubscribedTo
    <2>1. /\ n \in 1..Len(log) /\ log[n] = inbox[c][i]
          /\ joined[c] < n /\ n <= Until(c) /\ InterestedIn(c, n)
      BY DEF Delivery, OnlyWhatItSubscribedTo
    <2>2. n \in 1..Len(log')
      BY <1>2, <2>1, Places
    <2>. QED BY <1>2, <1>3, <2>1, <2>2
  <1>8. NothingMissed'
    <2>. SUFFICES ASSUME NEW c \in open, sub[c] # None,
                         NEW n \in (joined[c] + 1)..Until(c), InterestedIn(c, n)'
                  PROVE  Got(c, n) \/ (c \in targets /\ n = routed)
      BY <1>1, <1>4 DEF NothingMissed, Placement, TypeOK
    <2>1. c \in Channels
      BY DEF Placement, TypeOK
    <2>2. n \in 1..Len(log)
      BY <2>1, Places, UntilBounded DEF Delivery
    <2>. QED BY <1>3, <2>1, <2>2 DEF Delivery, NothingMissed
  <1>. QED BY <1>5, <1>6, <1>7, <1>8 DEF Delivery

\* Routing: every registered channel that wants the message gets a turn.
LEMMA RouteDelivers ==
    ASSUME Placement, Delivery, Route
    PROVE  Delivery'
  <1>1. /\ targets = {} /\ routed' = routed + 1 /\ targets' = Selected(cur)
        /\ UNCHANGED <<registry, sub, inbox, open, log, joined, left>>
    BY DEF Route, subVars, Placement, TypeOK
  <1>2. routed + 1 \in 1..Len(log) /\ cur = log[routed + 1]
    BY DEF Route, Placement, QueueIsTail, Taken
  <1>3. ASSUME NEW c \in Channels
        PROVE  /\ Until(c) <= Until(c)'
               /\ c \in registry => Until(c) = routed /\ Until(c)' = routed + 1
               /\ c \notin registry => Until(c)' = Until(c)
               /\ \A n : InterestedIn(c, n)' = InterestedIn(c, n) /\ Got(c, n)' = Got(c, n)
    BY <1>1, Places DEF Until, InterestedIn, Got
  <1>4. ASSUME NEW c \in registry
        PROVE  c \in targets' <=> InterestedIn(c, routed + 1)
    BY <1>1, <1>2 DEF Selected, InterestedIn
  <1>5. targets' \subseteq registry /\ registry \subseteq Channels
    BY <1>1 DEF Selected, Placement, TypeOK
  <1>6. ChannelsKnown'
    BY <1>1, <1>5, Places DEF Delivery, ChannelsKnown
  <1>7. FifoPerSubscription'
    BY <1>1 DEF Delivery, FifoPerSubscription
  <1>8. OnlyWhatItSubscribedTo'
    <2>. SUFFICES ASSUME NEW c \in Channels, NEW i \in 1..Len(inbox[c]),
                         NEW n, n = inbox[c][i].seq
                  PROVE  /\ n \in 1..Len(log) /\ log[n] = inbox[c][i]
                         /\ joined[c] < n /\ n <= Until(c)'
                         /\ InterestedIn(c, n)'
      BY <1>1 DEF OnlyWhatItSubscribedTo
    <2>1. /\ n \in 1..Len(log) /\ log[n] = inbox[c][i]
          /\ joined[c] < n /\ n <= Until(c) /\ InterestedIn(c, n)
      BY DEF Delivery, OnlyWhatItSubscribedTo
    <2>2. n <= Until(c)'
      BY <1>3, <2>1, Places, <1>1 DEF Until
    <2>. QED BY <1>3, <2>1, <2>2
  <1>9. TargetsOwed'
    <2>. SUFFICES ASSUME NEW c \in targets'
                  PROVE  /\ joined[c] < routed + 1 /\ routed + 1 <= Until(c)'
                         /\ InterestedIn(c, routed)'
                         /\ \A i \in 1..Len(inbox[c]) : inbox[c][i].seq < routed + 1
      BY <1>1 DEF TargetsOwed
    <2>1. c \in Channels /\ c \in registry /\ InterestedIn(c, routed + 1)
      BY <1>4, <1>5
    <2>2. joined[c] < routed + 1 /\ routed + 1 <= Until(c)'
      BY <1>3, <2>1, Places DEF Delivery, ChannelsKnown
    <2>3. InterestedIn(c, routed)'
      BY <1>1, <2>1 DEF InterestedIn
    <2>4. ASSUME NEW i \in 1..Len(inbox[c]) PROVE inbox[c][i].seq < routed + 1
      <3>1. inbox[c][i].seq <= Until(c) /\ Until(c) = routed
        BY <1>3, <2>1 DEF Delivery, OnlyWhatItSubscribedTo
      <3>. QED BY <3>1, <2>1, Places
    <2>. QED BY <2>2, <2>3, <2>4
  <1>10. NothingMissed'
    <2>. SUFFICES ASSUME NEW c \in open, sub[c] # None,
                         NEW n \in (joined[c] + 1)..(Until(c)'), InterestedIn(c, n)
                  PROVE  Got(c, n) \/ (c \in targets' /\ n = routed + 1)
      BY <1>1, <1>3 DEF NothingMissed, Placement, TypeOK
    <2>1. c \in Channels
      BY DEF Placement, TypeOK
    <2>2. CASE n \in (joined[c] + 1)..Until(c)
      BY <1>1, <2>2 DEF Delivery, NothingMissed
    <2>3. CASE n \notin (joined[c] + 1)..Until(c)
      <3>1. c \in registry /\ n = routed + 1
        BY <1>3, <2>1, <2>3, Places
      <3>. QED BY <1>4, <3>1
    <2>. QED BY <2>2, <2>3
  <1>. QED BY <1>6, <1>7, <1>8, <1>9, <1>10 DEF Delivery

\* Sending to one channel: it gets the newest message routed, or is gone.
LEMMA DeliverDelivers ==
    ASSUME Placement, Delivery, NEW d \in Channels, Deliver(d)
    PROVE  Delivery'
  <1>1. /\ d \in targets /\ targets' = targets \ {d}
        /\ UNCHANGED <<registry, sub, open, log, routed, joined, left>>
    BY DEF Deliver, Remaining, historyVars
  <1>2. /\ routed \in 1..Len(log) /\ cur = log[routed] /\ cur.seq = routed
        /\ cur \in Message
    BY DEF Deliver, Placement, QueueIsTail, SeqIsPlace, Taken, TypeOK
  <1>3. ASSUME NEW c \in Channels
        PROVE  Until(c)' = Until(c) /\ \A n : InterestedIn(c, n)' = InterestedIn(c, n)
    BY <1>1 DEF Until, InterestedIn
  <1>4. ASSUME NEW c \in Channels, c # d \/ d \notin open
        PROVE  inbox'[c] = inbox[c]
    BY <1>4 DEF Deliver, Placement, TypeOK
  <1>5. ASSUME d \in open
        PROVE  /\ Len(inbox'[d]) = Len(inbox[d]) + 1
               /\ \A i \in 1..Len(inbox[d]) : inbox'[d][i] = inbox[d][i]
               /\ inbox'[d][Len(inbox[d]) + 1] = cur
    <2>1. inbox'[d] = Append(inbox[d], cur) /\ inbox[d] \in Seq(Message)
      BY <1>5 DEF Deliver, Placement, TypeOK
    <2>. QED BY <2>1, <1>2
  <1>6. /\ joined[d] < routed /\ routed <= Until(d) /\ InterestedIn(d, routed)
        /\ \A i \in 1..Len(inbox[d]) : inbox[d][i].seq < routed
    BY <1>1 DEF Delivery, TargetsOwed
  <1>7. ChannelsKnown'
    BY <1>1, <1>4 DEF Delivery, ChannelsKnown
  <1>8. TargetsOwed'
    <2>. SUFFICES ASSUME NEW c \in targets, c # d
                  PROVE  /\ joined[c] < routed /\ routed <= Until(c)
                         /\ InterestedIn(c, routed)'
                         /\ \A i \in 1..Len(inbox[c]) : inbox[c][i].seq < routed
      BY <1>1, <1>3, <1>4 DEF TargetsOwed, Placement, TypeOK
    <2>1. InterestedIn(c, routed) /\ c \in Channels
      BY DEF Delivery, TargetsOwed, Placement, TypeOK
    <2>2. InterestedIn(c, routed)'
      BY <1>1, <2>1 DEF InterestedIn
    <2>. QED BY <2>2 DEF Delivery, TargetsOwed
  <1>9. FifoPerSubscription'
    <2>. SUFFICES ASSUME NEW c \in Channels, NEW i \in 1..Len(inbox'[c]),
                         NEW j \in 1..Len(inbox'[c]), i < j
                  PROVE  inbox'[c][i].seq < inbox'[c][j].seq
      BY DEF FifoPerSubscription
    <2>1. CASE c # d \/ d \notin open
      BY <1>4, <2>1 DEF Delivery, FifoPerSubscription
    <2>2. CASE c = d /\ d \in open
      <3>1. i \in 1..Len(inbox[d])
        BY <1>5, <2>2, Places
      <3>2. CASE j \in 1..Len(inbox[d])
        BY <1>5, <2>2, <3>1, <3>2 DEF Delivery, FifoPerSubscription
      <3>3. CASE j = Len(inbox[d]) + 1
        BY <1>2, <1>5, <1>6, <2>2, <3>1, <3>3
      <3>. QED BY <1>5, <2>2, <3>2, <3>3, Places
    <2>. QED BY <2>1, <2>2
  <1>10. OnlyWhatItSubscribedTo'
    <2>. SUFFICES ASSUME NEW c \in Channels, NEW i \in 1..Len(inbox'[c]),
                         NEW n, n = inbox'[c][i].seq
                  PROVE  /\ n \in 1..Len(log) /\ log[n] = inbox'[c][i]
                         /\ joined[c] < n /\ n <= Until(c)
                         /\ InterestedIn(c, n)
      BY <1>1, <1>3 DEF OnlyWhatItSubscribedTo
    <2>1. CASE c # d \/ d \notin open
      BY <1>4, <2>1 DEF Delivery, OnlyWhatItSubscribedTo
    <2>2. CASE c = d /\ d \in open
      <3>1. CASE i \in 1..Len(inbox[d])
        BY <1>5, <2>2, <3>1 DEF Delivery, OnlyWhatItSubscribedTo
      <3>2. CASE i = Len(inbox[d]) + 1
        BY <1>2, <1>5, <1>6, <2>2, <3>2
      <3>. QED BY <1>5, <2>2, <3>1, <3>2, Places
    <2>. QED BY <2>1, <2>2
  <1>11. NothingMissed'
    <2>. SUFFICES ASSUME NEW c \in open, sub[c] # None,
                         NEW n \in (joined[c] + 1)..Until(c), InterestedIn(c, n)
                  PROVE  Got(c, n)' \/ (c \in targets' /\ n = routed)
      BY <1>1, <1>3 DEF NothingMissed, Placement, TypeOK
    <2>1. c \in Channels /\ (Got(c, n) \/ (c \in targets /\ n = routed))
      BY DEF Delivery, NothingMissed, Placement, TypeOK
    <2>2. CASE c # d
      BY <1>1, <1>4, <2>1, <2>2 DEF Got
    <2>3. CASE c = d /\ Got(c, n)
      <3>1. PICK i \in 1..Len(inbox[d]) : inbox[d][i].seq = n
        BY <2>3 DEF Got
      <3>2. d \in open /\ Len(inbox[d]) \in Nat
        BY <2>3, Places
      <3>3. Len(inbox'[d]) = Len(inbox[d]) + 1 /\ inbox'[d][i] = inbox[d][i]
        BY <1>5, <3>1, <3>2
      <3>4. i \in 1..Len(inbox'[d]) /\ inbox'[d][i].seq = n
        BY <3>1, <3>2, <3>3
      <3>. QED BY <2>3, <3>4 DEF Got
    <2>4. CASE c = d /\ n = routed
      <3>1. Len(inbox[d]) + 1 \in 1..Len(inbox'[d])
        BY <1>5, <2>4, Places
      <3>. QED BY <1>2, <1>5, <2>4, <3>1 DEF Got
    <2>. QED BY <2>1, <2>2, <2>3, <2>4
  <1>. QED BY <1>7, <1>8, <1>9, <1>10, <1>11 DEF Delivery

\* A subscription is owed what is routed from now on.
LEMMA SubscribeDelivers ==
    ASSUME Placement, Delivery, NEW d \in Channels, NEW s \in Subscribers,
           NEW p \in Patterns, Subscribe(d, s, p)
    PROVE  Delivery'
  <1>1. /\ UNCHANGED <<targets, inbox, open, log, routed, left>>
        /\ sub[d] = None /\ registry' = registry \cup {d} /\ joined'[d] = routed
        /\ \A c \in Channels \ {d} : sub'[c] = sub[c] /\ joined'[c] = joined[c]
    BY DEF Subscribe, busVars, Placement, TypeOK
  <1>2. d \notin registry /\ d \notin targets /\ inbox[d] = <<>>
    BY <1>1 DEF Delivery, ChannelsKnown
  <1>3. ASSUME NEW c \in Channels \ {d}
        PROVE  /\ Until(c)' = Until(c)
               /\ \A n : InterestedIn(c, n)' = InterestedIn(c, n) /\ Got(c, n)' = Got(c, n)
    BY <1>1 DEF Until, InterestedIn, Got
  <1>4. Until(d)' = routed
    BY <1>1 DEF Until
  <1>5. sub'[d] # None
    <2>1. sub'[d] = [subscriber |-> s, pattern |-> p]
      BY DEF Subscribe, Placement, TypeOK
    <2>. QED BY <2>1, NoneAssumption
  <1>6. ChannelsKnown'
    <2>. SUFFICES ASSUME NEW c \in Channels
                  PROVE  /\ joined'[c] <= routed /\ left[c] <= routed
                         /\ sub'[c] = None => c \notin registry' /\ c \notin targets
                                              /\ inbox[c] = <<>>
      BY <1>1 DEF ChannelsKnown
    <2>1. CASE c = d
      BY <1>1, <1>5, <2>1, Places DEF Delivery, ChannelsKnown
    <2>2. CASE c # d
      BY <1>1, <2>2 DEF Delivery, ChannelsKnown
    <2>. QED BY <2>1, <2>2
  <1>7. TargetsOwed'
    <2>. SUFFICES ASSUME NEW c \in targets
                  PROVE  /\ joined'[c] < routed /\ routed <= Until(c)'
                         /\ InterestedIn(c, routed)'
                         /\ \A i \in 1..Len(inbox[c]) : inbox[c][i].seq < routed
      BY <1>1 DEF TargetsOwed
    <2>1. c \in Channels \ {d}
      BY <1>2 DEF Placement, TypeOK
    <2>2. InterestedIn(c, routed)'
      BY <1>1, <2>1 DEF InterestedIn, Delivery, TargetsOwed
    <2>. QED BY <1>1, <1>3, <2>1, <2>2 DEF Delivery, TargetsOwed
  <1>8. FifoPerSubscription'
    BY <1>1 DEF Delivery, FifoPerSubscription
  <1>9. OnlyWhatItSubscribedTo'
    <2>. SUFFICES ASSUME NEW c \in Channels, NEW i \in 1..Len(inbox[c]),
                         NEW n, n = inbox[c][i].seq
                  PROVE  /\ n \in 1..Len(log) /\ log[n] = inbox[c][i]
                         /\ joined'[c] < n /\ n <= Until(c)'
                         /\ InterestedIn(c, n)'
      BY <1>1 DEF OnlyWhatItSubscribedTo
    <2>1. c # d
      BY <1>2
    <2>. QED BY <1>1, <1>3, <2>1 DEF Delivery, OnlyWhatItSubscribedTo
  <1>10. NothingMissed'
    <2>. SUFFICES ASSUME NEW c \in open, sub'[c] # None,
                         NEW n \in (joined'[c] + 1)..(Until(c)'), InterestedIn(c, n)'
                  PROVE  Got(c, n)' \/ (c \in targets /\ n = routed)
      BY <1>1 DEF NothingMissed, Placement, TypeOK
    <2>1. c \in Channels
      BY DEF Placement, TypeOK
    <2>2. c # d
      BY <1>1, <1>4, Places
    <2>. QED BY <1>1, <1>3, <2>1, <2>2 DEF Delivery, NothingMissed
  <1>. QED BY <1>6, <1>7, <1>8, <1>9, <1>10 DEF Delivery

\* Removing subscriptions fixes what they are owed at what has been routed.
LEMMA UnregisterDelivers ==
    ASSUME Placement, Delivery, NEW gone \in SUBSET registry, Unregister(gone)
    PROVE  Delivery'
  <1>1. /\ UNCHANGED <<targets, sub, inbox, open, log, routed, joined>>
        /\ registry' = registry \ gone
        /\ \A c \in Channels : left'[c] = IF c \in gone THEN routed ELSE left[c]
    BY DEF Unregister, busVars
  <1>2. ASSUME NEW c \in Channels
        PROVE  /\ Until(c)' = Until(c)
               /\ \A n : InterestedIn(c, n)' = InterestedIn(c, n) /\ Got(c, n)' = Got(c, n)
    BY <1>1 DEF Until, InterestedIn, Got
  <1>3. ChannelsKnown'
    BY <1>1, Places DEF Delivery, ChannelsKnown
  <1>4. TargetsOwed'
    <2>1. \A c \in targets : c \in Channels /\ (InterestedIn(c, routed)' <=> InterestedIn(c, routed))
      BY <1>1 DEF InterestedIn, Placement, TypeOK
    <2>. QED BY <1>1, <1>2, <2>1 DEF Delivery, TargetsOwed
  <1>5. FifoPerSubscription'
    BY <1>1 DEF Delivery, FifoPerSubscription
  <1>6. OnlyWhatItSubscribedTo'
    BY <1>1, <1>2 DEF Delivery, OnlyWhatItSubscribedTo
  <1>7. NothingMissed'
    BY <1>1, <1>2 DEF Delivery, NothingMissed, Placement, TypeOK
  <1>. QED BY <1>3, <1>4, <1>5, <1>6, <1>7 DEF Delivery

LEMMA DropReceiverDelivers ==
    ASSUME Placement, Delivery, NEW d \in Channels, DropReceiver(d)
    PROVE  Delivery'
  <1>1. /\ open' \subseteq open
        /\ UNCHANGED <<targets, registry, sub, inbox, log, routed, joined, left>>
    BY DEF DropReceiver, busVars, historyVars
  <1>2. ChannelsKnown' /\ FifoPerSubscription'
    BY <1>1 DEF Delivery, ChannelsKnown, FifoPerSubscription
  <1>3. TargetsOwed' /\ OnlyWhatItSubscribedTo'
    BY <1>1 DEF Delivery, TargetsOwed, OnlyWhatItSubscribedTo, Until, InterestedIn
  <1>4. NothingMissed'
    BY <1>1 DEF Delivery, NothingMissed, Until, InterestedIn, Got
  <1>. QED BY <1>2, <1>3, <1>4 DEF Delivery

LEMMA InitDelivery == Init => Delivery
  <1>. SUFFICES ASSUME Init PROVE Delivery OBVIOUS
  <1>1. ChannelsKnown /\ TargetsOwed /\ FifoPerSubscription /\ OnlyWhatItSubscribedTo
    BY DEF Init, ChannelsKnown, TargetsOwed, FifoPerSubscription, OnlyWhatItSubscribedTo
  <1>2. NothingMissed
    BY DEF Init, NothingMissed
  <1>. QED BY <1>1, <1>2 DEF Delivery

LEMMA DeliveryStep == Placement /\ Delivery /\ [Next]_vars => Delivery'
  <1>. SUFFICES ASSUME Placement, Delivery, [Next]_vars PROVE Delivery' OBVIOUS
  <1>1. ASSUME UNCHANGED <<targets, registry, sub, inbox, open, log, routed, joined, left>>
        PROVE  Delivery'
    <2>1. ChannelsKnown' /\ FifoPerSubscription'
      BY <1>1 DEF Delivery, ChannelsKnown, FifoPerSubscription
    <2>2. TargetsOwed' /\ OnlyWhatItSubscribedTo'
      BY <1>1 DEF Delivery, TargetsOwed, OnlyWhatItSubscribedTo, Until, InterestedIn
    <2>3. NothingMissed'
      BY <1>1 DEF Delivery, NothingMissed, Until, InterestedIn, Got
    <2>. QED BY <2>1, <2>2, <2>3 DEF Delivery
  <1>2. ASSUME NEW p \in Publishers, NEW t \in Topics, Stamp(p, t) PROVE Delivery'
    BY <1>1, <1>2 DEF Stamp, subVars, historyVars
  <1>3. ASSUME NEW p \in Publishers, Publish(p) PROVE Delivery'
    BY <1>3, PublishDelivers
  <1>4. CASE Receive
    BY <1>1, <1>4 DEF Receive, subVars, historyVars
  <1>5. CASE Route
    BY <1>5, RouteDelivers
  <1>6. ASSUME NEW d \in Channels, Deliver(d) PROVE Delivery'
    BY <1>6, DeliverDelivers
  <1>7. ASSUME NEW d \in Channels, NEW s \in Subscribers, NEW p \in Patterns,
               Subscribe(d, s, p)
        PROVE  Delivery'
    BY <1>7, SubscribeDelivers
  <1>8. ASSUME NEW gone \in SUBSET registry, Unregister(gone) PROVE Delivery'
    BY <1>8, UnregisterDelivers
  <1>9. ASSUME NEW d \in Channels, DropReceiver(d) PROVE Delivery'
    BY <1>9, DropReceiverDelivers
  <1>10. CASE UNCHANGED vars
    BY <1>1, <1>10 DEF vars
  <1>. QED BY <1>2, <1>3, <1>4, <1>5, <1>6, <1>7, <1>8, <1>9, <1>10, Steps

THEOREM DeliveryInvariant == Spec => []Delivery
  <1>1. Init => Delivery
    BY InitDelivery
  <1>2. Placement /\ Delivery /\ [Next]_vars => Delivery'
    BY DeliveryStep
  <1>. QED BY <1>1, <1>2, PlacementInvariant, PTL DEF Spec

\* Every subscription receives in the queue's order, each message at most once
\* (processor.rs:83-96).
THEOREM FifoKept == Spec => []FifoPerSubscription
  <1>1. Delivery => FifoPerSubscription
    BY DEF Delivery
  <1>. QED BY <1>1, DeliveryInvariant, PTL

\* A subscription receives only what matches it, from the time it was registered
\* (subscriber.rs:45-75).
THEOREM OnlyWanted == Spec => []OnlyWhatItSubscribedTo
  <1>1. Delivery => OnlyWhatItSubscribedTo
    BY DEF Delivery
  <1>. QED BY <1>1, DeliveryInvariant, PTL

\* A subscription with a receiver has no gap, whatever happens to the others
\* (processor.rs:83-96).
THEOREM NoGap == Spec => []NothingMissed
  <1>1. Delivery => NothingMissed
    BY DEF Delivery
  <1>. QED BY <1>1, DeliveryInvariant, PTL

-----------------------------------------------------------------------------
LEMMA PublishKeepsIds ==
    ASSUME Placement, IdsGrow, NEW p \in Publishers, Publish(p)
    PROVE  IdsGrow'
  <1>. DEFINE m == [id |-> draft[p].id, topic |-> draft[p].topic, from |-> p,
                    seq |-> Len(log) + 1]
  <1>1. /\ log' = Append(log, m) /\ m.id = draft[p].id /\ m.from = p
        /\ UNCHANGED nextId /\ draft[p] # None /\ draft'[p] = None
        /\ \A q \in Publishers : q # p => draft'[q] = draft[q]
    BY DEF Publish, Placement, TypeOK
  <1>. HIDE DEF m
  <1>2. /\ Len(log) \in Nat /\ Len(log') = Len(log) + 1 /\ log'[Len(log) + 1] = m
        /\ \A n \in 1..Len(log) : log'[n] = log[n]
    BY <1>1 DEF Placement, TypeOK
  <1>3. ASSUME NEW i \in 1..Len(log'), NEW j \in 1..Len(log'),
               i < j, log'[i].from = log'[j].from
        PROVE  log'[i].id < log'[j].id
    <2>1. i \in 1..Len(log)
      BY <1>2, <1>3
    <2>2. CASE j \in 1..Len(log)
      BY <1>2, <1>3, <2>1, <2>2 DEF IdsGrow
    <2>3. CASE j = Len(log) + 1
      BY <1>1, <1>2, <1>3, <2>1, <2>3 DEF IdsGrow
    <2>. QED BY <1>2, <2>2, <2>3
  <1>4. ASSUME NEW i \in 1..Len(log') PROVE log'[i].id < nextId'
    <2>1. CASE i \in 1..Len(log)
      BY <1>1, <1>2, <2>1 DEF IdsGrow
    <2>2. CASE i = Len(log) + 1
      BY <1>1, <1>2, <2>2 DEF IdsGrow
    <2>. QED BY <1>2, <2>1, <2>2
  <1>5. ASSUME NEW q \in Publishers, draft'[q] # None
        PROVE  /\ draft'[q].id < nextId'
               /\ \A i \in 1..Len(log') : log'[i].from = q => log'[i].id < draft'[q].id
    <2>1. q # p /\ draft'[q] = draft[q]
      BY <1>1, <1>5
    <2>2. ASSUME NEW i \in 1..Len(log'), log'[i].from = q
          PROVE  log'[i].id < draft[q].id
      <3>1. i \in 1..Len(log)
        BY <1>1, <1>2, <2>1, <2>2
      <3>. QED BY <1>2, <1>5, <2>1, <2>2, <3>1 DEF IdsGrow
    <2>. QED BY <1>1, <1>5, <2>1, <2>2 DEF IdsGrow
  <1>. QED BY <1>3, <1>4, <1>5 DEF IdsGrow

LEMMA StampKeepsIds ==
    ASSUME Placement, IdsGrow, NEW p \in Publishers, NEW t \in Topics, Stamp(p, t)
    PROVE  IdsGrow'
  <1>1. /\ nextId \in Nat /\ nextId' = nextId + 1 /\ UNCHANGED log
        /\ draft'[p].id = nextId
        /\ \A q \in Publishers : q # p => draft'[q] = draft[q]
    BY DEF Stamp, historyVars, Placement, TypeOK
  <1>2. ASSUME NEW i \in 1..Len(log) PROVE log[i].id \in Nat /\ log[i].id < nextId
    <2>1. log[i] \in Message
      BY DEF Placement, TypeOK
    <2>. QED BY <2>1 DEF Message, IdsGrow
  <1>3. ASSUME NEW q \in Publishers, draft'[q] # None
        PROVE  /\ draft'[q].id < nextId'
               /\ \A i \in 1..Len(log) : log[i].from = q => log[i].id < draft'[q].id
    <2>1. CASE q = p
      BY <1>1, <1>2, <2>1
    <2>2. CASE q # p
      <3>1. draft[q] # None /\ draft[q] \in Draft /\ draft'[q] = draft[q]
        BY <1>1, <1>3, <2>2 DEF Placement, TypeOK
      <3>2. draft[q].id \in Nat
        BY <3>1 DEF Draft
      <3>. QED BY <1>1, <3>1, <3>2 DEF IdsGrow
    <2>. QED BY <2>1, <2>2
  <1>. QED BY <1>1, <1>2, <1>3 DEF IdsGrow

THEOREM IdsInvariant == Spec => []IdsGrow
  <1>1. Init => IdsGrow
    BY DEF Init, IdsGrow
  <1>2. Placement /\ IdsGrow /\ [Next]_vars => IdsGrow'
    <2>. SUFFICES ASSUME Placement, IdsGrow, [Next]_vars PROVE IdsGrow' OBVIOUS
    <2>1. ASSUME UNCHANGED <<nextId, draft, log>> PROVE IdsGrow'
      BY <2>1 DEF IdsGrow
    <2>2. ASSUME NEW p \in Publishers, NEW t \in Topics, Stamp(p, t) PROVE IdsGrow'
      BY <2>2, StampKeepsIds
    <2>3. ASSUME NEW p \in Publishers, Publish(p) PROVE IdsGrow'
      BY <2>3, PublishKeepsIds
    <2>4. CASE Receive
      BY <2>1, <2>4 DEF Receive, historyVars
    <2>5. CASE Route
      BY <2>1, <2>5 DEF Route
    <2>6. ASSUME NEW c \in Channels, Deliver(c) PROVE IdsGrow'
      BY <2>1, <2>6 DEF Deliver, historyVars
    <2>7. ASSUME NEW c \in Channels, NEW s \in Subscribers, NEW p \in Patterns,
                 Subscribe(c, s, p)
          PROVE  IdsGrow'
      BY <2>1, <2>7 DEF Subscribe, busVars
    <2>8. ASSUME NEW gone \in SUBSET registry, Unregister(gone) PROVE IdsGrow'
      BY <2>1, <2>8 DEF Unregister, busVars
    <2>9. ASSUME NEW c \in Channels, DropReceiver(c) PROVE IdsGrow'
      BY <2>1, <2>9 DEF DropReceiver, busVars, historyVars
    <2>10. CASE UNCHANGED vars
      BY <2>1, <2>10 DEF vars
    <2>. QED BY <2>2, <2>3, <2>4, <2>5, <2>6, <2>7, <2>8, <2>9, <2>10, Steps
  <1>. QED BY <1>1, <1>2, PlacementInvariant, PTL DEF Spec

\* The messages of one publisher reach a subscription with growing ids, although
\* an id is taken before the queue is joined (types.rs:31-32, processor.rs:38-42).
THEOREM PublisherOrderKept == Spec => []PublisherOrder
  <1>1. Delivery /\ IdsGrow => PublisherOrder
    <2>. SUFFICES ASSUME Delivery, IdsGrow, NEW c \in Channels,
                         NEW i \in 1..Len(inbox[c]), NEW j \in 1..Len(inbox[c]),
                         i < j, inbox[c][i].from = inbox[c][j].from
                  PROVE  inbox[c][i].id < inbox[c][j].id
      BY DEF PublisherOrder
    <2>1. inbox[c][i].seq < inbox[c][j].seq
      BY DEF Delivery, FifoPerSubscription
    <2>2. /\ inbox[c][i].seq \in 1..Len(log) /\ log[inbox[c][i].seq] = inbox[c][i]
          /\ inbox[c][j].seq \in 1..Len(log) /\ log[inbox[c][j].seq] = inbox[c][j]
      BY DEF Delivery, OnlyWhatItSubscribedTo
    <2>. QED BY <2>1, <2>2 DEF IdsGrow
  <1>. QED BY <1>1, DeliveryInvariant, IdsInvariant, PTL
=============================================================================
