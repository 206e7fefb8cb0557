-------------------------- MODULE ModuleEventsProofs --------------------------
(***************************************************************************)
(* The forwarders of ModuleEvents for every set of modules, subscriptions  *)
(* and topics and any number of stops and starts.  Its steps are steps of  *)
(* MessageBus or leave the bus alone, so what MessageBusProofs says of     *)
(* the channels holds here.  The inductive invariant adds where their      *)
(* messages go: a channel has at most one forwarder, that of the process   *)
(* that made the subscription, and all that process has of it was taken    *)
(* from the channel in its order.                                          *)
(***************************************************************************)
EXTENDS ModuleEvents, MessageBusProofs, SequenceTheorems

-----------------------------------------------------------------------------
\* What a process is sent.
Sent == [msg : Message, via : Channels]

\* A subscription that waits for its forwarder is registered, is its module's,
\* and has none yet.
SpawnPending ==
    \A m \in Modules : busy[m] # None =>
        /\ m \in up /\ busy[m].channel \in registry
        /\ sub[busy[m].channel] = [subscriber |-> m, pattern |-> busy[m].pattern]
        /\ fwd[busy[m].channel] = 0

\* A forwarder works for a module, for a process that was started; without one
\* nothing is taken from the channel.
ForwardersKnown ==
    \A c \in Channels :
        /\ fwd[c] = 0 => taken[c] = 0
        /\ fwd[c] # 0 => /\ sub[c] # None /\ Owner(c) \in Modules
                         /\ fwd[c] <= Latest(Owner(c))

\* What a process was sent was taken from a channel whose forwarder is its own.
SentBy(m, g, e) ==
    /\ fwd[e.via] = g /\ Owner(e.via) = m /\ e.msg.from # m
    /\ \E k \in 1..taken[e.via] : e.msg = inbox[e.via][k]

SentOn ==
    \A m \in Modules : \A g \in 1..Latest(m) : \A i \in 1..Len(stdin[m][g]) :
        SentBy(m, g, stdin[m][g][i])

InOrder ==
    \A m \in Modules : \A g \in 1..Latest(m) : \A i, j \in 1..Len(stdin[m][g]) :
        j < i /\ stdin[m][g][j].via = stdin[m][g][i].via
            => stdin[m][g][j].msg.seq < stdin[m][g][i].msg.seq

\* What a living forwarder has taken it has sent, but for its module's own.
Handed ==
    \A c \in Channels : Forwards(c) =>
        \A k \in 1..taken[c] :
            inbox[c][k].from # Owner(c) => Reached(c, inbox[c][k].seq)

\* ListIsRegistered whether a request is under way or not.
ListExact ==
    \A m \in up :
        /\ Latest(m) >= 1
        /\ listed[m] = {sub[c].pattern : c \in {x \in registry :
                           Owner(x) = m /\ fwd[x] = Latest(m)}}

-----------------------------------------------------------------------------
\* Every step is one of the bus, or none there.
LEMMA BusStep ==
    ASSUME EventsTypeOK, [EventsNext]_eventsVars
    PROVE  [Next]_vars
  <1>0. TypeOK /\ busy \in [Modules -> [channel : Channels, pattern : Patterns] \cup {None}]
    BY DEF EventsTypeOK
  <1>. USE EventsAssumption
  <1>1. CASE BusAlone
    BY <1>1 DEF BusAlone, Next
  <1>2. ASSUME NEW m \in Modules, NEW t \in Topics, HandlerPublish(m, t) PROVE [Next]_vars
    BY <1>2 DEF HandlerPublish, Next
  <1>3. ASSUME NEW m \in Modules, NEW p \in Patterns, HandlerSubscribe(m, p)
        PROVE  [Next]_vars
    <2>1. PICK c \in Unused : Subscribe(c, m, p)
      BY <1>3 DEF HandlerSubscribe
    <2>. QED BY <2>1 DEF Unused, Next
  <1>4. ASSUME NEW m \in Modules, NEW p \in Patterns, HandlerUnsubscribe(m, p)
        PROVE  [Next]_vars
    <2>. DEFINE gone == {c \in registry : sub[c].subscriber = m /\ sub[c].pattern = p}
    <2>1. Unregister(gone)
      BY <1>4 DEF HandlerUnsubscribe
    <2>2. CASE gone # {}
      BY <2>1, <2>2 DEF Unsubscribe, Next
    <2>3. CASE gone = {}
      <3>1. registry' = registry /\ left' = left
        BY <1>0, <2>1, <2>3 DEF Unregister, TypeOK
      <3>. QED BY <2>1, <3>1 DEF Unregister, busVars, vars
    <2>. QED BY <2>2, <2>3
  <1>5. ASSUME NEW c \in Channels, ForwarderStep(c) PROVE [Next]_vars
    BY <1>5 DEF ForwarderStep, Forward, SkipOver, ForwarderEnds, Next
  <1>6. ASSUME NEW m \in Modules,
               \/ Start(m) \/ Exit(m) \/ HandlerSpawn(m)
               \/ \E g \in 1..MaxStarts : WriterFails(m, g)
        PROVE  [Next]_vars
    BY <1>6 DEF Start, Exit, HandlerSpawn, WriterFails
  <1>7. ASSUME NEW m \in Modules, Stop(m) PROVE [Next]_vars
    <2>1. CASE busy[m] = None
      BY <1>7, <2>1 DEF Stop
    <2>2. CASE busy[m] # None
      <3>1. busy[m].channel \in Channels
        BY <1>0, <2>2
      <3>. QED BY <1>7, <2>2, <3>1 DEF Stop, Next
    <2>. QED BY <2>1, <2>2
  <1>8. CASE UNCHANGED eventsVars
    BY <1>8 DEF eventsVars
  <1>. QED BY <1>1, <1>2, <1>3, <1>4, <1>5, <1>6, <1>7, <1>8 DEF EventsNext

\* The bus never takes back what a channel was made for or what it was sent.
LEMMA BusKeeps ==
    ASSUME TypeOK, [Next]_vars, NEW c \in Channels
    PROVE  /\ sub[c] # None => sub'[c] = sub[c]
           /\ inbox[c] \in Seq(Message) /\ inbox'[c] \in Seq(Message)
           /\ Len(inbox[c]) \in Nat /\ Len(inbox[c]) <= Len(inbox'[c])
           /\ \A k \in 1..Len(inbox[c]) : inbox'[c][k] = inbox[c][k]
           /\ c \in open' => c \in open
  <1>1. inbox[c] \in Seq(Message) /\ inbox'[c] \in Seq(Message) /\ Len(inbox[c]) \in Nat
    BY TypeStep, LenProperties DEF TypeOK
  <1>2. ASSUME NEW p \in Publishers, (\E t \in Topics : Stamp(p, t)) \/ Publish(p)
        PROVE  UNCHANGED <<sub, inbox>> /\ open' \subseteq open
    BY <1>2 DEF Stamp, Publish, subVars
  <1>3. ASSUME Receive \/ Route \/ UNCHANGED vars
        PROVE  UNCHANGED <<sub, inbox>> /\ open' \subseteq open
    BY <1>3 DEF Receive, Route, subVars, vars
  <1>4. ASSUME NEW d \in Channels, Deliver(d)
        PROVE  /\ UNCHANGED <<sub, open>>
               /\ inbox'[c] = inbox[c] \/ inbox'[c] = Append(inbox[c], cur)
    BY <1>4 DEF Deliver, TypeOK
  <1>5. ASSUME NEW d \in Channels, NEW s \in Subscribers, NEW p \in Patterns,
               Subscribe(d, s, p)
        PROVE  UNCHANGED <<inbox, open>> /\ (sub[c] # None => sub'[c] = sub[c])
    BY <1>5 DEF Subscribe, TypeOK
  <1>6. ASSUME NEW gone \in SUBSET registry, Unregister(gone)
        PROVE  UNCHANGED <<sub, inbox>> /\ open' \subseteq open
    BY <1>6 DEF Unregister
  <1>7. ASSUME NEW d \in Channels, DropReceiver(d)
        PROVE  UNCHANGED <<sub, inbox>> /\ open' \subseteq open
    BY <1>7 DEF DropReceiver
  <1>8. /\ sub[c] # None => sub'[c] = sub[c]
        /\ \/ inbox'[c] = inbox[c]
           \/ \E x : inbox'[c] = Append(inbox[c], x)
        /\ open' \subseteq open
    BY <1>2, <1>3, <1>4, <1>5, <1>6, <1>7, Steps
  <1>9. ASSUME NEW x, inbox'[c] = Append(inbox[c], x)
         PROVE  /\ Len(inbox'[c]) = Len(inbox[c]) + 1
                /\ \A k \in 1..Len(inbox[c]) : inbox'[c][k] = inbox[c][k]
    BY <1>1, <1>9
  <1>. QED BY <1>1, <1>8, <1>9

-----------------------------------------------------------------------------
\* A step of EventsNext, as the invariants see it: most change none of the
\* forwarders' variables.
Quiet == UNCHANGED <<fwd, taken, stdin>>

LEMMA EventSteps ==
    ASSUME [EventsNext]_eventsVars
    PROVE  \/ Quiet /\ UNCHANGED moduleVars /\ BusAlone
           \/ \E m \in Modules : Start(m)
           \/ \E m \in Modules : Exit(m)
           \/ \E m \in Modules : Stop(m)
           \/ \E m \in Modules, t \in Topics : HandlerPublish(m, t)
           \/ \E m \in Modules, p \in Patterns : HandlerSubscribe(m, p)
           \/ \E m \in Modules, p \in Patterns : HandlerUnsubscribe(m, p)
           \/ \E m \in Modules : HandlerSpawn(m)
           \/ \E m \in Modules, g \in 1..MaxStarts : WriterFails(m, g)
           \/ \E c \in Channels : Forward(c)
           \/ \E c \in Channels : ForwarderEnds(c)
           \/ UNCHANGED eventsVars
  <1>1. BusAlone => Quiet /\ UNCHANGED moduleVars
    BY DEF BusAlone, Quiet, taskVars
  <1>. QED BY <1>1 DEF EventsNext, ForwarderStep

-----------------------------------------------------------------------------
\* What channel c's forwarder sends, and a step that sends e to m's g-th process.
Carries(c) == [msg |-> Following(c), via |-> c]
Puts(m, g, e) == stdin' = [stdin EXCEPT ![m][g] = Append(@, e)]

\* What is sent to a process goes to the end of its channel and to no other.
LEMMA SentOne ==
    ASSUME stdin \in [Modules -> Seq(Seq(Sent))],
           NEW m \in Modules, NEW g \in 1..Latest(m), NEW e \in Sent, Puts(m, g, e)
    PROVE  /\ stdin' \in [Modules -> Seq(Seq(Sent))]
           /\ \A n \in Modules : Latest(n)' = Latest(n)
           /\ \A n \in Modules : \A h \in 1..Latest(n) :
                 stdin'[n][h] = IF n = m /\ h = g THEN Append(stdin[m][g], e)
                                                  ELSE stdin[n][h]
  <1>1. stdin[m] \in Seq(Seq(Sent)) /\ g \in 1..Len(stdin[m])
    BY DEF Latest
  <1>2. stdin[m][g] \in Seq(Sent)
    BY <1>1, ElementOfSeq
  <1>. DEFINE longer == Append(stdin[m][g], e)
              row == [stdin[m] EXCEPT ![g] = longer]
  <1>3. longer \in Seq(Sent)
    BY <1>2, AppendProperties
  <1>4. stdin' = [stdin EXCEPT ![m] = row]
    BY DEF Puts
  <1>. HIDE DEF longer
  <1>5. /\ row \in Seq(Seq(Sent)) /\ Len(row) = Len(stdin[m])
        /\ \A h \in 1..Len(stdin[m]) : row[h] = IF h = g THEN longer ELSE stdin[m][h]
    BY <1>1, <1>3, ExceptSeq
  <1>. HIDE DEF row
  <1>6. stdin'[m] = row /\ \A n \in Modules \ {m} : stdin'[n] = stdin[n]
    BY <1>4
  <1>7. stdin' \in [Modules -> Seq(Seq(Sent))]
    BY <1>4, <1>5
  <1>. QED BY <1>5, <1>6, <1>7 DEF Latest, longer

\* Forward, case by case.
LEMMA Forwarding ==
    ASSUME EventsTypeOK, ForwardersKnown, NEW c \in Channels, Forward(c)
    PROVE  /\ Owner(c) \in Modules /\ fwd[c] \in 1..Latest(Owner(c)) /\ fwd[c] # 0
           /\ taken[c] \in Nat /\ taken[c] < Len(inbox[c]) /\ Following(c) \in Message
           /\ taken' = [taken EXCEPT ![c] = taken[c] + 1]
           /\ UNCHANGED <<moduleVars, fwd, writers, sub, inbox, registry>>
           /\ \/ UNCHANGED <<vars, stdin>> /\ Following(c).from = Owner(c)
              \/ /\ UNCHANGED vars /\ Following(c).from # Owner(c)
                 /\ Puts(Owner(c), fwd[c], Carries(c))
              \/ UNCHANGED stdin /\ c \notin open' /\ DropReceiver(c)
  <1>1. /\ fwd[c] \in Nat /\ taken[c] \in Nat /\ taken[c] < Len(inbox[c]) /\ fwd[c] # 0
        /\ inbox[c] \in Seq(Message)
    BY EventsAssumption DEF Forward, Forwards, EventsTypeOK, TypeOK
  <1>2. Owner(c) \in Modules /\ fwd[c] <= Latest(Owner(c))
    BY <1>1 DEF ForwardersKnown
  <1>3. taken[c] + 1 \in 1..Len(inbox[c])
    BY <1>1, LenProperties
  <1>4. Following(c) \in Message
    BY <1>1, <1>3, ElementOfSeq DEF Following
  <1>5. DropReceiver(c) => c \notin open' /\ UNCHANGED <<sub, inbox, registry>>
    BY DEF DropReceiver
  <1>6. Latest(Owner(c)) \in Nat
    BY <1>2, LenProperties DEF EventsTypeOK, Latest
  <1>7. UNCHANGED vars => UNCHANGED <<sub, inbox, registry>>
    BY DEF vars
  <1>. QED BY <1>1, <1>2, <1>4, <1>5, <1>6, <1>7
           DEF Forward, Received, Skips, SkipOver, Destination, moduleVars, Puts, Carries

-----------------------------------------------------------------------------
\* Types.
LEMMA EventsInitType == EventsInit => EventsTypeOK
  <1>. SUFFICES ASSUME EventsInit PROVE EventsTypeOK OBVIOUS
  <1>1. TypeOK
    BY InitType DEF EventsInit
  <1>2. \A S : <<>> \in Seq(S) /\ Len(<<>>) = 0
    OBVIOUS
  <1>. QED BY <1>1, <1>2, EventsAssumption DEF EventsInit, Init, EventsTypeOK, Latest

\* The types of the variables MessageBus does not have.
TaskTypes ==
    /\ up \subseteq Modules /\ alive \subseteq up
    /\ busy \in [Modules -> [channel : Channels, pattern : Patterns] \cup {None}]
    /\ listed \in [Modules -> SUBSET Patterns]
    /\ fwd \in [Channels -> 0..MaxStarts] /\ taken \in [Channels -> Nat]
    /\ stdin \in [Modules -> Seq(Seq(Sent))]
    /\ writers \in [Modules -> SUBSET (1..MaxStarts)]
    /\ \A m \in Modules : /\ Latest(m) \in 0..MaxStarts
                          /\ writers[m] \subseteq 1..Latest(m)

LEMMA EventsTypes ==
    EventsTypeOK <=> TypeOK /\ TaskTypes /\ \A c \in Channels : taken[c] <= Len(inbox[c])
  <1>1. stdin \in [Modules -> Seq(Seq(Sent))] => \A m \in Modules : Latest(m) \in Nat
    BY LenProperties DEF Latest
  <1>2. \A m \in Modules : Latest(m) \in 0..MaxStarts <=>
                           Latest(m) \in Nat /\ Latest(m) <= MaxStarts
    BY EventsAssumption
  <1>. QED BY <1>1, <1>2 DEF EventsTypeOK, TaskTypes, Sent

LEMMA StartTypes ==
    ASSUME TaskTypes, NEW m \in Modules, Start(m)
    PROVE  /\ TaskTypes'
           /\ Latest(m)' = Latest(m) + 1 /\ stdin'[m][Latest(m) + 1] = <<>>
           /\ \A n \in Modules \ {m} : Latest(n)' = Latest(n)
           /\ \A n \in Modules : \A g \in 1..Latest(n) : stdin'[n][g] = stdin[n][g]
  <1>1. stdin[m] \in Seq(Seq(Sent)) /\ <<>> \in Seq(Sent)
    BY EmptySeq DEF TaskTypes
  <1>. DEFINE row == Append(stdin[m], <<>>)
  <1>2. /\ row \in Seq(Seq(Sent)) /\ Len(row) = Len(stdin[m]) + 1
        /\ row[Len(stdin[m]) + 1] = <<>>
        /\ \A g \in 1..Len(stdin[m]) : row[g] = stdin[m][g]
    BY <1>1, AppendProperties
  <1>3. stdin' = [stdin EXCEPT ![m] = row]
    BY DEF Start
  <1>. HIDE DEF row
  <1>4. stdin'[m] = row /\ \A n \in Modules \ {m} : stdin'[n] = stdin[n]
    BY <1>3 DEF TaskTypes
  <1>5. stdin' \in [Modules -> Seq(Seq(Sent))]
    BY <1>2, <1>3 DEF TaskTypes
  <1>6. Latest(m) \in Nat /\ Latest(m) + 1 \in 1..MaxStarts
    BY EventsAssumption DEF Start, TaskTypes
  <1>7. /\ Latest(m)' = Latest(m) + 1
        /\ \A n \in Modules \ {m} : Latest(n)' = Latest(n)
    BY <1>2, <1>4 DEF Latest
  <1>8. writers' = [writers EXCEPT ![m] = @ \cup {Latest(m) + 1}]
    BY DEF Start
  <1>9. \A n \in Modules : /\ Latest(n)' \in 0..MaxStarts
                           /\ writers'[n] \subseteq 1..Latest(n)'
    BY <1>6, <1>7, <1>8 DEF TaskTypes
  <1>10. writers' \in [Modules -> SUBSET (1..MaxStarts)]
    BY <1>6, <1>8 DEF TaskTypes
  <1>11. up' \subseteq Modules /\ alive' \subseteq up'
    BY DEF Start, TaskTypes
  <1>12. TaskTypes'
    BY <1>5, <1>9, <1>10, <1>11 DEF Start, FreshInfo, TaskTypes
  <1>. QED BY <1>2, <1>4, <1>7, <1>12 DEF Latest

LEMMA TaskTypesStep ==
    ASSUME TypeOK, TaskTypes, ForwardersKnown, EventsTypeOK, [EventsNext]_eventsVars
    PROVE  TaskTypes'
  <1>1. ASSUME Quiet, UNCHANGED <<up, alive, busy, listed, writers>> PROVE TaskTypes'
    BY <1>1 DEF Quiet, TaskTypes, Latest
  <1>2. ASSUME NEW m \in Modules, Start(m) PROVE TaskTypes'
    BY <1>2, StartTypes
  <1>3. ASSUME NEW m \in Modules, Exit(m) PROVE TaskTypes'
    BY <1>3 DEF Exit, taskVars, TaskTypes, Latest
  <1>4. ASSUME NEW m \in Modules, Stop(m) PROVE TaskTypes'
    BY <1>4 DEF Stop, TaskTypes, Latest
  <1>5. ASSUME NEW m \in Modules, NEW p \in Patterns, HandlerSubscribe(m, p)
        PROVE  TaskTypes'
    <2>1. PICK c \in Channels : busy' = [busy EXCEPT ![m] = [channel |-> c, pattern |-> p]]
      BY <1>5 DEF HandlerSubscribe, Unused
    <2>2. [channel |-> c, pattern |-> p] \in [channel : Channels, pattern : Patterns]
      OBVIOUS
    <2>3. busy' \in [Modules -> [channel : Channels, pattern : Patterns] \cup {None}]
      BY <2>1, <2>2 DEF TaskTypes
    <2>4. UNCHANGED <<up, alive, listed, taskVars>>
      BY <1>5 DEF HandlerSubscribe
    <2>. QED BY <2>3, <2>4 DEF taskVars, TaskTypes, Latest
  <1>6. ASSUME NEW m \in Modules, NEW p \in Patterns, HandlerUnsubscribe(m, p)
        PROVE  TaskTypes'
    <2>1. listed' \in [Modules -> SUBSET Patterns]
      BY <1>6 DEF HandlerUnsubscribe, TaskTypes
    <2>2. UNCHANGED <<up, alive, busy, taskVars>>
      BY <1>6 DEF HandlerUnsubscribe
    <2>. QED BY <2>1, <2>2 DEF taskVars, TaskTypes, Latest
  <1>7. ASSUME NEW m \in Modules, HandlerSpawn(m) PROVE TaskTypes'
    <2>1. /\ busy[m].channel \in Channels /\ busy[m].pattern \in Patterns
          /\ Latest(m) \in 0..MaxStarts
      BY <1>7 DEF HandlerSpawn, TaskTypes
    <2>2. /\ listed' \in [Modules -> SUBSET Patterns]
          /\ fwd' \in [Channels -> 0..MaxStarts]
      BY <1>7, <2>1 DEF HandlerSpawn, Listing, TaskTypes
    <2>3. busy' \in [Modules -> [channel : Channels, pattern : Patterns] \cup {None}]
      BY <1>7 DEF HandlerSpawn, TaskTypes
    <2>4. UNCHANGED <<up, alive, taken, stdin, writers>>
      BY <1>7 DEF HandlerSpawn
    <2>. QED BY <2>2, <2>3, <2>4 DEF TaskTypes, Latest
  <1>8. ASSUME NEW m \in Modules, NEW g \in 1..MaxStarts, WriterFails(m, g)
        PROVE  TaskTypes'
    BY <1>8 DEF WriterFails, moduleVars, TaskTypes, Latest
  <1>9. ASSUME NEW c \in Channels, Forward(c) PROVE TaskTypes'
    <2>1. /\ taken' \in [Channels -> Nat]
          /\ UNCHANGED <<up, alive, busy, listed, fwd, writers>>
      <3>1. taken' = [taken EXCEPT ![c] = taken[c] + 1] /\ taken[c] \in Nat
            /\ UNCHANGED <<moduleVars, fwd, writers>>
        BY <1>9, Forwarding
      <3>. QED BY <3>1 DEF moduleVars, TaskTypes
    <2>2. /\ stdin' \in [Modules -> Seq(Seq(Sent))]
          /\ \A m \in Modules : Latest(m)' = Latest(m)
      <3>1. CASE UNCHANGED stdin
        BY <3>1 DEF TaskTypes, Latest
      <3>2. CASE Puts(Owner(c), fwd[c], Carries(c))
        <4>1. Carries(c) \in Sent
          BY <1>9, Forwarding DEF Carries, Sent
        <4>. QED BY <1>9, <3>2, <4>1, Forwarding, SentOne DEF TaskTypes
      <3>. QED BY <1>9, <3>1, <3>2, Forwarding
    <2>. QED BY <2>1, <2>2 DEF TaskTypes
  <1>10. ASSUME NEW c \in Channels, ForwarderEnds(c) PROVE TaskTypes'
    BY <1>1, <1>10 DEF ForwarderEnds, moduleVars, taskVars, Quiet
  <1>11. ASSUME NEW m \in Modules, NEW t \in Topics, HandlerPublish(m, t) PROVE TaskTypes'
    BY <1>1, <1>11 DEF HandlerPublish, moduleVars, taskVars, Quiet
  <1>12. CASE BusAlone \/ UNCHANGED eventsVars
    BY <1>1, <1>12 DEF BusAlone, eventsVars, moduleVars, taskVars, Quiet
  <1>. QED BY <1>2, <1>3, <1>4, <1>5, <1>6, <1>7, <1>8, <1>9, <1>10, <1>11, <1>12,
              EventSteps

\* What the steps of everybody but the forwarders do to what they work with.
OtherStep ==
    /\ UNCHANGED taken
    /\ \A c \in Channels :
          \/ fwd'[c] = fwd[c]
          \/ /\ fwd[c] = 0 /\ sub[c] # None
             /\ Owner(c) \in Modules /\ fwd'[c] = Latest(Owner(c))
    /\ \A m \in Modules :
          /\ Latest(m) <= Latest(m)'
          /\ \A g \in 1..Latest(m) : stdin'[m][g] = stdin[m][g]
          /\ \A g \in 1..Latest(m)' : g \in 1..Latest(m) \/ stdin'[m][g] = <<>>

LEMMA OtherSteps ==
    ASSUME EventsTypeOK, SpawnPending, [EventsNext]_eventsVars,
           \A c \in Channels : ~Forward(c)
    PROVE  OtherStep
  <1>1. TaskTypes
    BY EventsTypes
  <1>2. \A m \in Modules : Latest(m) \in Nat
    BY <1>1 DEF TaskTypes
  <1>3. ASSUME UNCHANGED stdin PROVE \A m \in Modules : Latest(m)' = Latest(m)
    BY <1>3 DEF Latest
  <1>4. ASSUME Quiet PROVE OtherStep
    BY <1>2, <1>3, <1>4 DEF Quiet, OtherStep
  <1>5. ASSUME NEW m \in Modules, Start(m) PROVE OtherStep
    <2>1. UNCHANGED <<taken, fwd>>
      BY <1>5 DEF Start
    <2>. QED BY <1>1, <1>2, <1>5, <2>1, StartTypes DEF OtherStep
  <1>6. ASSUME NEW m \in Modules, HandlerSpawn(m) PROVE OtherStep
    <2>1. UNCHANGED <<taken, stdin>>
      BY <1>6 DEF HandlerSpawn
    <2>2. /\ fwd' = [fwd EXCEPT ![busy[m].channel] = Latest(m)]
          /\ fwd[busy[m].channel] = 0
          /\ sub[busy[m].channel] = [subscriber |-> m, pattern |-> busy[m].pattern]
          /\ busy[m].pattern \in Patterns
      BY <1>1, <1>6 DEF HandlerSpawn, SpawnPending, TaskTypes
    <2>3. sub[busy[m].channel] # None /\ Owner(busy[m].channel) = m
      BY <2>2, NoneAssumption, EventsAssumption DEF Owner
    <2>4. \A c \in Channels : c # busy[m].channel => fwd'[c] = fwd[c]
      BY <1>1, <2>2 DEF TaskTypes
    <2>5. \A c \in Channels : c = busy[m].channel => fwd'[c] = Latest(m)
      BY <1>1, <2>2 DEF TaskTypes
    <2>. QED BY <1>2, <1>3, <2>1, <2>2, <2>3, <2>4, <2>5 DEF OtherStep
  <1>7. ASSUME NEW m \in Modules,
               \/ Exit(m) \/ Stop(m)
               \/ \E g \in 1..MaxStarts : WriterFails(m, g)
        PROVE  Quiet
    BY <1>7 DEF Exit, Stop, WriterFails, taskVars, Quiet
  <1>8. ASSUME NEW m \in Modules,
               \/ \E t \in Topics : HandlerPublish(m, t)
               \/ \E p \in Patterns : HandlerSubscribe(m, p) \/ HandlerUnsubscribe(m, p)
        PROVE  Quiet
    BY <1>8 DEF HandlerPublish, HandlerSubscribe, HandlerUnsubscribe, taskVars, Quiet
  <1>9. ASSUME NEW c \in Channels, ForwarderEnds(c) PROVE Quiet
    BY <1>9 DEF ForwarderEnds, taskVars, Quiet
  <1>10. UNCHANGED eventsVars => Quiet
    BY DEF eventsVars, taskVars, Quiet
  <1>. QED BY <1>4, <1>5, <1>6, <1>7, <1>8, <1>9, <1>10, EventSteps

-----------------------------------------------------------------------------
\* The invariants, one step each.
LEMMA EventsTypeStep ==
    ASSUME EventsTypeOK, ForwardersKnown, [EventsNext]_eventsVars
    PROVE  EventsTypeOK'
  <1>1. TypeOK /\ TaskTypes /\ \A c \in Channels : taken[c] <= Len(inbox[c])
    BY EventsTypes
  <1>2. TypeOK' /\ TaskTypes'
    BY <1>1, BusStep, TypeStep, TaskTypesStep
  <1>3. \A c \in Channels : /\ Len(inbox[c]) \in Nat /\ Len(inbox'[c]) \in Nat
                            /\ Len(inbox[c]) <= Len(inbox'[c])
    BY <1>1, BusStep, BusKeeps, LenProperties
  <1>4. ASSUME NEW c \in Channels PROVE taken'[c] <= Len(inbox'[c])
    <2>1. ASSUME NEW d \in Channels, Forward(d) PROVE taken'[c] <= Len(inbox'[c])
      <3>1. taken' = [taken EXCEPT ![d] = taken[d] + 1] /\ taken[d] < Len(inbox[d])
        BY <2>1, Forwarding
      <3>. QED BY <1>1, <1>3, <3>1 DEF TaskTypes
    <2>2. CASE UNCHANGED taken
      BY <1>1, <1>3, <2>2 DEF TaskTypes
    <2>3. (\E d \in Channels : Forward(d)) \/ UNCHANGED taken
      BY EventSteps DEF Quiet, Start, Exit, Stop, HandlerPublish, HandlerSubscribe,
         HandlerUnsubscribe, HandlerSpawn, WriterFails, ForwarderEnds, eventsVars, taskVars
    <2>. QED BY <2>1, <2>2, <2>3
  <1>5. \A m \in Modules : Latest(m)' <= MaxStarts /\ writers'[m] \subseteq 1..Latest(m)'
    BY <1>2, EventsAssumption DEF TaskTypes
  <1>6. /\ up' \subseteq Modules /\ alive' \subseteq up'
        /\ busy' \in [Modules -> [channel : Channels, pattern : Patterns] \cup {None}]
        /\ listed' \in [Modules -> SUBSET Patterns]
        /\ fwd' \in [Channels -> 0..MaxStarts] /\ taken' \in [Channels -> Nat]
        /\ stdin' \in [Modules -> Seq(Seq([msg : Message, via : Channels]))]
        /\ writers' \in [Modules -> SUBSET (1..MaxStarts)]
    BY <1>2 DEF TaskTypes, Sent
  <1>. QED BY <1>2, <1>4, <1>5, <1>6 DEF EventsTypeOK

\* Steps that leave the subscriptions and the list of every module alone.
Still ==
    /\ UNCHANGED <<registry, sub, fwd, listed, busy, up>>
    /\ \A m \in Modules : Latest(m)' = Latest(m)

LEMMA ForwardStill ==
    ASSUME EventsTypeOK, ForwardersKnown, NEW c \in Channels, Forward(c)
    PROVE  Still
  <1>1. UNCHANGED <<registry, sub, fwd, listed, busy, up>>
    BY Forwarding DEF moduleVars
  <1>2. CASE UNCHANGED stdin
    BY <1>1, <1>2 DEF Still, Latest
  <1>3. CASE Puts(Owner(c), fwd[c], Carries(c))
    <2>1. Carries(c) \in Sent
      BY Forwarding DEF Carries, Sent
    <2>2. stdin \in [Modules -> Seq(Seq(Sent))]
      BY EventsTypes DEF TaskTypes
    <2>. QED BY <1>1, <1>3, <2>1, <2>2, Forwarding, SentOne DEF Still
  <1>. QED BY <1>2, <1>3, Forwarding

LEMMA StillSteps ==
    ASSUME EventsTypeOK, ForwardersKnown, [EventsNext]_eventsVars
    PROVE  \/ Still
           \/ \E m \in Modules : Start(m)
           \/ \E m \in Modules : Stop(m)
           \/ \E m \in Modules, p \in Patterns : HandlerSubscribe(m, p)
           \/ \E m \in Modules, p \in Patterns : HandlerUnsubscribe(m, p)
           \/ \E m \in Modules : HandlerSpawn(m)
  <1>1. ASSUME UNCHANGED <<registry, sub, fwd, listed, busy, up, stdin>> PROVE Still
    BY <1>1 DEF Still, Latest
  <1>2. BusAlone => Still
    BY <1>1 DEF BusAlone, Publish, Stamp, Processor, Receive, Route, Deliver, subVars,
       moduleVars, taskVars
  <1>3. ASSUME NEW m \in Modules,
               \/ Exit(m) \/ \E t \in Topics : HandlerPublish(m, t)
               \/ \E g \in 1..MaxStarts : WriterFails(m, g)
        PROVE  Still
    BY <1>1, <1>3 DEF Exit, HandlerPublish, Stamp, WriterFails, vars, subVars, moduleVars,
       taskVars
  <1>4. ASSUME NEW c \in Channels, Forward(c) PROVE Still
    BY <1>4, ForwardStill
  <1>5. ASSUME NEW c \in Channels, ForwarderEnds(c) PROVE Still
    BY <1>1, <1>5 DEF ForwarderEnds, DropReceiver, moduleVars, taskVars
  <1>6. UNCHANGED eventsVars => Still
    BY <1>1 DEF eventsVars, vars, moduleVars, taskVars
  <1>. QED BY <1>2, <1>3, <1>4, <1>5, <1>6, EventSteps

LEMMA SpawnPendingStep ==
    ASSUME EventsTypeOK, ForwardersKnown, SpawnPending, [EventsNext]_eventsVars
    PROVE  SpawnPending'
  <1>1. TypeOK /\ TaskTypes
    BY EventsTypes
  <1>. SUFFICES ASSUME NEW m \in Modules, busy'[m] # None
                PROVE  /\ m \in up' /\ busy'[m].channel \in registry'
                       /\ sub'[busy'[m].channel] =
                             [subscriber |-> m, pattern |-> busy'[m].pattern]
                       /\ fwd'[busy'[m].channel] = 0
    BY DEF SpawnPending
  <1>. DEFINE b == busy[m].channel
              OnBoard == /\ m \in up /\ b \in Channels /\ b \in registry
                         /\ sub[b] = [subscriber |-> m, pattern |-> busy[m].pattern]
                         /\ sub[b].subscriber = m /\ sub[b] # None
                         /\ fwd[b] = 0
  <1>2. busy[m] # None => OnBoard
    <2>. SUFFICES ASSUME busy[m] # None PROVE OnBoard OBVIOUS
    <2>1. busy[m].channel \in Channels /\ busy[m].pattern \in Patterns
      BY <1>1 DEF TaskTypes
    <2>. QED BY <2>1, NoneAssumption, EventsAssumption DEF SpawnPending
  <1>. HIDE DEF b
  <1>3. CASE Still
    BY <1>2, <1>3 DEF Still, b
  <1>4. ASSUME NEW n \in Modules, Start(n) PROVE OnBoard'
    BY <1>2, <1>4 DEF Start, vars, b
  <1>5. ASSUME NEW n \in Modules, Stop(n) PROVE OnBoard'
    BY <1>1, <1>2, <1>5 DEF Stop, DropReceiver, vars, TaskTypes, b
  <1>6. ASSUME NEW n \in Modules, NEW p \in Patterns, HandlerSubscribe(n, p) PROVE OnBoard'
    <2>1. PICK c \in Unused : /\ Subscribe(c, n, p)
                              /\ busy' = [busy EXCEPT ![n] = [channel |-> c, pattern |-> p]]
      BY <1>6 DEF HandlerSubscribe
    <2>2. c \in Channels /\ sub[c] = None /\ UNCHANGED <<up, fwd>>
      BY <1>6 DEF HandlerSubscribe, Unused, taskVars
    <2>3. /\ sub' = [sub EXCEPT ![c] = [subscriber |-> n, pattern |-> p]]
          /\ registry' = registry \cup {c}
      BY <2>1 DEF Subscribe
    <2>4. CASE m = n
      <3>1. /\ busy'[m] = [channel |-> c, pattern |-> p]
            /\ sub'[c] = [subscriber |-> n, pattern |-> p]
        BY <1>1, <2>1, <2>2, <2>3, <2>4 DEF TaskTypes, TypeOK
      <3>2. fwd'[c] = 0 /\ m \in up'
        BY <1>6, <2>2, <2>4 DEF ForwardersKnown, HandlerSubscribe, Idle
      <3>3. sub'[c] # None
        BY <3>1, NoneAssumption, EventsAssumption
      <3>. QED BY <2>2, <2>3, <2>4, <3>1, <3>2, <3>3 DEF b
    <2>5. CASE m # n
      <3>1. busy'[m] = busy[m]
        BY <1>1, <2>1, <2>5 DEF TaskTypes
      <3>2. OnBoard /\ b # c
        BY <1>2, <2>2, <3>1
      <3>3. sub'[b] = sub[b]
        BY <1>1, <2>3, <3>2 DEF TypeOK
      <3>. QED BY <2>2, <2>3, <3>1, <3>2, <3>3 DEF b
    <2>. QED BY <2>4, <2>5
  <1>7. ASSUME NEW n \in Modules, NEW p \in Patterns, HandlerUnsubscribe(n, p) PROVE OnBoard'
    <2>1. /\ UNCHANGED <<up, busy, fwd, sub>> /\ busy[n] = None
          /\ registry' =
                registry \ {c \in registry : sub[c].subscriber = n /\ sub[c].pattern = p}
      BY <1>7 DEF HandlerUnsubscribe, Idle, Unregister, taskVars
    <2>2. OnBoard /\ m # n
      BY <1>2, <2>1
    <2>. QED BY <2>1, <2>2 DEF b
  <1>8. ASSUME NEW n \in Modules, HandlerSpawn(n) PROVE OnBoard'
    <2>1. /\ UNCHANGED <<up, registry, sub>> /\ busy[n] # None
          /\ busy' = [busy EXCEPT ![n] = None]
          /\ fwd' = [fwd EXCEPT ![busy[n].channel] = Latest(n)]
      BY <1>8 DEF HandlerSpawn, vars
    <2>2. m # n /\ busy'[m] = busy[m]
      BY <1>1, <2>1 DEF TaskTypes
    <2>3. OnBoard
      BY <1>2, <2>2
    <2>4. busy[n].channel \in Channels /\ sub[busy[n].channel].subscriber = n
      <3>1. busy[n].channel \in Channels
        BY <1>1, <2>1 DEF TaskTypes
      <3>2. sub[busy[n].channel] = [subscriber |-> n, pattern |-> busy[n].pattern]
        BY <2>1 DEF SpawnPending
      <3>. QED BY <3>1, <3>2
    <2>5. b # busy[n].channel
      BY <2>2, <2>3, <2>4
    <2>6. fwd'[b] = fwd[b]
      BY <1>1, <2>1, <2>3, <2>5 DEF TaskTypes
    <2>. QED BY <2>1, <2>2, <2>3, <2>6 DEF b
  <1>. QED BY <1>3, <1>4, <1>5, <1>6, <1>7, <1>8, StillSteps DEF b

LEMMA ForwardersKnownStep ==
    ASSUME EventsTypeOK, ForwardersKnown, SpawnPending, [EventsNext]_eventsVars
    PROVE  ForwardersKnown'
  <1>1. TypeOK /\ TaskTypes
    BY EventsTypes
  <1>2. \A c \in Channels : sub[c] # None => sub'[c] = sub[c]
    BY <1>1, BusStep, BusKeeps
  <1>3. \A m \in Modules : Latest(m) \in Nat /\ Latest(m)' \in Nat
    BY <1>1, TaskTypesStep DEF TaskTypes
  <1>. SUFFICES ASSUME NEW c \in Channels
                PROVE  /\ fwd'[c] = 0 => taken'[c] = 0
                       /\ fwd'[c] # 0 =>
                             \E m \in Modules : /\ sub'[c] # None /\ sub'[c].subscriber = m
                                                /\ fwd'[c] <= Latest(m)'
    BY DEF ForwardersKnown, Owner, Latest
  <1>4. /\ fwd[c] \in Nat
        /\ fwd[c] = 0 => taken[c] = 0
        /\ fwd[c] # 0 => \E m \in Modules : /\ sub'[c] # None /\ sub'[c].subscriber = m
                                            /\ fwd[c] <= Latest(m)
    <2>1. fwd[c] \in Nat
      BY <1>1, EventsAssumption DEF TaskTypes
    <2>2. /\ fwd[c] = 0 => taken[c] = 0
          /\ fwd[c] # 0 => /\ sub[c] # None /\ sub[c].subscriber \in Modules
                           /\ fwd[c] <= Latest(sub[c].subscriber)
      BY DEF ForwardersKnown, Owner
    <2>. QED BY <1>2, <2>1, <2>2
  <1>5. ASSUME NEW d \in Channels, Forward(d)
        PROVE  /\ UNCHANGED fwd /\ \A m \in Modules : Latest(m)' = Latest(m)
               /\ fwd[c] = 0 => taken'[c] = taken[c]
    <2>1. taken' = [taken EXCEPT ![d] = taken[d] + 1] /\ fwd[d] # 0
      BY <1>5, Forwarding
    <2>. QED BY <1>1, <1>5, <2>1, ForwardStill DEF Still, TaskTypes
  <1>6. CASE \E d \in Channels : Forward(d)
    BY <1>4, <1>5, <1>6
  <1>7. CASE OtherStep
    BY <1>2, <1>3, <1>4, <1>7 DEF OtherStep, Owner
  <1>. QED BY <1>6, <1>7, OtherSteps

\* What a forwarder has sent stays as it was, whatever step is taken.
LEMMA SentKept ==
    ASSUME EventsTypeOK, SpawnPending, ForwardersKnown, [EventsNext]_eventsVars,
           NEW m \in Modules, NEW g \in Nat \ {0}, NEW e \in Sent, SentBy(m, g, e)
    PROVE  SentBy(m, g, e)'
  <1>1. TypeOK /\ TaskTypes /\ \A c \in Channels : taken[c] <= Len(inbox[c])
    BY EventsTypes
  <1>2. PICK c \in Channels : c = e.via
    BY DEF Sent
  <1>3. PICK k \in 1..taken[c] : e.msg = inbox[c][k]
    BY <1>2 DEF SentBy
  <1>4. fwd[c] = g /\ Owner(c) = m /\ e.msg.from # m
    BY <1>2 DEF SentBy
  <1>5. g # 0 /\ taken[c] \in Nat
    BY <1>1 DEF TaskTypes
  <1>6. sub[c] # None
    BY <1>4, <1>5 DEF ForwardersKnown
  <1>7. sub'[c].subscriber = m
    BY <1>1, <1>4, <1>6, BusStep, BusKeeps DEF Owner
  <1>8. fwd'[c] = fwd[c] /\ (taken'[c] = taken[c] \/ taken'[c] = taken[c] + 1)
    <2>1. ASSUME NEW d \in Channels, Forward(d)
          PROVE  fwd'[c] = fwd[c] /\ (taken'[c] = taken[c] \/ taken'[c] = taken[c] + 1)
      <3>1. UNCHANGED fwd /\ taken' = [taken EXCEPT ![d] = taken[d] + 1]
        BY <2>1, Forwarding
      <3>. QED BY <1>1, <3>1 DEF TaskTypes
    <2>2. CASE OtherStep
      BY <1>4, <1>5, <2>2 DEF OtherStep
    <2>. QED BY <2>1, <2>2, OtherSteps
  <1>9. \E n \in 1..taken'[c] : e.msg = inbox'[c][n]
    <2>1. Len(inbox[c]) \in Nat /\ \A n \in 1..Len(inbox[c]) : inbox'[c][n] = inbox[c][n]
      BY <1>1, BusStep, BusKeeps
    <2>2. k \in 1..taken'[c] /\ k \in 1..Len(inbox[c])
      BY <1>1, <1>5, <1>8, <2>1
    <2>. QED BY <1>3, <2>1, <2>2
  <1>. QED BY <1>2, <1>4, <1>7, <1>8, <1>9 DEF SentBy, Owner

\* Channel c's forwarder sends to the g-th process of m.
Sends(c, m, g) ==
    /\ Forward(c) /\ UNCHANGED vars
    /\ m = Owner(c) /\ g = fwd[c] /\ Following(c).from # m
    /\ Carries(c) \in Sent
    /\ stdin'[m][g] = Append(stdin[m][g], Carries(c))

\* What a process was sent after a step it was sent before, but for what a
\* forwarder has just sent it.
LEMMA SentAfter ==
    ASSUME EventsTypeOK, SpawnPending, ForwardersKnown, [EventsNext]_eventsVars,
           NEW m \in Modules, NEW g \in 1..Latest(m)'
    PROVE  \/ g \notin 1..Latest(m) /\ stdin'[m][g] = <<>>
           \/ /\ g \in 1..Latest(m) /\ stdin[m][g] \in Seq(Sent)
              /\ stdin'[m][g] = stdin[m][g] \/ \E c \in Channels : Sends(c, m, g)
  <1>1. TaskTypes
    BY EventsTypes
  <1>2. ASSUME g \in 1..Latest(m) PROVE stdin[m][g] \in Seq(Sent)
    <2>1. stdin[m] \in Seq(Seq(Sent)) /\ g \in 1..Len(stdin[m])
      BY <1>1, <1>2 DEF TaskTypes, Latest
    <2>. QED BY <2>1, ElementOfSeq
  <1>3. CASE OtherStep
    BY <1>2, <1>3 DEF OtherStep
  <1>4. ASSUME NEW c \in Channels, Forward(c)
        PROVE  /\ g \in 1..Latest(m)
               /\ stdin'[m][g] = stdin[m][g] \/ Sends(c, m, g)
    <2>1. CASE UNCHANGED stdin
      BY <2>1 DEF Latest
    <2>2. CASE /\ UNCHANGED vars /\ Following(c).from # Owner(c)
               /\ Puts(Owner(c), fwd[c], Carries(c))
      <3>1. /\ Carries(c) \in Sent /\ Owner(c) \in Modules
            /\ fwd[c] \in 1..Latest(Owner(c))
        BY <1>4, Forwarding DEF Carries, Sent
      <3>2. PICK o \in Modules, f \in 1..Latest(Owner(c)), e \in Sent :
               o = Owner(c) /\ f = fwd[c] /\ e = Carries(c)
        BY <3>1
      <3>3. Puts(o, f, e) /\ f \in 1..Latest(o)
        BY <2>2, <3>2
      <3>4. stdin \in [Modules -> Seq(Seq(Sent))]
        BY <1>1 DEF TaskTypes
      <3>5. /\ \A n \in Modules : Latest(n)' = Latest(n)
            /\ \A n \in Modules : \A h \in 1..Latest(n) :
                  stdin'[n][h] = IF n = o /\ h = f THEN Append(stdin[o][f], e)
                                                   ELSE stdin[n][h]
        BY <3>3, <3>4, SentOne
      <3>6. g \in 1..Latest(m)
        BY <3>5
      <3>7. stdin'[m][g] = IF m = o /\ g = f THEN Append(stdin[m][g], e) ELSE stdin[m][g]
        BY <3>5, <3>6
      <3>8. CASE m = o /\ g = f
        BY <1>4, <2>2, <3>2, <3>6, <3>7, <3>8 DEF Sends
      <3>. QED BY <3>6, <3>7, <3>8
    <2>. QED BY <1>4, <2>1, <2>2, Forwarding
  <1>. QED BY <1>2, <1>3, <1>4, OtherSteps

\* What Sends adds, and where it comes from.
LEMMA SendsWhat ==
    ASSUME EventsTypeOK, ForwardersKnown, NEW c \in Channels, NEW m \in Modules, NEW g,
           Sends(c, m, g), NEW e, e = Carries(c)
    PROVE  /\ SentBy(m, g, e)'
           /\ UNCHANGED <<fwd, sub, inbox, open>>
           /\ taken[c] \in Nat /\ taken' = [taken EXCEPT ![c] = taken[c] + 1]
           /\ e.via = c /\ e.msg = inbox[c][taken[c] + 1]
           /\ taken[c] + 1 \in 1..Len(inbox[c])
  <1>1. TypeOK /\ TaskTypes
    BY EventsTypes
  <1>2. /\ Forward(c) /\ m = Owner(c) /\ g = fwd[c] /\ Following(c).from # m
        /\ UNCHANGED vars
    BY DEF Sends
  <1>3. /\ UNCHANGED <<fwd, sub, inbox, open>> /\ taken[c] \in Nat
        /\ taken[c] < Len(inbox[c])
        /\ taken' = [taken EXCEPT ![c] = taken[c] + 1]
    BY <1>2, Forwarding DEF vars
  <1>4. taken'[c] = taken[c] + 1
    BY <1>1, <1>3 DEF TaskTypes
  <1>5. taken[c] + 1 \in 1..Len(inbox[c])
    BY <1>1, <1>3, LenProperties DEF TypeOK
  <1>6. e.via = c /\ e.msg = Following(c)
    BY DEF Carries
  <1>7. e.msg = inbox'[c][taken'[c]] /\ taken'[c] \in 1..taken'[c]
    BY <1>3, <1>4, <1>6 DEF Following
  <1>8. SentBy(m, g, e)'
    BY <1>2, <1>3, <1>6, <1>7 DEF SentBy, Owner
  <1>. QED BY <1>3, <1>5, <1>6, <1>8 DEF Following

LEMMA SentOnStep ==
    ASSUME EventsTypeOK, SpawnPending, ForwardersKnown, SentOn, [EventsNext]_eventsVars
    PROVE  SentOn'
  <1>. SUFFICES ASSUME NEW m \in Modules, NEW g \in 1..Latest(m)',
                       NEW i \in 1..Len(stdin'[m][g])
                PROVE  SentBy(m, g, stdin[m][g][i])'
    BY DEF SentOn
  <1>. PICK e : e = stdin'[m][g][i]
    OBVIOUS
  <1>. SUFFICES SentBy(m, g, e)'
    BY DEF SentBy, Owner
  <1>1. ASSUME g \in 1..Latest(m), stdin[m][g] \in Seq(Sent),
               i \in 1..Len(stdin[m][g]), e = stdin[m][g][i]
        PROVE  SentBy(m, g, e)'
    <2>1. e \in Sent
      BY <1>1, ElementOfSeq
    <2>2. SentBy(m, g, e)
      BY <1>1 DEF SentOn
    <2>3. g \in Nat \ {0}
      BY <1>1, EventsTypes DEF TaskTypes
    <2>. QED BY <2>1, <2>2, <2>3, SentKept
  <1>2. ASSUME NEW c \in Channels, Sends(c, m, g), g \in 1..Latest(m),
               stdin[m][g] \in Seq(Sent)
        PROVE  SentBy(m, g, e)'
    <2>1. PICK x \in Sent : x = Carries(c) /\ stdin'[m][g] = Append(stdin[m][g], x)
      BY <1>2 DEF Sends
    <2>2. CASE i \in 1..Len(stdin[m][g])
      <3>1. e = stdin[m][g][i]
        BY <1>2, <2>1, <2>2, AppendProperties
      <3>. QED BY <1>1, <1>2, <2>2, <3>1
    <2>3. CASE i = Len(stdin[m][g]) + 1
      <3>1. e = x
        BY <1>2, <2>1, <2>3, AppendProperties
      <3>. QED BY <1>2, <2>1, <3>1, SendsWhat
    <2>4. i \in 1..Len(stdin[m][g]) \/ i = Len(stdin[m][g]) + 1
      BY <1>2, <2>1, AppendProperties, LenProperties
    <2>. QED BY <2>2, <2>3, <2>4
  <1>3. stdin'[m][g] # <<>>
    OBVIOUS
  <1>. QED BY <1>1, <1>2, <1>3, SentAfter

LEMMA InOrderStep ==
    ASSUME EventsTypeOK, SpawnPending, ForwardersKnown, SentOn, InOrder,
           FifoPerSubscription, [EventsNext]_eventsVars
    PROVE  InOrder'
  <1>1. TypeOK /\ TaskTypes
    BY EventsTypes
  <1>. SUFFICES ASSUME NEW m \in Modules, NEW g \in 1..Latest(m)',
                       NEW i \in 1..Len(stdin'[m][g]), NEW j \in 1..Len(stdin'[m][g]),
                       j < i, stdin'[m][g][j].via = stdin'[m][g][i].via
                PROVE  stdin'[m][g][j].msg.seq < stdin'[m][g][i].msg.seq
    BY DEF InOrder
  <1>2. ASSUME g \in 1..Latest(m), stdin[m][g] \in Seq(Sent),
               i \in 1..Len(stdin[m][g]), j \in 1..Len(stdin[m][g]),
               stdin'[m][g][i] = stdin[m][g][i], stdin'[m][g][j] = stdin[m][g][j]
        PROVE  stdin'[m][g][j].msg.seq < stdin'[m][g][i].msg.seq
    BY <1>2 DEF InOrder
  <1>3. ASSUME NEW c \in Channels, Sends(c, m, g), g \in 1..Latest(m),
               stdin[m][g] \in Seq(Sent)
        PROVE  stdin'[m][g][j].msg.seq < stdin'[m][g][i].msg.seq
    <2>1. PICK x \in Sent : x = Carries(c) /\ stdin'[m][g] = Append(stdin[m][g], x)
      BY <1>3 DEF Sends
    <2>2. /\ Len(stdin[m][g]) \in Nat /\ Len(stdin'[m][g]) = Len(stdin[m][g]) + 1
          /\ \A k \in 1..Len(stdin[m][g]) : stdin'[m][g][k] = stdin[m][g][k]
          /\ stdin'[m][g][Len(stdin[m][g]) + 1] = x
      BY <1>3, <2>1, AppendProperties, LenProperties
    <2>3. j \in 1..Len(stdin[m][g]) /\ stdin'[m][g][j] = stdin[m][g][j]
      BY <2>2
    <2>4. CASE i \in 1..Len(stdin[m][g])
      BY <1>2, <1>3, <2>2, <2>3, <2>4
    <2>5. CASE i = Len(stdin[m][g]) + 1
      <3>1. PICK y : y = stdin[m][g][j] /\ y.via = x.via
        BY <2>2, <2>3, <2>5
      <3>2. /\ x.via = c /\ x.msg = inbox[c][taken[c] + 1]
            /\ taken[c] \in Nat /\ taken[c] + 1 \in 1..Len(inbox[c])
        BY <1>3, <2>1, SendsWhat
      <3>3. SentBy(m, g, y)
        BY <1>3, <2>3, <3>1 DEF SentOn
      <3>4. PICK k \in 1..taken[c] : y.msg = inbox[c][k]
        BY <3>1, <3>2, <3>3 DEF SentBy
      <3>5. k \in 1..Len(inbox[c]) /\ k < taken[c] + 1
        BY <1>1, <3>2, LenProperties DEF TypeOK
      <3>6. inbox[c][k].seq < inbox[c][taken[c] + 1].seq
        BY <3>2, <3>5 DEF FifoPerSubscription
      <3>. QED BY <2>2, <2>3, <2>5, <3>1, <3>2, <3>4, <3>6
    <2>6. i \in 1..Len(stdin[m][g]) \/ i = Len(stdin[m][g]) + 1
      BY <2>2
    <2>. QED BY <2>4, <2>5, <2>6
  <1>4. stdin'[m][g] # <<>>
    OBVIOUS
  <1>. QED BY <1>2, <1>3, <1>4, SentAfter

LEMMA ReachedKept ==
    ASSUME EventsTypeOK, SpawnPending, ForwardersKnown, [EventsNext]_eventsVars,
           NEW c \in Channels, fwd[c] # 0
    PROVE  /\ fwd'[c] = fwd[c] /\ sub'[c] = sub[c]
           /\ \A n : Reached(c, n) => Reached(c, n)'
  <1>1. TypeOK /\ TaskTypes
    BY EventsTypes
  <1>2. PICK o \in Modules : o = Owner(c) /\ sub[c] # None /\ fwd[c] <= Latest(o)
    BY DEF ForwardersKnown
  <1>3. sub'[c] = sub[c]
    BY <1>1, <1>2, BusStep, BusKeeps
  <1>4. fwd'[c] = fwd[c] /\ Latest(o) <= Latest(o)'
    <2>1. ASSUME NEW d \in Channels, Forward(d) PROVE UNCHANGED fwd /\ Latest(o)' = Latest(o)
      BY <2>1, ForwardStill DEF Still
    <2>2. Latest(o) \in Nat
      BY <1>1 DEF TaskTypes
    <2>3. CASE OtherStep
      BY <2>3 DEF OtherStep
    <2>. QED BY <2>1, <2>2, <2>3, OtherSteps
  <1>5. PICK g \in 1..Latest(o) : g = fwd[c]
    <2>1. fwd[c] \in Nat /\ Latest(o) \in Nat
      BY <1>1, EventsAssumption DEF TaskTypes
    <2>. QED BY <1>2, <2>1
  <1>6. g \in 1..Latest(o)'
    <2>1. Latest(o) \in Nat /\ Latest(o)' \in Nat
      BY <1>1, TaskTypesStep DEF TaskTypes
    <2>. QED BY <1>4, <2>1
  <1>7. ASSUME NEW i \in 1..Len(stdin[o][g])
        PROVE  i \in 1..Len(stdin'[o][g]) /\ stdin'[o][g][i] = stdin[o][g][i]
    <2>1. CASE stdin'[o][g] = stdin[o][g]
      BY <2>1
    <2>2. ASSUME NEW d \in Channels, Sends(d, o, g), stdin[o][g] \in Seq(Sent)
          PROVE  i \in 1..Len(stdin'[o][g]) /\ stdin'[o][g][i] = stdin[o][g][i]
      <3>1. PICK x \in Sent : stdin'[o][g] = Append(stdin[o][g], x)
        BY <2>2 DEF Sends
      <3>. QED BY <2>2, <3>1, AppendProperties, LenProperties
    <2>. QED BY <1>6, <2>1, <2>2, SentAfter
  <1>8. ASSUME NEW n, Reached(c, n) PROVE Reached(c, n)'
    <2>1. PICK i \in 1..Len(stdin[o][g]) : /\ stdin[o][g][i].via = c
                                           /\ stdin[o][g][i].msg.seq = n
      BY <1>2, <1>5, <1>8 DEF Reached
    <2>2. /\ i \in 1..Len(stdin'[o][g]) /\ stdin'[o][g][i].via = c
          /\ stdin'[o][g][i].msg.seq = n
      BY <1>7, <2>1
    <2>3. sub'[c].subscriber = o /\ fwd'[c] = g
      BY <1>2, <1>3, <1>4, <1>5 DEF Owner
    <2>. QED BY <2>2, <2>3 DEF Reached, Owner
  <1>. QED BY <1>3, <1>4, <1>8

LEMMA HandedStep ==
    ASSUME EventsTypeOK, SpawnPending, ForwardersKnown, Handed, [EventsNext]_eventsVars
    PROVE  Handed'
  <1>1. TypeOK /\ TaskTypes /\ \A c \in Channels : taken[c] <= Len(inbox[c])
    BY EventsTypes
  <1>. SUFFICES ASSUME NEW c \in Channels, Forwards(c)', NEW k \in 1..taken'[c],
                       inbox'[c][k].from # Owner(c)'
                PROVE  Reached(c, inbox[c][k].seq)'
    BY DEF Handed
  <1>. PICK n : n = inbox'[c][k].seq
    OBVIOUS
  <1>. SUFFICES Reached(c, n)'
    BY DEF Reached, Owner
  <1>2. /\ Len(inbox[c]) \in Nat /\ c \in open
        /\ \A j \in 1..Len(inbox[c]) : inbox'[c][j] = inbox[c][j]
    BY <1>1, BusStep, BusKeeps DEF Forwards
  <1>3. taken[c] \in Nat /\ fwd[c] \in Nat
    BY <1>1, EventsAssumption DEF TaskTypes
  <1>4. fwd[c] # 0 => /\ fwd'[c] = fwd[c] /\ sub'[c] = sub[c]
                        /\ \A s : Reached(c, s) => Reached(c, s)'
    BY ReachedKept
  <1>5. CASE k \in 1..taken[c]
    <2>1. fwd[c] # 0
      BY <1>5 DEF ForwardersKnown
    <2>2. Forwards(c)
      BY <1>2, <1>3, <2>1 DEF Forwards
    <2>3. k \in 1..Len(inbox[c])
      BY <1>1, <1>2, <1>3, <1>5
    <2>4. inbox[c][k].from # Owner(c) /\ n = inbox[c][k].seq
      BY <1>2, <1>4, <2>1, <2>3 DEF Owner
    <2>5. Reached(c, n)
      BY <1>5, <2>2, <2>4 DEF Handed
    <2>. QED BY <1>4, <2>1, <2>5
  <1>6. CASE OtherStep
    BY <1>5, <1>6 DEF OtherStep
  <1>7. ASSUME NEW d \in Channels, Forward(d), d # c PROVE k \in 1..taken[c]
    <2>1. taken' = [taken EXCEPT ![d] = taken[d] + 1]
      BY <1>7, Forwarding
    <2>2. taken'[c] = taken[c]
      BY <1>1, <1>7, <2>1 DEF TaskTypes
    <2>. QED BY <2>2
  <1>8. ASSUME Forward(c), k \notin 1..taken[c] PROVE Reached(c, n)'
    <2>1. /\ taken' = [taken EXCEPT ![c] = taken[c] + 1] /\ UNCHANGED <<sub, inbox, fwd>>
          /\ Owner(c) \in Modules /\ fwd[c] \in 1..Latest(Owner(c)) /\ Following(c) \in Message
      BY <1>8, Forwarding
    <2>2. k = taken[c] + 1
      BY <1>1, <1>3, <1>8, <2>1 DEF TaskTypes
    <2>3. Following(c).from # Owner(c) /\ Following(c).seq = n
      BY <2>1, <2>2 DEF Following, Owner
    <2>4. Puts(Owner(c), fwd[c], Carries(c))
      BY <1>8, <2>3, Forwarding DEF Forwards
    <2>5. PICK o \in Modules : o = Owner(c)
      BY <2>1
    <2>6. PICK g \in 1..Latest(o) : g = fwd[c]
      BY <2>1, <2>5
    <2>7. PICK x \in Sent : x = Carries(c) /\ x.via = c /\ x.msg.seq = n
      <3>1. PICK f \in Message : f = Following(c)
        BY <2>1
      <3>2. Carries(c) = [msg |-> f, via |-> c]
        BY <3>1 DEF Carries
      <3>. QED BY <2>3, <3>1, <3>2 DEF Sent
    <2>8. Puts(o, g, x) /\ stdin \in [Modules -> Seq(Seq(Sent))]
      BY <1>1, <2>4, <2>5, <2>6, <2>7 DEF TaskTypes
    <2>9. stdin'[o][g] = Append(stdin[o][g], x)
      BY <2>8, SentOne
    <2>10. stdin[o][g] \in Seq(Sent)
      <3>1. stdin[o] \in Seq(Seq(Sent)) /\ g \in 1..Len(stdin[o])
        BY <2>8 DEF Latest
      <3>. QED BY <3>1, ElementOfSeq
    <2>11. PICK i \in 1..Len(stdin'[o][g]) : stdin'[o][g][i] = x
      <3>1. /\ Len(stdin[o][g]) + 1 \in 1..Len(stdin'[o][g])
            /\ stdin'[o][g][Len(stdin[o][g]) + 1] = x
        BY <2>9, <2>10, AppendProperties, LenProperties
      <3>. QED BY <3>1
    <2>12. sub'[c].subscriber = o /\ fwd'[c] = g
      BY <2>1, <2>5, <2>6 DEF Owner
    <2>. QED BY <2>7, <2>11, <2>12 DEF Reached, Owner
  <1>. QED BY <1>5, <1>6, <1>7, <1>8, OtherSteps

LEMMA ListExactStep ==
    ASSUME EventsTypeOK, SpawnPending, ForwardersKnown, ListExact, [EventsNext]_eventsVars
    PROVE  ListExact'
  <1>1. TypeOK /\ TaskTypes
    BY EventsTypes
  <1>. DEFINE Mine(m) == {x \in registry : sub[x].subscriber = m /\ fwd[x] = Latest(m)}
  <1>. SUFFICES ASSUME NEW m \in Modules, m \in up'
                PROVE  /\ Latest(m)' >= 1
                       /\ listed'[m] = {sub'[c].pattern : c \in Mine(m)'}
    <2>1. up' \subseteq Modules
      BY <1>1, TaskTypesStep DEF TaskTypes
    <2>. QED BY <2>1 DEF ListExact, Owner
  <1>2. m \in up => Latest(m) >= 1 /\ listed[m] = {sub[c].pattern : c \in Mine(m)}
    BY DEF ListExact, Owner
  <1>. HIDE DEF Mine
  <1>3. CASE Still
    <2>1. Mine(m)' = Mine(m) /\ m \in up /\ UNCHANGED <<sub, listed>> /\ Latest(m)' = Latest(m)
      BY <1>3 DEF Still, Mine
    <2>. QED BY <1>2, <2>1
  <1>4. ASSUME NEW n \in Modules, Start(n)
        PROVE  /\ Latest(m)' >= 1
               /\ listed'[m] = {sub'[c].pattern : c \in Mine(m)'}
    <2>1. /\ UNCHANGED <<registry, sub, fwd>> /\ up' = up \cup {n}
          /\ listed' = [listed EXCEPT ![n] = {}]
      BY <1>4 DEF Start, FreshInfo, vars
    <2>2. CASE m # n
      <3>1. m \in up /\ listed'[m] = listed[m] /\ Latest(m)' = Latest(m)
        BY <1>1, <1>4, <2>1, <2>2, StartTypes DEF TaskTypes
      <3>2. Mine(m)' = Mine(m)
        BY <2>1, <3>1 DEF Mine
      <3>. QED BY <1>2, <2>1, <3>1, <3>2
    <2>3. CASE m = n
      <3>1. listed'[m] = {} /\ Latest(m)' = Latest(m) + 1 /\ Latest(m) \in Nat
        BY <1>1, <1>4, <2>1, <2>3, StartTypes DEF TaskTypes
      <3>2. ASSUME NEW x \in registry, sub[x].subscriber = m PROVE fwd[x] # Latest(m) + 1
        <4>1. x \in Channels /\ fwd[x] \in Nat
          BY <1>1, EventsAssumption DEF TypeOK, TaskTypes
        <4>2. fwd[x] # 0 => fwd[x] <= Latest(sub[x].subscriber)
          BY <4>1 DEF ForwardersKnown, Owner
        <4>. QED BY <3>1, <3>2, <4>1, <4>2
      <3>3. Mine(m)' = {}
        BY <2>1, <3>1, <3>2 DEF Mine
      <3>. QED BY <3>1, <3>3
    <2>. QED BY <2>2, <2>3
  <1>5. ASSUME NEW n \in Modules, Stop(n)
        PROVE  /\ Latest(m)' >= 1
               /\ listed'[m] = {sub'[c].pattern : c \in Mine(m)'}
    <2>1. UNCHANGED <<registry, sub, fwd, listed, stdin>> /\ m \in up
      BY <1>5 DEF Stop, DropReceiver, vars
    <2>2. Mine(m)' = Mine(m) /\ Latest(m)' = Latest(m)
      BY <2>1 DEF Mine, Latest
    <2>. QED BY <1>2, <2>1, <2>2
  <1>6. ASSUME NEW n \in Modules, NEW p \in Patterns, HandlerSubscribe(n, p)
        PROVE  /\ Latest(m)' >= 1
               /\ listed'[m] = {sub'[c].pattern : c \in Mine(m)'}
    <2>1. PICK c \in Unused : Subscribe(c, n, p)
      BY <1>6 DEF HandlerSubscribe
    <2>2. /\ c \in Channels /\ sub[c] = None /\ UNCHANGED <<up, listed, fwd, stdin>>
          /\ Latest(m)' = Latest(m)
      BY <1>6 DEF HandlerSubscribe, Unused, taskVars, Latest
    <2>3. /\ sub' = [sub EXCEPT ![c] = [subscriber |-> n, pattern |-> p]]
          /\ registry' = registry \cup {c}
      BY <2>1 DEF Subscribe
    <2>4. fwd[c] = 0 /\ fwd[c] # Latest(m) /\ m \in up
      BY <1>1, <1>2, <2>2 DEF ForwardersKnown, TaskTypes
    <2>5. \A x \in registry : x # c => sub'[x] = sub[x]
      BY <1>1, <2>3 DEF TypeOK
    <2>6. Mine(m)' = Mine(m) /\ c \notin Mine(m) /\ Mine(m) \subseteq registry
      BY <2>2, <2>3, <2>4, <2>5 DEF Mine
    <2>. QED BY <1>2, <2>2, <2>4, <2>5, <2>6
  <1>7. ASSUME NEW n \in Modules, NEW p \in Patterns, HandlerUnsubscribe(n, p)
        PROVE  /\ Latest(m)' >= 1
               /\ listed'[m] = {sub'[c].pattern : c \in Mine(m)'}
    <2>1. /\ UNCHANGED <<up, sub, fwd, stdin>> /\ Latest(m)' = Latest(m)
          /\ registry' =
                registry \ {c \in registry : sub[c].subscriber = n /\ sub[c].pattern = p}
          /\ listed' = [listed EXCEPT ![n] = @ \ {p}]
      BY <1>7 DEF HandlerUnsubscribe, Unregister, taskVars, Latest
    <2>2. CASE m # n
      <3>1. Mine(m)' = Mine(m) /\ listed'[m] = listed[m]
        BY <1>1, <2>1, <2>2 DEF Mine, TaskTypes
      <3>. QED BY <1>2, <2>1, <3>1
    <2>3. CASE m = n
      <3>1. Mine(m)' = {c \in Mine(m) : sub[c].pattern # p} /\ listed'[m] = listed[m] \ {p}
        BY <1>1, <2>1, <2>3 DEF Mine, TaskTypes
      <3>. QED BY <1>2, <2>1, <3>1
    <2>. QED BY <2>2, <2>3
  <1>8. ASSUME NEW n \in Modules, HandlerSpawn(n)
        PROVE  /\ Latest(m)' >= 1
               /\ listed'[m] = {sub'[c].pattern : c \in Mine(m)'}
    <2>1. /\ UNCHANGED <<up, registry, sub, stdin>> /\ Latest(m)' = Latest(m) /\ busy[n] # None
          /\ listed' = [listed EXCEPT ![n] = @ \cup {busy[n].pattern}]
          /\ fwd' = [fwd EXCEPT ![busy[n].channel] = Latest(n)]
      BY <1>8 DEF HandlerSpawn, Listing, vars, Latest
    <2>2. PICK b \in Channels, p \in Patterns :
             b = busy[n].channel /\ p = busy[n].pattern
      BY <1>1, <2>1 DEF TaskTypes
    <2>3. /\ sub[b] = [subscriber |-> n, pattern |-> p] /\ b \in registry /\ n \in up
          /\ fwd[b] = 0
      BY <2>1, <2>2 DEF SpawnPending
    <2>4. /\ fwd'[b] = Latest(n) /\ \A x \in registry : x # b => fwd'[x] = fwd[x]
      BY <1>1, <2>1, <2>2 DEF TaskTypes, TypeOK
    <2>5. sub[b].subscriber = n /\ sub[b].pattern = p
      BY <2>3
    <2>6. CASE m # n
      <3>1. Mine(m)' = Mine(m) /\ listed'[m] = listed[m]
        BY <1>1, <2>1, <2>4, <2>5, <2>6 DEF Mine, TaskTypes
      <3>. QED BY <1>2, <2>1, <3>1
    <2>7. CASE m = n
      <3>1. Mine(m)' = Mine(m) \cup {b}
        BY <2>1, <2>3, <2>4, <2>5, <2>7 DEF Mine
      <3>2. listed'[m] = listed[m] \cup {p}
        BY <1>1, <2>1, <2>2, <2>7 DEF TaskTypes
      <3>. QED BY <1>2, <2>1, <2>5, <3>1, <3>2
    <2>. QED BY <2>6, <2>7
  <1>. QED BY <1>3, <1>4, <1>5, <1>6, <1>7, <1>8, StillSteps

-----------------------------------------------------------------------------
\* The inductive invariant: that of the bus, and the forwarders' on top of it.
Events ==
    /\ Placement /\ Delivery
    /\ EventsTypeOK /\ SpawnPending /\ ForwardersKnown
    /\ SentOn /\ InOrder /\ Handed /\ ListExact

LEMMA InitEvents == EventsInit => Events
  <1>. SUFFICES ASSUME EventsInit PROVE Events OBVIOUS
  <1>1. Init /\ EventsTypeOK
    BY EventsInitType DEF EventsInit
  <1>2. Placement /\ Delivery
    BY <1>1, InitType, InitPlacement, InitDelivery DEF Placement
  <1>3. \A m \in Modules : Latest(m) = 0 /\ busy[m] = None
    BY DEF EventsInit, Latest
  <1>4. /\ \A c \in Channels : fwd[c] = 0 /\ taken[c] = 0
        /\ up = {}
    BY DEF EventsInit
  <1>5. SpawnPending /\ ForwardersKnown /\ ListExact
    BY <1>3, <1>4 DEF SpawnPending, ForwardersKnown, ListExact
  <1>6. SentOn /\ InOrder
    BY <1>3 DEF SentOn, InOrder
  <1>7. Handed
    BY <1>4 DEF Handed, Forwards
  <1>. QED BY <1>1, <1>2, <1>5, <1>6, <1>7 DEF Events

LEMMA EventsStep == Events /\ [EventsNext]_eventsVars => Events'
  <1>. SUFFICES ASSUME Events, [EventsNext]_eventsVars PROVE Events' OBVIOUS
  <1>1. [Next]_vars
    BY BusStep DEF Events
  <1>2. Placement' /\ Delivery'
    BY <1>1, TypeStep, PlacementStep, DeliveryStep DEF Events, Placement
  <1>3. EventsTypeOK' /\ SpawnPending' /\ ForwardersKnown'
    BY EventsTypeStep, SpawnPendingStep, ForwardersKnownStep DEF Events
  <1>4. FifoPerSubscription
    BY DEF Events, Delivery
  <1>5. SentOn' /\ InOrder'
    BY <1>4, SentOnStep, InOrderStep DEF Events
  <1>6. Handed' /\ ListExact'
    BY HandedStep, ListExactStep DEF Events
  <1>. QED BY <1>2, <1>3, <1>5, <1>6 DEF Events

THEOREM EventsInvariant == EventsSpec => []Events
  BY InitEvents, EventsStep, PTL DEF EventsSpec

\* Seen from the bus, module handlers and forwarders are publishers, subscribers
\* and readers like any other: a behaviour of ModuleEvents is one of MessageBus,
\* its fairness aside (manager.rs:210-307, processor.rs).
THEOREM EventsImplementBus == EventsSpec => Init /\ [][Next]_vars
  <1>1. EventsInit => Init
    BY DEF EventsInit
  <1>2. Events /\ [EventsNext]_eventsVars => [Next]_vars
    BY BusStep DEF Events
  <1>. QED BY <1>1, <1>2, EventsInvariant, PTL DEF EventsSpec

\* Type correctness (manager.rs:226-307): every variable keeps its type, no
\* forwarder has taken more than it was sent, and only processes that were
\* started have a writer.
THEOREM EventsTypeCorrect == EventsSpec => []EventsTypeOK
  <1>1. Events => EventsTypeOK
    BY DEF Events
  <1>. QED BY <1>1, EventsInvariant, PTL

\* A process is sent only events of subscriptions it made itself, in order and
\* each once per subscription (manager.rs:249-282, registry.rs:62-75).
THEOREM OnlyItsSubscriptionsKept == EventsSpec => []OnlyItsSubscriptions
  <1>1. ASSUME Events PROVE OnlyItsSubscriptions
    <2>1. /\ Placement /\ Delivery /\ SentOn /\ InOrder /\ TypeOK /\ TaskTypes
          /\ OnlyWhatItSubscribedTo /\ \A c \in Channels : taken[c] <= Len(inbox[c])
      BY <1>1, EventsTypes DEF Events, Delivery
    <2>. DEFINE Right(m, g, i, e) ==
                   /\ Owner(e.via) = m /\ fwd[e.via] = g /\ e.msg.from # m
                   /\ joined[e.via] < e.msg.seq /\ e.msg.seq <= Until(e.via)
                   /\ InterestedIn(e.via, e.msg.seq)
                   /\ \A j \in 1..(i - 1) :
                         stdin[m][g][j].via = e.via => stdin[m][g][j].msg.seq < e.msg.seq
    <2>. SUFFICES ASSUME NEW m \in Modules, NEW g \in 1..Latest(m),
                         NEW i \in 1..Len(stdin[m][g])
                  PROVE  Right(m, g, i, stdin[m][g][i])
      BY DEF OnlyItsSubscriptions
    <2>. PICK e : e = stdin[m][g][i]
      OBVIOUS
    <2>. SUFFICES Right(m, g, i, e)
      OBVIOUS
    <2>2. SentBy(m, g, e)
      BY <2>1 DEF SentOn
    <2>3. e.via \in Channels
      <3>1. stdin[m] \in Seq(Seq(Sent)) /\ g \in 1..Len(stdin[m])
        BY <2>1 DEF TaskTypes, Latest
      <3>2. stdin[m][g] \in Seq(Sent)
        BY <3>1, ElementOfSeq
      <3>3. e \in Sent
        BY <3>2, ElementOfSeq
      <3>. QED BY <3>3 DEF Sent
    <2>4. PICK c \in Channels : c = e.via
      BY <2>3
    <2>5. PICK k \in 1..taken[c] : e.msg = inbox[c][k]
      BY <2>2, <2>4 DEF SentBy
    <2>6. k \in 1..Len(inbox[c])
      BY <2>1, LenProperties DEF TypeOK, TaskTypes
    <2>7. /\ joined[c] < e.msg.seq /\ e.msg.seq <= Until(c)
          /\ InterestedIn(c, e.msg.seq)
      BY <2>1, <2>5, <2>6 DEF OnlyWhatItSubscribedTo
    <2>8. ASSUME NEW j \in 1..(i - 1), stdin[m][g][j].via = e.via
          PROVE  stdin[m][g][j].msg.seq < e.msg.seq
      <3>1. j \in 1..Len(stdin[m][g]) /\ j < i
        <4>1. stdin[m] \in Seq(Seq(Sent)) /\ g \in 1..Len(stdin[m])
          BY <2>1 DEF TaskTypes, Latest
        <4>2. Len(stdin[m][g]) \in Nat
          BY <4>1, ElementOfSeq, LenProperties
        <4>. QED BY <4>2
      <3>. QED BY <2>1, <2>8, <3>1 DEF InOrder
    <2>. QED BY <2>2, <2>4, <2>7, <2>8 DEF SentBy
  <1>. QED BY <1>1, EventsInvariant, PTL

\* The chain from the bus to a process has no gap while its forwarder lives
\* (manager.rs:249-282).
THEOREM NothingLostOnTheWay == EventsSpec => []ForwarderMissesNothing
  <1>1. ASSUME Events PROVE ForwarderMissesNothing
    <2>1. /\ Placement /\ TypeOK /\ TaskTypes /\ NothingMissed /\ OnlyWhatItSubscribedTo
          /\ ForwardersKnown /\ Handed
      BY <1>1, EventsTypes DEF Events, Delivery
    <2>. SUFFICES ASSUME NEW c \in Channels, Forwards(c), NEW n \in (joined[c] + 1)..Until(c),
                         InterestedIn(c, n), log[n].from # Owner(c)
                  PROVE  \/ Reached(c, n)
                         \/ \E i \in (taken[c] + 1)..Len(inbox[c]) : inbox[c][i].seq = n
                         \/ c \in targets /\ n = routed
      BY DEF ForwarderMissesNothing
    <2>2. c \in open /\ sub[c] # None
      <3>1. fwd[c] \in Nat
        BY <2>1, EventsAssumption DEF TaskTypes
      <3>. QED BY <2>1, <3>1 DEF Forwards, ForwardersKnown
    <2>3. Got(c, n) \/ (c \in targets /\ n = routed)
      BY <2>1, <2>2 DEF NothingMissed
    <2>4. ASSUME Got(c, n)
          PROVE  \/ Reached(c, n)
                 \/ \E i \in (taken[c] + 1)..Len(inbox[c]) : inbox[c][i].seq = n
      <3>1. PICK i \in 1..Len(inbox[c]) : inbox[c][i].seq = n
        BY <2>4 DEF Got
      <3>2. Len(inbox[c]) \in Nat /\ taken[c] \in Nat
        BY <2>1, Places DEF TaskTypes
      <3>3. CASE i \in 1..taken[c]
        <4>1. inbox[c][i].from # Owner(c)
          BY <2>1, <3>1 DEF OnlyWhatItSubscribedTo
        <4>. QED BY <2>1, <3>1, <3>3, <4>1 DEF Handed
      <3>4. CASE i \in (taken[c] + 1)..Len(inbox[c])
        BY <3>1, <3>4
      <3>5. i \in 1..taken[c] \/ i \in (taken[c] + 1)..Len(inbox[c])
        BY <3>2
      <3>. QED BY <3>3, <3>4, <3>5
    <2>. QED BY <2>3, <2>4
  <1>. QED BY <1>1, EventsInvariant, PTL

\* Between two requests module.list shows what the process has registered
\* (manager.rs:233-239, 295-301).
THEOREM ListStaysRegistered == EventsSpec => []ListIsRegistered
  <1>1. Events => ListIsRegistered
    BY DEF Events, ListExact, ListIsRegistered, Idle
  <1>. QED BY <1>1, EventsInvariant, PTL
=============================================================================
