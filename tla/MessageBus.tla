----------------------------- MODULE MessageBus -----------------------------
(***************************************************************************)
(* The message bus of bus/processor.rs and bus/subscriber.rs: publishers   *)
(* stamp a message and then send it to one unbounded queue; one processor  *)
(* task takes the messages in turn, asks the registry for the senders that *)
(* match, and, without the registry's lock, sends a copy to each.          *)
(*                                                                         *)
(* Every subscribe call makes a channel of its own, so a channel names a   *)
(* subscription.  inbox[c] is all that was ever sent to channel c; who     *)
(* reads it, and how far, is no concern of the bus, which never waits for  *)
(* a reader.                                                               *)
(***************************************************************************)
EXTENDS Integers, Sequences, FiniteSets

CONSTANTS Publishers,   \* tasks that publish: module handlers, connections
          Subscribers,  \* subscriber ids
          Channels,     \* one for each subscribe call made
          Topics,
          Patterns,
          Matches,      \* the pairs <<pattern, topic>> that match
          MaxEvents,    \* BusConfig::max_events
          MaxMessages,  \* bound on the messages published
          None          \* no message, no subscription

ASSUME MatchesAssumption == Matches \subseteq Patterns \X Topics
ASSUME BoundsAssumption == MaxEvents \in Nat /\ MaxMessages \in Nat
ASSUME NoneAssumption ==
    /\ None \notin [id : Nat, topic : Topics, from : Publishers]
    /\ None \notin [id : Nat, topic : Topics, from : Publishers, seq : Nat]
    /\ None \notin [subscriber : Subscribers, pattern : Patterns]

VARIABLES
    nextId,    \* COUNTER of BusMessage::new
    draft,     \* the message a publisher has stamped and not sent yet
    queue,     \* the bus's channel
    pc,        \* the processor: "recv", "route" or "send"
    cur,       \* the message the processor holds
    targets,   \* the senders left to serve with it
    registry,  \* the channels registered
    sub,       \* the subscription a channel was made for
    inbox,     \* what was sent to each channel
    open,      \* the channels whose receiver exists
    log,       \* history: all messages accepted, in queue order
    routed,    \* history: how many of them were routed
    joined,    \* history: `routed' when the channel was registered
    left       \* history: `routed' when it was removed

busVars == <<nextId, draft, queue, pc, cur, targets>>
subVars == <<registry, sub, inbox, open>>
historyVars == <<log, routed, joined, left>>
vars == <<nextId, draft, queue, pc, cur, targets, registry, sub, inbox, open,
          log, routed, joined, left>>

Draft        == [id : Nat, topic : Topics, from : Publishers]
Message      == [id : Nat, topic : Topics, from : Publishers, seq : Nat]
Subscription == [subscriber : Subscribers, pattern : Patterns]

Init ==
    /\ nextId = 0
    /\ draft = [p \in Publishers |-> None]
    /\ queue = <<>>
    /\ pc = "recv" /\ cur = None /\ targets = {}
    /\ registry = {}
    /\ sub = [c \in Channels |-> None]
    /\ inbox = [c \in Channels |-> <<>>]
    /\ open = Channels
    /\ log = <<>> /\ routed = 0
    /\ joined = [c \in Channels |-> 0] /\ left = [c \in Channels |-> 0]

-----------------------------------------------------------------------------
\* BusMessage::new: the id comes from a counter all publishers share. The
\* operators named Seeded are mistakes the properties must catch; the
\* specification does not use them.
SeededStamp(p, t) ==
    /\ draft[p] = None /\ nextId < MaxMessages
    /\ draft' = [draft EXCEPT ![p] = [id |-> 0, topic |-> t, from |-> p]]
    /\ nextId' = nextId + 1
    /\ UNCHANGED <<queue, pc, cur, targets, subVars, historyVars>>
Stamp(p, t) ==
    /\ draft[p] = None /\ nextId < MaxMessages
    /\ draft' = [draft EXCEPT ![p] = [id |-> nextId, topic |-> t, from |-> p]]
    /\ nextId' = nextId + 1
    /\ UNCHANGED <<queue, pc, cur, targets, subVars, historyVars>>

\* publish: an unbounded send, in whatever order publishers get to it; the
\* queue gives the message its place, which `seq' records.
Publish(p) ==
    /\ draft[p] # None
    /\ LET m == [id |-> draft[p].id, topic |-> draft[p].topic, from |-> p,
                 seq |-> Len(log) + 1]
       IN  queue' = Append(queue, m) /\ log' = Append(log, m)
    /\ draft' = [draft EXCEPT ![p] = None]
    /\ UNCHANGED <<nextId, pc, cur, targets, subVars, routed, joined, left>>

-----------------------------------------------------------------------------
\* process_messages: receiver.recv()
SeededReceiveLatest ==
    /\ pc = "recv" /\ queue # <<>>
    /\ cur' = queue[Len(queue)] /\ queue' = SubSeq(queue, 1, Len(queue) - 1)
    /\ pc' = "route"
    /\ UNCHANGED <<nextId, draft, targets, subVars, historyVars>>
Receive ==
    /\ pc = "recv" /\ queue # <<>>
    /\ cur' = Head(queue) /\ queue' = Tail(queue)
    /\ pc' = "route"
    /\ UNCHANGED <<nextId, draft, targets, subVars, historyVars>>

\* SubscriptionRegistry::route
SeededSelected(m) == {c \in registry : TRUE}
Selected(m) == {c \in registry : <<sub[c].pattern, m.topic>> \in Matches}

\* Under the registry's lock, the senders are copied.
SeededRoute ==
    /\ pc = "route"
    /\ targets' = Selected(cur)
    /\ pc' = "send"
    /\ routed' = routed + 1
    /\ UNCHANGED <<nextId, draft, queue, cur, subVars, log, joined, left>>
Route ==
    /\ pc = "route"
    /\ targets' = Selected(cur)
    /\ IF Selected(cur) = {} THEN pc' = "recv" /\ cur' = None
                             ELSE pc' = "send" /\ UNCHANGED cur
    /\ routed' = routed + 1
    /\ UNCHANGED <<nextId, draft, queue, subVars, log, joined, left>>

\* One turn of the send loop, in the order of a hash map, which is any. The send
\* fails when the receiver is gone, and the loop goes on.
SeededRemaining(c) == IF c \in open THEN targets \ {c} ELSE {}
SeededStillToServe(c) == IF c \in open THEN targets \ {c} ELSE targets
Remaining(c) == targets \ {c}

Deliver(c) ==
    /\ pc = "send" /\ c \in targets
    /\ inbox' = IF c \in open THEN [inbox EXCEPT ![c] = Append(@, cur)]
                              ELSE inbox
    /\ targets' = Remaining(c)
    /\ IF Remaining(c) = {} THEN pc' = "recv" /\ cur' = None
                            ELSE UNCHANGED <<pc, cur>>
    /\ UNCHANGED <<nextId, draft, queue, registry, sub, open, historyVars>>

Processor == Receive \/ Route \/ \E c \in Channels : Deliver(c)

-----------------------------------------------------------------------------
\* subscribe: a fresh channel, registered under the lock; subscribing twice to
\* one pattern makes two.
Subscribe(c, s, p) ==
    /\ sub[c] = None
    /\ sub' = [sub EXCEPT ![c] = [subscriber |-> s, pattern |-> p]]
    /\ registry' = registry \cup {c}
    /\ joined' = [joined EXCEPT ![c] = routed]
    /\ UNCHANGED <<busVars, inbox, open, log, routed, left>>

\* What unsubscribe and unsubscribe_all retain is the registry without `gone'.
Unregister(gone) ==
    /\ registry' = registry \ gone
    /\ left' = [c \in Channels |-> IF c \in gone THEN routed ELSE left[c]]
    /\ UNCHANGED <<busVars, sub, inbox, open, log, routed, joined>>

Unsubscribe(s, p) ==
    LET gone == {c \in registry : sub[c].subscriber = s /\ sub[c].pattern = p}
    IN  gone # {} /\ Unregister(gone)

UnsubscribeAll(s) ==
    LET gone == {c \in registry : sub[c].subscriber = s}
    IN  gone # {} /\ Unregister(gone)

\* The owner of a subscription drops its receiver: its connection closed, or
\* its forwarding task ended. Nothing tells the registry.
DropReceiver(c) ==
    /\ sub[c] # None /\ c \in open
    /\ open' = open \ {c}
    /\ UNCHANGED <<busVars, registry, sub, inbox, historyVars>>

Next ==
    \/ \E p \in Publishers : (\E t \in Topics : Stamp(p, t)) \/ Publish(p)
    \/ Processor
    \/ \E s \in Subscribers : \/ \E c \in Channels, p \in Patterns : Subscribe(c, s, p)
                              \/ \E p \in Patterns : Unsubscribe(s, p)
                              \/ UnsubscribeAll(s)
    \/ \E c \in Channels : DropReceiver(c)

\* The processor is a task the runtime keeps scheduling, and the registry's lock
\* is never held across an await; nobody is obliged to publish or subscribe.
Spec == Init /\ [][Next]_vars /\ WF_vars(Processor)

-----------------------------------------------------------------------------
TypeOK ==
    /\ nextId \in Nat /\ routed \in Nat
    /\ draft \in [Publishers -> Draft \cup {None}]
    /\ queue \in Seq(Message) /\ log \in Seq(Message)
    /\ pc \in {"recv", "route", "send"}
    /\ cur \in Message \cup {None}
    /\ (cur = None) <=> (pc = "recv")
    /\ (targets = {}) <=> (pc # "send")
    /\ targets \in SUBSET Channels
    /\ registry \in SUBSET Channels /\ open \in SUBSET Channels
    /\ sub \in [Channels -> Subscription \cup {None}]
    /\ inbox \in [Channels -> Seq(Message)]
    /\ joined \in [Channels -> Nat] /\ left \in [Channels -> Nat]

\* The last message a subscription is owed: all that was routed before it left.
Until(c) == IF c \in registry THEN routed ELSE left[c]

InterestedIn(c, n) == <<sub[c].pattern, log[n].topic>> \in Matches

Got(c, n) == \E i \in 1..Len(inbox[c]) : inbox[c][i].seq = n

\* "All subscribers receive events in publish order", each at most once: what a
\* channel gets is in the order the queue accepted it, without repeats
\* (processor.rs:83-96; README and docs/Scenario-Module.md on FIFO).
FifoPerSubscription ==
    \A c \in Channels : \A i, j \in 1..Len(inbox[c]) :
        i < j => inbox[c][i].seq < inbox[c][j].seq

\* A channel gets only accepted messages its pattern matches, from those routed
\* while it was registered: after unsubscribe at most the one message routed
\* before it, whose sending the removal overtook, still arrives
\* (processor.rs:85-95, subscriber.rs:45-75).
OnlyWhatItSubscribedTo ==
    \A c \in Channels : \A i \in 1..Len(inbox[c]) :
        LET n == inbox[c][i].seq
        IN  /\ n \in 1..Len(log) /\ log[n] = inbox[c][i]
            /\ joined[c] < n /\ n <= Until(c)
            /\ InterestedIn(c, n)

\* No gap: a channel with a receiver has every message that was routed while it
\* was registered and that its pattern matches, but for the one being sent,
\* whatever other subscribers and failing sends did (processor.rs:83-96).
NothingMissed ==
    \A c \in open : sub[c] # None =>
        \A n \in (joined[c] + 1)..Until(c) :
            InterestedIn(c, n) => Got(c, n) \/ (c \in targets /\ n = routed)

\* One publisher's messages reach a subscriber in the order it published them,
\* although the shared counter is read before the queue is joined and ids of
\* different publishers may arrive out of order (types.rs:31-32, processor.rs:38-42).
PublisherOrder ==
    \A c \in Channels : \A i, j \in 1..Len(inbox[c]) :
        (i < j /\ inbox[c][i].from = inbox[c][j].from)
            => inbox[c][i].id < inbox[c][j].id

\* Accepted, wanted by c, and not there yet.
Owed(c, n) ==
    /\ c \in registry \cap open
    /\ n > joined[c] /\ n <= Len(log)
    /\ InterestedIn(c, n) /\ ~Got(c, n)

\* An accepted message reaches every subscription that stays, although other
\* receivers are gone and readers are slow (processor.rs:83-96).
EventuallyDelivered ==
    \A c \in Channels, n \in 1..MaxMessages : Owed(c, n) ~> ~Owed(c, n)

\* "When bus buffer is full (default: 10,000 events): New events are rejected"
\* (README.md, Overflow Handling). False with MaxEvents = 1 and MaxMessages = 2:
\* max_events is stored and never read (processor.rs:38-42).
BufferBounded == Len(queue) <= MaxEvents
=============================================================================
