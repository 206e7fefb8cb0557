---------------------------- MODULE ModuleEvents ----------------------------
(***************************************************************************)
(* How a module gets events: its handler (module/manager.rs) turns a       *)
(* subscribe_request into a subscription of MessageBus and spawns a        *)
(* forwarder task for it; the forwarder puts what the bus sends into the   *)
(* channel of the process that asked, and the process's writer task        *)
(* (module/process.rs) writes it to its stdin.                             *)
(*                                                                         *)
(* A module that is stopped and started again is another process with      *)
(* another channel; stdin[m][g] is all that was ever put into the channel  *)
(* of m's g-th process.  ModuleLifecycle says how a stop gets there; here  *)
(* it is one step, and starts and stops of one name do not overlap.        *)
(***************************************************************************)
EXTENDS MessageBus

CONSTANTS Modules,    \* the subscribers that are modules; they publish as well
          Permitted,  \* the pairs <<module, pattern>> that pass the check
          MaxStarts   \* bound on the processes of a module

ASSUME EventsAssumption ==
    /\ Modules \subseteq Subscribers \cap Publishers
    /\ Permitted \subseteq Modules \X Patterns
    /\ MaxStarts \in Nat

VARIABLES
    up,        \* the modules with an entry in the process table
    alive,     \* those whose latest process has not exited
    busy,      \* the subscription a handler has made and not listed yet
    listed,    \* ModuleInfo::subscriptions
    fwd,       \* the process a channel's forwarder sends to, 0 before the spawn
    taken,     \* how much of a channel its forwarder has received
    stdin,
    writers    \* the processes whose writer task has not ended

moduleVars == <<up, alive, busy, listed>>
taskVars == <<fwd, taken, stdin, writers>>
eventsVars == <<vars, moduleVars, taskVars>>

EventsInit ==
    /\ Init
    /\ up = {} /\ alive = {}
    /\ busy = [m \in Modules |-> None]
    /\ listed = [m \in Modules |-> {}]
    /\ fwd = [c \in Channels |-> 0]
    /\ taken = [c \in Channels |-> 0]
    /\ stdin = [m \in Modules |-> <<>>]
    /\ writers = [m \in Modules |-> {}]

Latest(m) == Len(stdin[m])

-----------------------------------------------------------------------------
\* start_module: a process with a channel and a writer of its own, and a fresh
\* ModuleInfo. Nothing is done about what an earlier process subscribed to.
\* `Seeded' operators are mistakes the properties must catch.
SeededInfo(m) == listed
FreshInfo(m) == [listed EXCEPT ![m] = {}]

Start(m) ==
    /\ m \notin up /\ Latest(m) < MaxStarts
    /\ up' = up \cup {m} /\ alive' = alive \cup {m}
    /\ listed' = FreshInfo(m)
    /\ stdin' = [stdin EXCEPT ![m] = Append(@, <<>>)]
    /\ writers' = [writers EXCEPT ![m] = @ \cup {Latest(m) + 1}]
    /\ UNCHANGED <<vars, busy, fwd, taken>>

\* The process exits by itself.
Exit(m) ==
    /\ m \in alive
    /\ alive' = alive \ {m}
    /\ UNCHANGED <<vars, up, busy, listed, taskVars>>

\* stop_module: the handler is aborted where it waits, in the middle of a
\* request perhaps, and with it goes the receiver of a subscription that has no
\* forwarder yet; the process is gone. The bus's registry, the forwarders and
\* the list in ModuleInfo are left as they are. When the process had exited
\* before, writing the shutdown message to it ends the writer.
Stop(m) ==
    /\ m \in up /\ draft[m] = None
    /\ up' = up \ {m} /\ alive' = alive \ {m}
    /\ busy' = [busy EXCEPT ![m] = None]
    /\ writers' = [writers EXCEPT ![m] = IF m \in alive THEN @ ELSE @ \ {Latest(m)}]
    /\ IF busy[m] = None THEN UNCHANGED vars ELSE DropReceiver(busy[m].channel)
    /\ UNCHANGED <<listed, fwd, taken, stdin>>

-----------------------------------------------------------------------------
\* handle_module_message. It takes one message at a time.
Idle(m) == m \in up /\ busy[m] = None /\ draft[m] = None

HandlerPublish(m, t) ==
    /\ Idle(m) /\ Stamp(m, t)
    /\ UNCHANGED <<moduleVars, taskVars>>

\* The channels not made yet; which of them the next one is tells nothing.
Unused == {c \in Channels : sub[c] = None}

\* subscribe_request: the bus first, the list and the forwarder after a wait.
HandlerSubscribe(m, p) ==
    /\ Idle(m) /\ <<m, p>> \in Permitted
    /\ Unused # {}
    /\ LET c == CHOOSE x \in Unused : TRUE
       IN /\ Subscribe(c, m, p)
          /\ busy' = [busy EXCEPT ![m] = [channel |-> c, pattern |-> p]]
    /\ UNCHANGED <<up, alive, listed, taskVars>>

SeededListed(m, p) == listed
Listing(m, p) == [listed EXCEPT ![m] = @ \cup {p}]

HandlerSpawn(m) ==
    /\ busy[m] # None
    /\ listed' = Listing(m, busy[m].pattern)
    /\ fwd' = [fwd EXCEPT ![busy[m].channel] = Latest(m)]
    /\ busy' = [busy EXCEPT ![m] = None]
    /\ UNCHANGED <<vars, up, alive, taken, stdin, writers>>

\* unsubscribe_request: every subscription of this name to that very pattern
\* leaves the bus, and the pattern the list; a request for one that is in
\* neither changes nothing. The wait between the two shows in module.list only.
HandlerUnsubscribe(m, p) ==
    /\ Idle(m)
    /\ LET gone == {c \in registry : sub[c].subscriber = m /\ sub[c].pattern = p}
       IN  (gone # {} \/ p \in listed[m]) /\ Unregister(gone)
    /\ listed' = [listed EXCEPT ![m] = @ \ {p}]
    /\ UNCHANGED <<up, alive, busy, taskVars>>

-----------------------------------------------------------------------------
\* The forwarder of channel c.
Owner(c) == sub[c].subscriber
Forwards(c) == fwd[c] > 0 /\ c \in open
Following(c) == inbox[c][taken[c] + 1]

SeededReceived(c) == taken' = [taken EXCEPT ![c] = Len(inbox[c])]
Received(c) == taken' = [taken EXCEPT ![c] = @ + 1]

\* Its module published the event: it is left out.
Skips(c) == Following(c).from = Owner(c)
SeededBreaks(c) == DropReceiver(c)
SkipOver(c) == UNCHANGED vars

\* The process it was spawned for.
SeededCurrent(c) == Latest(Owner(c))
Destination(c) == fwd[c]

Forward(c) ==
    /\ Forwards(c) /\ taken[c] < Len(inbox[c])
    /\ Received(c)
    /\ IF Skips(c) THEN SkipOver(c) /\ UNCHANGED stdin
       ELSE IF Destination(c) \in writers[Owner(c)]
       THEN /\ stdin' = [stdin EXCEPT ![Owner(c)][Destination(c)] =
                           Append(@, [msg |-> Following(c), via |-> c])]
            /\ UNCHANGED vars
       ELSE DropReceiver(c) /\ UNCHANGED stdin
    /\ UNCHANGED <<moduleVars, fwd, writers>>

\* All senders of the channel are gone and it is empty: the loop ends.
ForwarderEnds(c) ==
    /\ Forwards(c) /\ taken[c] = Len(inbox[c])
    /\ c \notin registry \cup targets
    /\ DropReceiver(c)
    /\ UNCHANGED <<moduleVars, taskVars>>

\* The writer task of m's g-th process writes what it finds in the channel, one
\* line after the other. The write that meets a process that is gone ends it, be
\* it an event or, as long as the process table has it, a command.
WriterFails(m, g) ==
    /\ g \in writers[m]
    /\ stdin[m][g] # <<>> \/ (m \in up /\ g = Latest(m))
    /\ g < Latest(m) \/ m \notin alive
    /\ writers' = [writers EXCEPT ![m] = @ \ {g}]
    /\ UNCHANGED <<vars, moduleVars, fwd, taken, stdin>>

-----------------------------------------------------------------------------
BusAlone ==
    /\ \/ \E p \in Publishers : Publish(p)
       \/ \E p \in Publishers \ Modules, t \in Topics : Stamp(p, t)
       \/ Processor
    /\ UNCHANGED <<moduleVars, taskVars>>

ForwarderStep(c) == Forward(c) \/ ForwarderEnds(c)

EventsNext ==
    \/ BusAlone
    \/ \E m \in Modules :
          \/ Start(m) \/ Exit(m) \/ Stop(m)
          \/ \E t \in Topics : HandlerPublish(m, t)
          \/ \E p \in Patterns : HandlerSubscribe(m, p) \/ HandlerUnsubscribe(m, p)
          \/ HandlerSpawn(m)
          \/ \E g \in 1..MaxStarts : WriterFails(m, g)
    \/ \E c \in Channels : ForwarderStep(c)

\* Every task the runtime can run it runs in the end. Nobody is obliged to
\* publish, to ask for anything, or to start or stop a module.
EventsSpec ==
    /\ EventsInit /\ [][EventsNext]_eventsVars
    /\ WF_eventsVars(Processor /\ UNCHANGED <<moduleVars, taskVars>>)
    /\ \A m \in Modules : WF_eventsVars(HandlerSpawn(m))
    /\ \A c \in Channels : WF_eventsVars(ForwarderStep(c))

-----------------------------------------------------------------------------
EventsTypeOK ==
    /\ TypeOK
    /\ up \subseteq Modules /\ alive \subseteq up
    /\ busy \in [Modules -> [channel : Channels, pattern : Patterns] \cup {None}]
    /\ listed \in [Modules -> SUBSET Patterns]
    /\ fwd \in [Channels -> 0..MaxStarts] /\ taken \in [Channels -> Nat]
    /\ stdin \in [Modules -> Seq(Seq([msg : Message, via : Channels]))]
    /\ writers \in [Modules -> SUBSET (1..MaxStarts)]
    /\ \A c \in Channels : taken[c] <= Len(inbox[c])
    /\ \A m \in Modules : Latest(m) <= MaxStarts /\ writers[m] \subseteq 1..Latest(m)

Reached(c, n) ==
    \E i \in 1..Len(stdin[Owner(c)][fwd[c]]) :
       LET e == stdin[Owner(c)][fwd[c]][i] IN e.via = c /\ e.msg.seq = n

\* A process is sent only events of subscriptions it made itself, in their
\* order and each once per subscription, published by somebody else while the
\* subscription stood; what an earlier process of the same name subscribed to
\* stays with the bus and never reaches this one
\* (manager.rs:226-283, registry.rs:62-75; docs/API-Module.md).
OnlyItsSubscriptions ==
    \A m \in Modules : \A g \in 1..Latest(m) : \A i \in 1..Len(stdin[m][g]) :
        LET e == stdin[m][g][i]
        IN  /\ Owner(e.via) = m /\ fwd[e.via] = g
            /\ e.msg.from # m
            /\ joined[e.via] < e.msg.seq /\ e.msg.seq <= Until(e.via)
            /\ InterestedIn(e.via, e.msg.seq)
            /\ \A j \in 1..(i - 1) :
                  stdin[m][g][j].via = e.via => stdin[m][g][j].msg.seq < e.msg.seq

\* No gap on the way from the bus to the process: as long as the forwarder
\* lives, what was routed to its subscription, whether before it was spawned or
\* after an unsubscribe overtook it, is with the process, in the channel, or
\* being sent (manager.rs:249-282).
ForwarderMissesNothing ==
    \A c \in Channels : Forwards(c) =>
        \A n \in (joined[c] + 1)..Until(c) :
            InterestedIn(c, n) /\ log[n].from # Owner(c) =>
                \/ Reached(c, n)
                \/ \E i \in (taken[c] + 1)..Len(inbox[c]) : inbox[c][i].seq = n
                \/ c \in targets /\ n = routed

\* Between two requests the list a controller sees in module.list is what this
\* process has registered with the bus, although the two are kept apart and
\* subscriptions of earlier processes are still registered
\* (manager.rs:233-239, 295-301; registry.rs:166-174).
ListIsRegistered ==
    \A m \in Modules : Idle(m) =>
        listed[m] = {sub[c].pattern : c \in {x \in registry :
                        Owner(x) = m /\ fwd[x] = Latest(m)}}

\* Accepted, wanted by the subscription c of the running process, and not with
\* it yet.
Awaited(c, n) ==
    /\ fwd[c] > 0 /\ c \in registry
    /\ Owner(c) \in alive /\ fwd[c] = Latest(Owner(c))
    /\ n > joined[c] /\ n <= Len(log)
    /\ InterestedIn(c, n) /\ log[n].from # Owner(c)
    /\ ~Reached(c, n)

\* An event gets to every subscribed module that stays up and subscribed,
\* whatever its forwarder skipped before and whatever became of other
\* subscriptions (manager.rs:249-282, process.rs:42-53).
EventForwarded ==
    \A n \in 1..MaxMessages :
        (\E c \in Channels : Awaited(c, n)) ~> (\A c \in Channels : ~Awaited(c, n))

\* "All subscribers receive events in publish order"
\* (docs/Scenario-Module.md:356), taken for the module instead of for one of
\* its subscriptions. False for a module with two subscriptions that both match:
\* nothing orders their forwarders (manager.rs:248).
PublishOrder ==
    \A m \in Modules : \A g \in 1..Latest(m) :
        \A i, j \in 1..Len(stdin[m][g]) :
            i < j => stdin[m][g][i].msg.seq <= stdin[m][g][j].msg.seq
=============================================================================
