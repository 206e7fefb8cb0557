-------------------------- MODULE ControllerSession --------------------------
(***************************************************************************)
(* Controllers at the IPC server: each connection is a task that reads a   *)
(* request, handles it to the end and writes the response                  *)
(* (controller/server.rs); bus.subscribe and bus.recv share one map of     *)
(* receivers behind one mutex, which bus.recv keeps while it waits         *)
(* (controller/handler.rs); daemon.shutdown sends to a channel of one that *)
(* main reads once (main.rs).                                              *)
(*                                                                         *)
(* What the bus does between a publish and a subscription's channel is     *)
(* MessageBus; here the n-th event of a channel is the number n.  The      *)
(* other requests are handled without waiting, but for those of            *)
(* ModuleLifecycle.                                                        *)
(***************************************************************************)
EXTENDS Integers, Sequences, FiniteSets

CONSTANTS Conns,      \* connections open at a time
          Subs,       \* one subscriber id for each bus.subscribe
          MaxEvents,  \* bound on the events sent to subscriptions
          None

Response == [kind : {"ok", "timeout"}] \cup [kind : {"event"}, sub : Subs, n : Nat]

ASSUME SessionAssumption ==
    /\ MaxEvents \in Nat /\ IsFiniteSet(Subs)
    /\ None \notin Conns \cup Subs \cup Response

VARIABLES
    task,      \* what a connection's task is at
    arg,       \* the subscription its request is about
    away,      \* the connections whose client has gone
    reply,     \* the response to write
    made,      \* the subscriptions registered with the bus
    receivers, \* the map of receivers
    lockq,     \* its mutex: the tasks that asked for it, the holder first
    sent,      \* events the bus put into each channel
    taken,     \* events taken out
    got,       \* history: the events of a subscription clients received, in order
    lost,      \* history: events taken that no client received
    requests,  \* the shutdown channel
    main       \* "run", "stop" (the modules) or "end"

connVars == <<task, arg, away, reply>>
pollVars == <<made, receivers, lockq, sent, taken>>
mainVars == <<requests, main>>
vars == <<connVars, pollVars, got, lost, mainVars>>

Ok           == [kind |-> "ok"]
TimedOut     == [kind |-> "timeout"]
Event(s, n)  == [kind |-> "event", sub |-> s, n |-> n]

States == {"closed", "idle", "store", "lookup", "wait", "shutdown", "write"}

Init ==
    /\ task = [c \in Conns |-> "closed"]
    /\ arg = [c \in Conns |-> None]
    /\ away = {}
    /\ reply = [c \in Conns |-> None]
    /\ made = {} /\ receivers = {} /\ lockq = <<>>
    /\ sent = [s \in Subs |-> 0] /\ taken = [s \in Subs |-> 0]
    /\ got = [s \in Subs |-> <<>>]
    /\ lost = {}
    /\ requests = 0 /\ main = "run"

-----------------------------------------------------------------------------
\* tokio's Mutex: whoever asked first has it. `Seeded' operators are mistakes
\* the properties must catch.
Holds(c) == lockq # <<>> /\ Head(lockq) = c
Release  == Tail(lockq)

\* The tasks that have taken an event and not written it.
HoldsEvent == {c \in Conns : reply[c] # None /\ reply[c].kind = "event"}

\* Accept a connection. The client may leave at any time, and the task learns it
\* when it has read the requests sent before, or when it writes.
Connect(c) ==
    /\ task[c] = "closed" /\ main # "end"
    /\ task' = [task EXCEPT ![c] = "idle"]
    /\ UNCHANGED <<arg, away, reply, pollVars, got, lost, mainVars>>

Leave(c) ==
    /\ task[c] # "closed" /\ c \notin away
    /\ away' = away \cup {c}
    /\ UNCHANGED <<task, arg, reply, pollVars, got, lost, mainVars>>

\* The events that the responses of these connections carry.
Carried(C) == {<<reply[c].sub, reply[c].n>> : c \in C \cap HoldsEvent}

\* The task ends, with what it was about to write.
Close(c) ==
    /\ task' = [task EXCEPT ![c] = "closed"]
    /\ arg' = [arg EXCEPT ![c] = None]
    /\ away' = away \ {c}
    /\ reply' = [reply EXCEPT ![c] = None]
    /\ lost' = lost \cup Carried({c})

\* The client has closed the connection: the loop ends at the next read.
Hangup(c) ==
    /\ task[c] = "idle" /\ c \in away
    /\ Close(c)
    /\ UNCHANGED <<pollVars, got, mainVars>>

\* The request is handled; the task writes the response next.
Answer(c, r) ==
    /\ task' = [task EXCEPT ![c] = "write"]
    /\ reply' = [reply EXCEPT ![c] = r]
    /\ arg' = [arg EXCEPT ![c] = None]
    /\ UNCHANGED away

\* writer.send. To a client that has gone it fails, or the system takes the
\* bytes all the same and the loop goes on.
Received(c) ==
    IF reply[c].kind # "event" THEN got
    ELSE [got EXCEPT ![reply[c].sub] = Append(@, [by |-> c, n |-> reply[c].n])]

Written(c) ==
    /\ task' = [task EXCEPT ![c] = "idle"]
    /\ reply' = [reply EXCEPT ![c] = None]
    /\ UNCHANGED <<arg, away>>

Respond(c) ==
    /\ task[c] = "write"
    /\ \/ c \notin away /\ Written(c) /\ got' = Received(c) /\ UNCHANGED lost
       \/ c \in away /\ Written(c) /\ lost' = lost \cup Carried({c}) /\ UNCHANGED got
       \/ c \in away /\ Close(c) /\ UNCHANGED got
    /\ UNCHANGED <<pollVars, mainVars>>

-----------------------------------------------------------------------------
\* A request that waits for nothing.
Other(c) ==
    /\ task[c] = "idle"
    /\ Answer(c, Ok)
    /\ UNCHANGED <<pollVars, got, lost, mainVars>>

\* bus.subscribe: the bus knows the subscription before the map has the receiver.
BusSubscribe(c, s) ==
    /\ task[c] = "idle" /\ s \notin made
    /\ task' = [task EXCEPT ![c] = "store"]
    /\ arg' = [arg EXCEPT ![c] = s]
    /\ made' = made \cup {s}
    /\ lockq' = Append(lockq, c)
    /\ UNCHANGED <<away, reply, receivers, sent, taken, got, lost, mainVars>>

StoreReceiver(c) ==
    /\ task[c] = "store" /\ Holds(c)
    /\ receivers' = receivers \cup {arg[c]}
    /\ lockq' = Release
    /\ Answer(c, Ok)
    /\ UNCHANGED <<made, sent, taken, got, lost, mainVars>>

\* bus.recv, for a subscriber id some client was given, on this connection or
\* another, or for one nobody was.
BusRecv(c, s) ==
    /\ task[c] = "idle" /\ s \in receivers \cup {None}
    /\ task' = [task EXCEPT ![c] = "lookup"]
    /\ arg' = [arg EXCEPT ![c] = s]
    /\ lockq' = Append(lockq, c)
    /\ UNCHANGED <<away, reply, made, receivers, sent, taken, got, lost, mainVars>>

\* "Subscriber not found", or the wait begins.
Lookup(c) ==
    /\ task[c] = "lookup" /\ Holds(c)
    /\ IF arg[c] \in receivers
          THEN /\ task' = [task EXCEPT ![c] = "wait"]
               /\ UNCHANGED <<arg, away, reply, lockq>>
          ELSE Answer(c, Ok) /\ lockq' = Release
    /\ UNCHANGED <<made, receivers, sent, taken, got, lost, mainVars>>

SeededKeptAfterEvent == lockq
AfterEvent == Release

RecvEvent(c) ==
    /\ task[c] = "wait" /\ taken[arg[c]] < sent[arg[c]]
    /\ taken' = [taken EXCEPT ![arg[c]] = @ + 1]
    /\ Answer(c, Event(arg[c], taken[arg[c]] + 1))
    /\ lockq' = AfterEvent
    /\ UNCHANGED <<made, receivers, sent, got, lost, mainVars>>

\* tokio::time::timeout asks the channel once more before it gives up, so it
\* gives up only on an empty one and takes nothing.
SeededExpiry(s) == taken' = [taken EXCEPT ![s] = IF @ < sent[s] THEN @ + 1 ELSE @]
SeededNoTimer(s) == FALSE /\ UNCHANGED taken
Expiry(s) == taken[s] = sent[s] /\ UNCHANGED taken

RecvTimeout(c) ==
    /\ task[c] = "wait" /\ Expiry(arg[c])
    /\ Answer(c, TimedOut)
    /\ lockq' = Release
    /\ UNCHANGED <<made, receivers, sent, got, lost, mainVars>>

\* The bus sends an event to a subscription (external to the session).
BusSends(s) ==
    /\ s \in made /\ main # "end"
    /\ Cardinality({r \in Subs \X (1..MaxEvents) : r[2] <= sent[r[1]]}) < MaxEvents
    /\ sent' = [sent EXCEPT ![s] = @ + 1]
    /\ UNCHANGED <<connVars, made, receivers, lockq, taken, got, lost, mainVars>>

-----------------------------------------------------------------------------
\* daemon.shutdown: the send waits while the channel is full.
AskShutdown(c) ==
    /\ task[c] = "idle"
    /\ task' = [task EXCEPT ![c] = "shutdown"]
    /\ UNCHANGED <<arg, away, reply, pollVars, got, lost, mainVars>>

SendShutdown(c) ==
    /\ task[c] = "shutdown" /\ requests = 0
    /\ requests' = 1
    /\ Answer(c, Ok)
    /\ UNCHANGED <<pollVars, got, lost, main>>

\* main leaves its select for a request or for ctrl-c; it reads no other.
Begin ==
    /\ main = "run"
    /\ main' = "stop"
    /\ requests' \in {0, requests}
    /\ UNCHANGED <<connVars, pollVars, got, lost>>

\* The modules have stopped: the server task is aborted, the connections' select
\* ends wherever they wait, and main returns.
End ==
    /\ main = "stop"
    /\ main' = "end"
    /\ task' = [c \in Conns |-> "closed"]
    /\ arg' = [c \in Conns |-> None] /\ reply' = [c \in Conns |-> None]
    /\ away' = {} /\ lockq' = <<>>
    /\ lost' = lost \cup Carried(Conns)
    /\ UNCHANGED <<made, receivers, sent, taken, got, requests>>

Serve(c) == \/ Hangup(c) \/ Respond(c) \/ StoreReceiver(c) \/ Lookup(c)
            \/ RecvEvent(c) \/ RecvTimeout(c) \/ SendShutdown(c)

Next ==
    \/ \E c \in Conns :
          \/ Connect(c) \/ Leave(c) \/ Other(c) \/ AskShutdown(c) \/ Serve(c)
          \/ \E s \in Subs : BusSubscribe(c, s)
          \/ \E s \in Subs \cup {None} : BusRecv(c, s)
    \/ \E s \in Subs : BusSends(s)
    \/ Begin \/ End

\* Tasks are scheduled, timers expire, and main, which stops the modules in
\* bounded time (ModuleLifecycle), goes on once it has begun or been asked to.
Spec ==
    /\ Init /\ [][Next]_vars
    /\ \A c \in Conns : WF_vars(Serve(c))
    /\ WF_vars(requests > 0 /\ Begin) /\ WF_vars(End)

-----------------------------------------------------------------------------
TypeOK ==
    /\ task \in [Conns -> States]
    /\ arg \in [Conns -> Subs \cup {None}]
    /\ away \subseteq Conns
    /\ reply \in [Conns -> Response \cup {None}]
    /\ made \subseteq Subs /\ receivers \subseteq made
    /\ lockq \in Seq(Conns)
    /\ sent \in [Subs -> 0..MaxEvents] /\ taken \in [Subs -> 0..MaxEvents]
    /\ got \in [Subs -> Seq([by : Conns, n : Nat])]
    /\ lost \subseteq Subs \X Nat
    /\ requests \in {0, 1} /\ main \in {"run", "stop", "end"}
    /\ \A c \in Conns : /\ reply[c] # None <=> task[c] = "write"
                        /\ task[c] = "store" => arg[c] \in made
                        /\ task[c] = "wait" => arg[c] \in receivers
    /\ \A s \in Subs : taken[s] <= sent[s]

\* Those who asked for the mutex and have not let go of it.
Asking == {c \in Conns : task[c] \in {"store", "lookup", "wait"}}

\* The mutex of the receiver map: every task that waits for it or holds it is
\* one that is at bus.subscribe or bus.recv, once, and only the holder waits for
\* an event; nothing a client or main does leaves it held by a task that is
\* gone (handler.rs:226-228, 258-269; server.rs:53-60).
MapLocked ==
    /\ {lockq[i] : i \in 1..Len(lockq)} = Asking
    /\ Len(lockq) = Cardinality(Asking)
    /\ \A c \in Conns : task[c] = "wait" => Holds(c)

\* Every event a subscription was sent is handed out once, in order, and is
\* where it should be: still in the channel, in one response to be written, with
\* one client, or gone with a connection; a timeout that races its arrival and
\* a client that leaves while its poll waits take none, and a client polling one
\* subscription sees its events in their order (handler.rs:252-271, server.rs:92-108).
EachEventOnce ==
    \A s \in Subs :
        LET with    == {got[s][i].n : i \in 1..Len(got[s])}
            written == {n \in 1..MaxEvents : \E c \in HoldsEvent : reply[c] = Event(s, n)}
            gone    == {n \in 1..MaxEvents : <<s, n>> \in lost}
        IN  /\ with \cup written \cup gone = 1..taken[s]
            /\ Len(got[s]) + Cardinality({c \in HoldsEvent : reply[c].sub = s})
                  + Cardinality(gone) = taken[s]
            /\ \A i, j \in 1..Len(got[s]) :
                  i < j /\ got[s][i].by = got[s][j].by => got[s][i].n < got[s][j].n

\* Every request ends, by a response or with the connection, although polls
\* hold the mutex while they wait, other requests queue behind them, their
\* clients may be gone, and a daemon.shutdown that finds the channel full waits
\* for a main that reads no second one (handler.rs:224-271, 246; main.rs:101-126).
RequestEnds ==
    \A c \in Conns :
        task[c] \in States \ {"closed", "idle"} ~> task[c] \in {"closed", "idle"}
=============================================================================
