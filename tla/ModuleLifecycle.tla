-------------------------- MODULE ModuleLifecycle --------------------------
(***************************************************************************)
(* Starting, commanding and stopping modules: module/manager.rs,           *)
(* module/registry.rs and module/process.rs, driven by the controller      *)
(* connections of controller/ and by main's shutdown.                      *)
(*                                                                         *)
(* Tasks interleave at every await.  A connection serves one request at a  *)
(* time; each start spawns a process and a handler task that reads the     *)
(* process's messages.  A process hides behind a tokio mutex with a FIFO   *)
(* queue, taken by its handler (while it waits for a message), by commands *)
(* and by stop.  Handlers are aborted, which ends them where they wait.    *)
(*                                                                         *)
(* A start has a slot of its own in Procs, which names both the process it *)
(* spawns and the handler it spawns; serves[h] is the process handler h    *)
(* works for, which need not be h when two starts of one id overlap.       *)
(***************************************************************************)
EXTENDS Integers, Sequences, FiniteSets

CONSTANTS Conns,          \* controller connections
          Main,           \* the task of main.rs
          Ids,            \* module ids
          MaxStarts,      \* bound on the processes spawned
          None,
          MaxRequests,    \* bound on the requests made
          MaxOut,         \* bound on the messages a module writes
          Serialized,     \* clients wait for one another's starts and stops
          KillMayFail,    \* the kill of a process may return an error
          MaxShutdowns,   \* 0 in runs that leave the shutdown out, or 1
          StopOnExit      \* shutdown_modules_on_exit

Procs == 1..MaxStarts   \* slots for starts

ASSUME BoundsAssumption == {MaxStarts, MaxRequests, MaxOut, MaxShutdowns} \subseteq Nat
ASSUME FlagsAssumption == {Serialized, KillMayFail, StopOnExit} \subseteq BOOLEAN
ASSUME NamesAssumption ==
    /\ Main \notin Conns \cup Procs /\ Conns \cap Procs = {}
    /\ None \notin Conns \cup Procs \cup Ids \cup {Main}

Tasks == Conns \cup {Main}

VARIABLES
    \* the manager's tables
    modules,    \* registry.modules: the process registered for an id
    info,       \* registry.info: the status shown for an id
    handlers,   \* manager.handlers: the handler tracked for an id
    \* tasks of the daemon
    task,       \* what a connection, or main, is at
    todo,       \* ids registry.shutdown_all has still to stop
    sent,       \* requests made so far
    up,         \* the daemon runs
    \* handler tasks
    handler,    \* where a handler is
    abort,      \* "no", "flagged" while it may run on, "doomed" once it waits
    serves,     \* the process it works for
    \* processes
    owner,      \* the id a process was spawned for, None before that
    alive,
    out,        \* how many messages it wrote that nobody has taken
    wrote,      \* how many it wrote
    holder,     \* who holds its mutex
    waiters     \* who waits for it, first come first served

\* Not state of the code: the processes main found registered when its shutdown
\* looked, kept for the properties.
VARIABLE
    found

tableVars == <<modules, info, handlers>>
taskVars  == <<task, todo, found, sent, up>>
handVars  == <<handler, abort, serves>>
procVars  == <<owner, alive, out, wrote>>
lockVars  == <<holder, waiters>>
vars == <<tableVars, taskVars, handVars, procVars, lockVars>>

Idle == [pc |-> "idle", id |-> None, proc |-> None]

Init ==
    /\ modules = [i \in Ids |-> None]
    /\ info = [i \in Ids |-> "absent"]
    /\ handlers = [i \in Ids |-> None]
    /\ task = [t \in Tasks |-> Idle] /\ todo = {} /\ found = {} /\ up = TRUE
    /\ sent = 0
    /\ handler = [h \in Procs |-> "none"] /\ abort = [h \in Procs |-> "no"]
    /\ serves = [h \in Procs |-> None]
    /\ owner = [p \in Procs |-> None] /\ alive = [p \in Procs |-> FALSE]
    /\ out = [p \in Procs |-> 0] /\ wrote = [p \in Procs |-> 0]
    /\ holder = [p \in Procs |-> None] /\ waiters = [p \in Procs |-> <<>>]

-----------------------------------------------------------------------------
\* The mutex of process p. Who asks gets it if it is free, or waits in line.
Free(p) == holder[p] = None

Acquire(x, p) ==
    IF Free(p) THEN holder' = [holder EXCEPT ![p] = x] /\ UNCHANGED waiters
               ELSE waiters' = [waiters EXCEPT ![p] = Append(@, x)] /\ UNCHANGED holder

\* Releasing it hands it to the first in line.
Release(p) ==
    IF waiters[p] = <<>>
       THEN holder' = [holder EXCEPT ![p] = None] /\ UNCHANGED waiters
       ELSE /\ holder' = [holder EXCEPT ![p] = Head(waiters[p])]
            /\ waiters' = [waiters EXCEPT ![p] = Tail(@)]

\* The line without x, which stands in it once at most.
Leave(line, x) ==
    IF \E i \in 1..Len(line) : line[i] = x
       THEN LET at == CHOOSE i \in 1..Len(line) : line[i] = x
            IN  [i \in 1..(Len(line) - 1) |-> IF i < at THEN line[i] ELSE line[i + 1]]
       ELSE line

\* A task that is dropped gives up the mutex, or its place in the line.
GiveUp(x, p) ==
    IF holder[p] = x
       THEN Release(p)
       ELSE /\ waiters' = [waiters EXCEPT ![p] = Leave(@, x)]
            /\ UNCHANGED holder

\* Task t moves on, or is done with its id: a connection with its request, main
\* with one turn of the loop over todo.
Goto(t, pc) == task' = [task EXCEPT ![t].pc = pc]

Done(t) ==
    task' = [task EXCEPT ![t] =
                IF t = Main THEN [Idle EXCEPT !.pc = "next"] ELSE Idle]

At(t, pc) == up /\ task[t].pc = pc

\* A task that starts or stops a module.
StartPcs == {"check", "announce", "spawn", "register", "attach", "track"}
StopPcs  == {"abort", "mark", "take", "lock", "ask", "wait", "kill", "settle"}
Busy(t)  == task[t].pc \in StartPcs \cup StopPcs

-----------------------------------------------------------------------------
\* A connection takes its next request. With Serialized the clients wait for one
\* another's starts and stops; commands and main's shutdown are not held back.
Request(t, i, pc) ==
    /\ At(t, "idle") /\ t # Main /\ sent < MaxRequests
    /\ Serialized /\ pc # "find" => ~\E u \in Conns : Busy(u)
    /\ task' = [task EXCEPT ![t] = [pc |-> pc, id |-> i, proc |-> None]]
    /\ sent' = sent + 1
    /\ UNCHANGED <<tableVars, todo, found, up, handVars, procVars, lockVars>>

\* registry.start_module: the check, under the read lock of `modules' only. The
\* operators named Seeded are mistakes the properties must catch; the
\* specification does not use them.
SeededRegistered(i) == FALSE
Registered(i) == modules[i] # None

StartCheck(t) ==
    /\ At(t, "check")
    /\ IF Registered(task[t].id) THEN Done(t) ELSE Goto(t, "announce")
    /\ UNCHANGED <<tableVars, todo, found, sent, up, handVars, procVars, lockVars>>

StartAnnounce(t) ==
    /\ At(t, "announce")
    /\ info' = [info EXCEPT ![task[t].id] = "starting"]
    /\ Goto(t, "spawn")
    /\ UNCHANGED <<modules, handlers, todo, found, sent, up, handVars, procVars, lockVars>>

\* ModuleProcess::spawn; a failure returns at once and leaves `info' as it is.
StartSpawn(t) ==
    /\ At(t, "spawn")
    /\ \/ \E p \in Procs :
             /\ owner[p] = None
             /\ \A q \in Procs : owner[q] = None => p <= q
             /\ owner' = [owner EXCEPT ![p] = task[t].id]
             /\ alive' = [alive EXCEPT ![p] = TRUE]
             /\ task' = [task EXCEPT ![t].pc = "register", ![t].proc = p]
       \/ Done(t) /\ UNCHANGED <<owner, alive>>
    /\ UNCHANGED <<tableVars, todo, found, sent, up, handVars, out, wrote, lockVars>>

\* The insert replaces whatever another start has put there since the check.
StartRegister(t) ==
    /\ At(t, "register")
    /\ modules' = [modules EXCEPT ![task[t].id] = task[t].proc]
    /\ Goto(t, "attach")
    /\ UNCHANGED <<info, handlers, todo, found, sent, up, handVars, procVars, lockVars>>

\* spawn_message_handler: look the process up again and spawn its handler.
StartAttach(t) ==
    /\ At(t, "attach")
    /\ LET h == task[t].proc
           p == modules[task[t].id]
       IN  IF p = None
              THEN Done(t) /\ UNCHANGED <<handler, serves>>
              ELSE /\ handler' = [handler EXCEPT ![h] = "want"]
                   /\ serves' = [serves EXCEPT ![h] = p]
                   /\ Goto(t, "track")
    /\ UNCHANGED <<tableVars, todo, found, sent, up, abort, procVars, lockVars>>

SeededTracked(i, h) == handlers
Tracked(i, h) == [handlers EXCEPT ![i] = h]

StartTrack(t) ==
    /\ At(t, "track")
    /\ handlers' = Tracked(task[t].id, task[t].proc)
    /\ Done(t)
    /\ UNCHANGED <<modules, info, todo, found, sent, up, handVars, procVars, lockVars>>

Start(t) == \/ StartCheck(t) \/ StartAnnounce(t) \/ StartSpawn(t)
            \/ StartRegister(t) \/ StartAttach(t) \/ StartTrack(t)

-----------------------------------------------------------------------------
\* Nothing for recv() to return.
Quiet(p) == out[p] = 0 /\ alive[p]

\* JoinHandle::abort on handler h: one that waits never runs again, one that is
\* running goes on until it next has to wait.
Waiting(h) ==
    \/ \E i \in 1..Len(waiters[serves[h]]) : waiters[serves[h]][i] = h
    \/ handler[h] = "recv" /\ Quiet(serves[h])

Aborted(h) == IF handler[h] \in {"none", "ended"} THEN abort[h]
              ELSE IF Waiting(h) THEN "doomed"
              ELSE IF abort[h] = "doomed" THEN "doomed" ELSE "flagged"

\* The manager takes handles out of its map and aborts them; a handle that is only
\* dropped leaves its task running.
SeededDetached(taken) == abort
AbortEach(taken) ==
    [h \in Procs |-> IF h \in taken THEN Aborted(h) ELSE abort[h]]

\* manager.stop_module
SeededUntracked(i) == handlers
Untracked(i) == [handlers EXCEPT ![i] = None]

StopAbort(t) ==
    /\ At(t, "abort")
    /\ LET h == handlers[task[t].id]
       IN  IF h = None
              THEN UNCHANGED <<handlers, abort>>
              ELSE handlers' = Untracked(task[t].id) /\ abort' = AbortEach({h})
    /\ Goto(t, "mark")
    /\ UNCHANGED <<modules, info, todo, found, sent, up, handler, serves, procVars, lockVars>>

\* registry.stop_module: the status first, then the lookup that may fail.
StopMark(t) ==
    /\ At(t, "mark")
    /\ info' = [info EXCEPT ![task[t].id] =
                   IF @ = "absent" THEN "absent" ELSE "stopping"]
    /\ Goto(t, "take")
    /\ UNCHANGED <<modules, handlers, todo, found, sent, up, handVars, procVars, lockVars>>

SeededRemoved(i) == modules
Removed(i) == [modules EXCEPT ![i] = None]

StopTake(t) ==
    /\ At(t, "take")
    /\ LET p == modules[task[t].id]
       IN  IF p = None
              THEN Done(t) /\ UNCHANGED modules
              ELSE /\ modules' = Removed(task[t].id)
                   /\ task' = [task EXCEPT ![t].pc = "lock", ![t].proc = p]
    /\ UNCHANGED <<info, handlers, todo, found, sent, up, handVars, procVars, lockVars>>

StopLock(t) ==
    /\ At(t, "lock")
    /\ Acquire(t, task[t].proc)
    /\ Goto(t, "ask")
    /\ UNCHANGED <<tableVars, todo, found, sent, up, handVars, procVars>>

\* process.shutdown: the message goes to the writer task, which is gone once it
\* failed to write to an exited process.
StopAsk(t) ==
    /\ At(t, "ask") /\ holder[task[t].proc] = t
    /\ \/ Goto(t, "wait")
       \/ ~alive[task[t].proc] /\ Goto(t, "kill")
    /\ UNCHANGED <<tableVars, todo, found, sent, up, handVars, procVars, lockVars>>

\* child.wait() returns, or fails, or the timeout ends it.
SeededAfterWait(p) == {"settle"}
AfterWait(p) == IF alive[p] THEN {"kill"} ELSE {"settle", "kill"}

StopWait(t) ==
    /\ At(t, "wait")
    /\ \E pc \in AfterWait(task[t].proc) : Goto(t, pc)
    /\ UNCHANGED <<tableVars, todo, found, sent, up, handVars, procVars, lockVars>>

\* An error of kill ends the stop there, with the status left at "stopping".
StopKill(t) ==
    LET p == task[t].proc
    IN  /\ At(t, "kill")
        /\ \/ /\ alive' = [alive EXCEPT ![p] = FALSE]
              /\ Goto(t, "settle") /\ UNCHANGED lockVars
           \/ KillMayFail /\ Done(t) /\ Release(p) /\ UNCHANGED alive
        /\ UNCHANGED <<tableVars, todo, found, sent, up, handVars, owner, out, wrote>>

StopSettle(t) ==
    /\ At(t, "settle")
    /\ info' = [info EXCEPT ![task[t].id] = "stopped"]
    /\ Release(task[t].proc)
    /\ Done(t)
    /\ UNCHANGED <<modules, handlers, todo, found, sent, up, handVars, procVars>>

Stop(t) == \/ StopAbort(t) \/ StopMark(t) \/ StopTake(t) \/ StopLock(t) \/ StopAsk(t)
           \/ StopWait(t) \/ StopKill(t) \/ StopSettle(t)

-----------------------------------------------------------------------------
\* manager.send_command: find the process, wait for its mutex, write.
CommandFind(t) ==
    /\ At(t, "find")
    /\ LET p == modules[task[t].id]
       IN  IF p = None THEN Done(t)
                       ELSE task' = [task EXCEPT ![t].pc = "queue", ![t].proc = p]
    /\ UNCHANGED <<tableVars, todo, found, sent, up, handVars, procVars, lockVars>>

CommandLock(t) ==
    /\ At(t, "queue")
    /\ Acquire(t, task[t].proc)
    /\ Goto(t, "send")
    /\ UNCHANGED <<tableVars, todo, found, sent, up, handVars, procVars>>

\* The write succeeds or fails; the client is answered either way.
CommandSend(t) ==
    /\ At(t, "send") /\ holder[task[t].proc] = t
    /\ Release(task[t].proc)
    /\ Done(t)
    /\ UNCHANGED <<tableVars, todo, found, sent, up, handVars, procVars>>

Command(t) == CommandFind(t) \/ CommandLock(t) \/ CommandSend(t)

-----------------------------------------------------------------------------
\* The handler task: it locks the process, waits for a message with the lock
\* held, unlocks, locks again and handles the message. One that was aborted while
\* it ran is doomed at the first of these that makes it wait.
Runs(h, pc) == up /\ handler[h] = pc /\ abort[h] # "doomed"

Doom(h, waits) ==
    abort' = IF abort[h] = "flagged" /\ waits THEN [abort EXCEPT ![h] = "doomed"]
                                              ELSE abort

HandlerLock(h) ==
    /\ Runs(h, "want")
    /\ Acquire(h, serves[h])
    /\ handler' = [handler EXCEPT ![h] = "recv"]
    /\ Doom(h, ~Free(serves[h]) \/ Quiet(serves[h]))
    /\ UNCHANGED <<tableVars, taskVars, serves, procVars>>

\* process.recv(): a message, or None once the process is gone and its output read.
SeededRest(n) == n - 1
Rest(n) == IF n > 0 THEN n - 1 ELSE n

\* The guard goes out of scope with the message in hand, before the next lock.
SeededGuardKept(p) == UNCHANGED lockVars
GuardDropped(p) == Release(p)

HandlerRecv(h) ==
    LET p == serves[h]
    IN  /\ Runs(h, "recv") /\ holder[p] = h /\ ~Quiet(p)
        /\ out' = [out EXCEPT ![p] = Rest(@)]
        /\ handler' = [handler EXCEPT ![h] = IF out[p] > 0 THEN "relock" ELSE "ended"]
        /\ GuardDropped(p)
        /\ UNCHANGED <<tableVars, taskVars, abort, serves, owner, alive, wrote>>

HandlerRelock(h) ==
    /\ Runs(h, "relock")
    /\ Acquire(h, serves[h])
    /\ handler' = [handler EXCEPT ![h] = "handle"]
    /\ Doom(h, ~Free(serves[h]))
    /\ UNCHANGED <<tableVars, taskVars, serves, procVars>>

\* handle_module_message: init_complete sets the status of the id the handler
\* was started for; the other messages leave the lifecycle alone.
HandlerHandle(h) ==
    /\ Runs(h, "handle") /\ holder[serves[h]] = h
    /\ \/ info' = [info EXCEPT ![owner[h]] = "running"]
       \/ UNCHANGED info
    /\ handler' = [handler EXCEPT ![h] = "want"]
    /\ Release(serves[h])
    /\ UNCHANGED <<modules, handlers, taskVars, abort, serves, procVars>>

Handle(h) == HandlerLock(h) \/ HandlerRecv(h) \/ HandlerRelock(h) \/ HandlerHandle(h)

\* recv() also returns None when the task that reads the module's stdout has
\* stopped on a read error, which nothing makes happen.
HandlerDeaf(h) ==
    /\ Runs(h, "recv") /\ holder[serves[h]] = h /\ out[serves[h]] = 0
    /\ handler' = [handler EXCEPT ![h] = "ended"]
    /\ Release(serves[h])
    /\ UNCHANGED <<tableVars, taskVars, abort, serves, procVars>>

\* The runtime drops an aborted handler.
Cancel(h) ==
    /\ up /\ abort[h] # "no" /\ handler[h] \notin {"none", "ended"}
    /\ handler' = [handler EXCEPT ![h] = "ended"]
    /\ GiveUp(h, serves[h])
    /\ UNCHANGED <<tableVars, taskVars, abort, serves, procVars>>

-----------------------------------------------------------------------------
\* A module process writes messages and exits: when told to, by itself, or by
\* crashing.
Write(p) ==
    /\ alive[p] /\ wrote[p] < MaxOut
    /\ out' = [out EXCEPT ![p] = @ + 1]
    /\ wrote' = [wrote EXCEPT ![p] = @ + 1]
    /\ UNCHANGED <<tableVars, taskVars, handVars, owner, alive, lockVars>>

Exit(p) ==
    /\ alive[p]
    /\ alive' = [alive EXCEPT ![p] = FALSE]
    /\ UNCHANGED <<tableVars, taskVars, handVars, owner, out, wrote, lockVars>>

-----------------------------------------------------------------------------
\* main: ctrl-c or daemon.shutdown.
BeginShutdown ==
    /\ At(Main, "idle") /\ MaxShutdowns > 0
    /\ Goto(Main, IF StopOnExit THEN "drain" ELSE "exit")
    /\ UNCHANGED <<tableVars, todo, found, sent, up, handVars, procVars, lockVars>>

\* manager.shutdown_all: all tracked handlers are aborted,
ShutdownDrain ==
    /\ At(Main, "drain")
    /\ abort' = AbortEach({handlers[i] : i \in Ids})
    /\ handlers' = [i \in Ids |-> None]
    /\ Goto(Main, "snapshot")
    /\ UNCHANGED <<modules, info, todo, found, sent, up, handler, serves, procVars, lockVars>>

\* then registry.shutdown_all stops the ids it finds registered, one by one.
SeededToStop == {i \in Ids : info[i] = "running"}
ToStop == {i \in Ids : modules[i] # None}

ShutdownSnapshot ==
    /\ At(Main, "snapshot")
    /\ todo' = ToStop
    /\ found' = {modules[i] : i \in Ids} \ {None}
    /\ Goto(Main, "next")
    /\ UNCHANGED <<tableVars, sent, up, handVars, procVars, lockVars>>

ShutdownNext ==
    /\ At(Main, "next")
    /\ IF todo = {}
          THEN Goto(Main, "exit") /\ UNCHANGED todo
          ELSE \E i \in todo :
                  /\ todo' = todo \ {i}
                  /\ task' = [task EXCEPT ![Main] = [pc |-> "mark", id |-> i, proc |-> None]]
    /\ UNCHANGED <<tableVars, found, sent, up, handVars, procVars, lockVars>>

\* main returns; its runtime drops every task, and no process with them.
DaemonExit ==
    /\ At(Main, "exit")
    /\ up' = FALSE
    /\ Goto(Main, "gone")
    /\ UNCHANGED <<tableVars, todo, found, sent, handVars, procVars, lockVars>>

Shutdown == ShutdownDrain \/ ShutdownSnapshot \/ ShutdownNext \/ DaemonExit

-----------------------------------------------------------------------------
TaskStep(t) == Start(t) \/ Stop(t) \/ Command(t) \/ (t = Main /\ Shutdown)

Next ==
    \/ \E t \in Tasks : TaskStep(t)
    \/ \E t \in Conns, i \in Ids, pc \in {"check", "abort", "find"} : Request(t, i, pc)
    \/ BeginShutdown
    \/ \E h \in Procs : Handle(h) \/ HandlerDeaf(h) \/ Cancel(h)
    \/ \E p \in Procs : Write(p) \/ Exit(p)

\* The runtime polls every task that can run and drops every task aborted. No
\* client has to ask for anything and no module to write or to exit.
Fairness == /\ \A t \in Tasks : WF_vars(TaskStep(t))
            /\ \A h \in Procs : WF_vars(Handle(h)) /\ WF_vars(Cancel(h))

Spec == Init /\ [][Next]_vars /\ Fairness

-----------------------------------------------------------------------------
Status == {"absent", "starting", "running", "stopping", "stopped"}
Pcs    == StartPcs \cup StopPcs \cup {"idle", "find", "queue", "send"}
                   \cup {"drain", "snapshot", "next", "exit", "gone"}
Holders == Tasks \cup Procs

TypeOK ==
    /\ modules \in [Ids -> Procs \cup {None}]
    /\ info \in [Ids -> Status]
    /\ handlers \in [Ids -> Procs \cup {None}]
    /\ task \in [Tasks -> [pc : Pcs, id : Ids \cup {None}, proc : Procs \cup {None}]]
    /\ todo \in SUBSET Ids /\ found \in SUBSET Procs /\ up \in BOOLEAN /\ sent \in Nat
    /\ handler \in [Procs -> {"none", "want", "recv", "relock", "handle", "ended"}]
    /\ abort \in [Procs -> {"no", "flagged", "doomed"}]
    /\ serves \in [Procs -> Procs \cup {None}]
    /\ owner \in [Procs -> Ids \cup {None}]
    /\ alive \in [Procs -> BOOLEAN]
    /\ out \in [Procs -> Nat] /\ wrote \in [Procs -> Nat]
    /\ holder \in [Procs -> Holders \cup {None}]
    /\ waiters \in [Procs -> Seq(Holders)]

\* A stop, or main's shutdown, that has taken its process out of the table.
Stopping(t) == task[t].pc \in {"lock", "ask", "wait", "kill", "settle"}

\* Who has asked for the mutex of p and not given it up.
Users(p) ==
    {t \in Tasks : /\ task[t].pc \in {"ask", "wait", "kill", "settle", "send"}
                   /\ task[t].proc = p}
    \cup {h \in Procs : handler[h] \in {"recv", "handle"} /\ serves[h] = p}

\* The mutex is neither leaked nor handed to somebody who is gone: its holder and
\* those in line are the tasks that asked for it, once each, and it is free only
\* when there are none, whoever was aborted in between (manager.rs:66-99, 431;
\* registry.rs:118).
MutexCoherent ==
    \A p \in Procs :
        LET line == {waiters[p][i] : i \in 1..Len(waiters[p])}
        IN  /\ (line \cup {holder[p]}) \ {None} = Users(p)
            /\ holder[p] = None => line = {}
            /\ holder[p] \notin line /\ Cardinality(line) = Len(waiters[p])
            /\ \A t \in Tasks : task[t].proc = p /\ task[t].pc \in {"wait", "kill", "settle"}
                                   => holder[p] = t

\* However requests overlap, a process is stopped by one task at a time, and is
\* out of the table while it is: nobody can find a process that was told to shut
\* down, nor stop it twice (registry.rs:110-118).
ExclusiveStop ==
    \A t \in Tasks : Stopping(t) =>
        /\ \A i \in Ids : modules[i] # task[t].proc
        /\ \A u \in Tasks \ {t} : Stopping(u) => task[u].proc # task[t].proc

\* A handler in the map has not been aborted, and no two ids track the same one
\* (manager.rs:104-106, 386-393, 441-447).
HandlersTracked ==
    /\ \A i \in Ids : handlers[i] # None =>
          abort[handlers[i]] = "no" /\ owner[handlers[i]] = i

-----------------------------------------------------------------------------
\* What holds when clients start and stop modules one at a time (Serialized), with
\* the shutdown of main at any moment in between.

\* main's shutdown has been to id i, which a client may start anew behind its back.
Swept(i) == i \notin todo /\ \E p \in found : owner[p] = i

\* An id names at most one live process: "Module identifier (must be unique)"
\* (docs/API-Controller.md; registry.rs:51-60); a second one can only be started
\* while the shutdown is stopping the first.
UniqueProcess ==
    \A p, q \in Procs :
        alive[p] /\ alive[q] /\ owner[p] = owner[q]
            => p = q \/ (Stopping(Main) /\ task[Main].proc \in {p, q})

\* No process is lost: one that lives is in the table, or a start has it in hand
\* and will put it there, or a stop is at work on it (registry.rs:77-93, 109-131).
NoOrphan ==
    \A p \in Procs : alive[p] =>
        \/ modules[owner[p]] = p
        \/ \E t \in Tasks : task[t].proc = p /\ (task[t].pc = "register" \/ Stopping(t))

\* A module listed as stopped, or never listed, has no live process, but for one
\* started behind the shutdown (registry.rs:62-75, 124-131).
StoppedIsDead ==
    \A p \in Procs : alive[p] =>
        info[owner[p]] \notin {"stopped", "absent"} \/ Swept(owner[p])

\* A registered module that no start or stop is at work on has a handler of its
\* own, and stop can find it to abort (manager.rs:47-109).
RegisteredIsServed ==
    \A i \in Ids :
        modules[i] # None /\ task[Main].pc = "idle"
            /\ (\A c \in Conns : task[c].id = i => ~Busy(c))
            => handlers[i] # None /\ serves[handlers[i]] = modules[i]

\* When the daemon exits, every process that was registered when its shutdown
\* looked is dead, or a client's stop was still at work on it, whatever clients
\* started and stopped meanwhile (registry.rs:197-214, main.rs:113-126).
FoundAreStopped ==
    ~up => \A p \in found :
              alive[p] => \E c \in Conns : Stopping(c) /\ task[c].proc = p

\* Every stop is answered, whatever the module does and however long it holds
\* its silence, and whatever the shutdown does: the handler that waits for the
\* module with the mutex held is aborted (manager.rs:386-397, registry.rs:117-122).
StopAnswered ==
    \A c \in Conns : (task[c].pc \in StopPcs) ~> (task[c].pc \notin StopPcs \/ ~up)

\* No start is between the spawn of its handler and the insert into the map once
\* the shutdown has emptied the map.
NoneTrackedLate ==
    task[Main].pc \notin {"idle", "drain"} => \A c \in Conns : task[c].pc # "track"

\* A command that waits for the mutex is answered at the latest when its module
\* is stopped (manager.rs:431-432, registry.rs:117-134).
CommandFreedByStop ==
    []NoneTrackedLate =>
        \A c \in Conns :
            (task[c].pc = "send" /\ modules[task[c].id] # task[c].proc)
                ~> (task[c].pc # "send" \/ ~up)

\* A shutdown ends, whatever the modules do and wherever their handlers and the
\* requests of clients are, as long as no handler is tracked behind its back
\* (manager.rs:440-451, registry.rs:197-214).
ShutdownEnds == []NoneTrackedLate => ((task[Main].pc = "drain") ~> ~up)

-----------------------------------------------------------------------------
\* What the documents say and the code does not do.

\* "all modules are stopped, then the TCP server closes"
\* (docs/Scenario-Controller.md; manager.rs:440-451): a shutdown ends.
ShutdownCompletes == (task[Main].pc = "drain") ~> ~up

\* "All modules are stopped before the daemon exits" (docs/API-Controller.md;
\* registry.rs:197-214).
CleanExit == ~up /\ StopOnExit => \A p \in Procs : ~alive[p]

\* "The Daemon replies with exactly one response" (docs/API-Controller.md): a
\* command is answered (manager.rs:66-71, 431).
CommandAnswered == \A c \in Conns : (task[c].pc = "send") ~> (task[c].pc # "send" \/ ~up)
=============================================================================
