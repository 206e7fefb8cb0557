----------------------- MODULE ModuleLifecycleProofs -----------------------
(***************************************************************************)
(* What holds of modules, handlers and mutexes, for every number of        *)
(* connections, ids and processes, in three layers.                        *)
(*                                                                         *)
(* Tables, however requests overlap: a process is in the custody of the    *)
(* start that spawned it, then of the table, then of the stop that took it *)
(* out, and never of two at once; the locks play no part in that.          *)
(* LockInv, however requests overlap: the mutex of a process knows exactly *)
(* the tasks that asked for it.                                            *)
(* Serial, when clients start and stop one at a time, with main's shutdown *)
(* at any moment: the id, its process and its handler agree.               *)
(* Lossless, if besides no kill fails: no live process is lost, listed as  *)
(* stopped or missed by the shutdown.                                      *)
(***************************************************************************)
EXTENDS ModuleLifecycle, FiniteSetTheorems, SequenceTheorems, TLAPS

TaskType == [pc : Pcs, id : Ids \cup {None}, proc : Procs \cup {None}]

\* The part of the type invariant the custody argument needs.
Typed ==
    /\ modules \in [Ids -> Procs \cup {None}]
    /\ handlers \in [Ids -> Procs \cup {None}]
    /\ task \in [Tasks -> TaskType]
    /\ todo \in SUBSET Ids
    /\ owner \in [Procs -> Ids \cup {None}]
    /\ abort \in [Procs -> {"no", "flagged", "doomed"}]

\* A task at work on an id knows which.
WithId == StartPcs \cup StopPcs \cup {"find", "queue", "send"}
HasId  == \A t \in Tasks : task[t].pc \in WithId => task[t].id \in Ids

\* The start that has spawned a process and not registered it.
Bringing(t) == task[t].pc = "register"

\* The start that has not tracked the handler it is to spawn.
Launching(t) == task[t].pc \in {"register", "attach", "track"}

\* Each spawned process is in one hand, under the id it was spawned for.
Custody ==
    /\ \A i \in Ids : modules[i] # None => owner[modules[i]] = i
    /\ \A t \in Tasks : Bringing(t) \/ Stopping(t) =>
          /\ task[t].proc \in Procs /\ owner[task[t].proc] = task[t].id
          /\ \A i \in Ids : modules[i] # task[t].proc
          /\ \A u \in Tasks \ {t} : Bringing(u) \/ Stopping(u) =>
                task[u].proc # task[t].proc

\* Each handler is tracked under the id of its start, is not aborted before it is
\* taken out of the map, and is not in the map before its start put it there.
Tracking ==
    /\ \A i \in Ids : handlers[i] # None =>
          owner[handlers[i]] = i /\ abort[handlers[i]] = "no"
    /\ \A p \in Procs : owner[p] = None => abort[p] = "no"
    /\ \A t \in Tasks : Launching(t) =>
          /\ task[t].proc \in Procs /\ owner[task[t].proc] = task[t].id
          /\ abort[task[t].proc] = "no"
          /\ \A i \in Ids : handlers[i] # task[t].proc
          /\ \A u \in Tasks \ {t} : Launching(u) => task[u].proc # task[t].proc

Tables == Typed /\ HasId /\ Custody /\ Tracking

-----------------------------------------------------------------------------
\* Only t moves, and still knows its id.
Moves(t) ==
    /\ task' \in [Tasks -> TaskType]
    /\ \A u \in Tasks \ {t} : task'[u] = task[u]
    /\ task'[t].pc \in WithId => task'[t].id \in Ids

SameWork(t) == task'[t].proc = task[t].proc /\ task'[t].id = task[t].id

KeepsHold(t) ==
    Bringing(t)' \/ Stopping(t)' => (Bringing(t) \/ Stopping(t)) /\ SameWork(t)

KeepsLaunch(t) == Launching(t)' => Launching(t) /\ SameWork(t)

LEMMA GotoMoves ==
    ASSUME Tables, NEW t \in Tasks, NEW pc \in Pcs, Goto(t, pc),
           pc \in WithId => task[t].pc \in WithId
    PROVE  Moves(t) /\ SameWork(t) /\ task'[t].pc = pc
  <1>1. task \in [Tasks -> TaskType] /\ (task[t].pc \in WithId => task[t].id \in Ids)
    BY DEF Tables, Typed, HasId
  <1>2. task' = [task EXCEPT ![t].pc = pc]
    BY DEF Goto
  <1>. QED BY <1>1, <1>2 DEF Moves, SameWork, TaskType

LEMMA DoneMoves ==
    ASSUME Tables, NEW t \in Tasks, Done(t)
    PROVE  Moves(t) /\ KeepsHold(t) /\ KeepsLaunch(t)
  <1>1. task \in [Tasks -> TaskType]
    BY DEF Tables, Typed
  <1>. DEFINE e == [pc |-> IF t = Main THEN "next" ELSE "idle", id |-> None, proc |-> None]
  <1>2. task' = [task EXCEPT ![t] = e] /\ e \in TaskType /\ e.pc \in {"idle", "next"}
    <2>1. e \in TaskType /\ e.pc \in {"idle", "next"}
      BY DEF TaskType, Pcs
    <2>2. e = IF t = Main THEN [Idle EXCEPT !.pc = "next"] ELSE Idle
      BY DEF Idle
    <2>. QED BY <2>1, <2>2 DEF Done
  <1>. HIDE DEF e
  <1>3. task'[t].pc \in {"idle", "next"}
    BY <1>1, <1>2
  <1>4. Moves(t)
    BY <1>1, <1>2, <1>3 DEF Moves, WithId, StartPcs, StopPcs
  <1>5. KeepsHold(t) /\ KeepsLaunch(t)
    BY <1>3 DEF KeepsHold, KeepsLaunch, Bringing, Stopping, Launching
  <1>. QED BY <1>4, <1>5

LEMMA MoveKeepsIds ==
    ASSUME Tables, NEW t \in Tasks, Moves(t)
    PROVE  HasId'
  BY DEF Tables, HasId, Moves

LEMMA MoveKeepsCustody ==
    ASSUME Tables, NEW t \in Tasks, Moves(t), KeepsHold(t), UNCHANGED <<modules, owner>>
    PROVE  Custody'
  BY DEF Tables, Custody, Moves, KeepsHold, SameWork, Bringing, Stopping

LEMMA MoveKeepsTracking ==
    ASSUME Tables, NEW t \in Tasks, Moves(t), KeepsLaunch(t),
           UNCHANGED <<handlers, owner, abort>>
    PROVE  Tracking'
  BY DEF Tables, Tracking, Moves, KeepsLaunch, SameWork, Launching

\* A task that moves on and leaves the tables alone.
LEMMA MoveKeepsTables ==
    ASSUME Tables, NEW t \in Tasks, Moves(t), KeepsHold(t), KeepsLaunch(t),
           UNCHANGED <<modules, handlers, owner, abort>>, todo' \in SUBSET Ids
    PROVE  Tables'
  <1>1. Typed'
    BY DEF Tables, Typed, Moves
  <1>. QED BY <1>1, MoveKeepsIds, MoveKeepsCustody, MoveKeepsTracking DEF Tables

-----------------------------------------------------------------------------
LEMMA SpawnKeepsTables ==
    ASSUME Tables, NEW t \in Tasks, StartSpawn(t)
    PROVE  Tables'
  <1>1. UNCHANGED <<modules, handlers, todo, abort>> /\ task[t].pc = "spawn"
    BY DEF StartSpawn, At, tableVars, handVars
  <1>2. CASE Done(t) /\ UNCHANGED owner
    BY <1>1, <1>2, DoneMoves, MoveKeepsTables DEF Tables, Typed
  <1>3. ASSUME NEW p \in Procs, owner[p] = None,
               owner' = [owner EXCEPT ![p] = task[t].id],
               task' = [task EXCEPT ![t].pc = "register", ![t].proc = p]
        PROVE  Tables'
    <2>1. task \in [Tasks -> TaskType] /\ owner \in [Procs -> Ids \cup {None}]
          /\ task[t].id \in Ids
      BY <1>1 DEF Tables, Typed, HasId, WithId, StartPcs
    <2>2. task'[t] = [pc |-> "register", id |-> task[t].id, proc |-> p]
      BY <1>3, <2>1 DEF TaskType
    <2>3. Moves(t)
      BY <1>3, <2>1, <2>2 DEF Moves, TaskType, Pcs, StartPcs
    <2>4. owner'[p] = task[t].id /\ \A q \in Procs \ {p} : owner'[q] = owner[q]
      BY <1>3, <2>1
    <2>5. None \notin Ids /\ None \notin Procs
      BY NamesAssumption
    <2>6. Typed'
      BY <1>1, <1>3, <2>1, <2>3 DEF Tables, Typed, Moves
    <2>7. /\ \A i \in Ids : modules[i] # p /\ handlers[i] # p
          /\ \A u \in Tasks : Bringing(u) \/ Stopping(u) \/ Launching(u) => task[u].proc # p
      <3>1. \A i \in Ids : modules[i] # p /\ handlers[i] # p
        BY <1>3, <2>1, <2>5 DEF Tables, Custody, Tracking
      <3>2. ASSUME NEW u \in Tasks, Bringing(u) \/ Stopping(u) \/ Launching(u)
            PROVE  task[u].proc # p
        <4>1. owner[task[u].proc] = task[u].id
          BY <3>2 DEF Tables, Custody, Tracking
        <4>2. task[u].id \in Ids
          BY <3>2 DEF Tables, HasId, Bringing, Stopping, Launching, WithId, StartPcs, StopPcs
        <4>. QED BY <1>3, <2>5, <4>1, <4>2
      <3>. QED BY <3>1, <3>2
    <2>8. Custody'
      <3>1. \A i \in Ids : modules'[i] # None => owner'[modules'[i]] = i
        BY <1>1, <2>4, <2>7 DEF Tables, Typed, Custody
      <3>2. ASSUME NEW u \in Tasks, Bringing(u)' \/ Stopping(u)'
            PROVE  /\ task'[u].proc \in Procs /\ owner'[task'[u].proc] = task'[u].id
                   /\ \A i \in Ids : modules'[i] # task'[u].proc
                   /\ \A w \in Tasks \ {u} : Bringing(w)' \/ Stopping(w)' =>
                         task'[w].proc # task'[u].proc
        <4>1. CASE u = t
          BY <1>1, <2>2, <2>3, <2>4, <2>7, <4>1 DEF Moves, Bringing, Stopping
        <4>2. CASE u # t
          BY <1>1, <2>2, <2>3, <2>4, <2>7, <3>2, <4>2
             DEF Moves, Bringing, Stopping, Tables, Custody
        <4>. QED BY <4>1, <4>2
      <3>. QED BY <3>1, <3>2 DEF Custody
    <2>9. Tracking'
      <3>1. \A i \in Ids : handlers'[i] # None =>
                owner'[handlers'[i]] = i /\ abort'[handlers'[i]] = "no"
        BY <1>1, <2>4, <2>7 DEF Tables, Typed, Tracking
      <3>2. \A q \in Procs : owner'[q] = None => abort'[q] = "no"
        BY <1>1, <2>1, <2>4, <2>5 DEF Tables, Tracking
      <3>3. abort[p] = "no"
        BY <1>3 DEF Tables, Tracking
      <3>4. ASSUME NEW u \in Tasks, Launching(u)'
            PROVE  /\ task'[u].proc \in Procs /\ owner'[task'[u].proc] = task'[u].id
                   /\ abort'[task'[u].proc] = "no"
                   /\ \A i \in Ids : handlers'[i] # task'[u].proc
                   /\ \A w \in Tasks \ {u} : Launching(w)' => task'[w].proc # task'[u].proc
        <4>1. CASE u = t
          BY <1>1, <2>2, <2>3, <2>4, <2>7, <3>3, <4>1 DEF Moves, Launching
        <4>2. CASE u # t
          BY <1>1, <2>2, <2>3, <2>4, <2>7, <3>4, <4>2 DEF Moves, Launching, Tables, Tracking
        <4>. QED BY <4>1, <4>2
      <3>. QED BY <3>1, <3>2, <3>4 DEF Tracking
    <2>. QED BY <2>3, <2>6, <2>8, <2>9, MoveKeepsIds DEF Tables
  <1>. QED BY <1>1, <1>2, <1>3 DEF StartSpawn

LEMMA RegisterKeepsTables ==
    ASSUME Tables, NEW t \in Tasks, StartRegister(t)
    PROVE  Tables'
  <1>1. /\ UNCHANGED <<handlers, todo, owner, abort>> /\ Bringing(t) /\ Goto(t, "attach")
        /\ modules' = [modules EXCEPT ![task[t].id] = task[t].proc]
    BY DEF StartRegister, At, procVars, handVars, Bringing
  <1>2. Moves(t) /\ SameWork(t) /\ task'[t].pc = "attach"
    BY <1>1, GotoMoves DEF Pcs, WithId, StartPcs, Bringing
  <1>3. Typed'
    BY <1>1, <1>2 DEF Tables, Typed, Moves, TaskType
  <1>4. Tracking'
    BY <1>1, <1>2, MoveKeepsTracking DEF KeepsLaunch, Launching, Bringing
  <1>5. task[t].id \in Ids /\ task[t].proc \in Procs /\ owner[task[t].proc] = task[t].id
    BY <1>1 DEF Tables, HasId, Custody, Bringing, WithId, StartPcs
  <1>6. /\ modules'[task[t].id] = task[t].proc
        /\ \A i \in Ids \ {task[t].id} : modules'[i] = modules[i]
    BY <1>1, <1>5 DEF Tables, Typed
  <1>7. Custody'
    <2>1. \A i \in Ids : modules'[i] # None => owner'[modules'[i]] = i
      BY <1>1, <1>5, <1>6 DEF Tables, Custody
    <2>2. ASSUME NEW u \in Tasks, Bringing(u)' \/ Stopping(u)'
          PROVE  u # t /\ (Bringing(u) \/ Stopping(u)) /\ task'[u] = task[u]
      BY <1>2, <2>2 DEF Moves, Bringing, Stopping
    <2>3. ASSUME NEW u \in Tasks, Bringing(u)' \/ Stopping(u)', NEW i \in Ids
          PROVE  modules'[i] # task'[u].proc
      BY <1>1, <1>6, <2>2, <2>3 DEF Tables, Custody
    <2>. QED BY <1>1, <2>1, <2>2, <2>3 DEF Tables, Custody
  <1>. QED BY <1>2, <1>3, <1>4, <1>7, MoveKeepsIds DEF Tables

LEMMA TakeKeepsTables ==
    ASSUME Tables, NEW t \in Tasks, StopTake(t)
    PROVE  Tables'
  <1>. DEFINE i == task[t].id  p == modules[task[t].id]
  <1>1. UNCHANGED <<handlers, todo, owner, abort>> /\ task[t].pc = "take"
    BY DEF StopTake, At, handVars, procVars
  <1>2. CASE Done(t) /\ UNCHANGED modules
    BY <1>1, <1>2, DoneMoves, MoveKeepsTables DEF Tables, Typed
  <1>3. CASE /\ p # None /\ modules' = [modules EXCEPT ![i] = None]
             /\ task' = [task EXCEPT ![t].pc = "lock", ![t].proc = p]
    <2>1. i \in Ids /\ p \in Procs /\ owner[p] = i /\ task \in [Tasks -> TaskType]
      BY <1>1, <1>3 DEF Tables, Typed, HasId, Custody, WithId, StopPcs
    <2>2. task'[t] = [pc |-> "lock", id |-> i, proc |-> p]
      BY <1>3, <2>1 DEF TaskType
    <2>3. Moves(t)
      BY <1>3, <2>1, <2>2 DEF Moves, TaskType, Pcs, StopPcs
    <2>4. Typed'
      BY <1>1, <1>3, <2>3 DEF Tables, Typed, Moves
    <2>5. Tracking'
      BY <1>1, <2>2, <2>3, MoveKeepsTracking DEF KeepsLaunch, Launching
    <2>6. modules'[i] = None /\ \A j \in Ids \ {i} : modules'[j] = modules[j]
      BY <1>3, <2>1 DEF Tables, Typed
    <2>7. None \notin Procs
      BY NamesAssumption
    <2>8. Custody'
      <3>1. \A j \in Ids : modules'[j] # None => owner'[modules'[j]] = j
        BY <1>1, <2>6 DEF Tables, Custody
      <3>2. \A j \in Ids : modules'[j] # p
        BY <2>1, <2>6, <2>7 DEF Tables, Custody
      <3>3. ASSUME NEW u \in Tasks, u # t, Bringing(u)' \/ Stopping(u)'
            PROVE  /\ Bringing(u) \/ Stopping(u)
                   /\ task'[u] = task[u] /\ task[u].proc # p /\ task[u].proc \in Procs
        BY <2>1, <2>3, <3>3 DEF Moves, Bringing, Stopping, Tables, Custody
      <3>4. ASSUME NEW u \in Tasks, Bringing(u)' \/ Stopping(u)'
            PROVE  /\ task'[u].proc \in Procs /\ owner'[task'[u].proc] = task'[u].id
                   /\ \A j \in Ids : modules'[j] # task'[u].proc
                   /\ \A w \in Tasks \ {u} : Bringing(w)' \/ Stopping(w)' =>
                         task'[w].proc # task'[u].proc
        <4>1. CASE u = t
          BY <1>1, <2>1, <2>2, <3>2, <3>3, <4>1
        <4>2. CASE u # t
          <5>1. \A j \in Ids : modules'[j] # task'[u].proc
            BY <2>6, <2>7, <3>3, <3>4, <4>2 DEF Tables, Custody
          <5>. QED BY <1>1, <2>2, <3>3, <3>4, <4>2, <5>1 DEF Tables, Custody
        <4>. QED BY <4>1, <4>2
      <3>. QED BY <3>1, <3>4 DEF Custody
    <2>. QED BY <2>3, <2>4, <2>5, <2>8, MoveKeepsIds DEF Tables
  <1>. QED BY <1>1, <1>2, <1>3 DEF StopTake, Removed

LEMMA TrackKeepsTables ==
    ASSUME Tables, NEW t \in Tasks, StartTrack(t)
    PROVE  Tables'
  <1>1. /\ UNCHANGED <<modules, todo, owner, abort>> /\ Done(t) /\ task[t].pc = "track"
        /\ handlers' = [handlers EXCEPT ![task[t].id] = task[t].proc]
    BY DEF StartTrack, Tracked, At, procVars, handVars
  <1>2. Moves(t) /\ KeepsHold(t) /\ KeepsLaunch(t)
    BY <1>1, DoneMoves
  <1>3. Typed'
    BY <1>1, <1>2 DEF Tables, Typed, Moves, TaskType
  <1>4. Custody'
    BY <1>1, <1>2, MoveKeepsCustody
  <1>5. Launching(t) /\ ~Launching(t)'
    BY <1>1, <1>2 DEF Launching, Done, Tables, Typed, Idle
  <1>6. /\ task[t].id \in Ids /\ task[t].proc \in Procs
        /\ owner[task[t].proc] = task[t].id /\ abort[task[t].proc] = "no"
    BY <1>1, <1>5 DEF Tables, HasId, Tracking, WithId, StartPcs
  <1>7. /\ handlers'[task[t].id] = task[t].proc
        /\ \A i \in Ids \ {task[t].id} : handlers'[i] = handlers[i]
    BY <1>1, <1>6 DEF Tables, Typed
  <1>8. Tracking'
    <2>1. \A i \in Ids : handlers'[i] # None =>
              owner'[handlers'[i]] = i /\ abort'[handlers'[i]] = "no"
      BY <1>1, <1>6, <1>7 DEF Tables, Tracking
    <2>2. ASSUME NEW u \in Tasks, Launching(u)'
          PROVE  u # t /\ Launching(u) /\ task'[u] = task[u]
      BY <1>2, <1>5, <2>2 DEF Moves, Launching
    <2>3. ASSUME NEW u \in Tasks, Launching(u)', NEW i \in Ids
          PROVE  handlers'[i] # task'[u].proc
      BY <1>5, <1>7, <2>2, <2>3 DEF Tables, Tracking
    <2>. QED BY <1>1, <2>1, <2>2, <2>3 DEF Tables, Tracking
  <1>. QED BY <1>2, <1>3, <1>4, <1>8, MoveKeepsIds DEF Tables

\* What aborting handlers leaves alone.
LEMMA AbortEffect ==
    ASSUME Tables, NEW taken
    PROVE  /\ AbortEach(taken) \in [Procs -> {"no", "flagged", "doomed"}]
           /\ \A p \in Procs \ taken : AbortEach(taken)[p] = abort[p]
  BY DEF Tables, Typed, AbortEach, Aborted

LEMMA AbortKeepsTables ==
    ASSUME Tables, NEW t \in Tasks, StopAbort(t)
    PROVE  Tables'
  <1>. DEFINE i == task[t].id  h == handlers[task[t].id]
  <1>1. /\ UNCHANGED <<modules, todo, owner>> /\ Goto(t, "mark") /\ task[t].pc = "abort"
        /\ \/ h = None /\ UNCHANGED <<handlers, abort>>
           \/ h # None /\ handlers' = [handlers EXCEPT ![i] = None] /\ abort' = AbortEach({h})
    BY DEF StopAbort, Untracked, At, procVars
  <1>2. Moves(t) /\ SameWork(t) /\ task'[t].pc = "mark"
    BY <1>1, GotoMoves DEF Pcs, WithId, StopPcs
  <1>3. KeepsHold(t) /\ KeepsLaunch(t)
    BY <1>2 DEF KeepsHold, KeepsLaunch, Bringing, Stopping, Launching
  <1>4. CASE UNCHANGED <<handlers, abort>>
    BY <1>1, <1>2, <1>3, <1>4, MoveKeepsTables DEF Tables, Typed
  <1>5. CASE h # None /\ handlers' = [handlers EXCEPT ![i] = None] /\ abort' = AbortEach({h})
    <2>1. i \in Ids /\ h \in Procs /\ owner[h] = i
      BY <1>1, <1>5 DEF Tables, Typed, HasId, Tracking, WithId, StopPcs
    <2>2. handlers'[i] = None /\ \A j \in Ids \ {i} : handlers'[j] = handlers[j]
      BY <1>5, <2>1 DEF Tables, Typed
    <2>3. \A p \in Procs \ {h} : abort'[p] = abort[p]
      BY <1>5, AbortEffect
    <2>4. Typed'
      BY <1>1, <1>2, <1>5, AbortEffect DEF Tables, Typed, Moves
    <2>5. None \notin Ids /\ None \notin Procs
      BY NamesAssumption
    <2>6. Tracking'
      <3>1. \A j \in Ids : handlers'[j] # None =>
                owner'[handlers'[j]] = j /\ abort'[handlers'[j]] = "no"
        BY <1>1, <2>1, <2>2, <2>3 DEF Tables, Typed, Tracking
      <3>2. \A p \in Procs : owner'[p] = None => abort'[p] = "no"
        BY <1>1, <2>1, <2>3, <2>5 DEF Tables, Tracking
      <3>3. ASSUME NEW u \in Tasks, Launching(u)'
            PROVE  Launching(u) /\ task'[u].proc = task[u].proc /\ task'[u].id = task[u].id
        BY <1>2, <1>3, <3>3 DEF Moves, KeepsLaunch, SameWork, Launching
      <3>4. ASSUME NEW u \in Tasks, Launching(u)'
            PROVE  /\ task'[u].proc \in Procs /\ owner'[task'[u].proc] = task'[u].id
                   /\ abort'[task'[u].proc] = "no"
                   /\ \A j \in Ids : handlers'[j] # task'[u].proc
        <4>1. task[u].proc \in Procs \ {h}
          BY <2>1, <3>3, <3>4 DEF Tables, Tracking
        <4>. QED BY <1>1, <2>2, <2>3, <2>5, <3>3, <3>4, <4>1 DEF Tables, Tracking
      <3>. QED BY <3>1, <3>2, <3>3, <3>4 DEF Tables, Tracking
    <2>. QED BY <1>1, <1>2, <1>3, <2>4, <2>6, MoveKeepsIds, MoveKeepsCustody DEF Tables
  <1>. QED BY <1>1, <1>4, <1>5

LEMMA DrainKeepsTables ==
    ASSUME Tables, ShutdownDrain
    PROVE  Tables'
  <1>. DEFINE taken == {handlers[i] : i \in Ids}
  <1>1. /\ UNCHANGED <<modules, todo, owner>> /\ Goto(Main, "snapshot")
        /\ task[Main].pc = "drain" /\ Main \in Tasks
        /\ handlers' = [i \in Ids |-> None] /\ abort' = AbortEach(taken)
    BY DEF ShutdownDrain, At, procVars, Tasks
  <1>2. Moves(Main) /\ SameWork(Main) /\ task'[Main].pc = "snapshot"
    BY <1>1, GotoMoves DEF Pcs, WithId, StartPcs, StopPcs
  <1>3. KeepsHold(Main) /\ KeepsLaunch(Main)
    BY <1>2 DEF KeepsHold, KeepsLaunch, Bringing, Stopping, Launching
  <1>4. Typed'
    BY <1>1, <1>2, AbortEffect DEF Tables, Typed, Moves
  <1>5. None \notin Ids /\ None \notin Procs
    BY NamesAssumption
  <1>6. \A p \in Procs \ taken : abort'[p] = abort[p]
    BY <1>1, AbortEffect
  <1>7. Tracking'
    <2>1. \A p \in Procs : owner'[p] = None => abort'[p] = "no"
      <3>1. \A p \in Procs : owner[p] = None => p \notin taken
        BY <1>5 DEF Tables, Tracking
      <3>. QED BY <1>1, <1>6, <3>1 DEF Tables, Tracking
    <2>2. ASSUME NEW u \in Tasks, Launching(u)'
          PROVE  Launching(u) /\ task'[u].proc = task[u].proc /\ task'[u].id = task[u].id
      BY <1>2, <1>3, <2>2 DEF Moves, KeepsLaunch, SameWork, Launching
    <2>3. ASSUME NEW u \in Tasks, Launching(u)'
          PROVE  /\ task'[u].proc \in Procs /\ owner'[task'[u].proc] = task'[u].id
                 /\ abort'[task'[u].proc] = "no"
                 /\ \A j \in Ids : handlers'[j] # task'[u].proc
      <3>1. task[u].proc \in Procs \ taken
        BY <2>2, <2>3 DEF Tables, Tracking
      <3>. QED BY <1>1, <1>5, <1>6, <2>2, <2>3, <3>1 DEF Tables, Tracking
    <2>. QED BY <1>1, <2>1, <2>2, <2>3 DEF Tables, Tracking
  <1>. QED BY <1>1, <1>2, <1>3, <1>4, <1>7, MoveKeepsIds, MoveKeepsCustody DEF Tables

-----------------------------------------------------------------------------
\* The other steps of a start, a stop, a command and the shutdown.
LEMMA OtherTaskSteps ==
    ASSUME Tables, NEW t \in Tasks,
           \/ StartCheck(t) \/ StartAnnounce(t) \/ StartAttach(t)
           \/ StopMark(t) \/ StopLock(t) \/ StopAsk(t) \/ StopWait(t)
           \/ StopKill(t) \/ StopSettle(t) \/ Command(t)
           \/ t = Main /\ (BeginShutdown \/ ShutdownSnapshot \/ ShutdownNext \/ DaemonExit)
    PROVE  Tables'
  <1>. DEFINE OnlyTask == UNCHANGED <<modules, handlers, todo, owner, abort>>
  <1>1. ASSUME OnlyTask, NEW pc \in Pcs, Goto(t, pc),
               pc \in WithId => task[t].pc \in WithId,
               pc \in {"lock", "ask", "wait", "kill", "settle"} => Stopping(t),
               pc \in {"register", "attach", "track"} => Launching(t),
               pc # "register"
        PROVE  Tables'
    <2>1. Moves(t) /\ SameWork(t) /\ task'[t].pc = pc
      BY <1>1, GotoMoves
    <2>2. KeepsHold(t) /\ KeepsLaunch(t)
      BY <1>1, <2>1 DEF KeepsHold, KeepsLaunch, Bringing, Stopping, Launching
    <2>. QED BY <1>1, <2>1, <2>2, MoveKeepsTables DEF Tables, Typed
  <1>2. ASSUME OnlyTask, Done(t) PROVE Tables'
    BY <1>2, DoneMoves, MoveKeepsTables DEF Tables, Typed
  <1>. USE DEF At, tableVars, handVars, procVars
  <1>3. CASE StartCheck(t)
    BY <1>1, <1>2, <1>3 DEF StartCheck, Pcs, WithId, StartPcs
  <1>4. CASE StartAnnounce(t)
    BY <1>1, <1>4 DEF StartAnnounce, Pcs, WithId, StartPcs
  <1>5. CASE StartAttach(t)
    <2>1. OnlyTask /\ task[t].pc = "attach" /\ (Done(t) \/ Goto(t, "track"))
      BY <1>5 DEF StartAttach
    <2>. QED BY <1>1, <1>2, <2>1 DEF Pcs, WithId, StartPcs, Launching
  <1>6. CASE StopMark(t)
    BY <1>1, <1>6 DEF StopMark, Pcs, WithId, StopPcs
  <1>7. CASE StopLock(t)
    BY <1>1, <1>7 DEF StopLock, Pcs, WithId, StopPcs, Stopping
  <1>8. CASE StopAsk(t)
    BY <1>1, <1>8 DEF StopAsk, Pcs, WithId, StopPcs, Stopping
  <1>9. CASE StopWait(t)
    BY <1>1, <1>9 DEF StopWait, AfterWait, Pcs, WithId, StopPcs, Stopping
  <1>10. CASE StopKill(t)
    BY <1>1, <1>2, <1>10 DEF StopKill, Pcs, WithId, StopPcs, Stopping
  <1>11. CASE StopSettle(t)
    BY <1>2, <1>11 DEF StopSettle
  <1>12. CASE Command(t)
    <2>1. CASE CommandFind(t)
      <3>1. OnlyTask /\ task[t].pc = "find"
        BY <2>1 DEF CommandFind
      <3>2. CASE Done(t)
        BY <1>2, <3>1, <3>2
      <3>3. CASE task' = [task EXCEPT ![t].pc = "queue", ![t].proc = modules[task[t].id]]
        <4>1. task \in [Tasks -> TaskType] /\ task[t].id \in Ids
              /\ modules[task[t].id] \in Procs \cup {None}
          BY <3>1 DEF Tables, Typed, HasId, WithId
        <4>2. task'[t] = [pc |-> "queue", id |-> task[t].id, proc |-> modules[task[t].id]]
          BY <3>3, <4>1 DEF TaskType
        <4>3. Moves(t)
          BY <3>3, <4>1, <4>2 DEF Moves, TaskType, Pcs
        <4>4. KeepsHold(t) /\ KeepsLaunch(t)
          BY <4>2 DEF KeepsHold, KeepsLaunch, Bringing, Stopping, Launching
        <4>. QED BY <3>1, <4>3, <4>4, MoveKeepsTables DEF Tables, Typed
      <3>. QED BY <2>1, <3>2, <3>3 DEF CommandFind
    <2>2. CASE CommandLock(t)
      BY <1>1, <2>2 DEF CommandLock, Pcs, WithId, StartPcs, StopPcs
    <2>3. CASE CommandSend(t)
      BY <1>2, <2>3 DEF CommandSend
    <2>. QED BY <1>12, <2>1, <2>2, <2>3 DEF Command
  <1>13. CASE t = Main /\ (BeginShutdown \/ DaemonExit)
    BY <1>1, <1>13 DEF BeginShutdown, DaemonExit, Pcs, WithId, StartPcs, StopPcs
  <1>14. CASE t = Main /\ ShutdownSnapshot
    <2>1. Goto(t, "next") /\ UNCHANGED <<modules, handlers, owner, abort>> /\ todo' \in SUBSET Ids
      BY <1>14 DEF ShutdownSnapshot, ToStop
    <2>2. Moves(t) /\ SameWork(t) /\ task'[t].pc = "next"
      BY <2>1, GotoMoves DEF Pcs, WithId, StartPcs, StopPcs
    <2>3. KeepsHold(t) /\ KeepsLaunch(t)
      BY <2>2 DEF KeepsHold, KeepsLaunch, Bringing, Stopping, Launching
    <2>. QED BY <2>1, <2>2, <2>3, MoveKeepsTables
  <1>15. CASE t = Main /\ ShutdownNext
    <2>1. CASE Goto(t, "exit") /\ UNCHANGED todo
      BY <1>1, <1>15, <2>1 DEF ShutdownNext, Pcs, WithId, StartPcs, StopPcs
    <2>2. ASSUME NEW i \in todo, todo' = todo \ {i},
                 task' = [task EXCEPT ![Main] = [pc |-> "mark", id |-> i, proc |-> None]]
          PROVE  Tables'
      <3>. DEFINE e == [pc |-> "mark", id |-> i, proc |-> None]
      <3>1. task' = [task EXCEPT ![t] = e] /\ i \in Ids /\ todo' \in SUBSET Ids
        <4>1. task' = [task EXCEPT ![t] = e]
          BY <1>15, <2>2
        <4>2. i \in Ids /\ todo' \in SUBSET Ids
          BY <2>2 DEF Tables, Typed
        <4>. QED BY <4>1, <4>2
      <3>2. e \in TaskType /\ e.pc = "mark" /\ e.id = i
        BY <3>1 DEF TaskType, Pcs, StopPcs
      <3>. HIDE DEF e
      <3>3. Moves(t) /\ task'[t].pc = "mark"
        BY <3>1, <3>2 DEF Moves, Tables, Typed
      <3>4. KeepsHold(t) /\ KeepsLaunch(t)
        BY <3>3 DEF KeepsHold, KeepsLaunch, Bringing, Stopping, Launching
      <3>5. UNCHANGED <<modules, handlers, owner, abort>>
        BY <1>15 DEF ShutdownNext
      <3>. QED BY <3>1, <3>3, <3>4, <3>5, MoveKeepsTables
    <2>. QED BY <1>15, <2>1, <2>2 DEF ShutdownNext
  <1>. QED BY <1>3, <1>4, <1>5, <1>6, <1>7, <1>8, <1>9, <1>10, <1>11, <1>12, <1>13,
              <1>14, <1>15

LEMMA RequestKeepsTables ==
    ASSUME Tables, NEW t \in Conns, NEW i \in Ids, NEW pc \in {"check", "abort", "find"},
           Request(t, i, pc)
    PROVE  Tables'
  <1>. DEFINE e == [pc |-> pc, id |-> i, proc |-> None]
  <1>1. /\ task' = [task EXCEPT ![t] = e] /\ t \in Tasks
        /\ UNCHANGED <<modules, handlers, todo, owner, abort>>
    BY DEF Request, Tasks, tableVars, handVars, procVars
  <1>2. e \in TaskType /\ e.pc = pc /\ e.id = i
    BY DEF TaskType, Pcs, StartPcs, StopPcs
  <1>. HIDE DEF e
  <1>3. Moves(t) /\ task'[t].pc = pc
    BY <1>1, <1>2 DEF Moves, Tables, Typed
  <1>4. KeepsHold(t) /\ KeepsLaunch(t)
    BY <1>3 DEF KeepsHold, KeepsLaunch, Bringing, Stopping, Launching
  <1>. QED BY <1>1, <1>3, <1>4, MoveKeepsTables DEF Tables, Typed

\* Handlers and modules leave the tables alone, and doom only who was aborted.
LEMMA OthersKeepTables ==
    ASSUME Tables, UNCHANGED <<modules, handlers, task, todo, owner>>,
           \/ UNCHANGED abort
           \/ \E h \in Procs, waits \in BOOLEAN : Doom(h, waits)
    PROVE  Tables'
  <1>1. /\ abort' \in [Procs -> {"no", "flagged", "doomed"}]
        /\ \A p \in Procs : abort[p] = "no" => abort'[p] = "no"
    BY DEF Tables, Typed, Doom
  <1>2. Typed' /\ HasId' /\ Custody'
    BY <1>1 DEF Tables, Typed, HasId, Custody, Bringing, Stopping
  <1>3. Tracking'
    BY <1>1 DEF Tables, Typed, Tracking, Launching
  <1>. QED BY <1>2, <1>3 DEF Tables

LEMMA InitTables ==
    ASSUME Init
    PROVE  Tables
  <1>. USE DEF Init
  <1>1. task \in [Tasks -> TaskType] /\ \A t \in Tasks : task[t].pc = "idle"
    BY DEF Idle, TaskType, Pcs
  <1>2. Typed
    BY <1>1 DEF Typed
  <1>3. HasId /\ Custody /\ Tracking
    BY <1>1 DEF HasId, WithId, StartPcs, StopPcs, Custody, Tracking, Bringing, Stopping,
                Launching
  <1>. QED BY <1>2, <1>3 DEF Tables

LEMMA NextKeepsTables ==
    ASSUME Tables, [Next]_vars
    PROVE  Tables'
  <1>1. ASSUME NEW t \in Tasks, TaskStep(t) PROVE Tables'
    <2>1. CASE Start(t)
      BY <2>1, OtherTaskSteps, SpawnKeepsTables, RegisterKeepsTables, TrackKeepsTables
         DEF Start
    <2>2. CASE Stop(t)
      BY <2>2, OtherTaskSteps, AbortKeepsTables, TakeKeepsTables DEF Stop
    <2>3. CASE Command(t)
      BY <2>3, OtherTaskSteps
    <2>4. CASE t = Main /\ Shutdown
      BY <2>4, OtherTaskSteps, DrainKeepsTables DEF Shutdown
    <2>. QED BY <1>1, <2>1, <2>2, <2>3, <2>4 DEF TaskStep
  <1>2. ASSUME NEW t \in Conns, NEW i \in Ids, NEW pc \in {"check", "abort", "find"},
               Request(t, i, pc)
        PROVE  Tables'
    BY <1>2, RequestKeepsTables
  <1>3. CASE BeginShutdown
    BY <1>3, OtherTaskSteps DEF Tasks
  <1>. USE DEF tableVars, taskVars, procVars
  <1>4. ASSUME NEW h \in Procs, Handle(h) PROVE Tables'
    <2>1. CASE HandlerLock(h)
      BY <2>1, OthersKeepTables DEF HandlerLock
    <2>2. CASE HandlerRecv(h)
      BY <2>2, OthersKeepTables DEF HandlerRecv
    <2>3. CASE HandlerRelock(h)
      BY <2>3, OthersKeepTables DEF HandlerRelock
    <2>4. CASE HandlerHandle(h)
      BY <2>4, OthersKeepTables DEF HandlerHandle
    <2>. QED BY <1>4, <2>1, <2>2, <2>3, <2>4 DEF Handle
  <1>5. ASSUME NEW h \in Procs, HandlerDeaf(h) \/ Cancel(h) PROVE Tables'
    BY <1>5, OthersKeepTables DEF HandlerDeaf, Cancel
  <1>6. ASSUME NEW p \in Procs, Write(p) \/ Exit(p) PROVE Tables'
    BY <1>6, OthersKeepTables DEF Write, Exit, handVars
  <1>7. CASE UNCHANGED vars
    BY <1>7, OthersKeepTables DEF vars, handVars
  <1>. QED BY <1>1, <1>2, <1>3, <1>4, <1>5, <1>6, <1>7 DEF Next

\* The manager's tables (registry.rs, manager.rs), for any overlap of requests:
\* well typed, each process in one hand, each handler tracked under its id.
THEOREM TablesInvariant == Spec => []Tables
  <1>. QED BY InitTables, NextKeepsTables, PTL DEF Spec

\* A process is stopped by one task at a time and cannot be found meanwhile
\* (registry.rs:110-118).
THEOREM StopIsExclusive == Spec => []ExclusiveStop
  <1>1. Tables => ExclusiveStop
    BY DEF Tables, Custody, ExclusiveStop
  <1>. QED BY <1>1, TablesInvariant, PTL

\* No handler in the manager's map was aborted, none is there under another id
\* (manager.rs:104-106, 386-393, 441-447).
THEOREM HandlersStayTracked == Spec => []HandlersTracked
  <1>1. Tables => HandlersTracked
    BY DEF Tables, Tracking, HandlersTracked
  <1>. QED BY <1>1, TablesInvariant, PTL

-----------------------------------------------------------------------------
\* The rest of the type invariant, the locks apart.
Plain ==
    /\ info \in [Ids -> Status] /\ up \in BOOLEAN /\ sent \in Nat
    /\ handler \in [Procs -> {"none", "want", "recv", "relock", "handle", "ended"}]
    /\ serves \in [Procs -> Procs \cup {None}]
    /\ alive \in [Procs -> BOOLEAN]
    /\ out \in [Procs -> Nat] /\ wrote \in [Procs -> Nat]

\* A start's slot has no handler before the start spawns it; a handler knows its
\* process, and so does a command that has found it.
Serving ==
    /\ \A p \in Procs : owner[p] = None => handler[p] = "none"
    /\ \A t \in Tasks : task[t].pc \in {"register", "attach"} => handler[task[t].proc] = "none"
    /\ \A h \in Procs : handler[h] # "none" => serves[h] \in Procs
    /\ \A t \in Tasks : task[t].pc \in {"queue", "send"} => task[t].proc \in Procs

\* The mutex of p: a line without repetitions and without the holder, empty when
\* the mutex is free.
Lock(p) ==
    /\ holder[p] = None => waiters[p] = <<>>
    /\ \A i, j \in 1..Len(waiters[p]) : waiters[p][i] = waiters[p][j] => i = j
    /\ \A i \in 1..Len(waiters[p]) : waiters[p][i] # holder[p]

Locks ==
    /\ holder \in [Procs -> Holders \cup {None}]
    /\ waiters \in [Procs -> Seq(Holders)]
    /\ \A p \in Procs : Lock(p)

\* Who holds the mutex of p or stands in line for it.
Asking(p) == ({waiters[p][i] : i \in 1..Len(waiters[p])} \cup {holder[p]}) \ {None}

Inside(t) == task[t].pc \in {"wait", "kill", "settle"}

\* Exactly the tasks that asked are there, and a stop past its request is the holder.
Coherent ==
    /\ \A p \in Procs : Asking(p) = Users(p)
    /\ \A t \in Tasks : Inside(t) => holder[task[t].proc] = t

\* What the shutdown found are processes.
Recorded == found \in SUBSET Procs

LockInv == Tables /\ Plain /\ Serving /\ Locks /\ Coherent /\ Recorded

-----------------------------------------------------------------------------
LEMMA NamesApart == None \notin Holders /\ Tasks \cap Procs = {} /\ None \notin Ids
  BY NamesAssumption DEF Holders, Tasks

\* Who stands in line, and the lock with its line taken apart.
Line(w) == {w[i] : i \in 1..Len(w)}

Orderly(w, x) ==
    /\ w \in Seq(Holders)
    /\ x = None => w = <<>>
    /\ \A i, j \in 1..Len(w) : w[i] = w[j] => i = j
    /\ \A i \in 1..Len(w) : w[i] # x

LEMMA OneLockChanges ==
    ASSUME Locks, NEW p \in Procs, NEW x \in Holders \cup {None}, NEW w, Orderly(w, x),
           holder' = [holder EXCEPT ![p] = x],
           waiters' = [waiters EXCEPT ![p] = w]
    PROVE  /\ Locks'
           /\ Asking(p)' = (Line(w) \cup {x}) \ {None}
           /\ \A q \in Procs \ {p} : Asking(q)' = Asking(q) /\ holder'[q] = holder[q]
           /\ holder'[p] = x
  <1>1. /\ holder'[p] = x /\ waiters'[p] = w
        /\ \A q \in Procs \ {p} : holder'[q] = holder[q] /\ waiters'[q] = waiters[q]
    BY DEF Locks
  <1>2. /\ holder' \in [Procs -> Holders \cup {None}]
        /\ waiters' \in [Procs -> Seq(Holders)]
    BY DEF Locks, Orderly
  <1>3. Lock(p)'
    BY <1>1 DEF Lock, Orderly
  <1>4. \A q \in Procs \ {p} : Lock(q)'
    BY <1>1 DEF Locks, Lock
  <1>5. Locks'
    BY <1>2, <1>3, <1>4 DEF Locks
  <1>6. Asking(p)' = (Line(w) \cup {x}) \ {None}
    BY <1>1 DEF Asking, Line
  <1>7. \A q \in Procs \ {p} : Asking(q)' = Asking(q)
    BY <1>1 DEF Asking
  <1>. QED BY <1>1, <1>5, <1>6, <1>7

LEMMA AppendOrderly ==
    ASSUME NEW w, NEW x, Orderly(w, x), x # None, NEW y \in Holders, y # x, y \notin Line(w)
    PROVE  Orderly(Append(w, y), x) /\ Line(Append(w, y)) = Line(w) \cup {y}
  <1>1. PICK n, v : n = Len(w) /\ v = Append(w, y)
    OBVIOUS
  <1>2. /\ n \in Nat /\ v \in Seq(Holders) /\ Len(v) = n + 1 /\ v[n + 1] = y
        /\ \A i \in 1..n : v[i] = w[i]
    BY <1>1, AppendProperties DEF Orderly
  <1>3. \A i \in 1..(n + 1) : i = n + 1 \/ (i \in 1..n /\ v[i] = w[i])
    BY <1>2
  <1>4. \A i \in 1..n : w[i] # y
    BY <1>1 DEF Line
  <1>5. \A i, j \in 1..(n + 1) : v[i] = v[j] => i = j
    BY <1>1, <1>2, <1>3, <1>4 DEF Orderly
  <1>6. \A i \in 1..(n + 1) : v[i] # x
    BY <1>1, <1>2, <1>3 DEF Orderly
  <1>7. Orderly(v, x)
    BY <1>2, <1>5, <1>6 DEF Orderly
  <1>8. Line(v) = Line(w) \cup {y}
    <2>1. Line(v) \subseteq Line(w) \cup {y}
      BY <1>1, <1>2, <1>3 DEF Line
    <2>2. \A i \in 1..n : i \in 1..(n + 1)
      BY <1>2
    <2>3. n + 1 \in 1..(n + 1)
      BY <1>2
    <2>4. Line(w) \subseteq Line(v)
      BY <1>1, <1>2, <2>2 DEF Line
    <2>5. y \in Line(v)
      BY <1>2, <2>3 DEF Line
    <2>. QED BY <2>1, <2>4, <2>5
  <1>. QED BY <1>1, <1>7, <1>8

LEMMA TailOrderly ==
    ASSUME NEW w, NEW x, Orderly(w, x), w # <<>>
    PROVE  /\ Head(w) \in Line(w) /\ Head(w) \in Holders
           /\ Orderly(Tail(w), Head(w)) /\ Line(Tail(w)) = Line(w) \ {Head(w)}
  <1>1. PICK n, v, y : n = Len(w) /\ v = Tail(w) /\ y = Head(w)
    OBVIOUS
  <1>2. /\ n \in Nat \ {0} /\ w \in Seq(Holders) /\ v \in Seq(Holders) /\ y = w[1]
        /\ Len(v) = n - 1 /\ \A i \in 1..(n - 1) : v[i] = w[i + 1]
    BY <1>1, HeadTailProperties, EmptySeq DEF Orderly
  <1>3. \A i, j \in 1..n : w[i] = w[j] => i = j
    BY <1>1 DEF Orderly
  <1>4. \A i \in 1..(n - 1) : i + 1 \in 1..n /\ i + 1 # 1
    BY <1>2
  <1>5. 1 \in 1..n
    BY <1>2
  <1>6. y \in Line(w) /\ y \in Holders
    BY <1>1, <1>2, <1>5 DEF Line
  <1>7. \A i, j \in 1..(n - 1) : v[i] = v[j] => i = j
    <2>1. ASSUME NEW i \in 1..(n - 1), NEW j \in 1..(n - 1), v[i] = v[j] PROVE i = j
      <3>1. w[i + 1] = w[j + 1]
        BY <1>2, <2>1
      <3>2. i + 1 = j + 1
        BY <1>3, <1>4, <3>1
      <3>. QED BY <3>2
    <2>. QED BY <2>1
  <1>8. \A i \in 1..(n - 1) : v[i] # y
    BY <1>2, <1>3, <1>4, <1>5
  <1>9. y # None
    BY <1>6, NamesApart
  <1>10. Orderly(v, y)
    BY <1>2, <1>7, <1>8, <1>9 DEF Orderly
  <1>11. Line(v) = Line(w) \ {y}
    <2>1. Line(v) \subseteq Line(w) \ {y}
      BY <1>1, <1>2, <1>4, <1>8 DEF Line
    <2>2. ASSUME NEW z \in Line(w) \ {y} PROVE z \in Line(v)
      <3>1. PICK i \in 1..n : z = w[i]
        BY <1>1 DEF Line
      <3>2. i # 1
        BY <1>2, <3>1
      <3>3. i - 1 \in 1..(n - 1) /\ (i - 1) + 1 = i
        BY <1>2, <3>2
      <3>4. v[i - 1] = w[i]
        BY <1>2, <3>3
      <3>. QED BY <1>2, <3>1, <3>3, <3>4 DEF Line
    <2>. QED BY <2>1, <2>2
  <1>. QED BY <1>1, <1>6, <1>10, <1>11

LEMMA LeaveOrderly ==
    ASSUME NEW w, NEW x, Orderly(w, x), NEW y
    PROVE  Orderly(Leave(w, y), x) /\ Line(Leave(w, y)) = Line(w) \ {y}
  <1>1. CASE ~\E i \in 1..Len(w) : w[i] = y
    BY <1>1 DEF Leave, Line
  <1>2. CASE \E i \in 1..Len(w) : w[i] = y
    <2>1. PICK n, v, k : /\ n = Len(w) /\ v = Leave(w, y)
                         /\ k = CHOOSE i \in 1..Len(w) : w[i] = y
      OBVIOUS
    <2>2. k \in 1..n /\ w[k] = y
      BY <1>2, <2>1
    <2>3. v = [i \in 1..(n - 1) |-> IF i < k THEN w[i] ELSE w[i + 1]]
      BY <1>2, <2>1 DEF Leave
    <2>4. n \in Nat /\ n > 0 /\ w \in [1..n -> Holders]
      BY <2>1, <2>2 DEF Orderly
    <2>5. \A i, j \in 1..n : w[i] = w[j] => i = j
      BY <2>1 DEF Orderly
    <2>6. \A i \in 1..(n - 1) : i \in 1..n /\ i + 1 \in 1..n
      BY <2>4
    <2>7. v \in Seq(Holders) /\ Len(v) = n - 1
      <3>1. v \in [1..(n - 1) -> Holders]
        BY <2>3, <2>4, <2>6
      <3>2. n - 1 \in Nat
        BY <2>4
      <3>. QED BY <3>1, <3>2, LenProperties
    <2>8. \A i \in 1..(n - 1) : (i < k /\ v[i] = w[i]) \/ (~(i < k) /\ v[i] = w[i + 1])
      BY <2>3
    <2>9. \A i, j \in 1..(n - 1) : v[i] = v[j] => i = j
      <3>1. ASSUME NEW i \in 1..(n - 1), NEW j \in 1..(n - 1), v[i] = v[j] PROVE i = j
        <4>1. PICK a \in 1..n : v[i] = w[a] /\ a = IF i < k THEN i ELSE i + 1
          BY <2>6, <2>8
        <4>2. PICK b \in 1..n : v[j] = w[b] /\ b = IF j < k THEN j ELSE j + 1
          BY <2>6, <2>8
        <4>3. a = b
          BY <2>5, <3>1, <4>1, <4>2
        <4>. QED BY <2>2, <2>4, <4>1, <4>2, <4>3
      <3>. QED BY <3>1
    <2>10. \A i \in 1..(n - 1) : v[i] # x /\ v[i] # y
      <3>1. ASSUME NEW i \in 1..(n - 1) PROVE v[i] # x /\ v[i] # y
        <4>1. PICK a \in 1..n : v[i] = w[a] /\ a # k
          BY <2>2, <2>4, <2>6, <2>8
        <4>2. w[a] # x
          BY <2>1 DEF Orderly
        <4>3. w[a] # y
          BY <2>2, <2>5, <4>1
        <4>. QED BY <4>1, <4>2, <4>3
      <3>. QED BY <3>1
    <2>11. x # None
      <3>1. w # <<>>
        BY <2>1, <2>4
      <3>. QED BY <3>1 DEF Orderly
    <2>12. Orderly(v, x)
      BY <2>7, <2>9, <2>10, <2>11 DEF Orderly
    <2>13. Line(v) = Line(w) \ {y}
      <3>1. Line(v) \subseteq Line(w) \ {y}
        BY <2>1, <2>6, <2>7, <2>8, <2>10 DEF Line
      <3>2. ASSUME NEW z \in Line(w) \ {y} PROVE z \in Line(v)
        <4>1. PICK i \in 1..n : z = w[i]
          BY <2>1 DEF Line
        <4>2. i # k
          BY <2>2, <4>1
        <4>3. CASE i < k
          <5>1. i \in 1..(n - 1)
            BY <2>2, <2>4, <4>3
          <5>. QED BY <2>3, <2>7, <4>1, <4>3, <5>1 DEF Line
        <4>4. CASE ~(i < k)
          <5>1. PICK j \in 1..(n - 1) : j + 1 = i /\ ~(j < k)
            <6>1. i - 1 \in 1..(n - 1) /\ (i - 1) + 1 = i /\ ~(i - 1 < k)
              BY <2>2, <2>4, <4>2, <4>4
            <6>. QED BY <6>1
          <5>2. v[j] = w[i]
            BY <2>8, <5>1
          <5>. QED BY <2>7, <4>1, <5>2 DEF Line
        <4>. QED BY <4>3, <4>4
      <3>. QED BY <3>1, <3>2
    <2>. QED BY <2>1, <2>12, <2>13
  <1>. QED BY <1>1, <1>2

\* Whoever asks for the mutex holds it or stands in line, and nobody is displaced.
LEMMA AcquireEffect ==
    ASSUME Locks, NEW p \in Procs, NEW y \in Holders, y \notin Asking(p), Acquire(y, p)
    PROVE  /\ Locks' /\ Asking(p)' = Asking(p) \cup {y}
           /\ \A q \in Procs \ {p} : Asking(q)' = Asking(q)
           /\ \A q \in Procs : holder[q] # None => holder'[q] = holder[q]
  <1>1. PICK x, w : x = holder[p] /\ w = waiters[p]
    OBVIOUS
  <1>2. Orderly(w, x) /\ x \in Holders \cup {None} /\ Asking(p) = (Line(w) \cup {x}) \ {None}
    BY <1>1 DEF Locks, Lock, Orderly, Asking, Line
  <1>3. y # None /\ y \notin Line(w) /\ y # x
    BY <1>2, NamesApart
  <1>4. CASE x = None
    <2>1. w = <<>> /\ Orderly(w, y) /\ Line(w) = {}
      BY <1>2, <1>3, <1>4 DEF Orderly, Line
    <2>2. holder' = [holder EXCEPT ![p] = y] /\ waiters' = waiters
      BY <1>1, <1>4 DEF Acquire, Free
    <2>3. waiters' = [waiters EXCEPT ![p] = w]
      BY <1>1, <2>2 DEF Locks
    <2>4. /\ Locks' /\ Asking(p)' = (Line(w) \cup {y}) \ {None}
          /\ \A q \in Procs \ {p} : Asking(q)' = Asking(q) /\ holder'[q] = holder[q]
      BY <2>1, <2>2, <2>3, OneLockChanges
    <2>5. Asking(p)' = Asking(p) \cup {y}
      BY <1>2, <1>3, <1>4, <2>1, <2>4
    <2>. QED BY <1>1, <1>4, <2>4, <2>5
  <1>5. CASE x # None
    <2>1. PICK v : v = Append(w, y)
      OBVIOUS
    <2>2. Orderly(v, x) /\ Line(v) = Line(w) \cup {y}
      BY <1>2, <1>3, <1>5, <2>1, AppendOrderly
    <2>3. holder' = holder /\ waiters' = [waiters EXCEPT ![p] = v]
      BY <1>1, <1>5, <2>1 DEF Acquire, Free
    <2>4. holder' = [holder EXCEPT ![p] = x]
      BY <1>1, <2>3 DEF Locks
    <2>5. /\ Locks' /\ Asking(p)' = (Line(v) \cup {x}) \ {None}
          /\ \A q \in Procs \ {p} : Asking(q)' = Asking(q)
      BY <1>2, <2>2, <2>3, <2>4, OneLockChanges
    <2>. QED BY <1>2, <1>3, <2>2, <2>3, <2>5
  <1>. QED BY <1>4, <1>5

\* Its release leaves the others in order.
LEMMA ReleaseEffect ==
    ASSUME Locks, NEW p \in Procs, holder[p] # None, Release(p)
    PROVE  /\ Locks' /\ Asking(p)' = Asking(p) \ {holder[p]}
           /\ \A q \in Procs \ {p} : Asking(q)' = Asking(q) /\ holder'[q] = holder[q]
  <1>1. PICK x, w : x = holder[p] /\ w = waiters[p]
    OBVIOUS
  <1>2. /\ Orderly(w, x) /\ x \in Holders /\ x # None
        /\ Asking(p) = (Line(w) \cup {x}) \ {None} /\ x \notin Line(w) /\ None \notin Line(w)
    <2>1. /\ Orderly(w, x) /\ x \in Holders /\ x # None
          /\ Asking(p) = (Line(w) \cup {x}) \ {None} /\ x \notin Line(w)
      BY <1>1 DEF Locks, Lock, Orderly, Asking, Line
    <2>2. \A i \in 1..Len(w) : w[i] \in Holders
      BY <2>1 DEF Orderly
    <2>. QED BY <2>1, <2>2, NamesApart DEF Line
  <1>3. CASE w = <<>>
    <2>1. Orderly(w, None) /\ Line(w) = {}
      BY <1>2, <1>3 DEF Orderly, Line
    <2>2. holder' = [holder EXCEPT ![p] = None] /\ waiters' = waiters
      BY <1>1, <1>3 DEF Release
    <2>3. waiters' = [waiters EXCEPT ![p] = w]
      BY <1>1, <2>2 DEF Locks
    <2>4. /\ Locks' /\ Asking(p)' = (Line(w) \cup {None}) \ {None}
          /\ \A q \in Procs \ {p} : Asking(q)' = Asking(q) /\ holder'[q] = holder[q]
      BY <2>1, <2>2, <2>3, OneLockChanges
    <2>. QED BY <1>1, <1>2, <2>1, <2>4
  <1>4. CASE w # <<>>
    <2>1. PICK v, y : v = Tail(w) /\ y = Head(w)
      OBVIOUS
    <2>2. y \in Line(w) /\ y \in Holders /\ Orderly(v, y) /\ Line(v) = Line(w) \ {y}
      BY <1>2, <1>4, <2>1, TailOrderly
    <2>3. holder' = [holder EXCEPT ![p] = y] /\ waiters' = [waiters EXCEPT ![p] = v]
      BY <1>1, <1>4, <2>1 DEF Release
    <2>4. /\ Locks' /\ Asking(p)' = (Line(v) \cup {y}) \ {None}
          /\ \A q \in Procs \ {p} : Asking(q)' = Asking(q) /\ holder'[q] = holder[q]
      BY <2>2, <2>3, OneLockChanges
    <2>. QED BY <1>1, <1>2, <2>2, <2>4
  <1>. QED BY <1>3, <1>4

\* Nor does one that is dropped while it holds or waits.
LEMMA GiveUpEffect ==
    ASSUME Locks, NEW p \in Procs, NEW y \in Holders, GiveUp(y, p)
    PROVE  /\ Locks' /\ Asking(p)' = Asking(p) \ {y}
           /\ \A q \in Procs \ {p} : Asking(q)' = Asking(q) /\ holder'[q] = holder[q]
           /\ holder[p] # y => holder'[p] = holder[p]
  <1>1. CASE holder[p] = y
    <2>1. y # None
      BY NamesApart
    <2>. QED BY <1>1, <2>1, ReleaseEffect DEF GiveUp
  <1>2. CASE holder[p] # y
    <2>1. PICK x, w, v : x = holder[p] /\ w = waiters[p] /\ v = Leave(w, y)
      OBVIOUS
    <2>2. Orderly(w, x) /\ x \in Holders \cup {None} /\ Asking(p) = (Line(w) \cup {x}) \ {None}
      BY <2>1 DEF Locks, Lock, Orderly, Asking, Line
    <2>3. Orderly(v, x) /\ Line(v) = Line(w) \ {y}
      BY <2>1, <2>2, LeaveOrderly
    <2>4. holder' = holder /\ waiters' = [waiters EXCEPT ![p] = v]
      BY <1>2, <2>1 DEF GiveUp
    <2>5. holder' = [holder EXCEPT ![p] = x]
      BY <2>1, <2>4 DEF Locks
    <2>6. /\ Locks' /\ Asking(p)' = (Line(v) \cup {x}) \ {None}
          /\ \A q \in Procs \ {p} : Asking(q)' = Asking(q)
      BY <2>2, <2>3, <2>4, <2>5, OneLockChanges
    <2>. QED BY <1>2, <2>1, <2>2, <2>3, <2>4, <2>6
  <1>. QED BY <1>1, <1>2

-----------------------------------------------------------------------------
Uses(t) == task[t].pc \in {"ask", "wait", "kill", "settle", "send"}

LEMMA TaskUses ==
    ASSUME NEW t \in Tasks, NEW p \in Procs
    PROVE  /\ t \in Users(p) <=> Uses(t) /\ task[t].proc = p
           /\ t \in Users(p)' <=> Uses(t)' /\ task'[t].proc = p
  BY NamesApart DEF Users, Uses

LEMMA HandlerUses ==
    ASSUME NEW h \in Procs, NEW p \in Procs
    PROVE  /\ h \in Users(p) <=> handler[h] \in {"recv", "handle"} /\ serves[h] = p
           /\ h \in Users(p)' <=> handler'[h] \in {"recv", "handle"} /\ serves'[h] = p
  BY NamesApart DEF Users

\* A step of task t changes what t asks for and nothing else.
LEMMA TaskChangesUsers ==
    ASSUME NEW t \in Tasks, Moves(t), NEW p \in Procs,
           \A h \in Procs : \/ handler'[h] = handler[h] /\ serves'[h] = serves[h]
                            \/ {handler[h], handler'[h]} \cap {"recv", "handle"} = {}
    PROVE  Users(p)' = (Users(p) \ {t}) \cup {x \in {t} : Uses(t)' /\ task'[t].proc = p}
  <1>1. \A h \in Procs : h \in Users(p)' <=> h \in Users(p)
    BY HandlerUses
  <1>2. \A u \in Tasks \ {t} : u \in Users(p)' <=> u \in Users(p)
    BY TaskUses DEF Moves, Uses
  <1>3. t \in Users(p)' <=> Uses(t)' /\ task'[t].proc = p
    BY TaskUses
  <1>4. Users(p) \subseteq Tasks \cup Procs /\ Users(p)' \subseteq Tasks \cup Procs
    BY DEF Users
  <1>5. t \notin Procs
    BY NamesApart
  <1>. QED BY <1>1, <1>2, <1>3, <1>4, <1>5

\* A step of handler h changes what h asks for and nothing else.
LEMMA HandlerChangesUsers ==
    ASSUME NEW h \in Procs, NEW p \in Procs, UNCHANGED <<task, serves>>,
           \A g \in Procs \ {h} : handler'[g] = handler[g]
    PROVE  Users(p)' = (Users(p) \ {h}) \cup
                       {x \in {h} : handler'[h] \in {"recv", "handle"} /\ serves[h] = p}
  <1>1. \A g \in Procs \ {h} : g \in Users(p)' <=> g \in Users(p)
    BY HandlerUses
  <1>2. \A u \in Tasks : u \in Users(p)' <=> u \in Users(p)
    BY TaskUses DEF Uses
  <1>3. h \in Users(p)' <=> handler'[h] \in {"recv", "handle"} /\ serves[h] = p
    BY HandlerUses
  <1>4. Users(p) \subseteq Tasks \cup Procs /\ Users(p)' \subseteq Tasks \cup Procs
    BY DEF Users
  <1>5. h \notin Tasks
    BY NamesApart
  <1>. QED BY <1>1, <1>2, <1>3, <1>4, <1>5

-----------------------------------------------------------------------------
InsideHasProcess == \A t \in Tasks : Inside(t) => task[t].proc \in Procs

LEMMA InsideHas == ASSUME Tables PROVE InsideHasProcess
  BY DEF InsideHasProcess, Tables, Custody, Inside, Stopping

\* Nothing asks and nothing gives up.
LEMMA StaysCoherent ==
    ASSUME Locks, Coherent, UNCHANGED lockVars,
           \A p \in Procs : Users(p)' = Users(p),
           \A t \in Tasks : Inside(t)' => holder[task'[t].proc] = t
    PROVE  Locks' /\ Coherent'
  <1>1. holder' = holder /\ waiters' = waiters
    BY DEF lockVars
  <1>2. Locks'
    BY <1>1 DEF Locks, Lock
  <1>3. \A p \in Procs : Asking(p)' = Asking(p)
    BY <1>1 DEF Asking
  <1>. QED BY <1>1, <1>2, <1>3 DEF Coherent

\* Task t moves, and asks for nothing new.
LEMMA TaskStaysCoherent ==
    ASSUME Locks, Coherent, NEW t \in Tasks, Moves(t), UNCHANGED lockVars,
           \A h \in Procs : \/ handler'[h] = handler[h] /\ serves'[h] = serves[h]
                            \/ {handler[h], handler'[h]} \cap {"recv", "handle"} = {},
           \/ ~Uses(t) /\ ~Uses(t)'
           \/ Uses(t) /\ Uses(t)' /\ task'[t].proc = task[t].proc,
           Inside(t)' => holder[task'[t].proc] = t
    PROVE  Locks' /\ Coherent'
  <1>1. ASSUME NEW p \in Procs PROVE Users(p)' = Users(p)
    BY TaskChangesUsers, TaskUses
  <1>2. \A u \in Tasks : Inside(u)' => holder[task'[u].proc] = u
    BY DEF Moves, Inside, Coherent
  <1>. QED BY <1>1, <1>2, StaysCoherent

\* Task t asks for the mutex of p.
LEMMA TaskAsksCoherent ==
    ASSUME Locks, Coherent, InsideHasProcess, NEW t \in Tasks, NEW p \in Procs, Moves(t),
           UNCHANGED <<handler, serves>>, Acquire(t, p),
           ~Uses(t), Uses(t)', task'[t].proc = p, ~Inside(t)'
    PROVE  Locks' /\ Coherent'
  <1>1. \A q \in Procs : Users(q)' = (Users(q) \ {t}) \cup {x \in {t} : q = p}
    <2>1. ASSUME NEW q \in Procs
          PROVE  Users(q)' = (Users(q) \ {t}) \cup {x \in {t} : Uses(t)' /\ task'[t].proc = q}
      BY TaskChangesUsers
    <2>. QED BY <2>1
  <1>2. \A q \in Procs : t \notin Asking(q) /\ Asking(q) = Users(q)
    BY TaskUses DEF Coherent
  <1>3. t \in Holders
    BY DEF Holders
  <1>4. /\ Locks' /\ Asking(p)' = Asking(p) \cup {t}
        /\ \A q \in Procs \ {p} : Asking(q)' = Asking(q)
        /\ \A q \in Procs : holder[q] # None => holder'[q] = holder[q]
    BY <1>2, <1>3, AcquireEffect
  <1>5. \A q \in Procs : Asking(q)' = Users(q)'
    <2>1. ASSUME NEW q \in Procs PROVE Asking(q)' = Users(q)'
      BY <1>1, <1>2, <1>4
    <2>. QED BY <2>1
  <1>6. ASSUME NEW u \in Tasks, Inside(u)' PROVE holder'[task'[u].proc] = u
    <2>1. u # t /\ task'[u] = task[u] /\ Inside(u)
      BY <1>6 DEF Moves, Inside
    <2>2. holder[task[u].proc] = u /\ task[u].proc \in Procs /\ u # None
      BY <2>1, NamesApart DEF Coherent, InsideHasProcess, Holders
    <2>. QED BY <1>4, <2>1, <2>2
  <1>. QED BY <1>4, <1>5, <1>6 DEF Coherent

\* Task t gives back the mutex of p.
LEMMA TaskReleasesCoherent ==
    ASSUME Locks, Coherent, InsideHasProcess, NEW t \in Tasks, NEW p \in Procs, Moves(t),
           UNCHANGED <<handler, serves>>, Release(p), holder[p] = t,
           Uses(t), task[t].proc = p, ~Uses(t)'
    PROVE  Locks' /\ Coherent'
  <1>1. \A q \in Procs : Users(q)' = Users(q) \ {t}
    <2>1. ASSUME NEW q \in Procs
          PROVE  Users(q)' = (Users(q) \ {t}) \cup {x \in {t} : Uses(t)' /\ task'[t].proc = q}
      BY TaskChangesUsers
    <2>. QED BY <2>1
  <1>2. \A q \in Procs : Asking(q) = Users(q) /\ (q # p => t \notin Users(q))
    BY TaskUses DEF Coherent
  <1>3. t # None
    BY NamesApart DEF Holders
  <1>4. /\ Locks' /\ Asking(p)' = Asking(p) \ {t}
        /\ \A q \in Procs \ {p} : Asking(q)' = Asking(q) /\ holder'[q] = holder[q]
    BY <1>3, ReleaseEffect
  <1>5. \A q \in Procs : Asking(q)' = Users(q)'
    <2>1. ASSUME NEW q \in Procs PROVE Asking(q)' = Users(q)'
      BY <1>1, <1>2, <1>4
    <2>. QED BY <2>1
  <1>6. ASSUME NEW u \in Tasks, Inside(u)' PROVE holder'[task'[u].proc] = u
    <2>1. u # t /\ task'[u] = task[u] /\ Inside(u)
      BY <1>6 DEF Moves, Inside, Uses
    <2>2. holder[task[u].proc] = u /\ task[u].proc \in Procs
      BY <2>1 DEF Coherent, InsideHasProcess
    <2>. QED BY <1>4, <2>1, <2>2
  <1>. QED BY <1>4, <1>5, <1>6 DEF Coherent

\* The same for a handler.
LEMMA HandlerStaysCoherent ==
    ASSUME Locks, Coherent, NEW h \in Procs, UNCHANGED <<task, serves, handler, lockVars>>
    PROVE  Locks' /\ Coherent'
  <1>1. \A p \in Procs : Users(p)' = Users(p)
    BY DEF Users
  <1>2. \A u \in Tasks : Inside(u)' => holder[task'[u].proc] = u
    BY DEF Inside, Coherent
  <1>. QED BY <1>1, <1>2, StaysCoherent

LEMMA HandlerAsksCoherent ==
    ASSUME Locks, Coherent, InsideHasProcess, NEW h \in Procs, serves[h] \in Procs,
           UNCHANGED <<task, serves>>, \A g \in Procs \ {h} : handler'[g] = handler[g],
           Acquire(h, serves[h]),
           handler[h] \notin {"recv", "handle"}, handler'[h] \in {"recv", "handle"}
    PROVE  Locks' /\ Coherent'
  <1>1. PICK p \in Procs : p = serves[h]
    OBVIOUS
  <1>2. \A q \in Procs : Users(q)' = (Users(q) \ {h}) \cup {x \in {h} : q = p}
    <2>1. ASSUME NEW q \in Procs
          PROVE  Users(q)' = (Users(q) \ {h}) \cup
                     {x \in {h} : handler'[h] \in {"recv", "handle"} /\ serves[h] = q}
      BY HandlerChangesUsers
    <2>. QED BY <1>1, <2>1
  <1>3. \A q \in Procs : h \notin Asking(q) /\ Asking(q) = Users(q)
    BY HandlerUses DEF Coherent
  <1>4. h \in Holders
    BY DEF Holders
  <1>5. /\ Locks' /\ Asking(p)' = Asking(p) \cup {h}
        /\ \A q \in Procs \ {p} : Asking(q)' = Asking(q)
        /\ \A q \in Procs : holder[q] # None => holder'[q] = holder[q]
    BY <1>1, <1>3, <1>4, AcquireEffect
  <1>6. \A q \in Procs : Asking(q)' = Users(q)'
    <2>1. ASSUME NEW q \in Procs PROVE Asking(q)' = Users(q)'
      BY <1>2, <1>3, <1>5
    <2>. QED BY <2>1
  <1>7. ASSUME NEW u \in Tasks, Inside(u)' PROVE holder'[task'[u].proc] = u
    <2>1. task' = task /\ Inside(u)
      BY <1>7 DEF Inside
    <2>2. holder[task[u].proc] = u /\ task[u].proc \in Procs /\ u # None
      BY <2>1, NamesApart DEF Coherent, InsideHasProcess, Holders
    <2>. QED BY <1>5, <2>1, <2>2
  <1>. QED BY <1>5, <1>6, <1>7 DEF Coherent

LEMMA HandlerLeavesCoherent ==
    ASSUME Locks, Coherent, InsideHasProcess, NEW h \in Procs, serves[h] \in Procs,
           UNCHANGED <<task, serves>>, \A g \in Procs \ {h} : handler'[g] = handler[g],
           handler'[h] \notin {"recv", "handle"},
           \/ Release(serves[h]) /\ holder[serves[h]] = h
           \/ GiveUp(h, serves[h])
    PROVE  Locks' /\ Coherent'
  <1>1. PICK p \in Procs : p = serves[h]
    OBVIOUS
  <1>2. \A q \in Procs : Users(q)' = Users(q) \ {h}
    <2>1. ASSUME NEW q \in Procs
          PROVE  Users(q)' = (Users(q) \ {h}) \cup
                     {x \in {h} : handler'[h] \in {"recv", "handle"} /\ serves[h] = q}
      BY HandlerChangesUsers
    <2>. QED BY <2>1
  <1>3. \A q \in Procs : Asking(q) = Users(q) /\ (q # p => h \notin Users(q))
    BY <1>1, HandlerUses DEF Coherent
  <1>4. h \in Holders /\ h # None
    BY NamesApart DEF Holders
  <1>5. /\ Locks' /\ Asking(p)' = Asking(p) \ {h}
        /\ \A q \in Procs \ {p} : Asking(q)' = Asking(q) /\ holder'[q] = holder[q]
        /\ holder[p] # h => holder'[p] = holder[p]
    BY <1>1, <1>4, ReleaseEffect, GiveUpEffect
  <1>6. \A q \in Procs : Asking(q)' = Users(q)'
    <2>1. ASSUME NEW q \in Procs PROVE Asking(q)' = Users(q)'
      <3>1. CASE q = p
        BY <1>2, <1>3, <1>5, <3>1
      <3>2. CASE q # p
        <4>1. Users(q) \ {h} = Users(q)
          BY <1>3, <3>2
        <4>2. Asking(q)' = Asking(q) /\ Asking(q) = Users(q)
          BY <1>3, <1>5, <3>2
        <4>. QED BY <1>2, <4>1, <4>2
      <3>. QED BY <3>1, <3>2
    <2>. QED BY <2>1
  <1>7. ASSUME NEW u \in Tasks, Inside(u)' PROVE holder'[task'[u].proc] = u
    <2>1. task' = task /\ Inside(u)
      BY <1>7 DEF Inside
    <2>2. holder[task[u].proc] = u /\ task[u].proc \in Procs /\ u # h
      BY <2>1, NamesApart DEF Coherent, InsideHasProcess
    <2>. QED BY <1>5, <2>1, <2>2
  <1>. QED BY <1>5, <1>6, <1>7 DEF Coherent

-----------------------------------------------------------------------------
\* Steps that write none of the plain fields, or one of them.
LEMMA PlainStep ==
    ASSUME Tables, Plain, Serving, [Next]_vars
    PROVE  Plain'
  <1>. USE DEF Plain, tableVars, taskVars, handVars, procVars
  <1>1. ASSUME NEW t \in Tasks, Start(t) PROVE Plain'
    <2>1. CASE StartCheck(t) \/ StartRegister(t) \/ StartTrack(t)
      BY <2>1 DEF StartCheck, StartRegister, StartTrack
    <2>2. CASE StartAnnounce(t)
      BY <2>2 DEF StartAnnounce, Status
    <2>3. CASE StartSpawn(t)
      BY <2>3 DEF StartSpawn
    <2>4. CASE StartAttach(t)
      <3>1. UNCHANGED <<info, up, sent, alive, out, wrote>>
        BY <2>4 DEF StartAttach
      <3>2. CASE UNCHANGED <<handler, serves>>
        BY <3>1, <3>2
      <3>3. CASE ~UNCHANGED <<handler, serves>>
        <4>1. /\ handler' = [handler EXCEPT ![task[t].proc] = "want"]
              /\ serves' = [serves EXCEPT ![task[t].proc] = modules[task[t].id]]
              /\ task[t].pc = "attach"
          BY <2>4, <3>3 DEF StartAttach, At
        <4>2. modules[task[t].id] \in Procs \cup {None}
          BY <4>1 DEF Tables, Typed, HasId, WithId, StartPcs
        <4>. QED BY <3>1, <4>1, <4>2
      <3>. QED BY <3>2, <3>3
    <2>. QED BY <1>1, <2>1, <2>2, <2>3, <2>4 DEF Start
  <1>2. ASSUME NEW t \in Tasks, Stop(t) PROVE Plain'
    <2>1. CASE StopAbort(t) \/ StopTake(t) \/ StopLock(t) \/ StopAsk(t) \/ StopWait(t)
      BY <2>1 DEF StopAbort, StopTake, StopLock, StopAsk, StopWait
    <2>2. CASE StopMark(t)
      <3>1. UNCHANGED <<up, sent, handler, serves, alive, out, wrote>>
        BY <2>2 DEF StopMark
      <3>2. info' \in [Ids -> Status]
        <4>. DEFINE s == IF info[task[t].id] = "absent" THEN "absent" ELSE "stopping"
        <4>1. info' = [info EXCEPT ![task[t].id] = s] /\ s \in Status
          BY <2>2 DEF StopMark, Status
        <4>. HIDE DEF s
        <4>. QED BY <4>1
      <3>. QED BY <3>1, <3>2
    <2>3. CASE StopKill(t)
      BY <2>3 DEF StopKill
    <2>4. CASE StopSettle(t)
      BY <2>4 DEF StopSettle, Status
    <2>. QED BY <1>2, <2>1, <2>2, <2>3, <2>4 DEF Stop
  <1>3. ASSUME NEW t \in Tasks, Command(t) PROVE Plain'
    BY <1>3 DEF Command, CommandFind, CommandLock, CommandSend
  <1>4. CASE Shutdown \/ BeginShutdown
    BY <1>4 DEF Shutdown, ShutdownDrain, ShutdownSnapshot, ShutdownNext, DaemonExit,
                BeginShutdown
  <1>5. ASSUME NEW t \in Conns, NEW i \in Ids, NEW pc \in {"check", "abort", "find"},
               Request(t, i, pc)
        PROVE  Plain'
    BY <1>5 DEF Request
  <1>6. ASSUME NEW h \in Procs, Handle(h) PROVE Plain'
    <2>1. CASE HandlerLock(h)
      BY <2>1 DEF HandlerLock
    <2>2. CASE HandlerRecv(h)
      <3>. DEFINE p == serves[h]
      <3>1. /\ UNCHANGED <<info, up, sent, serves, alive, wrote>>
            /\ out' = [out EXCEPT ![p] = Rest(out[p])]
            /\ handler' = [handler EXCEPT ![h] = IF out[p] > 0 THEN "relock" ELSE "ended"]
            /\ handler[h] = "recv"
        BY <2>2 DEF HandlerRecv, Runs
      <3>2. p \in Procs
        BY <3>1 DEF Serving
      <3>3. Rest(out[p]) \in Nat
        BY <3>2 DEF Rest
      <3>. QED BY <3>1, <3>2, <3>3
    <2>3. CASE HandlerRelock(h)
      BY <2>3 DEF HandlerRelock
    <2>4. CASE HandlerHandle(h)
      BY <2>4 DEF HandlerHandle, Status
    <2>. QED BY <1>6, <2>1, <2>2, <2>3, <2>4 DEF Handle
  <1>7. ASSUME NEW h \in Procs, HandlerDeaf(h) \/ Cancel(h) PROVE Plain'
    BY <1>7 DEF HandlerDeaf, Cancel
  <1>8. ASSUME NEW p \in Procs, Write(p) \/ Exit(p) PROVE Plain'
    <2>1. CASE Write(p)
      <3>1. /\ UNCHANGED <<info, up, sent, handler, serves, alive>>
            /\ out' = [out EXCEPT ![p] = out[p] + 1]
            /\ wrote' = [wrote EXCEPT ![p] = wrote[p] + 1]
        BY <2>1 DEF Write
      <3>2. out[p] + 1 \in Nat /\ wrote[p] + 1 \in Nat
        OBVIOUS
      <3>. QED BY <3>1, <3>2
    <2>2. CASE Exit(p)
      BY <2>2 DEF Exit
    <2>. QED BY <1>8, <2>1, <2>2
  <1>9. CASE UNCHANGED vars
    BY <1>9 DEF vars
  <1>. QED BY <1>1, <1>2, <1>3, <1>4, <1>5, <1>6, <1>7, <1>8, <1>9 DEF Next, TaskStep

\* The part of the invariant the locks and the handlers share.
Tended == Serving' /\ Locks' /\ Coherent'

\* A step that leaves the handlers alone and brings nobody a fresh slot.
LEMMA MoveKeepsServing ==
    ASSUME Tables, Serving, NEW t \in Tasks, Moves(t), UNCHANGED <<owner, handler, serves>>,
           task'[t].pc \in {"register", "attach"} =>
              handler[task'[t].proc] = "none",
           task'[t].pc \in {"queue", "send"} => task'[t].proc \in Procs
    PROVE  Serving'
  BY DEF Serving, Moves

LEMMA GotoTends ==
    ASSUME Tables, Serving, Locks, Coherent,
           NEW t \in Tasks, NEW pc \in Pcs \ {"register", "queue", "send"}, Goto(t, pc),
           pc \in WithId => task[t].pc \in WithId,
           UNCHANGED <<owner, handler, serves, lockVars>>,
           pc = "attach" => task[t].pc = "register",
           pc \in {"ask", "wait", "kill", "settle", "send"} <=> Uses(t),
           pc \in {"wait", "kill", "settle"} => holder[task[t].proc] = t
    PROVE  Tended
  <1>1. Moves(t) /\ SameWork(t) /\ task'[t].pc = pc
    BY GotoMoves
  <1>2. Serving'
    BY <1>1, MoveKeepsServing DEF Serving, SameWork
  <1>3. \/ ~Uses(t) /\ ~Uses(t)'
        \/ Uses(t) /\ Uses(t)' /\ task'[t].proc = task[t].proc
    BY <1>1 DEF Uses, SameWork
  <1>4. Inside(t)' => holder[task'[t].proc] = t
    BY <1>1 DEF Inside, SameWork
  <1>. QED BY <1>1, <1>2, <1>3, <1>4, TaskStaysCoherent DEF Tended

DoneAt(t) == task'[t].pc \in {"idle", "next"}

LEMMA DoneIsAt ==
    ASSUME Tables, NEW t \in Tasks, Done(t)
    PROVE  Moves(t) /\ DoneAt(t) /\ task'[t].id = None /\ task'[t].proc = None
  BY DoneMoves DEF DoneAt, Done, Idle, Tables, Typed

LEMMA DoneTends ==
    ASSUME Tables, Serving, Locks, Coherent, NEW t \in Tasks, Done(t), ~Uses(t),
           UNCHANGED <<owner, handler, serves, lockVars>>
    PROVE  Tended
  <1>1. Moves(t) /\ DoneAt(t)
    BY DoneIsAt
  <1>2. Serving'
    BY <1>1, MoveKeepsServing DEF DoneAt
  <1>3. ~Uses(t)' /\ ~Inside(t)'
    BY <1>1 DEF DoneAt, Uses, Inside
  <1>. QED BY <1>1, <1>2, <1>3, TaskStaysCoherent DEF Tended

LEMMA ReleaseTends ==
    ASSUME Tables, Serving, Locks, Coherent, NEW t \in Tasks, Done(t), Uses(t),
           holder[task[t].proc] = t, Release(task[t].proc),
           UNCHANGED <<owner, handler, serves>>
    PROVE  Tended
  <1>1. Moves(t) /\ DoneAt(t)
    BY DoneIsAt
  <1>2. Serving'
    BY <1>1, MoveKeepsServing DEF DoneAt
  <1>3. ~Uses(t)'
    BY <1>1 DEF DoneAt, Uses
  <1>4. task[t].proc \in Procs
    BY DEF Uses, Tables, Custody, Stopping, Serving
  <1>. QED BY <1>1, <1>2, <1>3, <1>4, TaskReleasesCoherent, InsideHas DEF Tended

LEMMA AcquireTends ==
    ASSUME Tables, Serving, Locks, Coherent, NEW t \in Tasks,
           \/ task[t].pc = "lock" /\ Goto(t, "ask")
           \/ task[t].pc = "queue" /\ Goto(t, "send"),
           Acquire(t, task[t].proc), UNCHANGED <<owner, handler, serves>>
    PROVE  Tended
  <1>1. Moves(t) /\ SameWork(t) /\ task'[t].pc \in {"ask", "send"}
    BY GotoMoves DEF Pcs, WithId, StopPcs
  <1>2. task[t].proc \in Procs
    BY DEF Tables, Custody, Stopping, Serving
  <1>3. Serving'
    BY <1>1, <1>2, MoveKeepsServing DEF SameWork
  <1>4. ~Uses(t) /\ Uses(t)' /\ ~Inside(t)'
    BY <1>1 DEF Uses, Inside
  <1>. QED BY <1>1, <1>2, <1>3, <1>4, TaskAsksCoherent, InsideHas DEF Tended, SameWork

\* A task whose entry is replaced and who asks for nothing.
LEMMA NewEntryTends ==
    ASSUME Tables, Serving, Locks, Coherent, NEW t \in Tasks, Moves(t), ~Uses(t), ~Uses(t)',
           task'[t].pc \in {"register", "attach"} => handler[task'[t].proc] = "none",
           task'[t].pc \in {"queue", "send"} => task'[t].proc \in Procs,
           UNCHANGED <<owner, handler, serves, lockVars>>
    PROVE  Tended
  <1>1. Serving'
    BY MoveKeepsServing
  <1>2. ~Inside(t)'
    BY DEF Inside, Uses
  <1>. QED BY <1>1, <1>2, TaskStaysCoherent DEF Tended

-----------------------------------------------------------------------------
LEMMA StartTends ==
    ASSUME Tables, Plain, Serving, Locks, Coherent, NEW t \in Tasks, Start(t)
    PROVE  Tended
  <1>. USE DEF At, tableVars, handVars, procVars
  <1>1. CASE StartCheck(t)
    <2>1. /\ task[t].pc = "check" /\ UNCHANGED <<owner, handler, serves, lockVars>>
          /\ Done(t) \/ Goto(t, "announce")
      BY <1>1 DEF StartCheck
    <2>2. ~Uses(t)
      BY <2>1 DEF Uses
    <2>. QED BY <2>1, <2>2, DoneTends, GotoTends DEF Pcs, WithId, StartPcs
  <1>2. CASE StartAnnounce(t)
    <2>1. /\ task[t].pc = "announce" /\ UNCHANGED <<owner, handler, serves, lockVars>>
          /\ Goto(t, "spawn")
      BY <1>2 DEF StartAnnounce
    <2>2. ~Uses(t)
      BY <2>1 DEF Uses
    <2>. QED BY <2>1, <2>2, GotoTends DEF Pcs, WithId, StartPcs
  <1>3. CASE StartSpawn(t)
    <2>1. task[t].pc = "spawn" /\ UNCHANGED <<handler, serves, lockVars>> /\ ~Uses(t)
      BY <1>3 DEF StartSpawn, Uses
    <2>2. CASE Done(t) /\ UNCHANGED owner
      BY <2>1, <2>2, DoneTends
    <2>3. ASSUME NEW p \in Procs, owner[p] = None,
                 owner' = [owner EXCEPT ![p] = task[t].id],
                 task' = [task EXCEPT ![t].pc = "register", ![t].proc = p]
          PROVE  Tended
      <3>1. /\ task \in [Tasks -> TaskType] /\ owner \in [Procs -> Ids \cup {None}]
            /\ task[t].id \in Ids
        BY <2>1 DEF Tables, Typed, HasId, WithId, StartPcs
      <3>2. task'[t] = [pc |-> "register", id |-> task[t].id, proc |-> p]
        BY <2>3, <3>1 DEF TaskType
      <3>3. Moves(t)
        BY <2>3, <3>1, <3>2 DEF Moves, TaskType, Pcs, StartPcs
      <3>4. handler[p] = "none" /\ \A q \in Procs : owner'[q] = None => owner[q] = None
        BY <2>3, <3>1, NamesApart DEF Serving
      <3>5. Serving'
        <4>1. \A q \in Procs : owner'[q] = None => handler'[q] = "none"
          BY <2>1, <3>4 DEF Serving
        <4>2. ASSUME NEW u \in Tasks, task'[u].pc \in {"register", "attach"}
              PROVE  handler'[task'[u].proc] = "none"
          BY <2>1, <3>2, <3>3, <3>4, <4>2 DEF Serving, Moves
        <4>3. ASSUME NEW u \in Tasks, task'[u].pc \in {"queue", "send"}
              PROVE  task'[u].proc \in Procs
          BY <3>2, <3>3, <4>3 DEF Serving, Moves
        <4>. QED BY <2>1, <4>1, <4>2, <4>3 DEF Serving
      <3>6. ~Uses(t)' /\ ~Inside(t)'
        BY <3>2 DEF Uses, Inside
      <3>. QED BY <2>1, <3>3, <3>5, <3>6, TaskStaysCoherent DEF Tended
    <2>. QED BY <1>3, <2>2, <2>3 DEF StartSpawn
  <1>4. CASE StartRegister(t)
    <2>1. /\ task[t].pc = "register" /\ UNCHANGED <<owner, handler, serves, lockVars>>
          /\ Goto(t, "attach")
      BY <1>4 DEF StartRegister
    <2>2. ~Uses(t)
      BY <2>1 DEF Uses
    <2>. QED BY <2>1, <2>2, GotoTends DEF Pcs, WithId, StartPcs
  <1>5. CASE StartAttach(t)
    <2>1. task[t].pc = "attach" /\ UNCHANGED <<owner, lockVars>> /\ ~Uses(t)
      BY <1>5 DEF StartAttach, Uses
    <2>2. CASE Done(t) /\ UNCHANGED <<handler, serves>>
      BY <2>1, <2>2, DoneTends
    <2>3. CASE /\ modules[task[t].id] # None /\ Goto(t, "track")
               /\ handler' = [handler EXCEPT ![task[t].proc] = "want"]
               /\ serves' = [serves EXCEPT ![task[t].proc] = modules[task[t].id]]
      <3>1. PICK h, p : h = task[t].proc /\ p = modules[task[t].id]
        OBVIOUS
      <3>2. h \in Procs /\ p \in Procs /\ owner[h] # None /\ handler[h] = "none"
        <4>1. task[t].id \in Ids
          BY <2>1 DEF Tables, HasId, WithId, StartPcs
        <4>. QED BY <2>1, <2>3, <3>1, <4>1, NamesApart
                 DEF Tables, Typed, Tracking, Launching, Serving
      <3>3. Moves(t) /\ SameWork(t) /\ task'[t].pc = "track"
        BY <2>1, <2>3, GotoMoves DEF Pcs, WithId, StartPcs
      <3>4. /\ handler'[h] = "want" /\ serves'[h] = p
            /\ \A g \in Procs \ {h} : handler'[g] = handler[g] /\ serves'[g] = serves[g]
        BY <2>3, <3>1, <3>2 DEF Plain
      <3>5. Serving'
        <4>1. \A q \in Procs : owner'[q] = None => handler'[q] = "none"
          BY <2>1, <3>2, <3>4 DEF Serving
        <4>2. ASSUME NEW u \in Tasks, task'[u].pc \in {"register", "attach"}
              PROVE  handler'[task'[u].proc] = "none"
          <5>1. u # t /\ task'[u] = task[u]
            BY <3>3, <4>2 DEF Moves
          <5>2. task[u].proc # h /\ task[u].proc \in Procs
            BY <2>1, <3>1, <4>2, <5>1 DEF Tables, Tracking, Launching
          <5>. QED BY <3>4, <4>2, <5>1, <5>2 DEF Serving
        <4>3. ASSUME NEW g \in Procs, handler'[g] # "none" PROVE serves'[g] \in Procs
          BY <3>2, <3>4, <4>3 DEF Serving
        <4>4. ASSUME NEW u \in Tasks, task'[u].pc \in {"queue", "send"}
              PROVE  task'[u].proc \in Procs
          BY <3>3, <4>4 DEF Serving, Moves
        <4>. QED BY <4>1, <4>2, <4>3, <4>4 DEF Serving
      <3>6. \A g \in Procs : \/ handler'[g] = handler[g] /\ serves'[g] = serves[g]
                             \/ {handler[g], handler'[g]} \cap {"recv", "handle"} = {}
        BY <3>2, <3>4
      <3>7. ~Uses(t)' /\ ~Inside(t)'
        BY <3>3 DEF Uses, Inside
      <3>. QED BY <2>1, <3>3, <3>5, <3>6, <3>7, TaskStaysCoherent DEF Tended
    <2>. QED BY <1>5, <2>2, <2>3 DEF StartAttach
  <1>6. CASE StartTrack(t)
    <2>1. /\ task[t].pc = "track" /\ UNCHANGED <<owner, handler, serves, lockVars>>
          /\ Done(t)
      BY <1>6 DEF StartTrack
    <2>2. ~Uses(t)
      BY <2>1 DEF Uses
    <2>. QED BY <2>1, <2>2, DoneTends
  <1>. QED BY <1>1, <1>2, <1>3, <1>4, <1>5, <1>6 DEF Start

LEMMA StopTends ==
    ASSUME Tables, Plain, Serving, Locks, Coherent, NEW t \in Tasks, Stop(t)
    PROVE  Tended
  <1>. USE DEF At, tableVars, handVars, procVars
  <1>1. CASE StopAbort(t) \/ StopMark(t)
    <2>1. /\ task[t].pc \in {"abort", "mark"} /\ UNCHANGED <<owner, handler, serves, lockVars>>
          /\ Goto(t, "mark") \/ Goto(t, "take")
      BY <1>1 DEF StopAbort, StopMark
    <2>2. ~Uses(t)
      BY <2>1 DEF Uses
    <2>. QED BY <2>1, <2>2, GotoTends DEF Pcs, WithId, StopPcs
  <1>2. CASE StopTake(t)
    <2>1. /\ task[t].pc = "take" /\ UNCHANGED <<owner, handler, serves, lockVars>>
          /\ ~Uses(t)
      BY <1>2 DEF StopTake, Uses
    <2>2. CASE Done(t)
      BY <2>1, <2>2, DoneTends
    <2>3. CASE /\ modules[task[t].id] # None
               /\ task' = [task EXCEPT ![t].pc = "lock", ![t].proc = modules[task[t].id]]
      <3>1. /\ task \in [Tasks -> TaskType] /\ task[t].id \in Ids
            /\ modules[task[t].id] \in Procs
        BY <2>1, <2>3 DEF Tables, Typed, HasId, WithId, StopPcs
      <3>2. task'[t] = [pc |-> "lock", id |-> task[t].id, proc |-> modules[task[t].id]]
        BY <2>3, <3>1 DEF TaskType
      <3>3. Moves(t)
        BY <2>3, <3>1, <3>2 DEF Moves, TaskType, Pcs, StopPcs
      <3>4. ~Uses(t)'
        BY <3>2 DEF Uses
      <3>. QED BY <2>1, <3>2, <3>3, <3>4, NewEntryTends
    <2>. QED BY <1>2, <2>2, <2>3 DEF StopTake
  <1>3. CASE StopLock(t)
    BY <1>3, AcquireTends DEF StopLock
  <1>4. CASE StopAsk(t)
    <2>1. /\ task[t].pc = "ask" /\ holder[task[t].proc] = t
          /\ UNCHANGED <<owner, handler, serves, lockVars>>
          /\ Goto(t, "wait") \/ Goto(t, "kill")
      BY <1>4 DEF StopAsk
    <2>2. Uses(t)
      BY <2>1 DEF Uses
    <2>. QED BY <2>1, <2>2, GotoTends DEF Pcs, WithId, StopPcs
  <1>5. CASE StopWait(t)
    <2>1. /\ task[t].pc = "wait" /\ UNCHANGED <<owner, handler, serves, lockVars>>
          /\ Goto(t, "kill") \/ Goto(t, "settle")
      BY <1>5 DEF StopWait, AfterWait
    <2>2. Uses(t) /\ holder[task[t].proc] = t
      BY <2>1 DEF Uses, Coherent, Inside
    <2>. QED BY <2>1, <2>2, GotoTends DEF Pcs, WithId, StopPcs
  <1>6. CASE StopKill(t)
    <2>1. /\ task[t].pc = "kill" /\ UNCHANGED <<owner, handler, serves>>
          /\ \/ Goto(t, "settle") /\ UNCHANGED lockVars
             \/ Done(t) /\ Release(task[t].proc)
      BY <1>6 DEF StopKill
    <2>2. Uses(t) /\ holder[task[t].proc] = t
      BY <2>1 DEF Uses, Coherent, Inside
    <2>. QED BY <2>1, <2>2, GotoTends, ReleaseTends DEF Pcs, WithId, StopPcs
  <1>7. CASE StopSettle(t)
    <2>1. /\ task[t].pc = "settle" /\ UNCHANGED <<owner, handler, serves>>
          /\ Done(t) /\ Release(task[t].proc)
      BY <1>7 DEF StopSettle
    <2>2. Uses(t) /\ holder[task[t].proc] = t
      BY <2>1 DEF Uses, Coherent, Inside
    <2>. QED BY <2>1, <2>2, ReleaseTends
  <1>. QED BY <1>1, <1>2, <1>3, <1>4, <1>5, <1>6, <1>7 DEF Stop

LEMMA CommandTends ==
    ASSUME Tables, Plain, Serving, Locks, Coherent, NEW t \in Tasks, Command(t)
    PROVE  Tended
  <1>. USE DEF At, tableVars, handVars, procVars
  <1>1. CASE CommandFind(t)
    <2>1. /\ task[t].pc = "find" /\ UNCHANGED <<owner, handler, serves, lockVars>>
          /\ ~Uses(t)
      BY <1>1 DEF CommandFind, Uses
    <2>2. CASE Done(t)
      BY <2>1, <2>2, DoneTends
    <2>3. CASE /\ modules[task[t].id] # None
               /\ task' = [task EXCEPT ![t].pc = "queue", ![t].proc = modules[task[t].id]]
      <3>1. /\ task \in [Tasks -> TaskType] /\ task[t].id \in Ids
            /\ modules[task[t].id] \in Procs
        BY <2>1, <2>3 DEF Tables, Typed, HasId, WithId
      <3>2. task'[t] = [pc |-> "queue", id |-> task[t].id, proc |-> modules[task[t].id]]
        BY <2>3, <3>1 DEF TaskType
      <3>3. Moves(t)
        BY <2>3, <3>1, <3>2 DEF Moves, TaskType, Pcs
      <3>4. ~Uses(t)'
        BY <3>2 DEF Uses
      <3>. QED BY <2>1, <3>1, <3>2, <3>3, <3>4, NewEntryTends
    <2>. QED BY <1>1, <2>2, <2>3 DEF CommandFind
  <1>2. CASE CommandLock(t)
    BY <1>2, AcquireTends DEF CommandLock
  <1>3. CASE CommandSend(t)
    <2>1. /\ task[t].pc = "send" /\ UNCHANGED <<owner, handler, serves>>
          /\ holder[task[t].proc] = t /\ Done(t) /\ Release(task[t].proc)
      BY <1>3 DEF CommandSend
    <2>2. Uses(t)
      BY <2>1 DEF Uses
    <2>. QED BY <2>1, <2>2, ReleaseTends
  <1>. QED BY <1>1, <1>2, <1>3 DEF Command

LEMMA ShutdownTends ==
    ASSUME Tables, Plain, Serving, Locks, Coherent, Shutdown \/ BeginShutdown
    PROVE  Tended
  <1>. USE DEF At, tableVars, handVars, procVars
  <1>1. Main \in Tasks /\ UNCHANGED <<owner, handler, serves, lockVars>>
    BY DEF Tasks, Shutdown, BeginShutdown, ShutdownDrain, ShutdownSnapshot, ShutdownNext,
           DaemonExit
  <1>2. task[Main].pc \in {"idle", "drain", "snapshot", "next", "exit"} /\ ~Uses(Main)
    BY DEF Shutdown, BeginShutdown, ShutdownDrain, ShutdownSnapshot, ShutdownNext,
           DaemonExit, Uses
  <1>3. ASSUME NEW pc \in {"drain", "snapshot", "next", "exit", "gone"}, Goto(Main, pc)
        PROVE  Tended
    BY <1>1, <1>2, <1>3, GotoTends DEF Pcs, WithId, StartPcs, StopPcs
  <1>4. ASSUME NEW i \in todo,
               task' = [task EXCEPT ![Main] = [pc |-> "mark", id |-> i, proc |-> None]]
        PROVE  Tended
    <2>. DEFINE e == [pc |-> "mark", id |-> i, proc |-> None]
    <2>1. task' = [task EXCEPT ![Main] = e] /\ e \in TaskType /\ e.pc = "mark" /\ e.id \in Ids
      BY <1>4 DEF TaskType, Pcs, StopPcs, Tables, Typed
    <2>. HIDE DEF e
    <2>2. Moves(Main) /\ task'[Main].pc = "mark"
      BY <1>1, <2>1 DEF Moves, Tables, Typed
    <2>3. ~Uses(Main)'
      BY <2>2 DEF Uses
    <2>. QED BY <1>1, <1>2, <2>2, <2>3, NewEntryTends
  <1>. QED BY <1>3, <1>4 DEF Shutdown, BeginShutdown, ShutdownDrain, ShutdownSnapshot,
                             ShutdownNext, DaemonExit

LEMMA RequestTends ==
    ASSUME Tables, Plain, Serving, Locks, Coherent, NEW t \in Conns, NEW i \in Ids,
           NEW pc \in {"check", "abort", "find"}, Request(t, i, pc)
    PROVE  Tended
  <1>. DEFINE e == [pc |-> pc, id |-> i, proc |-> None]
  <1>1. /\ task' = [task EXCEPT ![t] = e] /\ t \in Tasks /\ task[t].pc = "idle"
        /\ UNCHANGED <<owner, handler, serves, lockVars>>
    BY DEF Request, Tasks, At, handVars, procVars
  <1>2. e \in TaskType /\ e.pc = pc /\ e.id = i
    BY DEF TaskType, Pcs, StartPcs, StopPcs
  <1>. HIDE DEF e
  <1>3. Moves(t) /\ task'[t].pc = pc
    BY <1>1, <1>2 DEF Moves, Tables, Typed
  <1>4. ~Uses(t) /\ ~Uses(t)'
    BY <1>1, <1>3 DEF Uses
  <1>. QED BY <1>1, <1>3, <1>4, NewEntryTends

-----------------------------------------------------------------------------
LEMMA HandlerKeepsServing ==
    ASSUME Serving, NEW h \in Procs, UNCHANGED <<task, owner, serves>>,
           \A g \in Procs \ {h} : handler'[g] = handler[g],
           handler[h] # "none", Tables
    PROVE  Serving'
  <1>1. ASSUME NEW u \in Tasks, task[u].pc \in {"register", "attach"}
        PROVE  handler'[task[u].proc] = "none"
    <2>1. handler[task[u].proc] = "none" /\ task[u].proc \in Procs
      BY <1>1 DEF Serving, Tables, Tracking, Launching
    <2>2. task[u].proc # h
      BY <2>1
    <2>. QED BY <2>1, <2>2
  <1>2. ASSUME NEW p \in Procs, owner[p] = None PROVE handler'[p] = "none"
    BY <1>2 DEF Serving
  <1>3. ASSUME NEW g \in Procs PROVE handler'[g] # "none" => serves[g] \in Procs
    BY DEF Serving
  <1>4. \A u \in Tasks : task[u].pc \in {"queue", "send"} => task[u].proc \in Procs
    BY DEF Serving
  <1>. QED BY <1>1, <1>2, <1>3, <1>4 DEF Serving

LEMMA HandlerTends ==
    ASSUME Tables, Plain, Serving, Locks, Coherent, NEW h \in Procs,
           Handle(h) \/ HandlerDeaf(h) \/ Cancel(h)
    PROVE  Tended
  <1>. USE DEF tableVars, taskVars, procVars, Runs
  <1>1. InsideHasProcess
    BY InsideHas
  <1>2. ASSUME UNCHANGED <<task, owner, serves>>, Acquire(h, serves[h]),
               NEW pc \in {"recv", "handle"}, handler' = [handler EXCEPT ![h] = pc],
               handler[h] \in {"want", "relock"}
        PROVE  Tended
    <2>1. handler'[h] = pc /\ \A g \in Procs \ {h} : handler'[g] = handler[g]
      BY <1>2 DEF Plain
    <2>2. serves[h] \in Procs
      BY <1>2 DEF Serving
    <2>3. Serving'
      BY <1>2, <2>1, HandlerKeepsServing
    <2>. QED BY <1>1, <1>2, <2>1, <2>2, <2>3, HandlerAsksCoherent DEF Tended
  <1>3. ASSUME UNCHANGED <<task, owner, serves>>,
               \/ Release(serves[h]) /\ holder[serves[h]] = h
               \/ GiveUp(h, serves[h]),
               NEW pc \in {"want", "relock", "ended"}, handler' = [handler EXCEPT ![h] = pc],
               handler[h] # "none"
        PROVE  Tended
    <2>1. handler'[h] = pc /\ \A g \in Procs \ {h} : handler'[g] = handler[g]
      BY <1>3 DEF Plain
    <2>2. serves[h] \in Procs
      BY <1>3 DEF Serving
    <2>3. Serving'
      BY <1>3, <2>1, HandlerKeepsServing
    <2>4. handler'[h] \notin {"recv", "handle"}
      BY <2>1
    <2>. QED BY <1>1, <1>3, <2>1, <2>2, <2>3, <2>4, HandlerLeavesCoherent DEF Tended
  <1>4. CASE HandlerLock(h)
    BY <1>2, <1>4 DEF HandlerLock
  <1>5. CASE HandlerRecv(h)
    BY <1>3, <1>5 DEF HandlerRecv, GuardDropped
  <1>6. CASE HandlerRelock(h)
    BY <1>2, <1>6 DEF HandlerRelock
  <1>7. CASE HandlerHandle(h)
    BY <1>3, <1>7 DEF HandlerHandle
  <1>8. CASE HandlerDeaf(h)
    BY <1>3, <1>8 DEF HandlerDeaf
  <1>9. CASE Cancel(h)
    BY <1>3, <1>9 DEF Cancel
  <1>. QED BY <1>4, <1>5, <1>6, <1>7, <1>8, <1>9 DEF Handle

LEMMA OthersTend ==
    ASSUME Serving, Locks, Coherent, UNCHANGED <<task, owner, handler, serves, lockVars>>
    PROVE  Tended
  <1>1. Serving'
    BY DEF Serving
  <1>2. \A p \in Procs : Users(p)' = Users(p)
    BY DEF Users
  <1>3. \A u \in Tasks : Inside(u)' => holder[task'[u].proc] = u
    BY DEF Inside, Coherent
  <1>. QED BY <1>1, <1>2, <1>3, StaysCoherent DEF Tended

\* Only the shutdown's look at the table records what it found there.
LEMMA FoundStep ==
    ASSUME Tables, Recorded, [Next]_vars
    PROVE  Recorded'
  <1>. USE DEF taskVars
  <1>1. ASSUME NEW t \in Tasks, Start(t) \/ Command(t) PROVE UNCHANGED found
    BY <1>1 DEF Start, StartCheck, StartAnnounce, StartSpawn, StartRegister, StartAttach,
                StartTrack, Command, CommandFind, CommandLock, CommandSend
  <1>2. ASSUME NEW t \in Tasks, Stop(t) PROVE UNCHANGED found
    BY <1>2 DEF Stop, StopAbort, StopMark, StopTake, StopLock, StopAsk, StopWait, StopKill,
                StopSettle
  <1>3. CASE BeginShutdown \/ ShutdownDrain \/ ShutdownNext \/ DaemonExit
    BY <1>3 DEF BeginShutdown, ShutdownDrain, ShutdownNext, DaemonExit, Recorded
  <1>4. CASE ShutdownSnapshot
    <2>1. found' = {modules[i] : i \in Ids} \ {None}
      BY <1>4 DEF ShutdownSnapshot
    <2>2. \A i \in Ids : modules[i] \in Procs \cup {None}
      BY DEF Tables, Typed
    <2>. QED BY <2>1, <2>2 DEF Recorded
  <1>5. ASSUME NEW h \in Procs, Handle(h) \/ HandlerDeaf(h) \/ Cancel(h) PROVE UNCHANGED found
    BY <1>5 DEF Handle, HandlerLock, HandlerRecv, HandlerRelock, HandlerHandle, HandlerDeaf,
                Cancel
  <1>6. ASSUME \/ \E p \in Procs : Write(p) \/ Exit(p)
               \/ \E t \in Conns, i \in Ids, pc \in {"check", "abort", "find"} : Request(t, i, pc)
               \/ UNCHANGED vars
        PROVE  UNCHANGED found
    BY <1>6 DEF Write, Exit, Request, vars
  <1>. QED BY <1>1, <1>2, <1>3, <1>4, <1>5, <1>6 DEF Next, TaskStep, Shutdown, Recorded

LEMMA NextKeepsLockInv ==
    ASSUME LockInv, [Next]_vars
    PROVE  LockInv'
  <1>1. Tables /\ Plain /\ Serving /\ Locks /\ Coherent /\ Recorded
    BY DEF LockInv
  <1>2. Tables' /\ Plain' /\ Recorded'
    BY <1>1, NextKeepsTables, PlainStep, FoundStep
  <1>3. Tended
    <2>1. ASSUME NEW t \in Tasks, TaskStep(t) PROVE Tended
      BY <1>1, <2>1, StartTends, StopTends, CommandTends, ShutdownTends DEF TaskStep
    <2>2. ASSUME NEW t \in Conns, NEW i \in Ids, NEW pc \in {"check", "abort", "find"},
                 Request(t, i, pc)
          PROVE  Tended
      BY <1>1, <2>2, RequestTends
    <2>3. CASE BeginShutdown
      BY <1>1, <2>3, ShutdownTends
    <2>4. ASSUME NEW h \in Procs, Handle(h) \/ HandlerDeaf(h) \/ Cancel(h) PROVE Tended
      BY <1>1, <2>4, HandlerTends
    <2>5. ASSUME NEW p \in Procs, Write(p) \/ Exit(p) PROVE Tended
      BY <1>1, <2>5, OthersTend DEF Write, Exit, taskVars, handVars
    <2>6. CASE UNCHANGED vars
      BY <1>1, <2>6, OthersTend DEF vars, taskVars, handVars, procVars
    <2>. QED BY <2>1, <2>2, <2>3, <2>4, <2>5, <2>6 DEF Next
  <1>. QED BY <1>2, <1>3 DEF LockInv, Tended

LEMMA InitLockInv ==
    ASSUME Init
    PROVE  LockInv
  <1>1. Tables
    BY InitTables
  <1>. USE DEF Init
  <1>2. \A t \in Tasks : task[t].pc = "idle"
    BY DEF Idle
  <1>3. Plain /\ Serving
    BY <1>2 DEF Plain, Serving, Status
  <1>4. Locks
    <2>1. <<>> \in Seq(Holders) /\ Len(<<>>) = 0
      OBVIOUS
    <2>. QED BY <2>1 DEF Locks, Lock
  <1>5. Coherent
    <2>1. \A p \in Procs : Asking(p) = {}
      BY DEF Asking
    <2>2. \A p \in Procs : Users(p) = {}
      BY <1>2 DEF Users
    <2>. QED BY <1>2, <2>1, <2>2 DEF Coherent, Inside
  <1>. QED BY <1>1, <1>3, <1>4, <1>5 DEF LockInv, Recorded

\* Spec => []LockInv: tables, handlers and mutexes agree, for any overlap of requests.
THEOREM LockInvariant == Spec => []LockInv
  <1>. QED BY InitLockInv, NextKeepsLockInv, PTL DEF Spec

\* Spec => []TypeOK. Every field of the manager, the registry and the processes is well
\* typed at all times.
THEOREM TypeCorrect == Spec => []TypeOK
  <1>1. LockInv => TypeOK
    BY DEF LockInv, Tables, Typed, TaskType, Plain, Recorded, Locks, TypeOK
  <1>. QED BY <1>1, LockInvariant, PTL

LEMMA LineCardinality ==
    ASSUME NEW w \in Seq(Holders), \A i, j \in 1..Len(w) : w[i] = w[j] => i = j
    PROVE  Cardinality(Line(w)) = Len(w)
  <1>. DEFINE n == Len(w)
              f == [i \in 1..n |-> w[i]]
  <1>1. n \in Nat
    OBVIOUS
  <1>2. f \in Bijection(1..n, Line(w))
    BY DEF Line, Bijection, Injection, Surjection, IsInjective
  <1>3. IsFiniteSet(1..n) /\ Cardinality(1..n) = n
    <2>. HIDE DEF n
    <2>. QED BY <1>1, FS_Interval
  <1>4. ExistsBijection(1..n, Line(w))
    BY <1>2 DEF ExistsBijection
  <1>. QED BY <1>3, <1>4, FS_Bijection

\* Spec => []MutexCoherent. Whoever starts, stops, commands, aborts or crashes in between,
\* the mutex of a process is held by one of the tasks that asked for it, the others stand
\* in line once each, and nobody who is gone holds it or waits (manager.rs:66-99, 431;
\* registry.rs:118).
THEOREM MutexesCoherent == Spec => []MutexCoherent
  <1>1. ASSUME LockInv PROVE MutexCoherent
    <2>1. ASSUME NEW p \in Procs
          PROVE  /\ (Line(waiters[p]) \cup {holder[p]}) \ {None} = Users(p)
                 /\ holder[p] = None => Line(waiters[p]) = {}
                 /\ holder[p] \notin Line(waiters[p])
                 /\ Cardinality(Line(waiters[p])) = Len(waiters[p])
                 /\ \A t \in Tasks : task[t].proc = p /\ task[t].pc \in {"wait", "kill", "settle"}
                                        => holder[p] = t
      <3>1. /\ waiters[p] \in Seq(Holders)
            /\ holder[p] = None => waiters[p] = <<>>
            /\ \A i, j \in 1..Len(waiters[p]) : waiters[p][i] = waiters[p][j] => i = j
            /\ \A i \in 1..Len(waiters[p]) : waiters[p][i] # holder[p]
        BY <1>1 DEF LockInv, Locks, Lock
      <3>2. (Line(waiters[p]) \cup {holder[p]}) \ {None} = Users(p)
        BY <1>1 DEF LockInv, Coherent, Asking, Line
      <3>3. holder[p] = None => Line(waiters[p]) = {}
        BY <3>1 DEF Line
      <3>4. holder[p] \notin Line(waiters[p])
        BY <3>1 DEF Line
      <3>5. Cardinality(Line(waiters[p])) = Len(waiters[p])
        BY <3>1, LineCardinality
      <3>6. \A t \in Tasks : task[t].proc = p /\ task[t].pc \in {"wait", "kill", "settle"}
                                => holder[p] = t
        BY <1>1 DEF LockInv, Coherent, Inside
      <3>. QED BY <3>2, <3>3, <3>4, <3>5, <3>6
    <2>. QED BY <2>1 DEF MutexCoherent, Line
  <1>. QED BY <1>1, LockInvariant, PTL

-----------------------------------------------------------------------------
\* What clients that start and stop one at a time keep (Serialized), with main's
\* shutdown at any moment.

\* One connection at a time starts or stops a module; main only shuts down.
MainPcs == {"idle", "drain", "snapshot", "next", "exit", "gone"} \cup (StopPcs \ {"abort"})

OneBusy ==
    /\ \A t, u \in Conns : Busy(t) /\ Busy(u) => t = u
    /\ task[Main].pc \in MainPcs

\* The id is unregistered while its start has not registered it, and once a client's
\* stop has taken the process out; from then on only main can take the process, and
\* it is the start's own process that its handler is to serve.
Alone ==
    \A t \in Conns :
        /\ task[t].pc \in {"announce", "spawn", "register"} \/ Stopping(t) =>
              modules[task[t].id] = None
        /\ task[t].pc \in {"attach", "track"} =>
              modules[task[t].id] \in {task[t].proc, None}
        /\ task[t].pc = "track" => serves[task[t].proc] = task[t].proc

Served(i) == modules[i] # None => handlers[i] # None /\ serves[handlers[i]] = modules[i]

\* A start has registered the process and not its handler, or a stop or the shutdown
\* has aborted the handler and not taken the process out.
Unsettled(i) ==
    \/ \E t \in Conns : task[t].id = i /\ task[t].pc \in {"attach", "track", "mark", "take"}
    \/ task[Main].pc # "idle"

AllServed == \A i \in Ids : Unsettled(i) \/ Served(i)

\* The shutdown has been to the id it is at, and has still to go to those in todo; it
\* found a process registered for each of them.
Sweeping ==
    /\ task[Main].pc \in {"idle", "drain", "snapshot"} => todo = {} /\ found = {}
    /\ task[Main].pc \in StopPcs => Swept(task[Main].id)
    /\ task[Main].pc \in {"exit", "gone"} => todo = {}
    /\ \A i \in todo : \E p \in found : owner[p] = i
    /\ \A p \in found : owner[p] \in Ids
    /\ ~up => task[Main].pc = "gone"

Serial == OneBusy /\ Alone /\ AllServed /\ Sweeping

\* A live process is registered, or a start or a stop has it in hand.
Kept ==
    /\ \A p \in Procs : alive[p] =>
          /\ owner[p] \in Ids
          /\ \/ modules[owner[p]] = p
             \/ \E t \in Tasks : (Bringing(t) \/ Stopping(t)) /\ task[t].proc = p
    /\ \A t \in Tasks : task[t].pc = "settle" => ~alive[task[t].proc]

\* What module.list shows of the id of a live process.
Fit(i) == info[i] \notin {"stopped", "absent"} \/ Swept(i)

Shown ==
    /\ \A p \in Procs : alive[p] => Fit(owner[p])
    /\ \A t \in Conns : task[t].pc = "spawn" => Fit(task[t].id)

\* A live process the shutdown found is still before it, or is being stopped.
Ahead(i) == i \in todo \/ (task[Main].pc \in {"mark", "take"} /\ task[Main].id = i)

Held ==
    \A p \in found : alive[p] =>
        \/ modules[owner[p]] = p /\ Ahead(owner[p])
        \/ \E t \in Tasks : Stopping(t) /\ task[t].proc = p

\* No live process is lost, shown as stopped or missed by the shutdown.
Lossless == Kept /\ Shown /\ Held

SerialInv == LockInv /\ (Serialized => Serial /\ (~KillMayFail => Lossless))

-----------------------------------------------------------------------------
LEMMA MainApart == Main \in Tasks /\ Main \notin Conns /\ \A t \in Conns : t \in Tasks /\ t # Main
  BY NamesAssumption DEF Tasks

\* Only t moves; if it is a connection, no other one starts or stops a module.
Turn(t) == Moves(t) /\ (t \in Conns => \A u \in Conns \ {t} : ~Busy(u))

LEMMA GotoIsTurn ==
    ASSUME Tables, OneBusy, NEW t \in Tasks, Busy(t), NEW pc \in Pcs, Goto(t, pc),
           pc \in WithId => task[t].pc \in WithId
    PROVE  Turn(t) /\ SameWork(t) /\ task'[t].pc = pc
  BY GotoMoves DEF Turn, OneBusy

LEMMA DoneIsTurn ==
    ASSUME Tables, OneBusy, NEW t \in Tasks, Busy(t), Done(t)
    PROVE  Turn(t) /\ task'[t].pc = IF t = Main THEN "next" ELSE "idle"
  <1>1. task \in [Tasks -> TaskType]
    BY DEF Tables, Typed
  <1>. DEFINE e == IF t = Main THEN [Idle EXCEPT !.pc = "next"] ELSE Idle
  <1>2. task' = [task EXCEPT ![t] = e] /\ e.pc = IF t = Main THEN "next" ELSE "idle"
    BY DEF Done, Idle
  <1>. HIDE DEF e
  <1>3. task'[t].pc = IF t = Main THEN "next" ELSE "idle"
    BY <1>1, <1>2
  <1>. QED BY <1>3, DoneMoves DEF Turn, OneBusy

LEMMA TurnKeepsOneBusy ==
    ASSUME OneBusy, NEW t \in Tasks, Turn(t), t = Main => task'[t].pc \in MainPcs
    PROVE  OneBusy'
  <1>1. \A u \in Tasks \ {t} : task'[u] = task[u]
    BY DEF Turn, Moves
  <1>2. task'[Main].pc \in MainPcs
    BY <1>1, MainApart DEF OneBusy
  <1>3. \A u, v \in Conns : Busy(u)' /\ Busy(v)' => u = v
    <2>1. CASE t \in Conns
      BY <1>1, <2>1, MainApart DEF Turn, Busy
    <2>2. CASE t \notin Conns
      BY <1>1, <2>2, MainApart DEF OneBusy, Busy
    <2>. QED BY <2>1, <2>2
  <1>. QED BY <1>2, <1>3 DEF OneBusy

LEMMA ConnKeepsAlone ==
    ASSUME NEW t \in Conns, Turn(t),
           task'[t].pc \in {"announce", "spawn", "register"} \/ Stopping(t)' =>
              modules'[task'[t].id] = None,
           task'[t].pc \in {"attach", "track"} =>
              modules'[task'[t].id] \in {task'[t].proc, None},
           task'[t].pc = "track" => serves'[task'[t].proc] = task'[t].proc
    PROVE  Alone'
  <1>1. ASSUME NEW u \in Conns \ {t}
        PROVE  task'[u].pc \notin {"announce", "spawn", "register", "attach", "track"}
               /\ ~Stopping(u)'
    BY MainApart DEF Turn, Moves, Busy, StartPcs, StopPcs, Stopping
  <1>. QED BY <1>1 DEF Alone, Stopping

\* main registers nothing.
LEMMA MainKeepsAlone ==
    ASSUME Tables, Alone, Turn(Main), UNCHANGED serves,
           \A i \in Ids : modules'[i] \in {modules[i], None}
    PROVE  Alone'
  <1>1. \A u \in Conns : task'[u] = task[u]
    BY MainApart DEF Turn, Moves
  <1>2. \A u \in Conns : task[u].pc \in StartPcs \cup StopPcs => task[u].id \in Ids
    BY MainApart DEF Tables, HasId, WithId
  <1>. QED BY <1>1, <1>2 DEF Alone, Stopping, StartPcs, StopPcs

\* A turn that leaves the handlers alone and leaves no id half way.
LEMMA ConnKeepsServed ==
    ASSUME AllServed, NEW t \in Conns, Turn(t), UNCHANGED <<modules, handlers, serves>>,
           task[t].pc \in {"attach", "track", "mark", "take"} =>
              \/ /\ task'[t].pc \in {"attach", "track", "mark", "take"}
                 /\ task'[t].id = task[t].id
              \/ modules[task[t].id] = None
    PROVE  AllServed'
  <1>1. \A u \in Conns \ {t} : task[u].pc \notin {"attach", "track", "mark", "take"}
    BY DEF Turn, Busy, StartPcs, StopPcs
  <1>2. task'[Main] = task[Main]
    BY MainApart DEF Turn, Moves
  <1>3. ASSUME NEW i \in Ids PROVE Unsettled(i)' \/ Served(i)'
    <2>1. Served(i) => Served(i)'
      BY DEF Served
    <2>2. Unsettled(i) => Unsettled(i)' \/ modules[i] = None
      BY <1>1, <1>2 DEF Unsettled
    <2>. QED BY <2>1, <2>2 DEF AllServed, Served
  <1>. QED BY <1>3 DEF AllServed

\* While main is idle, no id but that of the busy connection is half way.
LEMMA OthersServed ==
    ASSUME AllServed, NEW t \in Conns, Turn(t), NEW j \in Ids, task[t].id # j
    PROVE  Served(j) \/ task[Main].pc # "idle"
  <1>1. \A u \in Conns \ {t} : task[u].pc \notin {"attach", "track", "mark", "take"}
    BY DEF Turn, Busy, StartPcs, StopPcs
  <1>. QED BY <1>1 DEF AllServed, Unsettled

\* The turn of a connection when it changes a handler: only its own id needs a look.
LEMMA OwnIdServed ==
    ASSUME AllServed, NEW t \in Conns, Turn(t),
           \A j \in Ids : task[t].id # j /\ Served(j) => Served(j)',
           \A j \in Ids : task[t].id = j => Unsettled(j)' \/ Served(j)'
    PROVE  AllServed'
  <1>1. task'[Main] = task[Main]
    BY MainApart DEF Turn, Moves
  <1>2. ASSUME NEW j \in Ids, task[t].id # j PROVE Unsettled(j)' \/ Served(j)'
    BY <1>1, <1>2, OthersServed DEF Unsettled
  <1>. QED BY <1>2 DEF AllServed

\* What main has been to it has been to for ever; a connection's turn does not touch it.
LEMMA ConnKeepsSweeping ==
    ASSUME Recorded, Sweeping, NEW t \in Conns, Turn(t), UNCHANGED <<todo, found, up>>,
           \A p \in Procs : owner[p] \in Ids => owner'[p] = owner[p]
    PROVE  Sweeping' /\ \A i \in Ids : (Swept(i) => Swept(i)') /\ (Ahead(i) => Ahead(i)')
  <1>1. task'[Main] = task[Main]
    BY MainApart DEF Turn, Moves
  <1>2. \A p \in found : owner'[p] = owner[p]
    BY DEF Recorded, Sweeping
  <1>3. \A i \in Ids : (Swept(i) => Swept(i)') /\ (Ahead(i) => Ahead(i)')
    BY <1>1, <1>2 DEF Swept, Ahead
  <1>4. task'[Main].pc \in StopPcs => Swept(task[Main].id)'
    BY <1>1, <1>2 DEF Sweeping, Swept
  <1>. QED BY <1>1, <1>2, <1>3, <1>4 DEF Sweeping, Swept

\* A turn of a stop, made for a client or by the shutdown.
LEMMA StopKeepsSweeping ==
    ASSUME Recorded, Sweeping, NEW t \in Tasks, Turn(t), UNCHANGED <<todo, found, up, owner>>,
           t = Main => /\ task[t].pc \in StopPcs
                       /\ \/ task'[t].pc = "next"
                          \/ task'[t].pc \in StopPcs /\ task'[t].id = task[t].id
    PROVE  Sweeping' /\ \A i \in Ids : Swept(i) => Swept(i)'
  <1>1. CASE t = Main
    BY <1>1 DEF Sweeping, Swept, StopPcs
  <1>2. CASE t # Main
    BY <1>2, ConnKeepsSweeping DEF Tasks
  <1>. QED BY <1>1, <1>2

\* A turn that leaves the registrations alone and loses no live process.
LEMMA TurnKeepsKept ==
    ASSUME Tables, Kept, NEW t \in Tasks, Turn(t), UNCHANGED <<modules, owner>>,
           \A p \in Procs : alive'[p] => alive[p],
           Bringing(t) \/ Stopping(t) =>
              \/ (Bringing(t) \/ Stopping(t))' /\ task'[t].proc = task[t].proc
              \/ ~alive'[task[t].proc],
           task'[t].pc = "settle" => ~alive'[task'[t].proc]
    PROVE  Kept'
  <1>1. \A u \in Tasks \ {t} : task'[u] = task[u]
    BY DEF Turn, Moves
  <1>2. ASSUME NEW p \in Procs, alive'[p]
        PROVE  /\ owner'[p] \in Ids
               /\ \/ modules'[owner'[p]] = p
                  \/ \E u \in Tasks : (Bringing(u) \/ Stopping(u))' /\ task'[u].proc = p
    <2>1. alive[p] /\ owner'[p] \in Ids
      BY <1>2 DEF Kept
    <2>2. CASE modules[owner[p]] = p
      BY <2>1, <2>2
    <2>3. ASSUME NEW u \in Tasks, Bringing(u) \/ Stopping(u), task[u].proc = p
          PROVE  \E v \in Tasks : (Bringing(v) \/ Stopping(v))' /\ task'[v].proc = p
      <3>1. CASE u = t
        BY <1>2, <2>3, <3>1
      <3>2. CASE u # t
        BY <1>1, <2>3, <3>2 DEF Bringing, Stopping
      <3>. QED BY <3>1, <3>2
    <2>. QED BY <2>1, <2>2, <2>3 DEF Kept
  <1>3. ASSUME NEW u \in Tasks, task'[u].pc = "settle"
        PROVE  ~alive'[task'[u].proc]
    <2>1. CASE u = t
      BY <1>3, <2>1
    <2>2. CASE u # t
      <3>1. task'[u] = task[u] /\ ~alive[task[u].proc] /\ task[u].proc \in Procs
        BY <1>1, <1>3, <2>2 DEF Kept, Tables, Custody, Stopping
      <3>. QED BY <3>1
    <2>. QED BY <2>1, <2>2
  <1>. QED BY <1>2, <1>3 DEF Kept, Bringing, Stopping

\* A turn after which no live process is listed as stopped that was not before.
LEMMA TurnKeepsShown ==
    ASSUME Tables, Shown, Kept, NEW t \in Tasks, Turn(t), UNCHANGED owner,
           \A p \in Procs : alive'[p] => alive[p],
           \A i \in Ids : Fit(i) => Fit(i)',
           \A i \in Ids : task'[t].pc = "spawn" /\ task'[t].id = i => Fit(i)'
    PROVE  Shown'
  <1>1. \A u \in Tasks \ {t} : task'[u] = task[u]
    BY DEF Turn, Moves
  <1>2. ASSUME NEW p \in Procs, alive'[p], NEW i, i = owner'[p] PROVE Fit(i)'
    <2>1. i \in Ids /\ Fit(i)
      BY <1>2 DEF Kept, Shown
    <2>. QED BY <2>1
  <1>3. ASSUME NEW u \in Conns, task'[u].pc = "spawn", NEW i, i = task'[u].id PROVE Fit(i)'
    <2>1. CASE u = t
      <3>1. i \in Ids
        BY <1>3, <2>1 DEF Turn, Moves, WithId, StartPcs
      <3>. QED BY <1>3, <2>1, <3>1
    <2>2. CASE u # t
      <3>1. u \in Tasks /\ task'[u] = task[u] /\ i = task[u].id /\ task[u].pc = "spawn"
        BY <1>1, <1>3, <2>2, MainApart
      <3>2. i \in Ids /\ Fit(i)
        BY <3>1 DEF Shown, Tables, HasId, WithId, StartPcs
      <3>. QED BY <3>2
    <2>. QED BY <2>1, <2>2
  <1>. QED BY <1>2, <1>3 DEF Shown, Fit, Swept

\* A turn that leaves the registrations alone and what the shutdown found in hand.
LEMMA TurnKeepsHeld ==
    ASSUME Recorded, Sweeping, Held, NEW t \in Tasks, Turn(t),
           UNCHANGED <<modules, owner, found>>,
           \A p \in Procs : alive'[p] => alive[p],
           Stopping(t) => \/ Stopping(t)' /\ task'[t].proc = task[t].proc
                          \/ ~alive'[task[t].proc],
           \A i \in Ids : Ahead(i) => Ahead(i)' \/ modules[i] = None
    PROVE  Held'
  <1>1. \A u \in Tasks \ {t} : task'[u] = task[u]
    BY DEF Turn, Moves
  <1>2. ASSUME NEW p \in found, alive'[p], NEW i, i = owner[p]
        PROVE  \/ modules[i] = p /\ Ahead(i)'
               \/ \E u \in Tasks : Stopping(u)' /\ task'[u].proc = p
    <2>1. p \in Procs /\ alive[p] /\ i \in Ids
      BY <1>2 DEF Recorded, Sweeping
    <2>2. CASE modules[i] = p /\ Ahead(i)
      BY <2>1, <2>2, NamesAssumption
    <2>3. ASSUME NEW u \in Tasks, Stopping(u), task[u].proc = p
          PROVE  \E v \in Tasks : Stopping(v)' /\ task'[v].proc = p
      <3>1. CASE u = t
        BY <1>2, <2>3, <3>1
      <3>2. CASE u # t
        BY <1>1, <2>3, <3>2 DEF Stopping
      <3>. QED BY <3>1, <3>2
    <2>. QED BY <1>2, <2>1, <2>2, <2>3 DEF Held
  <1>. QED BY <1>2 DEF Held, Ahead, Stopping

-----------------------------------------------------------------------------
\* The steps of handlers, modules, commands and idle connections: what is busy stays
\* where it is, processes can only die, a status can only become "running".
Aside ==
    /\ UNCHANGED <<modules, handlers, todo, found, up, owner>>
    /\ \A u \in Tasks : Busy(u) \/ Busy(u)' \/ u = Main => task'[u] = task[u]
    /\ UNCHANGED serves
    /\ \A p \in Procs : alive'[p] => alive[p]
    /\ \A i \in Ids : info'[i] \in {info[i], "running"}

LEMMA AsideKeepsSerial ==
    ASSUME Serial, Aside
    PROVE  Serial'
  <1>1. OneBusy /\ Alone /\ AllServed /\ Sweeping /\ task'[Main] = task[Main]
    BY MainApart DEF Serial, Aside
  <1>2. \A u \in Conns : (Busy(u) \/ Busy(u)') => task'[u] = task[u]
    BY MainApart DEF Aside
  <1>3. OneBusy'
    BY <1>1, <1>2 DEF OneBusy, Busy
  <1>4. Alone'
    BY <1>1, <1>2 DEF Alone, Aside, Busy, StartPcs, StopPcs, Stopping
  <1>5. AllServed'
    <2>1. \A t \in Conns : task[t].pc \in {"attach", "track", "mark", "take"} =>
             task'[t] = task[t]
      BY <1>2 DEF Busy, StartPcs, StopPcs
    <2>2. \A i \in Ids : Unsettled(i) => Unsettled(i)'
      BY <1>1, <2>1 DEF Unsettled
    <2>3. \A i \in Ids : Served(i) => Served(i)'
      BY DEF Served, Aside
    <2>. QED BY <1>1, <2>2, <2>3 DEF AllServed
  <1>6. Sweeping'
    BY <1>1 DEF Sweeping, Swept, Aside
  <1>. QED BY <1>3, <1>4, <1>5, <1>6 DEF Serial

LEMMA AsideKeepsLossless ==
    ASSUME Tables, Recorded, Serial, Lossless, Aside
    PROVE  Lossless'
  <1>1. Kept /\ Shown /\ Held /\ Sweeping /\ task'[Main] = task[Main]
    BY MainApart DEF Serial, Lossless, Aside
  <1>2. \A u \in Tasks : (Busy(u) \/ Busy(u)') => task'[u] = task[u]
    BY DEF Aside
  <1>3. ASSUME NEW t \in Tasks, Bringing(t) \/ Stopping(t)
        PROVE  task'[t] = task[t]
    BY <1>2, <1>3 DEF Busy, StartPcs, StopPcs, Stopping, Bringing
  <1>4. \A t \in Tasks : task'[t].pc \in {"settle", "spawn"} => task'[t] = task[t]
    BY <1>2 DEF Busy, StartPcs, StopPcs
  <1>5. UNCHANGED <<modules, owner, found, todo>> /\ \A p \in Procs : alive'[p] => alive[p]
    BY DEF Aside
  <1>6. Kept'
    <2>1. ASSUME NEW p \in Procs, alive'[p]
          PROVE  /\ owner'[p] \in Ids
                 /\ \/ modules'[owner'[p]] = p
                    \/ \E t \in Tasks : (Bringing(t) \/ Stopping(t))' /\ task'[t].proc = p
      BY <1>1, <1>3, <1>5, <2>1 DEF Kept, Bringing, Stopping
    <2>2. ASSUME NEW t \in Tasks, task'[t].pc = "settle"
          PROVE  ~alive'[task'[t].proc]
      <3>1. task'[t] = task[t] /\ ~alive[task[t].proc] /\ task[t].proc \in Procs
        BY <1>1, <1>4, <2>2 DEF Kept, Tables, Custody, Stopping
      <3>. QED BY <1>5, <3>1
    <2>. QED BY <2>1, <2>2 DEF Kept, Bringing, Stopping
  <1>7. Shown'
    <2>1. \A i \in Ids : Fit(i) => Fit(i)'
      BY <1>5 DEF Fit, Swept, Aside
    <2>2. ASSUME NEW p \in Procs, alive'[p], NEW i, i = owner[p] PROVE Fit(i)'
      BY <1>1, <1>5, <2>1, <2>2 DEF Shown, Kept
    <2>3. ASSUME NEW t \in Conns, task'[t].pc = "spawn", NEW i, i = task'[t].id PROVE Fit(i)'
      <3>1. t \in Tasks /\ task'[t] = task[t]
        BY <1>4, <2>3, MainApart
      <3>2. i \in Ids /\ Fit(i)
        BY <1>1, <2>3, <3>1 DEF Shown, Tables, HasId, WithId, StartPcs
      <3>. QED BY <2>1, <3>2
    <2>. QED BY <1>5, <2>2, <2>3 DEF Shown, Fit, Swept
  <1>8. Held'
    <2>1. ASSUME NEW p \in found, alive'[p], NEW i, i = owner[p]
          PROVE  \/ modules[i] = p /\ Ahead(i)'
                 \/ \E u \in Tasks : Stopping(u)' /\ task'[u].proc = p
      <3>1. p \in Procs /\ alive[p]
        BY <1>5, <2>1 DEF Recorded
      <3>2. Ahead(i) => Ahead(i)'
        BY <1>1, <1>5 DEF Ahead
      <3>3. \A u \in Tasks : Stopping(u) => Stopping(u)' /\ task'[u].proc = task[u].proc
        BY <1>3 DEF Stopping
      <3>. QED BY <1>1, <2>1, <3>1, <3>2, <3>3 DEF Held
    <2>. QED BY <1>5, <2>1 DEF Held, Ahead, Stopping
  <1>. QED BY <1>6, <1>7, <1>8 DEF Lossless

LEMMA CommandIsAside ==
    ASSUME Tables, Serial, NEW t \in Tasks, Command(t)
    PROVE  Aside
  <1>1. /\ task[t].pc \in {"find", "queue", "send"}
        /\ UNCHANGED <<modules, handlers, todo, found, up, owner, serves, alive, info>>
    BY DEF Command, CommandFind, CommandLock, CommandSend, At, tableVars, handVars, procVars
  <1>2. t # Main /\ ~Busy(t)
    BY <1>1 DEF Serial, OneBusy, MainPcs, Busy, StartPcs, StopPcs
  <1>3. task \in [Tasks -> TaskType] /\ Idle.pc = "idle"
    BY DEF Tables, Typed, Idle
  <1>4. ~Busy(t)' /\ \A u \in Tasks \ {t} : task'[u] = task[u]
    <2>1. CASE Done(t)
      <3>1. task' = [task EXCEPT ![t] = Idle]
        BY <2>1, <1>2 DEF Done
      <3>2. task'[t] = Idle /\ \A u \in Tasks \ {t} : task'[u] = task[u]
        BY <3>1, <1>3
      <3>. QED BY <3>2, <1>3 DEF Busy, StartPcs, StopPcs
    <2>2. CASE Goto(t, "send")
      <3>1. task'[t].pc = "send" /\ \A u \in Tasks \ {t} : task'[u] = task[u]
        BY <2>2, <1>3 DEF Goto, TaskType
      <3>. QED BY <3>1 DEF Busy, StartPcs, StopPcs
    <2>3. ASSUME NEW p, task' = [task EXCEPT ![t].pc = "queue", ![t].proc = p]
          PROVE  ~Busy(t)' /\ \A u \in Tasks \ {t} : task'[u] = task[u]
      <3>1. task'[t].pc = "queue" /\ \A u \in Tasks \ {t} : task'[u] = task[u]
        BY <2>3, <1>3 DEF TaskType
      <3>. QED BY <3>1 DEF Busy, StartPcs, StopPcs
    <2>. QED BY <2>1, <2>2, <2>3 DEF Command, CommandFind, CommandLock, CommandSend
  <1>. QED BY <1>1, <1>2, <1>4 DEF Aside

LEMMA RequestIsAside ==
    ASSUME Tables, NEW t \in Conns, NEW i \in Ids, Request(t, i, "find")
    PROVE  Aside
  <1>. DEFINE e == [pc |-> "find", id |-> i, proc |-> None]
  <1>1. /\ task' = [task EXCEPT ![t] = e] /\ task[t].pc = "idle" /\ e.pc = "find"
        /\ UNCHANGED <<modules, handlers, todo, found, up, owner, serves, alive, info>>
    BY DEF Request, At, tableVars, handVars, procVars
  <1>. HIDE DEF e
  <1>2. t # Main /\ t \in Tasks /\ task \in [Tasks -> TaskType]
    BY MainApart DEF Tables, Typed
  <1>3. task'[t].pc = "find" /\ \A u \in Tasks \ {t} : task'[u] = task[u]
    BY <1>1, <1>2
  <1>4. ~Busy(t) /\ ~Busy(t)'
    BY <1>1, <1>3 DEF Busy, StartPcs, StopPcs
  <1>. QED BY <1>1, <1>2, <1>3, <1>4 DEF Aside

LEMMA OtherStepsAreAside ==
    ASSUME Tables, Plain,
           \/ \E h \in Procs : Handle(h) \/ HandlerDeaf(h) \/ Cancel(h)
           \/ \E p \in Procs : Write(p) \/ Exit(p)
           \/ UNCHANGED vars
    PROVE  Aside
  <1>. USE DEF tableVars, taskVars, procVars, handVars
  <1>1. UNCHANGED <<modules, handlers, todo, found, up, owner, serves, task>>
    BY DEF Handle, HandlerLock, HandlerRecv, HandlerRelock, HandlerHandle, HandlerDeaf, Cancel,
           Write, Exit, vars
  <1>2. UNCHANGED alive \/ \E p \in Procs : alive' = [alive EXCEPT ![p] = FALSE]
    BY DEF Handle, HandlerLock, HandlerRecv, HandlerRelock, HandlerHandle, HandlerDeaf, Cancel,
           Write, Exit, vars
  <1>3. UNCHANGED info \/ \E h \in Procs : info' = [info EXCEPT ![owner[h]] = "running"]
    BY DEF Handle, HandlerLock, HandlerRecv, HandlerRelock, HandlerHandle, HandlerDeaf, Cancel,
           Write, Exit, vars
  <1>4. \A p \in Procs : alive'[p] => alive[p]
    BY <1>2 DEF Plain
  <1>5. \A i \in Ids : info'[i] \in {info[i], "running"}
    BY <1>3 DEF Plain
  <1>. QED BY <1>1, <1>4, <1>5 DEF Aside

-----------------------------------------------------------------------------
\* The turns of a start.
LEMMA StartIsBusy ==
    ASSUME Tables, OneBusy, NEW t \in Tasks, task[t].pc \in StartPcs
    PROVE  /\ Busy(t) /\ t \in Conns /\ t # Main
           /\ task[t].pc \in WithId /\ task[t].id \in Ids
  <1>1. Busy(t) /\ t # Main /\ task[t].pc \in WithId
    BY DEF OneBusy, MainPcs, Busy, StartPcs, StopPcs, WithId
  <1>. QED BY <1>1 DEF Tasks, Tables, HasId

LEMMA EarlyStartKeeps ==
    ASSUME Tables, Plain, Recorded, Serial, NEW t \in Tasks, StartCheck(t) \/ StartAnnounce(t)
    PROVE  Serial' /\ (Lossless => Lossless')
  <1>1. OneBusy /\ Alone /\ AllServed /\ Sweeping
    BY DEF Serial
  <1>2. /\ UNCHANGED <<modules, handlers, owner, serves, alive, up, todo, found>>
        /\ \/ Done(t) /\ UNCHANGED info
           \/ task[t].pc = "check" /\ modules[task[t].id] = None /\ Goto(t, "announce")
              /\ UNCHANGED info
           \/ task[t].pc = "announce" /\ Goto(t, "spawn")
              /\ info' = [info EXCEPT ![task[t].id] = "starting"]
        /\ task[t].pc \in {"check", "announce"}
    BY DEF StartCheck, StartAnnounce, Registered, At, tableVars, procVars, handVars
  <1>3. /\ Busy(t) /\ t \in Conns /\ t # Main /\ task[t].pc \in WithId /\ task[t].id \in Ids
    BY <1>1, <1>2, StartIsBusy DEF StartPcs
  <1>4. /\ Turn(t)
        /\ \/ task'[t].pc = "idle" /\ UNCHANGED info
           \/ /\ task[t].pc = "check" /\ task'[t].pc = "announce" /\ SameWork(t)
              /\ modules[task[t].id] = None /\ UNCHANGED info
           \/ /\ task[t].pc = "announce" /\ task'[t].pc = "spawn" /\ SameWork(t)
              /\ info' = [info EXCEPT ![task[t].id] = "starting"]
    BY <1>1, <1>2, <1>3, DoneIsTurn, GotoIsTurn DEF Pcs, StartPcs
  <1>5. OneBusy'
    BY <1>1, <1>3, <1>4, TurnKeepsOneBusy
  <1>6. Alone'
    BY <1>1, <1>2, <1>3, <1>4, ConnKeepsAlone DEF Alone, SameWork, Stopping
  <1>7. AllServed'
    BY <1>1, <1>2, <1>3, <1>4, ConnKeepsServed
  <1>8. Sweeping' /\ \A i \in Ids : (Swept(i) => Swept(i)') /\ (Ahead(i) => Ahead(i)')
    BY <1>1, <1>2, <1>3, <1>4, ConnKeepsSweeping
  <1>9. ASSUME Lossless PROVE Lossless'
    <2>1. Kept /\ Shown /\ Held
      BY <1>9 DEF Lossless
    <2>2. Kept'
      BY <1>2, <1>4, <2>1, TurnKeepsKept DEF Bringing, Stopping
    <2>3. Held'
      BY <1>1, <1>2, <1>4, <1>8, <2>1, TurnKeepsHeld DEF Stopping
    <2>4. \A i \in Ids : info'[i] \in {info[i], "starting"}
      BY <1>4 DEF Plain
    <2>5. \A i \in Ids : Fit(i) => Fit(i)'
      BY <1>8, <2>4 DEF Fit
    <2>6. \A i \in Ids : task'[t].pc = "spawn" /\ task'[t].id = i => Fit(i)'
      BY <1>3, <1>4 DEF Fit, SameWork, Plain
    <2>7. Shown'
      BY <1>2, <1>4, <2>1, <2>5, <2>6, TurnKeepsShown
    <2>. QED BY <2>2, <2>3, <2>7 DEF Lossless
  <1>. QED BY <1>5, <1>6, <1>7, <1>8, <1>9 DEF Serial

LEMMA SpawnKeeps ==
    ASSUME Tables, Plain, Recorded, Serial, NEW t \in Tasks, StartSpawn(t)
    PROVE  Serial' /\ (Lossless => Lossless')
  <1>1. OneBusy /\ Alone /\ AllServed /\ Sweeping
    BY DEF Serial
  <1>2. /\ UNCHANGED <<modules, handlers, info, serves, up, todo, found>>
        /\ task[t].pc = "spawn"
    BY DEF StartSpawn, At, tableVars, handVars
  <1>3. Busy(t) /\ t \in Conns /\ t # Main /\ task[t].pc \in WithId /\ task[t].id \in Ids
    BY <1>1, <1>2, StartIsBusy DEF StartPcs
  <1>4. CASE Done(t) /\ UNCHANGED <<owner, alive>>
    <2>1. Turn(t) /\ task'[t].pc = "idle"
      BY <1>1, <1>3, <1>4, DoneIsTurn
    <2>2. OneBusy'
      BY <1>1, <1>3, <2>1, TurnKeepsOneBusy
    <2>3. Alone' /\ AllServed'
      BY <1>1, <1>2, <1>3, <2>1, ConnKeepsAlone, ConnKeepsServed DEF Stopping
    <2>4. Sweeping' /\ \A i \in Ids : (Swept(i) => Swept(i)') /\ (Ahead(i) => Ahead(i)')
      BY <1>1, <1>2, <1>3, <1>4, <2>1, ConnKeepsSweeping
    <2>5. ASSUME Lossless PROVE Lossless'
      <3>1. Kept /\ Shown /\ Held
        BY <2>5 DEF Lossless
      <3>2. Kept' /\ Held'
        BY <1>1, <1>2, <1>4, <2>1, <2>4, <3>1, TurnKeepsKept, TurnKeepsHeld
           DEF Bringing, Stopping
      <3>3. Shown'
        BY <1>2, <1>4, <2>1, <2>4, <3>1, TurnKeepsShown DEF Fit
      <3>. QED BY <3>2, <3>3 DEF Lossless
    <2>. QED BY <2>2, <2>3, <2>4, <2>5 DEF Serial
  <1>5. ASSUME NEW p \in Procs, owner[p] = None,
               owner' = [owner EXCEPT ![p] = task[t].id],
               alive' = [alive EXCEPT ![p] = TRUE],
               task' = [task EXCEPT ![t].pc = "register", ![t].proc = p]
        PROVE  Serial' /\ (Lossless => Lossless')
    <2>1. task \in [Tasks -> TaskType] /\ owner \in [Procs -> Ids \cup {None}]
      BY DEF Tables, Typed
    <2>2. /\ task'[t].pc = "register" /\ task'[t].proc = p /\ task'[t].id = task[t].id
          /\ \A u \in Tasks \ {t} : task'[u] = task[u]
          /\ task' \in [Tasks -> TaskType]
      <3>1. "register" \in Pcs
        BY DEF Pcs, StartPcs
      <3>. QED BY <1>5, <2>1, <3>1 DEF TaskType
    <2>3. Turn(t)
      BY <1>1, <1>3, <2>2 DEF Turn, Moves, OneBusy
    <2>4. /\ alive'[p] /\ owner'[p] = task[t].id
          /\ \A q \in Procs \ {p} : alive'[q] = alive[q] /\ owner'[q] = owner[q]
      BY <1>5, <2>1 DEF Plain
    <2>5. OneBusy'
      BY <1>1, <1>3, <2>2, <2>3, TurnKeepsOneBusy
    <2>6. Alone'
      BY <1>1, <1>2, <1>3, <2>2, <2>3, ConnKeepsAlone DEF Alone, Stopping
    <2>7. AllServed'
      BY <1>1, <1>2, <1>3, <2>2, <2>3, ConnKeepsServed
    <2>8. \A q \in Procs : owner[q] \in Ids => q # p /\ owner'[q] = owner[q]
      BY <1>5, <2>4, NamesAssumption
    <2>9. Sweeping' /\ \A i \in Ids : (Swept(i) => Swept(i)') /\ (Ahead(i) => Ahead(i)')
      BY <1>1, <1>2, <1>3, <2>3, <2>8, ConnKeepsSweeping
    <2>10. ~Bringing(t) /\ ~Stopping(t) /\ \A i \in Ids : Fit(i) => Fit(i)'
      BY <1>2, <2>9 DEF Bringing, Stopping, Fit
    <2>11. ASSUME Kept PROVE Kept'
      <3>1. ASSUME NEW q \in Procs \ {p}, alive'[q]
            PROVE  /\ owner'[q] \in Ids
                   /\ \/ modules'[owner'[q]] = q
                      \/ \E u \in Tasks : (Bringing(u) \/ Stopping(u))' /\ task'[u].proc = q
        <4>1. alive[q] /\ owner'[q] = owner[q] /\ owner[q] \in Ids
          BY <2>4, <2>11, <3>1 DEF Kept
        <4>2. \A u \in Tasks : Bringing(u) \/ Stopping(u) =>
                 (Bringing(u) \/ Stopping(u))' /\ task'[u].proc = task[u].proc
          BY <2>2, <2>10 DEF Bringing, Stopping
        <4>. QED BY <1>2, <2>11, <4>1, <4>2 DEF Kept
      <3>2. owner'[p] \in Ids /\ Bringing(t)' /\ task'[t].proc = p
        BY <1>3, <2>2, <2>4 DEF Bringing
      <3>3. ASSUME NEW u \in Tasks, task'[u].pc = "settle" PROVE ~alive'[task'[u].proc]
        <4>1. u # t /\ task'[u] = task[u] /\ task[u].pc = "settle"
          BY <2>2, <3>3
        <4>2. ~alive[task[u].proc] /\ task[u].proc \in Procs /\ owner[task[u].proc] \in Ids
          BY <2>11, <4>1 DEF Kept, Tables, Custody, Stopping, HasId, WithId, StopPcs
        <4>. QED BY <2>4, <2>8, <4>1, <4>2
      <3>. QED BY <3>1, <3>2, <3>3 DEF Kept, Bringing, Stopping
    <2>12. ASSUME Kept, Shown PROVE Shown'
      <3>1. ASSUME NEW q \in Procs, alive'[q], NEW i, i = owner'[q] PROVE Fit(i)'
        <4>1. CASE q = p
          BY <1>2, <1>3, <2>4, <2>10, <2>12, <3>1, <4>1 DEF Shown
        <4>2. CASE q # p
          BY <2>4, <2>10, <2>12, <3>1, <4>2 DEF Shown, Kept
        <4>. QED BY <4>1, <4>2
      <3>2. ASSUME NEW u \in Conns, task'[u].pc = "spawn", NEW i, i = task'[u].id
            PROVE  Fit(i)'
        <4>1. u # t /\ u \in Tasks /\ task'[u] = task[u]
          BY <2>2, <3>2, MainApart
        <4>2. i \in Ids /\ Fit(i)
          BY <2>12, <3>2, <4>1 DEF Shown, Tables, HasId, WithId, StartPcs
        <4>. QED BY <2>10, <4>2
      <3>. QED BY <3>1, <3>2 DEF Shown, Fit, Swept
    <2>13. ASSUME Held PROVE Held'
      <3>1. ASSUME NEW q \in found, alive'[q], NEW i, i = owner[q]
            PROVE  \/ modules[i] = q /\ Ahead(i)'
                   \/ \E u \in Tasks : Stopping(u)' /\ task'[u].proc = q
        <4>1. q \in Procs /\ i \in Ids /\ alive[q]
          BY <1>1, <2>4, <2>8, <3>1 DEF Recorded, Sweeping
        <4>2. \A u \in Tasks : Stopping(u) => Stopping(u)' /\ task'[u].proc = task[u].proc
          BY <2>2, <2>10 DEF Stopping
        <4>. QED BY <2>9, <2>13, <3>1, <4>1, <4>2 DEF Held
      <3>2. \A q \in found : owner'[q] = owner[q]
        BY <1>1, <2>8 DEF Recorded, Sweeping
      <3>. QED BY <1>2, <3>1, <3>2 DEF Held, Ahead, Stopping
    <2>. QED BY <2>5, <2>6, <2>7, <2>9, <2>11, <2>12, <2>13 DEF Serial, Lossless
  <1>. QED BY <1>4, <1>5 DEF StartSpawn

LEMMA RegisterKeeps ==
    ASSUME Tables, Recorded, Serial, NEW t \in Tasks, StartRegister(t)
    PROVE  Serial' /\ (Lossless => Lossless')
  <1>. DEFINE i == task[t].id  p == task[t].proc
  <1>1. OneBusy /\ Alone /\ AllServed /\ Sweeping
    BY DEF Serial
  <1>2. /\ modules' = [modules EXCEPT ![i] = p] /\ Goto(t, "attach")
        /\ task[t].pc = "register"
        /\ UNCHANGED <<info, handlers, up, serves, alive, owner, todo, found>>
    BY DEF StartRegister, At, handVars, procVars
  <1>3. Busy(t) /\ t \in Conns /\ t # Main /\ task[t].pc \in WithId /\ i \in Ids
    BY <1>1, <1>2, StartIsBusy DEF StartPcs
  <1>4. Turn(t) /\ task'[t].pc = "attach" /\ task'[t].id = i /\ task'[t].proc = p
    BY <1>1, <1>2, <1>3, GotoIsTurn DEF Pcs, StartPcs, SameWork
  <1>5. /\ p \in Procs /\ owner[p] = i /\ modules[i] = None
        /\ modules'[i] = p /\ \A j \in Ids \ {i} : modules'[j] = modules[j]
    BY <1>1, <1>2, <1>3 DEF Tables, Typed, Custody, Bringing, Alone
  <1>6. task[t].proc = p /\ task[t].id = i
    BY DEF p, i
  <1>. HIDE DEF i, p
  <1>7. OneBusy'
    BY <1>1, <1>3, <1>4, TurnKeepsOneBusy
  <1>8. Alone'
    BY <1>1, <1>3, <1>4, <1>5, ConnKeepsAlone DEF Stopping
  <1>9. AllServed'
    <2>1. ASSUME NEW j \in Ids, j = task[t].id PROVE Unsettled(j)'
      BY <1>3, <1>4, <1>6, <2>1 DEF Unsettled
    <2>2. ASSUME NEW j \in Ids, j # task[t].id, Served(j) PROVE Served(j)'
      BY <1>2, <1>5, <1>6, <2>2 DEF Served
    <2>. QED BY <1>1, <1>3, <1>4, <2>1, <2>2, OwnIdServed
  <1>10. Sweeping' /\ \A j \in Ids : (Swept(j) => Swept(j)') /\ (Ahead(j) => Ahead(j)')
    BY <1>1, <1>2, <1>3, <1>4, ConnKeepsSweeping
  <1>11. \A u \in Tasks \ {t} : task'[u] = task[u]
    BY <1>4 DEF Turn, Moves
  <1>12. \A q \in Procs : modules[owner[q]] = q /\ owner[q] \in Ids => modules'[owner[q]] = q
    BY <1>5, NamesAssumption
  <1>13. ASSUME Kept PROVE Kept'
    <2>1. ASSUME NEW q \in Procs, alive[q]
          PROVE  /\ owner[q] \in Ids
                 /\ \/ modules'[owner[q]] = q
                    \/ \E u \in Tasks : (Bringing(u) \/ Stopping(u))' /\ task'[u].proc = q
      <3>1. owner[q] \in Ids
        BY <1>13, <2>1 DEF Kept
      <3>2. ASSUME NEW u \in Tasks, Bringing(u) \/ Stopping(u), task[u].proc = q
            PROVE  \/ modules'[owner[q]] = q
                   \/ (Bringing(u) \/ Stopping(u))' /\ task'[u].proc = q
        <4>1. CASE u = t
          BY <1>5, <1>6, <3>2, <4>1
        <4>2. CASE u # t
          BY <1>11, <3>2, <4>2 DEF Bringing, Stopping
        <4>. QED BY <4>1, <4>2
      <3>. QED BY <1>12, <1>13, <2>1, <3>1, <3>2 DEF Kept
    <2>2. ASSUME NEW u \in Tasks, task'[u].pc = "settle" PROVE ~alive[task'[u].proc]
      BY <1>4, <1>11, <1>13, <2>2 DEF Kept
    <2>. QED BY <1>2, <2>1, <2>2 DEF Kept, Bringing, Stopping
  <1>14. ASSUME Kept, Shown PROVE Shown'
    <2>1. (\A j \in Ids : Fit(j) => Fit(j)') /\ task'[t].pc # "spawn"
      BY <1>2, <1>4, <1>10 DEF Fit
    <2>. QED BY <1>2, <1>4, <1>14, <2>1, TurnKeepsShown
  <1>15. ASSUME Held PROVE Held'
    <2>1. ASSUME NEW q \in found, alive[q], NEW j, j = owner[q]
          PROVE  \/ modules'[j] = q /\ Ahead(j)'
                 \/ \E u \in Tasks : Stopping(u)' /\ task'[u].proc = q
      <3>1. q \in Procs /\ j \in Ids
        BY <1>1, <2>1 DEF Recorded, Sweeping
      <3>2. \A u \in Tasks : Stopping(u) => Stopping(u)' /\ task'[u].proc = task[u].proc
        BY <1>2, <1>11 DEF Stopping
      <3>. QED BY <1>10, <1>12, <1>15, <2>1, <3>1, <3>2 DEF Held
    <2>. QED BY <1>2, <2>1 DEF Held, Ahead, Stopping
  <1>. QED BY <1>7, <1>8, <1>9, <1>10, <1>13, <1>14, <1>15 DEF Serial, Lossless

\* The process may be gone again, taken by main.
LEMMA AttachKeeps ==
    ASSUME Tables, Plain, Recorded, Serial, NEW t \in Tasks, StartAttach(t)
    PROVE  Serial' /\ (Lossless => Lossless')
  <1>. DEFINE i == task[t].id  h == task[t].proc
  <1>1. OneBusy /\ Alone /\ AllServed /\ Sweeping
    BY DEF Serial
  <1>2. /\ task[t].pc = "attach"
        /\ UNCHANGED <<modules, info, handlers, up, alive, owner, todo, found>>
        /\ \/ modules[i] = None /\ Done(t) /\ UNCHANGED serves
           \/ /\ modules[i] # None /\ Goto(t, "track")
              /\ serves' = [serves EXCEPT ![h] = modules[i]]
    BY DEF StartAttach, At, tableVars, procVars
  <1>3. Busy(t) /\ t \in Conns /\ t # Main /\ task[t].pc \in WithId /\ i \in Ids
    BY <1>1, <1>2, StartIsBusy DEF StartPcs
  <1>4. h \in Procs /\ modules[i] \in {h, None} /\ \A j \in Ids : handlers[j] # h
    BY <1>1, <1>2, <1>3 DEF Tables, Tracking, Launching, Alone
  <1>5. /\ Turn(t)
        /\ \/ modules[i] = None /\ task'[t].pc = "idle" /\ UNCHANGED serves
           \/ /\ modules[i] = h /\ serves' = [serves EXCEPT ![h] = h]
              /\ task'[t].pc = "track" /\ task'[t].id = i /\ task'[t].proc = h
    <2>1. CASE modules[i] = None
      <3>1. Done(t) /\ UNCHANGED serves
        BY <1>2, <2>1
      <3>. QED BY <1>1, <1>3, <2>1, <3>1, DoneIsTurn
    <2>2. CASE modules[i] # None
      <3>1. Goto(t, "track") /\ serves' = [serves EXCEPT ![h] = h] /\ modules[i] = h
        BY <1>2, <1>4, <2>2
      <3>2. Turn(t) /\ SameWork(t) /\ task'[t].pc = "track"
        BY <1>1, <1>3, <3>1, GotoIsTurn DEF Pcs, StartPcs
      <3>. QED BY <3>1, <3>2 DEF SameWork
    <2>. QED BY <2>1, <2>2
  <1>6. \A q \in Procs \ {h} : serves'[q] = serves[q]
    BY <1>4, <1>5 DEF Plain
  <1>7. task'[t].pc = "track" => serves'[h] = h
    BY <1>4, <1>5 DEF Plain
  <1>8. task[t].id = i
    BY DEF i
  <1>. HIDE DEF i, h
  <1>9. OneBusy'
    BY <1>1, <1>3, <1>5, TurnKeepsOneBusy
  <1>10. Alone'
    BY <1>2, <1>3, <1>5, <1>7, ConnKeepsAlone DEF Stopping
  <1>11. AllServed'
    <2>1. ASSUME NEW j \in Ids, j = task[t].id PROVE Unsettled(j)' \/ Served(j)'
      BY <1>2, <1>3, <1>5, <1>8, <2>1 DEF Unsettled, Served
    <2>2. ASSUME NEW j \in Ids, j # task[t].id, Served(j) PROVE Served(j)'
      <3>1. handlers[j] # None => handlers[j] \in Procs \ {h}
        BY <1>4 DEF Tables, Typed
      <3>. QED BY <1>2, <1>6, <2>2, <3>1 DEF Served
    <2>. QED BY <1>1, <1>3, <1>5, <2>1, <2>2, OwnIdServed
  <1>12. Sweeping' /\ \A j \in Ids : (Swept(j) => Swept(j)') /\ (Ahead(j) => Ahead(j)')
    BY <1>1, <1>2, <1>3, <1>5, ConnKeepsSweeping
  <1>13. ASSUME Lossless PROVE Lossless'
    <2>1. /\ Kept /\ Shown /\ Held /\ ~Bringing(t) /\ ~Stopping(t)
          /\ task'[t].pc \notin {"settle", "spawn"}
      BY <1>2, <1>5, <1>13 DEF Lossless, Bringing, Stopping
    <2>2. Kept' /\ Held'
      BY <1>1, <1>2, <1>5, <1>12, <2>1, TurnKeepsKept, TurnKeepsHeld
    <2>3. \A j \in Ids : Fit(j) => Fit(j)'
      BY <1>2, <1>12 DEF Fit
    <2>4. Shown'
      BY <1>2, <1>5, <2>1, <2>3, TurnKeepsShown
    <2>. QED BY <2>2, <2>4 DEF Lossless
  <1>. QED BY <1>9, <1>10, <1>11, <1>12, <1>13 DEF Serial

LEMMA TrackKeeps ==
    ASSUME Tables, Recorded, Serial, NEW t \in Tasks, StartTrack(t)
    PROVE  Serial' /\ (Lossless => Lossless')
  <1>. DEFINE i == task[t].id  h == task[t].proc
  <1>1. OneBusy /\ Alone /\ AllServed /\ Sweeping
    BY DEF Serial
  <1>2. /\ task[t].pc = "track" /\ handlers' = [handlers EXCEPT ![i] = h] /\ Done(t)
        /\ UNCHANGED <<modules, info, serves, up, alive, owner, todo, found>>
    BY DEF StartTrack, Tracked, At, handVars, procVars
  <1>3. Busy(t) /\ t \in Conns /\ t # Main /\ task[t].pc \in WithId /\ i \in Ids
    BY <1>1, <1>2, StartIsBusy DEF StartPcs
  <1>4. Turn(t) /\ task'[t].pc = "idle"
    BY <1>1, <1>2, <1>3, DoneIsTurn
  <1>5. /\ h \in Procs /\ serves[h] = h /\ modules[i] \in {h, None}
        /\ handlers'[i] = h /\ \A j \in Ids \ {i} : handlers'[j] = handlers[j]
    BY <1>1, <1>2, <1>3 DEF Tables, Typed, Tracking, Launching, Alone
  <1>6. task[t].id = i
    BY DEF i
  <1>. HIDE DEF i, h
  <1>7. OneBusy'
    BY <1>1, <1>3, <1>4, TurnKeepsOneBusy
  <1>8. Alone'
    BY <1>3, <1>4, ConnKeepsAlone DEF Stopping
  <1>9. AllServed'
    <2>1. ASSUME NEW j \in Ids, j = task[t].id PROVE Served(j)'
      <3>1. handlers'[j] = h /\ serves'[h] = h /\ modules'[j] \in {h, None} /\ h # None
        BY <1>2, <1>5, <1>6, <2>1, NamesAssumption
      <3>. QED BY <3>1 DEF Served
    <2>2. ASSUME NEW j \in Ids, j # task[t].id, Served(j) PROVE Served(j)'
      BY <1>2, <1>5, <1>6, <2>2 DEF Served
    <2>. QED BY <1>1, <1>3, <1>4, <2>1, <2>2, OwnIdServed
  <1>10. Sweeping' /\ \A j \in Ids : (Swept(j) => Swept(j)') /\ (Ahead(j) => Ahead(j)')
    BY <1>1, <1>2, <1>3, <1>4, ConnKeepsSweeping
  <1>11. ASSUME Lossless PROVE Lossless'
    <2>1. Kept /\ Shown /\ Held /\ ~Bringing(t) /\ ~Stopping(t)
      BY <1>2, <1>11 DEF Lossless, Bringing, Stopping
    <2>2. Kept' /\ Held'
      BY <1>1, <1>2, <1>4, <1>10, <2>1, TurnKeepsKept, TurnKeepsHeld
    <2>3. Shown'
      BY <1>2, <1>4, <1>10, <2>1, TurnKeepsShown DEF Fit
    <2>. QED BY <2>2, <2>3 DEF Lossless
  <1>. QED BY <1>7, <1>8, <1>9, <1>10, <1>11 DEF Serial

-----------------------------------------------------------------------------
\* The turns of a stop, made for a client or by the shutdown.
LEMMA StopIsBusy ==
    ASSUME Tables, OneBusy, NEW t \in Tasks, task[t].pc \in StopPcs
    PROVE  /\ Busy(t) /\ task[t].pc \in WithId /\ task[t].id \in Ids
           /\ t # Main => t \in Conns
  BY DEF Busy, WithId, Tables, HasId, Tasks

\* A turn that leaves the tables alone and does not leave an id half way.
LEMMA StopTurnKeepsSerial ==
    ASSUME Tables, Recorded, Serial, NEW t \in Tasks, Turn(t), task[t].pc \in StopPcs,
           UNCHANGED <<modules, handlers, serves, owner, todo, found, up>>,
           \/ task'[t].pc = IF t = Main THEN "next" ELSE "idle"
           \/ task'[t].pc \in StopPcs \ {"abort"} /\ SameWork(t),
           Stopping(t)' => Stopping(t),
           task[t].pc \in {"mark", "take"} =>
              task'[t].pc \in {"mark", "take"} \/ modules[task[t].id] = None
    PROVE  Serial' /\ \A i \in Ids : Swept(i) => Swept(i)'
  <1>1. OneBusy /\ Alone /\ AllServed /\ Sweeping
    BY DEF Serial
  <1>2. OneBusy'
    BY <1>1, TurnKeepsOneBusy DEF MainPcs
  <1>3. Sweeping' /\ \A i \in Ids : Swept(i) => Swept(i)'
    BY <1>1, StopKeepsSweeping DEF SameWork
  <1>4. CASE t = Main
    <2>1. Alone'
      BY <1>1, <1>4, MainKeepsAlone
    <2>2. task'[Main].pc # "idle"
      BY <1>4 DEF StopPcs
    <2>. QED BY <1>2, <1>3, <2>1, <2>2 DEF Serial, AllServed, Unsettled
  <1>5. CASE t # Main
    <2>1. t \in Conns
      BY <1>5 DEF Tasks
    <2>2. /\ task'[t].pc \notin {"announce", "spawn", "register", "attach", "track"}
          /\ Stopping(t)' => Stopping(t) /\ task'[t].id = task[t].id
      BY <1>5 DEF StopPcs, SameWork, Stopping
    <2>3. Alone'
      BY <1>1, <2>1, <2>2, ConnKeepsAlone DEF Alone
    <2>4. task[t].pc \notin {"attach", "track"}
      BY DEF StopPcs
    <2>5. AllServed'
      BY <1>1, <1>5, <2>1, <2>4, ConnKeepsServed DEF SameWork
    <2>. QED BY <1>2, <1>3, <2>3, <2>5 DEF Serial
  <1>. QED BY <1>4, <1>5

LEMMA AbortKeeps ==
    ASSUME Tables, Recorded, Serial, NEW t \in Tasks, StopAbort(t)
    PROVE  Serial' /\ (Lossless => Lossless')
  <1>. DEFINE i == task[t].id
  <1>1. OneBusy /\ Alone /\ AllServed /\ Sweeping
    BY DEF Serial
  <1>2. /\ task[t].pc = "abort" /\ Goto(t, "mark")
        /\ UNCHANGED <<modules, info, serves, up, alive, owner, todo, found>>
        /\ handlers' = handlers \/ handlers' = [handlers EXCEPT ![i] = None]
    BY DEF StopAbort, Untracked, At, procVars
  <1>3. Busy(t) /\ task[t].pc \in WithId /\ i \in Ids /\ t \in Conns /\ t # Main
    BY <1>1, <1>2, StopIsBusy DEF OneBusy, MainPcs, StopPcs
  <1>4. Turn(t) /\ task'[t].pc = "mark" /\ task'[t].id = i
    BY <1>1, <1>2, <1>3, GotoIsTurn DEF Pcs, StopPcs, SameWork
  <1>5. \A j \in Ids : j # task[t].id => handlers'[j] = handlers[j]
    BY <1>2 DEF Tables, Typed
  <1>6. OneBusy'
    BY <1>1, <1>3, <1>4, TurnKeepsOneBusy
  <1>7. Alone'
    BY <1>3, <1>4, ConnKeepsAlone DEF Stopping
  <1>8. AllServed'
    <2>1. ASSUME NEW j \in Ids, j = task[t].id PROVE Unsettled(j)'
      BY <1>3, <1>4, <2>1 DEF Unsettled
    <2>2. ASSUME NEW j \in Ids, j # task[t].id, Served(j) PROVE Served(j)'
      BY <1>2, <1>5, <2>2 DEF Served
    <2>. QED BY <1>1, <1>3, <1>4, <2>1, <2>2, OwnIdServed
  <1>9. Sweeping' /\ \A j \in Ids : (Swept(j) => Swept(j)') /\ (Ahead(j) => Ahead(j)')
    BY <1>1, <1>2, <1>3, <1>4, ConnKeepsSweeping
  <1>10. ASSUME Lossless PROVE Lossless'
    <2>1. Kept /\ Shown /\ Held /\ ~Bringing(t) /\ ~Stopping(t)
      BY <1>2, <1>10 DEF Lossless, Bringing, Stopping
    <2>2. Kept' /\ Held'
      BY <1>1, <1>2, <1>4, <1>9, <2>1, TurnKeepsKept, TurnKeepsHeld
    <2>3. Shown'
      BY <1>2, <1>4, <1>9, <2>1, TurnKeepsShown DEF Fit
    <2>. QED BY <2>2, <2>3 DEF Lossless
  <1>. QED BY <1>6, <1>7, <1>8, <1>9, <1>10 DEF Serial

LEMMA MarkKeeps ==
    ASSUME Tables, Plain, Recorded, Serial, NEW t \in Tasks, StopMark(t)
    PROVE  Serial' /\ (Lossless => Lossless')
  <1>. DEFINE i == task[t].id
  <1>1. OneBusy /\ Sweeping
    BY DEF Serial
  <1>2. /\ task[t].pc = "mark" /\ Goto(t, "take")
        /\ UNCHANGED <<modules, handlers, todo, found, serves, up, alive, owner>>
        /\ info' = [info EXCEPT ![i] = IF info[i] = "absent" THEN "absent" ELSE "stopping"]
    BY DEF StopMark, At, procVars, handVars
  <1>3. Busy(t) /\ task[t].pc \in WithId /\ task[t].pc \in StopPcs
    BY <1>1, <1>2, StopIsBusy DEF StopPcs
  <1>4. Turn(t) /\ task'[t].pc = "take" /\ SameWork(t)
    BY <1>1, <1>2, <1>3, GotoIsTurn DEF Pcs, StopPcs
  <1>5. Serial' /\ \A j \in Ids : Swept(j) => Swept(j)'
    <2>1. "take" \in StopPcs \ {"abort"} /\ ~Stopping(t)'
      BY <1>4 DEF StopPcs, Stopping
    <2>. QED BY <1>2, <1>3, <1>4, <2>1, StopTurnKeepsSerial
  <1>6. ASSUME Lossless PROVE Lossless'
    <2>1. Kept /\ Shown /\ Held /\ ~Bringing(t) /\ ~Stopping(t)
      BY <1>2, <1>6 DEF Lossless, Bringing, Stopping
    <2>2. \A j \in Ids : Ahead(j) => Ahead(j)'
      BY <1>2, <1>4, MainApart DEF Ahead, Turn, Moves, SameWork
    <2>3. Kept' /\ Held'
      BY <1>1, <1>2, <1>4, <2>1, <2>2, TurnKeepsKept, TurnKeepsHeld
    <2>4. \A j \in Ids : info'[j] \in {info[j], "stopping"}
      BY <1>2 DEF Plain
    <2>5. \A j \in Ids : Fit(j) => Fit(j)'
      BY <1>5, <2>4 DEF Fit
    <2>6. Shown'
      BY <1>2, <1>4, <2>1, <2>5, TurnKeepsShown
    <2>. QED BY <2>3, <2>6 DEF Lossless
  <1>. QED BY <1>5, <1>6

LEMMA TakeKeeps ==
    ASSUME Tables, Recorded, Serial, NEW t \in Tasks, StopTake(t)
    PROVE  Serial' /\ (Lossless => Lossless')
  <1>. DEFINE i == task[t].id  p == modules[i]
  <1>1. OneBusy /\ Alone /\ AllServed /\ Sweeping
    BY DEF Serial
  <1>2. /\ task[t].pc = "take"
        /\ UNCHANGED <<info, handlers, todo, found, serves, up, alive, owner>>
        /\ ~Bringing(t) /\ ~Stopping(t)
    BY DEF StopTake, At, procVars, handVars, Bringing, Stopping
  <1>3. /\ Busy(t) /\ task[t].pc \in WithId /\ task[t].pc \in StopPcs /\ i \in Ids
        /\ t # Main => t \in Conns
    BY <1>1, <1>2, StopIsBusy DEF StopPcs
  <1>4. CASE p = None
    <2>1. Done(t) /\ UNCHANGED modules
      BY <1>4 DEF StopTake
    <2>2. Turn(t) /\ task'[t].pc = IF t = Main THEN "next" ELSE "idle"
      BY <1>1, <1>3, <2>1, DoneIsTurn
    <2>3. Serial' /\ \A j \in Ids : Swept(j) => Swept(j)'
      <3>1. ~Stopping(t)'
        BY <2>2 DEF Stopping
      <3>. QED BY <1>2, <1>3, <1>4, <2>1, <2>2, <3>1, StopTurnKeepsSerial
    <2>4. ASSUME Lossless PROVE Lossless'
      <3>1. Kept /\ Shown /\ Held
        BY <2>4 DEF Lossless
      <3>2. \A j \in Ids : Ahead(j) => Ahead(j)' \/ modules[j] = None
        BY <1>2, <1>4, <2>2, MainApart DEF Ahead, Turn, Moves
      <3>3. Kept' /\ Held'
        BY <1>1, <1>2, <2>1, <2>2, <3>1, <3>2, TurnKeepsKept, TurnKeepsHeld
      <3>4. Shown'
        BY <1>2, <2>2, <2>3, <3>1, TurnKeepsShown DEF Fit
      <3>. QED BY <3>3, <3>4 DEF Lossless
    <2>. QED BY <2>3, <2>4
  <1>5. CASE p # None
    <2>1. /\ modules' = [modules EXCEPT ![i] = None]
          /\ task' = [task EXCEPT ![t].pc = "lock", ![t].proc = p]
      BY <1>5 DEF StopTake, Removed
    <2>2. /\ p \in Procs /\ owner[p] = i
          /\ modules'[i] = None /\ \A j \in Ids \ {i} : modules'[j] = modules[j]
      BY <1>3, <1>5, <2>1 DEF Tables, Typed, Custody
    <2>3. /\ task'[t].pc = "lock" /\ task'[t].proc = p /\ task'[t].id = i
          /\ \A u \in Tasks \ {t} : task'[u] = task[u]
          /\ task' \in [Tasks -> TaskType]
      <3>1. "lock" \in Pcs /\ task \in [Tasks -> TaskType] /\ p \in Procs
        BY <2>2 DEF Pcs, StopPcs, Tables, Typed
      <3>. HIDE DEF p
      <3>. QED BY <2>1, <3>1 DEF TaskType
    <2>4. Turn(t)
      BY <1>1, <1>3, <2>3 DEF Turn, Moves, OneBusy
    <2>5. task[t].id = i /\ modules[i] = p
      OBVIOUS
    <2>. HIDE DEF i, p
    <2>6. OneBusy'
      BY <1>1, <2>3, <2>4, TurnKeepsOneBusy DEF MainPcs, StopPcs
    <2>7. Sweeping' /\ \A j \in Ids : Swept(j) => Swept(j)'
      BY <1>1, <1>2, <1>3, <2>3, <2>4, <2>5, StopKeepsSweeping DEF StopPcs
    <2>8. Alone'
      <3>1. CASE t = Main
        BY <1>1, <1>2, <2>2, <2>4, <3>1, MainKeepsAlone
      <3>2. CASE t # Main
        BY <1>3, <2>2, <2>3, <2>4, <3>2, ConnKeepsAlone
      <3>. QED BY <3>1, <3>2
    <2>9. AllServed'
      <3>1. CASE t = Main
        <4>1. task'[Main].pc # "idle"
          BY <2>3, <3>1
        <4>. QED BY <4>1 DEF AllServed, Unsettled
      <3>2. CASE t # Main
        <4>1. ASSUME NEW j \in Ids, j = task[t].id PROVE Served(j)'
          BY <2>2, <2>5, <4>1 DEF Served
        <4>2. ASSUME NEW j \in Ids, j # task[t].id, Served(j) PROVE Served(j)'
          BY <1>2, <2>2, <2>5, <4>2 DEF Served
        <4>. QED BY <1>1, <1>3, <2>4, <3>2, <4>1, <4>2, OwnIdServed
      <3>. QED BY <3>1, <3>2
    <2>10. Stopping(t)' /\ \A u \in Tasks : Bringing(u) \/ Stopping(u) =>
              (Bringing(u) => Bringing(u)') /\ (Stopping(u) => Stopping(u)')
              /\ task'[u].proc = task[u].proc
      BY <1>2, <2>3 DEF Bringing, Stopping
    <2>11. ASSUME NEW q \in Procs, owner[q] \in Ids, modules[owner[q]] = q
           PROVE  \/ modules'[owner[q]] = q /\ owner[q] # i
                  \/ q = p
      BY <2>2, <2>5, <2>11
    <2>12. ASSUME Kept PROVE Kept'
      <3>1. ASSUME NEW q \in Procs, alive[q]
            PROVE  /\ owner[q] \in Ids
                   /\ \/ modules'[owner[q]] = q
                      \/ \E u \in Tasks : (Bringing(u) \/ Stopping(u))' /\ task'[u].proc = q
        <4>1. owner[q] \in Ids
          BY <2>12, <3>1 DEF Kept
        <4>2. CASE modules[owner[q]] = q
          BY <2>3, <2>10, <2>11, <4>1, <4>2
        <4>3. CASE \E u \in Tasks : (Bringing(u) \/ Stopping(u)) /\ task[u].proc = q
          BY <2>10, <4>1, <4>3
        <4>. QED BY <2>12, <3>1, <4>2, <4>3 DEF Kept
      <3>2. ASSUME NEW u \in Tasks, task'[u].pc = "settle" PROVE ~alive[task'[u].proc]
        BY <2>3, <2>12, <3>2 DEF Kept
      <3>. QED BY <1>2, <3>1, <3>2 DEF Kept, Bringing, Stopping
    <2>13. ASSUME Kept, Shown PROVE Shown'
      <3>1. (\A j \in Ids : Fit(j) => Fit(j)') /\ task'[t].pc # "spawn"
        BY <1>2, <2>3, <2>7 DEF Fit
      <3>. QED BY <1>2, <2>4, <2>13, <3>1, TurnKeepsShown
    <2>14. ASSUME Held PROVE Held'
      <3>1. ASSUME NEW q \in found, alive[q], NEW j, j = owner[q]
            PROVE  \/ modules'[j] = q /\ Ahead(j)'
                   \/ \E u \in Tasks : Stopping(u)' /\ task'[u].proc = q
        <4>1. q \in Procs /\ j \in Ids
          BY <1>1, <3>1 DEF Recorded, Sweeping
        <4>2. CASE modules[j] = q /\ Ahead(j)
          <5>1. CASE q = p
            BY <2>3, <2>10, <5>1
          <5>2. CASE q # p
            <6>1. modules'[j] = q /\ j # i
              BY <2>11, <3>1, <4>1, <4>2, <5>2
            <6>2. Ahead(j)'
              BY <1>2, <2>3, <2>5, <4>2, <6>1, MainApart DEF Ahead
            <6>. QED BY <6>1, <6>2
          <5>. QED BY <5>1, <5>2
        <4>3. CASE \E u \in Tasks : Stopping(u) /\ task[u].proc = q
          BY <2>10, <4>3
        <4>. QED BY <2>14, <3>1, <4>2, <4>3 DEF Held
      <3>. QED BY <1>2, <3>1 DEF Held, Ahead, Stopping
    <2>. QED BY <2>6, <2>7, <2>8, <2>9, <2>12, <2>13, <2>14 DEF Serial, Lossless
  <1>. QED BY <1>4, <1>5

\* From its place in line to the kill, the stop has the process in hand; it lets go of a
\* live one only when the kill fails.
LEMMA HoldKeeps ==
    ASSUME Tables, Plain, Recorded, Serial, NEW t \in Tasks,
           StopLock(t) \/ StopAsk(t) \/ StopWait(t) \/ StopKill(t)
    PROVE  Serial' /\ (~KillMayFail /\ Lossless => Lossless')
  <1>1. OneBusy /\ Sweeping
    BY DEF Serial
  <1>2. /\ task[t].pc \in {"lock", "ask", "wait", "kill"}
        /\ UNCHANGED <<modules, handlers, info, todo, found, serves, up, owner>>
        /\ Stopping(t) /\ ~Bringing(t)
    BY DEF StopLock, StopAsk, StopWait, StopKill, At, tableVars, handVars, procVars,
           Stopping, Bringing
  <1>3. Busy(t) /\ task[t].pc \in WithId /\ task[t].pc \in StopPcs /\ task[t].proc \in Procs
    BY <1>1, <1>2, StopIsBusy DEF StopPcs, Tables, Custody
  <1>4. \/ KillMayFail /\ Done(t)
        \/ \E pc \in {"ask", "wait", "kill", "settle"} :
              /\ Goto(t, pc)
              /\ \/ UNCHANGED alive
                 \/ alive' = [alive EXCEPT ![task[t].proc] = FALSE]
              /\ pc = "settle" => ~alive'[task[t].proc]
    <2>1. CASE StopLock(t)
      BY <2>1 DEF StopLock, procVars
    <2>2. CASE StopAsk(t)
      BY <2>2 DEF StopAsk, procVars
    <2>3. CASE StopWait(t)
      BY <2>3 DEF StopWait, AfterWait, procVars
    <2>4. CASE StopKill(t)
      BY <1>3, <2>4 DEF StopKill, Plain
    <2>. QED BY <2>1, <2>2, <2>3, <2>4
  <1>5. CASE KillMayFail /\ Done(t)
    <2>1. Turn(t) /\ task'[t].pc = IF t = Main THEN "next" ELSE "idle"
      BY <1>1, <1>3, <1>5, DoneIsTurn
    <2>. QED BY <1>2, <1>3, <1>5, <2>1, StopTurnKeepsSerial
  <1>6. ASSUME NEW pc \in {"ask", "wait", "kill", "settle"}, Goto(t, pc),
               \/ UNCHANGED alive
               \/ alive' = [alive EXCEPT ![task[t].proc] = FALSE],
               pc = "settle" => ~alive'[task[t].proc]
        PROVE  Serial' /\ (Lossless => Lossless')
    <2>1. Turn(t) /\ task'[t].pc = pc /\ SameWork(t) /\ Stopping(t)'
      BY <1>1, <1>3, <1>6, GotoIsTurn DEF Pcs, StopPcs, Stopping
    <2>2. \A p \in Procs : alive'[p] => alive[p]
      BY <1>3, <1>6 DEF Plain
    <2>3. Serial' /\ \A i \in Ids : Swept(i) => Swept(i)'
      BY <1>2, <1>3, <2>1, StopTurnKeepsSerial DEF StopPcs
    <2>4. ASSUME Lossless PROVE Lossless'
      <3>1. Kept /\ Shown /\ Held
        BY <2>4 DEF Lossless
      <3>2. \A i \in Ids : Ahead(i) => Ahead(i)'
        BY <1>2, <2>1, MainApart DEF Ahead, Turn, Moves
      <3>3. Kept'
        BY <1>2, <1>6, <2>1, <2>2, <3>1, TurnKeepsKept DEF SameWork
      <3>4. Held'
        BY <1>1, <1>2, <2>1, <2>2, <3>1, <3>2, TurnKeepsHeld DEF SameWork
      <3>5. Shown'
        BY <1>2, <2>1, <2>2, <2>3, <3>1, TurnKeepsShown DEF Fit
      <3>. QED BY <3>3, <3>4, <3>5 DEF Lossless
    <2>. QED BY <2>3, <2>4
  <1>. QED BY <1>4, <1>5, <1>6

\* What settles as stopped has died; another process of its id is in the hands of the
\* shutdown, if there is one.
LEMMA SettleKeeps ==
    ASSUME Tables, Plain, Recorded, Serial, NEW t \in Tasks, StopSettle(t)
    PROVE  Serial' /\ (Lossless => Lossless')
  <1>. DEFINE i == task[t].id
  <1>1. OneBusy /\ Alone /\ Sweeping
    BY DEF Serial
  <1>2. /\ task[t].pc = "settle" /\ Done(t) /\ info' = [info EXCEPT ![i] = "stopped"]
        /\ UNCHANGED <<modules, handlers, todo, found, serves, up, alive, owner>>
        /\ Stopping(t)
    BY DEF StopSettle, At, handVars, procVars, Stopping
  <1>3. /\ Busy(t) /\ task[t].pc \in WithId /\ task[t].pc \in StopPcs /\ i \in Ids
        /\ t # Main => t \in Conns
    BY <1>1, <1>2, StopIsBusy DEF StopPcs
  <1>4. Turn(t) /\ task'[t].pc = IF t = Main THEN "next" ELSE "idle"
    BY <1>1, <1>2, <1>3, DoneIsTurn
  <1>5. Serial' /\ \A j \in Ids : Swept(j) => Swept(j)'
    BY <1>2, <1>3, <1>4, StopTurnKeepsSerial
  <1>6. ASSUME Lossless PROVE Lossless'
    <2>1. Kept /\ Shown /\ Held /\ ~alive[task[t].proc]
      BY <1>2, <1>6 DEF Lossless, Kept
    <2>2. \A j \in Ids : Ahead(j) => Ahead(j)'
      BY <1>2, <1>4, MainApart DEF Ahead, Turn, Moves
    <2>3. Kept' /\ Held'
      BY <1>1, <1>2, <1>4, <2>1, <2>2, TurnKeepsKept, TurnKeepsHeld
    <2>4. \A j \in Ids : j # i => info'[j] = info[j]
      BY <1>2 DEF Plain
    <2>5. Shown'
      <3>1. CASE t = Main
        <4>1. Swept(task[Main].id)
          BY <1>1, <1>3, <3>1 DEF Sweeping
        <4>2. \A j \in Ids : Fit(j) => Fit(j)'
          BY <1>3, <1>5, <2>4, <3>1, <4>1 DEF Fit
        <4>. QED BY <1>2, <1>4, <2>1, <4>2, TurnKeepsShown
      <3>2. CASE t # Main
        <4>1. ASSUME NEW u \in Conns \ {t}
              PROVE  ~Bringing(u) /\ ~Stopping(u) /\ task'[u].pc # "spawn"
          BY <1>3, <1>4, <3>2, MainApart
             DEF Turn, Moves, Busy, StartPcs, StopPcs, Stopping, Bringing
        <4>2. modules[i] = None
          BY <1>1, <1>2, <1>3, <3>2 DEF Alone
        <4>3. ASSUME NEW q \in Procs, alive[q], NEW j, j = owner[q] PROVE Fit(j)'
          <5>1. j \in Ids /\ Fit(j)
            BY <2>1, <4>3 DEF Kept, Shown
          <5>2. CASE j # i
            BY <1>5, <2>4, <5>1, <5>2 DEF Fit
          <5>3. CASE j = i
            <6>1. PICK u \in Tasks : (Bringing(u) \/ Stopping(u)) /\ task[u].proc = q
              <7>1. modules[owner[q]] # q
                BY <4>2, <4>3, <5>3, NamesAssumption
              <7>. QED BY <2>1, <4>3, <7>1 DEF Kept
            <6>2. u = Main
              BY <2>1, <4>1, <4>3, <6>1 DEF Tasks
            <6>3. task[Main].id = i /\ task[Main].pc \in StopPcs
              BY <1>1, <4>3, <5>3, <6>1, <6>2
                 DEF OneBusy, MainPcs, Bringing, Stopping, StopPcs, Tables, Custody
            <6>4. Swept(task[Main].id)
              BY <1>1, <6>3 DEF Sweeping
            <6>. QED BY <1>5, <5>1, <5>3, <6>3, <6>4 DEF Fit
          <5>. QED BY <5>2, <5>3
        <4>4. \A u \in Conns : task'[u].pc # "spawn"
          BY <1>4, <3>2, <4>1
        <4>. QED BY <1>2, <4>3, <4>4 DEF Shown, Fit, Swept
      <3>. QED BY <3>1, <3>2
    <2>. QED BY <2>3, <2>5 DEF Lossless
  <1>. QED BY <1>5, <1>6

-----------------------------------------------------------------------------
\* The steps of main's own, which touch no process.
LEMMA MainKeeps ==
    ASSUME Tables, Recorded, Serial, Turn(Main),
           task[Main].pc \in {"idle", "drain", "next", "exit"},
           task'[Main].pc \in {"drain", "snapshot", "next", "mark", "exit", "gone"},
           UNCHANGED <<modules, info, serves, alive, owner, found>>,
           Sweeping', \A i \in Ids : (Swept(i) => Swept(i)') /\ (Ahead(i) => Ahead(i)')
    PROVE  Serial' /\ (Lossless => Lossless')
  <1>1. OneBusy /\ Alone /\ Sweeping /\ Main \in Tasks
    BY MainApart DEF Serial
  <1>2. OneBusy'
    BY <1>1, TurnKeepsOneBusy DEF MainPcs, StopPcs
  <1>3. Alone'
    BY <1>1, MainKeepsAlone
  <1>4. AllServed'
    <2>1. task'[Main].pc # "idle"
      OBVIOUS
    <2>. QED BY <2>1 DEF AllServed, Unsettled
  <1>5. ASSUME Lossless PROVE Lossless'
    <2>1. /\ Kept /\ Shown /\ Held /\ ~Bringing(Main) /\ ~Stopping(Main)
          /\ task'[Main].pc \notin {"settle", "spawn"}
      BY <1>5 DEF Lossless, Bringing, Stopping
    <2>2. Kept'
      BY <1>1, <2>1, TurnKeepsKept
    <2>3. Held'
      BY <1>1, <2>1, TurnKeepsHeld
    <2>4. \A i \in Ids : Fit(i) => Fit(i)'
      BY DEF Fit
    <2>5. Shown'
      BY <1>1, <2>1, <2>4, TurnKeepsShown
    <2>. QED BY <2>2, <2>3, <2>5 DEF Lossless
  <1>. QED BY <1>2, <1>3, <1>4, <1>5 DEF Serial

LEMMA MainGotoIsTurn ==
    ASSUME Tables, NEW pc \in {"drain", "snapshot", "next", "exit", "gone"}, Goto(Main, pc)
    PROVE  Turn(Main) /\ task'[Main].pc = pc
  <1>1. Main \in Tasks /\ Main \notin Conns /\ pc \in Pcs \ WithId
    BY MainApart DEF Pcs, WithId, StartPcs, StopPcs
  <1>. QED BY <1>1, GotoMoves DEF Turn

LEMMA BeginShutdownKeeps ==
    ASSUME Tables, Recorded, Serial, BeginShutdown
    PROVE  Serial' /\ (Lossless => Lossless')
  <1>. DEFINE pc == IF StopOnExit THEN "drain" ELSE "exit"
  <1>1. /\ task[Main].pc = "idle" /\ up /\ Goto(Main, pc)
        /\ UNCHANGED <<modules, info, todo, found, up, serves, alive, owner>>
    BY DEF BeginShutdown, At, tableVars, handVars, procVars
  <1>2. pc \in {"drain", "exit"}
    OBVIOUS
  <1>. HIDE DEF pc
  <1>3. Turn(Main) /\ task'[Main].pc = pc
    BY <1>1, <1>2, MainGotoIsTurn
  <1>4. Sweeping'
    BY <1>1, <1>2, <1>3 DEF Serial, Sweeping, Swept, StopPcs
  <1>5. \A i \in Ids : (Swept(i) => Swept(i)') /\ (Ahead(i) => Ahead(i)')
    BY <1>1 DEF Swept, Ahead
  <1>. QED BY <1>1, <1>2, <1>3, <1>4, <1>5, MainKeeps

LEMMA ShutdownStepKeeps ==
    ASSUME Tables, Recorded, Serial, ShutdownDrain \/ ShutdownNext \/ DaemonExit
    PROVE  Serial' /\ (Lossless => Lossless')
  <1>1. /\ Main \in Tasks /\ Sweeping /\ up
        /\ UNCHANGED <<modules, info, serves, alive, owner, found>>
    BY MainApart DEF Serial, ShutdownDrain, ShutdownNext, DaemonExit, At, tableVars, handVars,
                     procVars
  <1>. USE DEF At
  <1>2. CASE ShutdownDrain
    <2>1. /\ task[Main].pc = "drain" /\ UNCHANGED <<up, todo>>
          /\ Turn(Main) /\ task'[Main].pc = "snapshot"
      BY <1>2, MainGotoIsTurn DEF ShutdownDrain
    <2>2. Sweeping'
      BY <1>1, <2>1 DEF Sweeping, Swept, StopPcs
    <2>3. \A i \in Ids : (Swept(i) => Swept(i)') /\ (Ahead(i) => Ahead(i)')
      BY <1>1, <2>1 DEF Swept, Ahead
    <2>. QED BY <1>1, <2>1, <2>2, <2>3, MainKeeps
  <1>3. CASE ShutdownNext
    <2>1. task[Main].pc = "next" /\ UNCHANGED up
      BY <1>3 DEF ShutdownNext
    <2>2. CASE todo = {} /\ Goto(Main, "exit") /\ UNCHANGED todo
      <3>1. Turn(Main) /\ task'[Main].pc = "exit"
        BY <2>2, MainGotoIsTurn
      <3>2. Sweeping'
        BY <1>1, <2>1, <2>2, <3>1 DEF Sweeping, Swept, StopPcs
      <3>3. \A i \in Ids : (Swept(i) => Swept(i)') /\ (Ahead(i) => Ahead(i)')
        BY <1>1, <2>1, <2>2 DEF Swept, Ahead
      <3>. QED BY <1>1, <2>1, <3>1, <3>2, <3>3, MainKeeps
    <2>3. ASSUME NEW i \in todo, todo' = todo \ {i},
                 task' = [task EXCEPT ![Main] = [pc |-> "mark", id |-> i, proc |-> None]]
          PROVE  Serial' /\ (Lossless => Lossless')
      <3>. DEFINE e == [pc |-> "mark", id |-> i, proc |-> None]
      <3>1. /\ e \in TaskType /\ e.pc = "mark" /\ e.id = i /\ i \in Ids
            /\ task \in [Tasks -> TaskType]
        BY DEF TaskType, Pcs, StopPcs, Tables, Typed
      <3>2. task' = [task EXCEPT ![Main] = e]
        BY <2>3
      <3>. HIDE DEF e
      <3>3. /\ task'[Main].pc = "mark" /\ task'[Main].id = i /\ task' \in [Tasks -> TaskType]
            /\ \A u \in Tasks \ {Main} : task'[u] = task[u]
        BY <1>1, <3>1, <3>2
      <3>4. Turn(Main)
        BY <1>1, <3>1, <3>3, MainApart DEF Turn, Moves
      <3>5. \A j \in Ids : (Swept(j) => Swept(j)') /\ (Ahead(j) => Ahead(j)')
        BY <1>1, <2>1, <2>3, <3>3 DEF Swept, Ahead
      <3>6. Sweeping'
        <4>1. \E p \in found' : owner'[p] = i
          BY <1>1 DEF Sweeping
        <4>2. Swept(task[Main].id)'
          BY <2>3, <3>3, <4>1 DEF Swept
        <4>. QED BY <1>1, <2>1, <2>3, <3>3, <4>2 DEF Sweeping, Swept
      <3>. QED BY <1>1, <2>1, <3>3, <3>4, <3>5, <3>6, MainKeeps
    <2>. QED BY <1>3, <2>2, <2>3 DEF ShutdownNext
  <1>4. CASE DaemonExit
    <2>1. /\ task[Main].pc = "exit" /\ UNCHANGED todo
          /\ Turn(Main) /\ task'[Main].pc = "gone"
      BY <1>4, MainGotoIsTurn DEF DaemonExit
    <2>2. Sweeping'
      BY <1>1, <2>1 DEF Sweeping, Swept, StopPcs
    <2>3. \A i \in Ids : (Swept(i) => Swept(i)') /\ (Ahead(i) => Ahead(i)')
      BY <1>1, <2>1 DEF Swept, Ahead
    <2>. QED BY <1>1, <2>1, <2>2, <2>3, MainKeeps
  <1>. QED BY <1>2, <1>3, <1>4

\* What the shutdown finds registered is all it has still to go to.
LEMMA SnapshotKeeps ==
    ASSUME Tables, Recorded, Serial, ShutdownSnapshot
    PROVE  Serial' /\ (Lossless => Lossless')
  <1>1. OneBusy /\ Alone /\ Sweeping /\ Main \in Tasks
    BY MainApart DEF Serial
  <1>2. /\ task[Main].pc = "snapshot" /\ up /\ Goto(Main, "next")
        /\ UNCHANGED <<modules, info, handlers, up, serves, alive, owner>>
        /\ todo' = ToStop /\ found' = {modules[i] : i \in Ids} \ {None}
    BY DEF ShutdownSnapshot, At, tableVars, handVars, procVars
  <1>3. Turn(Main) /\ task'[Main].pc = "next"
    BY <1>2, MainGotoIsTurn
  <1>4. OneBusy' /\ Alone'
    BY <1>1, <1>2, <1>3, TurnKeepsOneBusy, MainKeepsAlone DEF MainPcs
  <1>5. AllServed'
    BY <1>3 DEF AllServed, Unsettled
  <1>6. found = {} /\ todo = {}
    BY <1>1, <1>2 DEF Sweeping
  <1>7. \A i \in ToStop : i \in Ids /\ modules[i] \in found' /\ owner[modules[i]] = i
    BY <1>2 DEF ToStop, Tables, Custody
  <1>8. \A q \in found' : \E i \in ToStop : q = modules[i] /\ owner[q] = i
    BY <1>2, <1>7 DEF ToStop
  <1>9. Sweeping'
    BY <1>2, <1>3, <1>7, <1>8 DEF Sweeping, StopPcs
  <1>10. ASSUME Lossless PROVE Lossless'
    <2>1. Kept /\ Shown /\ ~Bringing(Main) /\ ~Stopping(Main)
      BY <1>2, <1>10 DEF Lossless, Bringing, Stopping
    <2>2. Kept'
      BY <1>1, <1>2, <1>3, <2>1, TurnKeepsKept
    <2>3. Shown'
      <3>1. \A i \in Ids : Fit(i) => Fit(i)'
        BY <1>2, <1>6 DEF Fit, Swept
      <3>. QED BY <1>1, <1>2, <1>3, <2>1, <3>1, TurnKeepsShown
    <2>4. Held'
      <3>1. ASSUME NEW q \in found' PROVE modules'[owner'[q]] = q /\ owner'[q] \in todo'
        BY <1>2, <1>8, <3>1
      <3>. QED BY <3>1 DEF Held, Ahead
    <2>. QED BY <2>2, <2>3, <2>4 DEF Lossless
  <1>. QED BY <1>4, <1>5, <1>9, <1>10 DEF Serial

\* A client asks to start or to stop: no other client was at it.
LEMMA RequestKeeps ==
    ASSUME Tables, Recorded, Serial, Serialized, NEW t \in Conns, NEW i \in Ids,
           NEW pc \in {"check", "abort"}, Request(t, i, pc)
    PROVE  Serial' /\ (Lossless => Lossless')
  <1>. DEFINE e == [pc |-> pc, id |-> i, proc |-> None]
  <1>1. OneBusy /\ Alone /\ AllServed /\ Sweeping /\ t \in Tasks /\ t # Main
    BY MainApart DEF Serial
  <1>2. /\ task' = [task EXCEPT ![t] = e] /\ task[t].pc = "idle"
        /\ \A u \in Conns : ~Busy(u)
        /\ UNCHANGED <<modules, handlers, info, up, todo, found, serves, alive, owner>>
    BY DEF Request, At, tableVars, handVars, procVars
  <1>3. e \in TaskType /\ e.pc = pc /\ e.id = i
    BY DEF TaskType, Pcs, StartPcs, StopPcs
  <1>. HIDE DEF e
  <1>4. Turn(t) /\ task'[t].pc = pc
    BY <1>1, <1>2, <1>3 DEF Turn, Moves, Tables, Typed
  <1>5. OneBusy'
    BY <1>1, <1>4, TurnKeepsOneBusy
  <1>6. Alone'
    BY <1>4, ConnKeepsAlone DEF Stopping
  <1>7. AllServed'
    BY <1>1, <1>2, <1>4, ConnKeepsServed
  <1>8. Sweeping' /\ \A j \in Ids : (Swept(j) => Swept(j)') /\ (Ahead(j) => Ahead(j)')
    BY <1>1, <1>2, <1>4, ConnKeepsSweeping
  <1>9. ASSUME Lossless PROVE Lossless'
    <2>1. Kept /\ Shown /\ Held /\ ~Bringing(t) /\ ~Stopping(t)
      BY <1>2, <1>9 DEF Lossless, Bringing, Stopping
    <2>2. Kept' /\ Held'
      BY <1>1, <1>2, <1>4, <1>8, <2>1, TurnKeepsKept, TurnKeepsHeld
    <2>3. Shown'
      BY <1>1, <1>2, <1>4, <1>8, <2>1, TurnKeepsShown DEF Fit
    <2>. QED BY <2>2, <2>3 DEF Lossless
  <1>. QED BY <1>5, <1>6, <1>7, <1>8, <1>9 DEF Serial

LEMMA NextKeepsSerial ==
    ASSUME LockInv, Serial, Serialized, [Next]_vars
    PROVE  Serial' /\ (~KillMayFail /\ Lossless => Lossless')
  <1>1. Tables /\ Plain /\ Recorded
    BY DEF LockInv
  <1>2. ASSUME NEW t \in Tasks, TaskStep(t)
        PROVE  Serial' /\ (~KillMayFail /\ Lossless => Lossless')
    <2>1. CASE Start(t)
      BY <1>1, <2>1, EarlyStartKeeps, SpawnKeeps, RegisterKeeps, AttachKeeps, TrackKeeps
         DEF Start
    <2>2. CASE Stop(t)
      BY <1>1, <2>2, AbortKeeps, MarkKeeps, TakeKeeps, HoldKeeps, SettleKeeps DEF Stop
    <2>3. CASE Command(t)
      BY <1>1, <2>3, CommandIsAside, AsideKeepsSerial, AsideKeepsLossless
    <2>4. CASE Shutdown
      BY <1>1, <2>4, ShutdownStepKeeps, SnapshotKeeps DEF Shutdown
    <2>. QED BY <1>2, <2>1, <2>2, <2>3, <2>4 DEF TaskStep
  <1>3. ASSUME NEW t \in Conns, NEW i \in Ids, NEW pc \in {"check", "abort", "find"},
               Request(t, i, pc)
        PROVE  Serial' /\ (~KillMayFail /\ Lossless => Lossless')
    <2>1. CASE pc = "find"
      BY <1>1, <1>3, <2>1, RequestIsAside, AsideKeepsSerial, AsideKeepsLossless
    <2>2. CASE pc \in {"check", "abort"}
      BY <1>1, <1>3, <2>2, RequestKeeps
    <2>. QED BY <2>1, <2>2
  <1>4. CASE BeginShutdown
    BY <1>1, <1>4, BeginShutdownKeeps
  <1>5. CASE \/ \E h \in Procs : Handle(h) \/ HandlerDeaf(h) \/ Cancel(h)
             \/ \E p \in Procs : Write(p) \/ Exit(p)
             \/ UNCHANGED vars
    BY <1>1, <1>5, OtherStepsAreAside, AsideKeepsSerial, AsideKeepsLossless
  <1>. QED BY <1>2, <1>3, <1>4, <1>5 DEF Next

LEMMA InitSerial ==
    ASSUME Init
    PROVE  Serial /\ Lossless
  <1>. USE DEF Init
  <1>1. Main \in Tasks /\ \A t \in Tasks : task[t].pc = "idle"
    BY MainApart DEF Idle
  <1>2. \A t \in Conns : task[t].pc = "idle"
    BY <1>1, MainApart
  <1>3. OneBusy /\ Alone
    BY <1>1, <1>2 DEF OneBusy, Alone, Busy, MainPcs, StartPcs, StopPcs, Stopping
  <1>4. AllServed /\ Sweeping
    BY <1>1 DEF AllServed, Served, Sweeping, StopPcs
  <1>5. Lossless
    BY <1>1, <1>2 DEF Lossless, Kept, Shown, Held
  <1>. QED BY <1>3, <1>4, <1>5 DEF Serial

\* Spec => []SerialInv: the lock invariant, and with clients that start and stop modules
\* one at a time Serial, and Lossless too if no kill fails.
THEOREM SerialInvariant == Spec => []SerialInv
  <1>1. Init => SerialInv
    BY InitLockInv, InitSerial DEF SerialInv
  <1>2. SerialInv /\ [Next]_vars => SerialInv'
    <2>1. ASSUME SerialInv, [Next]_vars PROVE LockInv'
      BY <2>1, NextKeepsLockInv DEF SerialInv
    <2>2. ASSUME SerialInv, [Next]_vars, Serialized
          PROVE  Serial' /\ (~KillMayFail => Lossless')
      BY <2>2, NextKeepsSerial DEF SerialInv
    <2>. QED BY <2>1, <2>2 DEF SerialInv
  <1>. QED BY <1>1, <1>2, PTL DEF Spec

\* Serialized /\ ~KillMayFail => (Spec => []UniqueProcess). With clients that start and
\* stop one at a time an id has two live processes only while the shutdown is stopping
\* one of them, whatever commands, crashes and handlers do (registry.rs:51-60, 77-93,
\* 110-118, 197-214).
THEOREM ProcessIsUnique ==
    ASSUME Serialized, ~KillMayFail
    PROVE  Spec => []UniqueProcess
  <1>1. ASSUME SerialInv PROVE UniqueProcess
    <2>1. Tables /\ OneBusy /\ Alone /\ Kept
      BY <1>1 DEF SerialInv, LockInv, Serial, Lossless
    <2>2. ASSUME NEW p \in Procs, NEW q \in Procs, alive[p], alive[q], owner[p] = owner[q],
                 ~(Stopping(Main) /\ task[Main].proc \in {p, q})
          PROVE  p = q
      <3>1. \A t \in Conns : Bringing(t) \/ Stopping(t) =>
               modules[task[t].id] = None /\ Busy(t) /\ owner[task[t].proc] = task[t].id
        BY <2>1, MainApart
           DEF Alone, Bringing, Stopping, Busy, StartPcs, StopPcs, Tables, Custody
      <3>2. ~Bringing(Main)
        BY <2>1 DEF OneBusy, MainPcs, Bringing, StopPcs
      <3>3. ASSUME NEW r \in {p, q}
            PROVE  modules[owner[r]] = r
                   \/ \E t \in Conns : (Bringing(t) \/ Stopping(t)) /\ task[t].proc = r
        BY <2>1, <2>2, <3>2, <3>3 DEF Kept, Tasks
      <3>. QED BY <2>1, <2>2, <3>1, <3>3, NamesAssumption DEF OneBusy
    <2>. QED BY <2>2 DEF UniqueProcess
  <1>. QED BY <1>1, SerialInvariant, PTL

\* Serialized /\ ~KillMayFail => (Spec => []NoOrphan). A live process is in the table or in
\* the hands of the start that is about to register it or of the stop at work on it, with
\* a shutdown at any moment (registry.rs:77-93, 109-131, 197-214).
THEOREM NoneOrphaned ==
    ASSUME Serialized, ~KillMayFail
    PROVE  Spec => []NoOrphan
  <1>1. SerialInv => NoOrphan
    BY DEF SerialInv, Lossless, Kept, Bringing, NoOrphan
  <1>. QED BY <1>1, SerialInvariant, PTL

\* Serialized /\ ~KillMayFail => (Spec => []StoppedIsDead). What module.list shows as
\* stopped, or does not show, has no live process, but for one that was started behind
\* the shutdown (registry.rs:62-75, 124-131).
THEOREM StoppedHasDied ==
    ASSUME Serialized, ~KillMayFail
    PROVE  Spec => []StoppedIsDead
  <1>1. SerialInv => StoppedIsDead
    BY DEF SerialInv, Lossless, Shown, Fit, StoppedIsDead
  <1>. QED BY <1>1, SerialInvariant, PTL

\* Serialized => (Spec => []RegisteredIsServed). A registered module that no start or stop
\* is at work on has a handler that works for its process and that a stop will find
\* (manager.rs:47-109), also when kills fail.
THEOREM RegisteredAreServed ==
    ASSUME Serialized
    PROVE  Spec => []RegisteredIsServed
  <1>1. ASSUME SerialInv PROVE RegisteredIsServed
    <2>1. AllServed
      BY <1>1 DEF SerialInv, Serial
    <2>2. ASSUME NEW i \in Ids, task[Main].pc = "idle",
                 \A c \in Conns : task[c].id = i => ~Busy(c)
          PROVE  Served(i)
      <3>1. \A t \in Conns : task[t].id = i =>
               task[t].pc \notin {"attach", "track", "mark", "take"}
        BY <2>2 DEF Busy, StartPcs, StopPcs
      <3>. QED BY <2>1, <2>2, <3>1 DEF AllServed, Unsettled
    <2>. QED BY <2>2 DEF RegisteredIsServed, Served
  <1>. QED BY <1>1, SerialInvariant, PTL

\* Serialized /\ ~KillMayFail => (Spec => []FoundAreStopped). When the daemon exits, each
\* process its shutdown found registered is dead or in the hands of a client's stop, also
\* when clients start and stop modules during the shutdown (registry.rs:197-214,
\* main.rs:113-126).
THEOREM FoundHaveStopped ==
    ASSUME Serialized, ~KillMayFail
    PROVE  Spec => []FoundAreStopped
  <1>1. ASSUME SerialInv PROVE FoundAreStopped
    <2>1. Sweeping /\ Held /\ Recorded
      BY <1>1 DEF SerialInv, LockInv, Serial, Lossless
    <2>2. ASSUME ~up, NEW p \in found, alive[p]
          PROVE  \E c \in Conns : Stopping(c) /\ task[c].proc = p
      <3>1. task[Main].pc = "gone" /\ todo = {} /\ p \in Procs
        BY <2>1, <2>2 DEF Sweeping, Recorded
      <3>2. ~Stopping(Main) /\ \A i \in Ids : ~Ahead(i)
        BY <3>1 DEF Stopping, Ahead
      <3>3. owner[p] \in Ids
        BY <2>1, <2>2 DEF Sweeping
      <3>. QED BY <2>1, <2>2, <3>1, <3>2, <3>3 DEF Held, Tasks
    <2>. QED BY <2>2 DEF FoundAreStopped
  <1>. QED BY <1>1, SerialInvariant, PTL
=============================================================================
