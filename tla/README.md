# Verification of daemon-v1

TLA+ models of the daemon in `src/`, model-checked with TLC; every safety and
action property and both refinements are also proved with TLAPS. The daemon runs module programs as child processes, passes
events between modules and controllers over a publish/subscribe bus, keeps a
small in-memory data store, and serves controllers over TCP.

Source lines below are relative to the repository: `src/module/manager.rs` and so on.

## The system

| Component | State | Operations | Talks to |
|---|---|---|---|
| SIEVE cache, `storage/sieve.rs` | map, queue, hand | get, insert, remove, evict_one | called by the data layer |
| Data layer, `storage/cache.rs` | the cache under one `RwLock` | get, set, set_file, delete, list | module handlers, connections |
| Message bus, `bus/processor.rs`, `bus/subscriber.rs` | unbounded queue, registry of subscriptions under a mutex | publish, subscribe, unsubscribe, the processor task | everyone publishes; senders into per-subscription channels |
| Topic patterns, `bus/router.rs` | none | parse, match | the registry's `route` |
| Module registry and processes, `module/registry.rs`, `module/process.rs` | id -> process (behind a mutex), id -> info; child, two pipes, two channels | start, stop, set_status, shutdown_all; spawn, send, recv, shutdown, kill | manager |
| Module manager, `module/manager.rs` | id -> handler task | start, stop, command, shutdown_all; the handler loop; a forwarder task per subscription | registry, bus, data layer |
| Controller requests, `controller/handler.rs` | subscriber id -> receiver, under one mutex | one handler per action | manager, bus, data layer |
| IPC server, `controller/server.rs` | connections | accept, one request at a time per connection | command handler |
| `main.rs` | - | start everything; on ctrl-c or `daemon.shutdown`, stop modules and return | all |
| Protocol, configuration, errors | none | data types, JSON | all |

Tasks (tokio) interleave at every `.await`: connections, one handler per
module, forwarders, the bus's processor, `main`. What is hard here:

* a handler waits for its module's next message *with the process mutex held*;
  commands and stops queue behind it, and only an abort frees them;
* an abort ends a task where it waits, with a mutex or a place in its queue;
* checks and inserts of the module tables are separated by awaits;
* the bus copies the senders under its lock and sends after it;
* a module's subscription is a call of the bus, an entry in a list and a task of
  its own, made one after the other, and a stop removes none of them;
* nothing acknowledges a module's data_write, and a data_response does not say
  which read it answers;
* `bus.recv` keeps the mutex of a map all controllers share while it waits for an event;
* ids and queue positions of bus messages are taken in two steps;
* the eviction sweep indexes a queue that removals shift under its hand, under
  a lock that a panic would poison.

What makes each component correct:

* cache: map and queue agree, the hand stays in range, the size within the
  limit, eviction follows the SIEVE rule, nothing else is forgotten;
* bus: each subscription gets the matching messages, in queue order, once,
  without a gap while it is registered, and eventually;
* lifecycle: one process per id, no process lost, "stopped" means dead, stops
  and shutdowns end, what a shutdown found registered is dead when the daemon
  exits, the mutex is never leaked;
* topics: the matcher does what its comment says, and no pattern a module may
  subscribe to matches more than the system's topics and those under its name;
* forwarding: a process gets the events of the subscriptions it made, each once,
  in their order, without a gap, and nothing of an earlier process of its name;
* data: what was written is read back by every interface, a notice finds the
  write it announces, each read has one answer, in order;
* connections: the mutex is never left held, an event is handed out once or lost
  with one connection, every request ends.

`PROJECT.json` lists all components and the hazards at their lines.

## Modules

**`BoundedStore`** - what a data store promises: a map that changes by writes
and deletes only and forgets one entry exactly when a new key finds it full.

**`SieveCache`** - `storage/sieve.rs`, one step per public operation (the data
layer takes the write lock for each of them, `get` included). `data`, `queue`,
`hand` are the struct's fields; `hand` counts from 0 as in the code. `Turns` is
how many entries the loop of `evict_one` passes, `EvictOne` what it leaves.
It implements `BoundedStore` with `store` = the values of `data`.

**`SieveSweep`** - the eviction loop, one step per turn, with the code's local
variables. `before` remembers the cache at the call, for the refinement: the
loop implements `SieveCache`'s single step.

**`MessageBus`** - `BusMessage::new` and `publish` as two steps (`Stamp`,
`Publish`), the processor's receive, route and each send of its loop, and the
registry's operations. A channel stands for one `subscribe` call; `inbox[c]` is
what was ever sent to it. `log`, `routed`, `joined`, `left` only record history.
The topics a pattern matches are the constant relation `Matches`.

**`ModuleLifecycle`** - start, stop and command of the manager and registry,
one step per stretch of code between two awaits (and one for each table
access, which happens under its own lock), the handler task, its abort, the
process mutex with tokio's first-come order, module processes that write and
exit whenever they like, and main's shutdown, which may begin at any moment and
while which connections are still served. A start has a slot in `Procs` that names both
the process it spawns and the handler it spawns; `serves` says which process
that handler found in the table, which may be another when starts overlap.
`Leave` is what a dropped waiter does to the line: it stands in it once at most.
`abort` is "doomed" once an aborted handler waits and cannot run again,
"flagged" while it may still run to its next await. The timeout of a graceful
shutdown is a step that may come at any time. `found` only records the processes
that main found registered. Left out: what a message other
than `init_complete` does (it changes neither tables nor processes), the pid,
`mark_crashed` (nothing calls it).

**`TopicPattern`** - `bus/router.rs` and `validate_module_subscription`. A
dotted string is the sequence of its segments. `Step` is the body of
`matches_segments` for one pair of indices, `Matching` the recursion, written as
a table of the pattern's indices whose rows are tables of the topic's.

**`ModuleTopics`** - builds every pattern and every topic, a segment a step,
so that each meets each, and compares `Matching` with a definition by cuts: how
much of the topic each segment of the pattern takes. A name is any dotted string, those
with wildcards included, since nothing checks it.

**`ModuleEvents`** - extends `MessageBus`: some subscribers are modules. The
handler's publish, subscribe_request (the bus, then the list and the spawn: a
stop may come between) and unsubscribe_request; the forwarder of each
subscription, which skips its module's own events and ends at its first failed
send; the writer task of each process. `stdin[m][g]` is what was put into the
channel of the g-th process of `m`, so that events that reach the wrong process
show. A stop is one step here (`ModuleLifecycle` has its details); it aborts the handler, and
a subscription whose forwarder is not spawned yet loses its receiver with it.
`MCModuleEvents` takes `Matches` and `Permitted` from `TopicPattern`.

**`DataLayer`** - extends `SieveCache`: `storage/cache.rs`, the data messages of
a module, which its handler takes one at a time from `pipe`, and the data
requests of controllers. Each call of the data layer holds the lock from end to
end and is one step of the cache. A value is a text; `Paths` are the texts
that start with `data_layer_path`, since that is all `get` goes by. A module's writer task may
end at any time (`WriterEnds`); it is `deaf` then, and what is sent to it is dropped. A module may
write and announce it with a publish, as the documents advise. `wrote` and
`changed` only record history; `Reads` and `KeysOf` pick out of the pipe and of the answers
what `AnswersInOrder` compares.

**`ControllerSession`** - connections of the IPC server, one request at a
time each, with `bus.subscribe`, `bus.recv`, `daemon.shutdown` and one step for
every request that waits for nothing; the mutex of the receiver map with tokio's
first-come order, held by a poll until its event or its timeout; clients that leave
at any time, with requests still unread perhaps; the shutdown channel of one, and `main`. An event is
the number it has in its channel: what the bus does before is `MessageBus`.

`MC*` modules give the constants values. Operators named `Seeded...` are
plausible mistakes (an off-by-one, a missing reset, a dropped guard), one per
checked property; no specification uses them. Putting one in the place of the
definition that follows it makes the run find the property violated.

## Runs

| Run | Configuration | Shows | Distinct states |
|---|---|---|---|
| `sieve` | `MCSieveCache.cfg` | structure, SIEVE rule, refinement of `BoundedStore` | 3 489 |
| `sweep` | `MCSieveSweep.cfg` | indexing in range, loop refines the atomic eviction | 1 601 |
| `bus` | `MCMessageBus.cfg` | order, no gap, nothing unwanted, delivery | 588 000 |
| `lifecycle` | `MCLifecycle.cfg` | tables, tasks and processes agree, the shutdown at any moment stops what it found | 1 046 000 |
| `lifecycle_live` | `MCLifecycleLive.cfg` | stops, waiting commands and shutdowns end | 128 000 |
| `lifecycle_races` | `MCLifecycleRaces.cfg` | what holds when clients do not wait for one another | 697 000 |
| `topics` | `MCModuleTopics.cfg` | the matcher, what a module's name gives it, nothing refused that is its own | 66 600 |
| `data` | `MCDataLayer.cfg` | read back, notices after writes, answers in order | 549 000 |
| `events` | `MCModuleEvents.cfg` | forwarding across stops and restarts: only its own, no gap, delivered | 679 000 |
| `session` | `MCControllerSession.cfg` | the receiver map's mutex, one reader per event, every request ends | 150 000 |
| `start_race` | `MCStartRace.cfg` | violated: one process per id, overlapping starts | - |
| `shutdown_stuck` | `MCShutdownStuck.cfg` | violated: the shutdown ends, a start during it | - |

Five configurations stand beside the runs, to be checked by hand in the same way (`tlc -config X.cfg M`):

| Configuration | Module | Shows |
|---|---|---|
| `MCShutdown.cfg` | `MCModuleLifecycle` | holds: `FoundAreStopped`, `ExclusiveStop` and `HandlersTracked` with two ids, clients starting and stopping while main stops modules (278 000 states) |
| `MCCommandStuck.cfg` | `MCModuleLifecycle` | violated: every command is answered (`CommandAnswered`) |
| `MCStopStuck.cfg` | `MCModuleLifecycle` | violated: every stop is answered, a stop overlapping a start (`StopAnswered`) |
| `MCExitUnclean.cfg` | `MCModuleLifecycle` | violated: no module outlives the daemon (`CleanExit`) |
| `MCEavesdropping.cfg` | `MCModuleTopics` | violated: no module hears another, names with a dot (`NoEavesdropping`) |

Bounds, and why they are enough:

* `sieve`, `sweep`: capacity 3 and four keys. A sweep can pass 0, 1, 2 or all
  3 entries from every hand position, wrap, meet a removed neighbour on either
  side, and one key is always outside to force an eviction. The state space is
  finite without any further bound. Two values tell a kept value from a changed
  one; the sweep ignores values. There is always something to do, so deadlock
  is checked.
* `bus`: two publishers, so that stamps and queue positions can disagree; two
  channels and two patterns, one of which matches a topic the other does not;
  `MaxMessages = 2`, enough for every order, for a gap, a repeat, and for a
  removal or a dropped receiver between any two steps of the processor. The system
  stops when the messages are used up, so deadlock is not checked.
* `lifecycle`: two clients, one id, `MaxStarts = 2` processes and
  `MaxRequests = 3` requests let a module be started, stopped and started again,
  or be commanded while it is stopped, and the shutdown come anywhere in between;
  `MaxOut = 1` message per module is what it takes for the handler to be in each
  part of its loop. `MCShutdown.cfg` has two ids and two requests instead, so that
  a client starts or stops one module while main is at the other; clients and ids
  are interchangeable there, hence the symmetry. `lifecycle_live` has one start
  and three requests: a start, a command and a stop, of two clients. `lifecycle_races`
  drops the client discipline and allows a kill to fail. The daemon exits and
  requests are bounded, so deadlock is not checked: that tasks do not wait for
  one another for ever is what `lifecycle_live` is for.
* `topics`: up to three segments from `system`, a module's name, another word, the empty
  segment and both wildcards: a `#` before, between and behind other segments, two
  of them, nothing left to match, topics that hold a wildcard themselves. Eight names: plain,
  with a dot, a wildcard alone, a wildcard behind a dot, the empty one, `system`. There is always
  a longer one until both are at the bound, where the run stops.
* `data`: one module and controllers, two keys in a cache of one, so that every
  second write evicts; a text inside and one outside the directory;
  bodies with value, path, both and neither; `MaxPipe = 2` messages, a write with its publish or two
  reads; one notice under way. Deadlock is checked.
* `events`: one module with two subscriptions, of one pattern or two, two
  messages by the module or a controller, two processes one after the other: a
  forwarder of the first meets the second, an event is skipped before one is sent, an unsubscribe overtakes
  a send. The messages run out, so deadlock is not checked.
* `session`: two connections, two subscriptions, two events: one polls while
  the other subscribes, polls the same or another subscription, leaves or asks for a
  shutdown. The daemon exits in the end, so deadlock is not checked.

`Serialized` means that clients wait for a start or stop to be answered before
one of them asks for the next. It restrains clients only: commands are never held
back, ctrl-c or `daemon.shutdown` comes at any moment, also in the middle of a
start or stop, and clients go on starting and stopping modules while main stops
them, until it returns (`main.rs:102-126`). Nothing in the daemon enforces
it; `start_race` and `MCStopStuck.cfg` show what it avoids, `shutdown_stuck` and
`MCExitUnclean.cfg` need one client only and happen all the same.

What a shutdown may do under it shows in the properties: an id that main has
been to may be started anew (`Swept`), a second process of an id may be there
while main is still stopping the first (`UniqueProcess`), and a process that a
client's stop was at work on when main returned may live (`FoundAreStopped`).

Fairness: the runtime polls each task that can run, hence weak fairness per
connection, per handler, for `main` and for the bus's processor; an aborted
task is eventually dropped, hence weak fairness of `Cancel`; timers expire,
so a poll is not let wait for ever. In `session` main is fair once it was asked to stop:
that stopping the modules ends is `ShutdownEnds`. Nobody is
obliged to publish, to ask, to write or to exit.

`ShutdownEnds` and `CommandFreedByStop` are about behaviours in which no start
is about to track its handler once the shutdown has emptied the map
(`NoneTrackedLate`); in the others the shutdown may never end, as `shutdown_stuck`
shows. `StopAnswered` needs no such condition: a client's stop aborts the handler
itself, after the start it had to wait for.

### Where the code and its documents differ

* `start_race`: the check and the insert in `registry.rs:52-93` are not one
  step; two starts of one id run two processes, the first out of everyone's reach.
* `shutdown_stuck`: a start that tracks its handler after the map was drained
  (`manager.rs:444`), its process being in the snapshot, leaves main waiting for the mutex
  of a silent module for ever; `docs/Scenario-Controller.md:163` says that modules are stopped
  and the server closes.

Four more have a configuration beside the runs:

* `MCCommandStuck.cfg`: `manager.rs:70` waits with the mutex `manager.rs:431` needs;
  a command to a silent module is answered only if the module is stopped.
* `MCStopStuck.cfg`: a start registers its process (`registry.rs:92`) and tracks its handler
  last (`manager.rs:106`). A stop in between finds no handler to abort, and waits
  without a timeout for the mutex the handler holds (`registry.rs:118`);
  `docs/API-Controller.md` promises one response (line 8) and a forced kill when
  the timeout expires (line 70).
* `MCExitUnclean.cfg`: connections are served until `main` returns. A start registered
  after the snapshot of `registry.rs:199` survives the daemon;
  `docs/API-Controller.md:420` says that all modules are stopped before it exits.
* `MCEavesdropping.cfg`: nothing checks a module's name, and a module named `a` may subscribe to
  `a.#`, which is all that a module named `a.b` says; `docs/API-Module.md:310` says that modules
  cannot eavesdrop on one another. A module named `*` or `#` hears more still. What
  does hold, whatever the name, is `Isolated`.

Three more have their property in a module and no configuration:

* `BufferBounded` (`MessageBus`): `max_events` is stored and never read
  (`bus/processor.rs:38`); the README promises that events are rejected when the
  buffer is full. With `MaxEvents = 1` and `MaxMessages = 2` TLC finds two queued.
* `WithinCapacity` (`SieveCache`): with `max_keys: 0` the cache holds one entry.
* `PublishOrder` (`ModuleEvents`): "All subscribers receive events in publish
  order" (`docs/Scenario-Module.md:356`) is true of each subscription and not
  of a module that has two: nothing orders their forwarders. `MCModuleEvents` shows it.

And these the models have as the code does it:

* `docs/Scenario-Module.md:340` says that a stop aborts the forwarding tasks. It does
  not: each lives on until its first send after the old process's writer ended.
* A file outside `data_layer_path` reads back as a value, a value inside it as a path;
  `ReadBack` is about bodies that follow the documented rule (`Unambiguous`), and says nothing of the
  others. A module's
  `null` value counts as no value, a controller's is stored.
* `docs/API-Controller.md:8` promises exactly one response; a request under way when
  `main` returns gets none, the `daemon.shutdown` itself included (`RequestEnds` lets
  a request end with its connection). An event whose response cannot be written is gone.

Other behaviour the model shows and no document rules out: stopping a
stopped module leaves its status at "stopping"; a failed spawn leaves
"starting"; a module that crashed stays "running" and registered until it is
stopped; an aborted handler that was running can still set "running" after the
stop.

## Proofs

`SieveCacheProofs` proves, for every `Keys`, `Values` and every `Capacity` in
`Nat` (`CapacityAssumption`, the only assumption):

* `TypeCorrect`: `Spec => []TypeOK`;
* `StructureKept`: `QueueMatchesData`, `HandInRange` and `WithinLimit` always hold;
* the action properties `SecondChanceKept` (`SecondChance`), `SweepMinimal`
  (`SweepIsMinimal`) and `HandFollows` (`HandFollowsQueue`);
* `CacheImplementsStore`: `Spec` implements `BoundedStore`.

The inductive invariant `IInv` is the conjunction of `TypeOK`, finiteness of
the map, `QueueMatchesData`, `HandInRange` and `WithinLimit`. None of them is inductive alone: that
an eviction makes room needs map and queue to agree, the hand's range needs
the queue's length, the queue's length is the map's cardinality only because
no key is queued twice. The proof first shows that the sweep's definition is
met by some number of turns (`TurnsDefined`) and that each turn looks at a
queued key (`ReachedInQueue`), then what `EvictOne` and `MakeRoom` return, then
one lemma per operation. `SecondChanceKept` adds that a full round meets every
key (`RoundMeetsAll`); `SweepMinimal` follows from which entries the turns met
(`EvictedByInsert`), `HandFollows` from where the queue's entries are after one left
(`NextPosition`); the refinement adds that inserting a new key forgets
one entry exactly when the cache is full (`InsertNewIsAdd`).

`SieveSweepProofs` proves of the loop, under the same assumption:

* `SweepIndexesSafely`: `IndexSafe`;
* `SweepImplementsAtomic`: the loop, turn by turn, implements `SieveCache`'s insert in
  one step (`ImplementsAtomic`), and with it all that is proved of that module.

`SweepInv` says what the loop has done after `swept` turns: the hand is `swept` entries
on from where it started (`ReachedBy`), each entry met was in use and has lost its bit, nothing
else changed. That no entry is met twice before the round is over (`NotMetYet`) makes
that inductive; once the loop has ended, the entries met determine the number
of turns of the atomic step (`AtomicTurns`).

`MessageBusProofs` proves, for any number of publishers, channels, topics,
patterns and messages:

* `TypeCorrect`: `Spec => []TypeOK`;
* `FifoKept`: `FifoPerSubscription`; `OnlyWanted`: `OnlyWhatItSubscribedTo`;
  `NoGap`: `NothingMissed`;
* `PublisherOrderKept`: `PublisherOrder`.

Nothing is assumed but the kinds of the constants (`MatchesAssumption`,
`BoundsAssumption`, `NoneAssumption`). The invariant grows in three layers.
`Placement`: the queue is the part of the log not taken yet and every message
knows its place in it, so that "later in the queue" is a comparison of two
numbers. `Delivery`: what a channel received lies before what is routed, and
what the loop still owes a channel matches it and was routed while it was
registered; without the part about sends still owed, neither the order nor the
absence of gaps is inductive, because the senders were copied before the sends
happen. `IdsGrow`: along the log, one publisher's ids grow, including the id it
has stamped and not yet published.

`ModuleEventsProofs` proves, for any number of modules, subscriptions, stops
and starts (`EventsAssumption`):

* `EventsImplementBus`: each step is one of `MessageBus` or leaves the bus
  alone, so that `Placement` and `Delivery` hold here as well;
* `EventsTypeCorrect`: `EventsTypeOK`;
* `OnlyItsSubscriptionsKept`: `OnlyItsSubscriptions`; `NothingLostOnTheWay`:
  `ForwarderMissesNothing`; `ListStaysRegistered`: `ListIsRegistered`.

The invariant `Events` says where an event goes after its channel. A
subscription whose forwarder is not spawned yet is registered and nothing was
taken from it (`SpawnPending`, `ForwardersKnown`); what a process has came from
a channel whose one forwarder is its own (`SentOn`); what a living forwarder has
taken its process has (`Handed`). Order follows from that of the channel. That
an abort between the subscription and the spawn leaves a channel without a
forwarder for good is what makes `ListExact` inductive: no later process can
count it as its own.

`ControllerSessionProofs` proves, for any number of connections, subscriptions
and events (`SessionAssumption`: finitely many subscriptions, and `None` is
neither an id nor a response):

* `SessionTypeCorrect`: `TypeOK`, with what ties a task to its state: who waits has
  its receiver in the map, and a response is there only to be written;
* `MapLockedKept`: `MapLocked`; `EachEventOnceKept`: `EachEventOnce`.

`MapLocked` counts the queue of the mutex; its inductive form (`QueueOfAsking`)
says that the queue holds each asking task at one place, and the count follows
from the bijection (`QueueCounts`). In the same way `EachEventOnce` counts events,
and `Accounted` says where each one is: with a client (`GotOnce`), in a response
(`HeldOnce`) or lost (`LostOnce`), in no two of them, and none elsewhere
(`Covered`). That a response's event is later than all its client has of that
subscription makes the order inductive. A step loses the events of some
connections (`Loses`), takes one (`Takes`) or gives one to its client (`Gives`).

`ModuleTopicsProofs` proves, for every set of segments (`SegmentsAssumption`), for patterns and
topics of every length, and for module names that are any dotted strings at all (`NamesAssumption`
says no more than that), with wildcards and of several segments included:

* `MatcherIsRight`: `MatchesAsDocumented`; `ModulesAreIsolated`: `Isolated`;
  `OwnEventsAreReachable`: `OwnEventsReachable`.

The recursion of the matcher is a table; that there is one (`TableExists`) and that its entry at
`p`, `t` says whether the pattern from `p` on can be cut along the topic from `t` on
(`TableDecides`) is proved row by row from the end of the pattern, by the smallest
number of remaining segments for which it would fail (`LeastNatural`). `StepDecides` is the step.
`Isolated` compares the check on strings with the matcher on segments: what
passes the check has the name's segments in front (`StartsIsText`, `NamespacesAreStrings`), and a pattern
that starts with them hears no more than the name followed by `#` (`StartNarrows`).
`OwnEventsReachable` is about plain names, without wildcards and not empty, which match
themselves only (`PlainIsLiteral`). That a name gives a module no one else's
events does not follow, and is false (`MCEavesdropping.cfg`).

`DataLayerProofs` proves, for any number of modules, keys and pending messages
and any capacity (`CapacityAssumption`, `DataAssumption`):

* `ReadsBack`: `ReadBack`; `NoticesAreTrue`: `NoticedIsStored`;
  `AnswersStayInOrder`: `AnswersInOrder`.

`DataInv` stands on the cache's `IInv`: texts are stored as last written
(`StoredAsWritten`), a publish in the pipe directly follows its write
(`AnnouncedAfterWrite`), and an announcement about to be made or on the bus is true or known
to be overtaken (`Truthful`). A module whose writer has ended gets no more answers, and
`AnswersInOrder` is about the others. `NoticedIsStored` alone is not inductive, because an
announcement is made a step after its write. `AnswersInOrder` needs how the reads of a line
change when a message is appended or taken (`ReadsAppend`, `ReadsTail`).

`ModuleLifecycleProofs` proves, for every set of connections, ids and
processes (`BoundsAssumption`, `FlagsAssumption`, `NamesAssumption`) and
however requests overlap:

* `TablesInvariant`: a spawned process is in the custody of the start that
  spawned it, then of the table, then of the stop that took it out, never of
  two at once; a handler is tracked under the id of its start and is not
  aborted while it is in the map;
* `StopIsExclusive`: `ExclusiveStop`; `HandlersStayTracked`: `HandlersTracked`.

The two properties alone are not inductive: a registration could put back a
process that a stop still holds, an abort could hit a handler that another
start is about to track. `Custody` and `Tracking` rule that out for the starts
under way, too. No lock and no client discipline is used: only the order in which
each task touches the tables matters.

On top of the tables, and still however requests overlap:

* `TypeCorrect`: `TypeOK`; `MutexesCoherent`: `MutexCoherent`.

`LockInv` adds that a line has no repetitions and lacks the holder (`Locks`), that who
asks and who is in the lock are the same tasks (`Coherent`), and that a
handler knows its process and a start's slot has no handler before its start spawns it
(`Serving`). Without the last, a handler spawned by a start could appear
in a line it never asked for. The lemmas `AcquireEffect`,
`ReleaseEffect` and `GiveUpEffect` say what each operation does to a line, an aborted
waiter's leaving its middle included (`LeaveOrderly`); each step of a task or a handler is
one of joining, leaving or staying.

Under `Serialized`, with the shutdown at any moment and kills that may fail:

* `RegisteredAreServed`: `RegisteredIsServed`.

Under `Serialized`, and with no kill that fails (`~KillMayFail`):

* `ProcessIsUnique`: `UniqueProcess`; `NoneOrphaned`: `NoOrphan`; `StoppedHasDied`:
  `StoppedIsDead`; `FoundHaveStopped`: `FoundAreStopped`.

These are hypotheses of the theorems; `Serialized` is a habit of clients, and
`start_race` shows what happens without it. A kill fails only if the operating system refuses it;
then the process is out of the table and nobody has it. The invariant has two
parts. `Serial` says that one connection at a time is busy (`OneBusy`), that its
id is unregistered between the check and the registration and from the take on, and that
nobody but main can take its process in between (`Alone`), that an id
not half way has its handler (`AllServed`), and what the shutdown has before and
behind it (`Sweeping`). `Lossless`, for kills that succeed, says that a live process is registered
or in a task's hands and is dead before its stop settles (`Kept`), is shown as
neither stopped nor absent (`Shown`), and, if main found it, is still before main
or being stopped (`Held`). What commands, handlers and modules do in between leaves all
that alone (`AsideKeepsSerial`, `AsideKeepsLossless`); every other step is a turn of main or of
the one busy connection (`Turn`).
TLC checked `LockInv` on `lifecycle_races` and `SerialInv` on the constants of
`lifecycle` and `MCShutdown.cfg` before they were proved.

Only model-checked: the liveness properties (`StopAnswered`, `CommandFreedByStop`,
`ShutdownEnds`, `EventuallyDelivered`, `EventForwarded`, `RequestEnds`), since TLAPS does
not reason about fairness here. The library's induction theorems take an
operator, which no prover instantiates; where a recursive function or a number of
turns is reasoned about, the smallest number for which the claim fails takes their place
(`LeastElement`, `LeastNatural`).

## Not modelled

* Wire format: serde's JSON and the line codec have no state; the kinds of
  messages are inputs of the modules. `JsonLineCodec` has no caller.
* Configuration files, errors, logging, the pid and timestamps: data without control.
* Operations nothing calls: `mark_crashed`, `send_to_module`, `IpcServer::shutdown`,
  `DataLayer::clear`; requests that only read (`module.list`, `health_check`,
  `data.list`, `daemon.status`) are one step of `ControllerSession`.
* Lock poisoning of the data layer: it takes a panic with the lock held, and
  `IndexSafe` is that there is none.
* The example programs, which are clients and modules of the daemon: the
  models let a module or a controller do anything the protocol has.

## Plan

Every component with control is modelled, and every safety and action property and
both refinements are proved. What could still be proved:

1. What overlapping starts leave true of handlers: that each handler still running is
   tracked, is aborted, or belongs to a start under way.
2. An abstract lifecycle of one module (absent, starting, live, stopping), implemented
   by `ModuleLifecycle` under `Serialized`.
