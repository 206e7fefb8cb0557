------------------------------ MODULE DataLayer ------------------------------
(***************************************************************************)
(* The data layer of storage/cache.rs and what reaches it: the messages a  *)
(* module writes, which its handler takes one at a time, and the data      *)
(* requests of controllers.  Every call holds the write half of one lock   *)
(* for its whole length, so it is one step on SieveCache.                  *)
(*                                                                         *)
(* The cache keeps strings for file references, as it does for inline      *)
(* values; Values are the texts stored, Paths those of them that start     *)
(* with data_layer_path.                                                   *)
(***************************************************************************)
EXTENDS SieveCache

CONSTANTS Modules,
          Paths,     \* the values that start with StorageConfig::data_layer_path
          Bodies,    \* the value and path fields writers give, None if absent
          MaxPipe,   \* bound on a module's messages not yet handled, and on the
                      \* reads it waits for
          MaxNotices,\* bound on the events nobody has taken yet
          None

ASSUME DataAssumption ==
    /\ Paths \subseteq Values /\ None \notin Values \cup Modules
    /\ Bodies \subseteq [value : Values \cup {None}, path : Values \cup {None}]
    /\ MaxPipe \in Nat /\ MaxNotices \in Nat

VARIABLES
    pipe,     \* what a module wrote and its handler has not handled
    asked,    \* the keys of the reads a module waits for, in the order it asked
    stdin,    \* the data_responses sent to a module and not read by it
    deaf,     \* the modules whose writer task has ended
    notices,  \* the events that announce a write and were not taken yet
    wrote,    \* history: for each key present, who wrote it and with what body
    changed   \* history: is what m wrote last and announces no longer there

dataVars == <<vars, pipe, asked, stdin, deaf, notices, wrote, changed>>

Write(k, b)   == [op |-> "data_write", key |-> k, body |-> b]
Read(k)       == [op |-> "data_read", key |-> k]
Erase(k)      == [op |-> "data_delete", key |-> k]
Notice(k, b)  == [op |-> "publish", key |-> k, body |-> b]
Fresh(m)      == /\ pipe[m] = <<>> /\ asked[m] = <<>> /\ stdin[m] = <<>>
                    /\ m \notin deaf

DataInit ==
    /\ Init
    /\ pipe = [m \in Modules |-> <<>>]
    /\ asked = [m \in Modules |-> <<>>]
    /\ stdin = [m \in Modules |-> <<>>]
    /\ deaf = {} /\ notices = {}
    /\ wrote = [k \in {} |-> None]
    /\ changed = [m \in Modules |-> FALSE]

-----------------------------------------------------------------------------
\* DataLayer::get gives what is stored as a file or as a value by its text.
\* `Seeded' operators are mistakes the properties must catch.
SeededEntry(k) == [field |-> "value", text |-> data[k].value]
DataEntry(k) ==
    [field |-> IF data[k].value \in Paths THEN "path" ELSE "value",
     text  |-> data[k].value]

\* The data_response, or the result of data.get; neither field when absent.
Answer(k) == IF k \in DOMAIN data THEN DataEntry(k)
                                  ELSE [field |-> "none", text |-> None]

\* A module's value wins over its path, a controller's path over its value.
TextOfModule(b) == IF b.value # None THEN b.value ELSE b.path
SeededValueFirst(b) == IF b.value # None THEN b.value ELSE b.path
TextOfController(b) == IF b.path # None THEN b.path ELSE b.value

\* What the histories make of a change of key k by `who' with body b.
Recorded(k, who, b) ==
    /\ wrote' = [x \in DOMAIN data' |->
                    IF x = k THEN [by |-> who, body |-> b] ELSE wrote[x]]
    /\ LET gone == {k} \cup (DOMAIN data \ DOMAIN data')
       IN  /\ notices' = {[n EXCEPT !.later = @ \/ n.key \in gone] : n \in notices}
           /\ changed' = [m \in Modules |->
                /\ m # who
                /\ \/ changed[m]
                   \/ pipe[m] # <<>> /\ Head(pipe[m]).op = "publish"
                                     /\ Head(pipe[m]).key \in gone]

\* set and set_file store the text; with neither field the request fails and
\* nothing changes.
Accept(k, who, b, text) ==
    IF text = None THEN UNCHANGED <<vars, wrote, notices, changed>>
    ELSE /\ Update(k, text) \/ InsertNew(k, text)
         /\ Recorded(k, who, b)

Lookup(k) == Get(k) \/ (k \notin DOMAIN data /\ UNCHANGED vars)

Delete(k, who) ==
    IF k \in DOMAIN data THEN Remove(k) /\ Recorded(k, who, None)
                         ELSE UNCHANGED <<vars, wrote, notices, changed>>

-----------------------------------------------------------------------------
\* A module writes a line, or two: the documents advise a write and then a
\* publish that names the key.
Say(m, lines) ==
    /\ Len(pipe[m]) + Len(lines) <= MaxPipe
    /\ pipe' = [pipe EXCEPT ![m] = @ \o lines]
    /\ UNCHANGED <<vars, stdin, deaf, notices, wrote, changed>>

Announce(m, k, b) ==
    /\ b # [value |-> None, path |-> None]
    /\ Say(m, <<Write(k, b), Notice(k, b)>>)
    /\ UNCHANGED asked
Ask(m, k) ==
    /\ Len(asked[m]) < MaxPipe
    /\ Say(m, <<Read(k)>>)
    /\ asked' = [asked EXCEPT ![m] = Append(@, k)]
Drop(m, k) == Say(m, <<Erase(k)>>) /\ UNCHANGED asked

\* The module reads a data_response.
TakeAnswer(m) ==
    /\ m \notin deaf /\ stdin[m] # <<>>
    /\ stdin' = [stdin EXCEPT ![m] = Tail(@)]
    /\ asked' = [asked EXCEPT ![m] = Tail(@)]
    /\ UNCHANGED <<vars, pipe, deaf, notices, wrote, changed>>

\* The module closed its standard input, or exited: a write fails, and the
\* writer task ends with what it had still to write.
WriterEnds(m) ==
    /\ m \notin deaf
    /\ deaf' = deaf \cup {m}
    /\ stdin' = [stdin EXCEPT ![m] = <<>>]
    /\ UNCHANGED <<vars, pipe, asked, notices, wrote, changed>>

\* The handler takes the next message and handles it to the end.
SeededTakeLast(m) == [msg  |-> pipe[m][Len(pipe[m])],
                      rest |-> SubSeq(pipe[m], 1, Len(pipe[m]) - 1)]
Taken(m) == [msg |-> Head(pipe[m]), rest |-> Tail(pipe[m])]

HandleWrite(m) ==
    /\ pipe[m] # <<>> /\ Taken(m).msg.op = "data_write"
    /\ pipe' = [pipe EXCEPT ![m] = Taken(m).rest]
    /\ LET msg == Taken(m).msg
       IN  Accept(msg.key, m, msg.body, TextOfModule(msg.body))
    /\ UNCHANGED <<asked, stdin, deaf>>

SeededReplies(k) == IF k \in DOMAIN data THEN <<[key |-> k, got |-> Answer(k)]>> ELSE <<>>
Replies(k) == <<[key |-> k, got |-> Answer(k)]>>

\* The send fails when the writer task is gone; the handler goes on with the
\* next message.
HandleRead(m) ==
    /\ pipe[m] # <<>> /\ Taken(m).msg.op = "data_read"
    /\ pipe' = [pipe EXCEPT ![m] = Taken(m).rest]
    /\ Lookup(Taken(m).msg.key)
    /\ stdin' = IF m \in deaf THEN stdin
                 ELSE [stdin EXCEPT ![m] = @ \o Replies(Taken(m).msg.key)]
    /\ UNCHANGED <<asked, deaf, notices, wrote, changed>>

HandleDelete(m) ==
    /\ pipe[m] # <<>> /\ Taken(m).msg.op = "data_delete"
    /\ pipe' = [pipe EXCEPT ![m] = Taken(m).rest]
    /\ Delete(Taken(m).msg.key, m)
    /\ UNCHANGED <<asked, stdin, deaf>>

HandlePublish(m) ==
    /\ pipe[m] # <<>> /\ Taken(m).msg.op = "publish"
    /\ Cardinality(notices) < MaxNotices
    /\ pipe' = [pipe EXCEPT ![m] = Taken(m).rest]
    /\ notices' = notices \cup {[by |-> m, key |-> Taken(m).msg.key,
                                 body |-> Taken(m).msg.body, later |-> changed[m]]}
    /\ UNCHANGED <<vars, asked, stdin, deaf, wrote, changed>>

\* The module is stopped and started again, wherever it and its handler were:
\* what it had written, and what was on the way to it, is lost.
Restart(m) ==
    /\ ~Fresh(m)
    /\ pipe' = [pipe EXCEPT ![m] = <<>>]
    /\ asked' = [asked EXCEPT ![m] = <<>>]
    /\ stdin' = [stdin EXCEPT ![m] = <<>>]
    /\ deaf' = deaf \ {m}
    /\ changed' = [changed EXCEPT ![m] = FALSE]
    /\ UNCHANGED <<vars, notices, wrote>>

-----------------------------------------------------------------------------
\* data.set, data.get and data.delete
ControllerSet(k, b) ==
    /\ Accept(k, None, b, TextOfController(b))
    /\ UNCHANGED <<pipe, asked, stdin, deaf>>
ControllerGet(k) ==
    /\ Lookup(k)
    /\ UNCHANGED <<pipe, asked, stdin, deaf, notices, wrote, changed>>
ControllerDelete(k) ==
    /\ Delete(k, None)
    /\ UNCHANGED <<pipe, asked, stdin, deaf>>

\* Somebody takes an event.
TakeNotice(n) ==
    /\ n \in notices
    /\ notices' = notices \ {n}
    /\ UNCHANGED <<vars, pipe, asked, stdin, deaf, wrote, changed>>

DataNext ==
    \/ \E m \in Modules :
          \/ \E k \in Keys : (\E b \in Bodies : Announce(m, k, b)) \/ Ask(m, k) \/ Drop(m, k)
          \/ TakeAnswer(m) \/ WriterEnds(m)
          \/ HandleWrite(m) \/ HandleRead(m) \/ HandleDelete(m) \/ HandlePublish(m)
          \/ Restart(m)
    \/ \E k \in Keys :
          (\E b \in Bodies : ControllerSet(k, b)) \/ ControllerGet(k) \/ ControllerDelete(k)
    \/ \E n \in notices : TakeNotice(n)

DataSpec == DataInit /\ [][DataNext]_dataVars

-----------------------------------------------------------------------------
\* The write body b gives one of the two fields, and follows the rule the
\* documents give for telling files and values apart.
Unambiguous(b) ==
    /\ (b.value = None) # (b.path = None)
    /\ b.path # None => b.path \in Paths
    /\ b.value # None => b.value \notin Paths

\* Whoever wrote it, through whichever of the two interfaces, every key that
\* is present reads back as the field and the text of the last write accepted
\* for it; a controller that gives both fields gets the path
\* (cache.rs:26-62, manager.rs:310-325, handler.rs:178-190;
\* docs/Scenario-Controller.md, sections 7 and 8).
ReadBack ==
    \A k \in DOMAIN data :
        LET b == wrote[k].body
        IN  /\ Unambiguous(b) =>
                  Answer(k) = IF b.path # None THEN [field |-> "path", text |-> b.path]
                                               ELSE [field |-> "value", text |-> b.value]
            /\ wrote[k].by = None /\ b.path # None => Answer(k).text = b.path

\* "Write the large result to the data layer, publish a small notification"
\* (docs/Scenario-Module.md:369-371): whoever takes the event finds the write
\* it announces in place, unless the key was written, deleted or evicted after
\* it, although nothing acknowledges a data_write, an eviction may strike
\* between the two and the module may be stopped there (manager.rs:61-97, 188-208).
NoticedIsStored ==
    \A n \in notices :
        n.later \/ Answer(n.key).text = TextOfModule(n.body)

\* The keys of the reads among some messages, in order.
Reads(messages) ==
    LET r[i \in 0..Len(messages)] ==
            IF i = 0 THEN <<>>
            ELSE IF messages[i].op = "data_read" THEN Append(r[i - 1], messages[i].key)
            ELSE r[i - 1]
    IN  r[Len(messages)]

KeysOf(answers) == [i \in 1..Len(answers) |-> answers[i].key]

\* A data_response carries no id: the module can tell which read it answers
\* only because, as long as it reads its standard input, each read gets exactly
\* one, present or not, in the order of the reads (manager.rs:330-361).
AnswersInOrder ==
    \A m \in Modules \ deaf : KeysOf(stdin[m]) \o Reads(pipe[m]) = asked[m]
=============================================================================
