--------------------------- MODULE DataLayerProofs ---------------------------
(***************************************************************************)
(* What the data layer promises its modules and controllers, for any       *)
(* number of them, of keys and of pending messages, and any capacity: a    *)
(* value reads back as it was written, an event that announces a write     *)
(* finds it in place, and each read gets one answer, in order.             *)
(***************************************************************************)
EXTENDS DataLayer, SieveCacheProofs

-----------------------------------------------------------------------------
\* What modules write to their standard output.
Message == {Write(k, b) : k \in Keys, b \in Bodies} \cup {Read(k) : k \in Keys}
           \cup {Erase(k) : k \in Keys} \cup {Notice(k, b) : k \in Keys, b \in Bodies}

Response == [key : Keys,
             got : [field : {"path", "value", "none"}, text : Values \cup {None}]]

DataTypes ==
    /\ pipe \in [Modules -> Seq(Message)]
    /\ asked \in [Modules -> Seq(Keys)]
    /\ stdin \in [Modules -> Seq(Response)]
    /\ notices \subseteq [by : Modules, key : Keys, body : Bodies, later : BOOLEAN]
    /\ wrote \in [DOMAIN data -> [by : Modules \cup {None}, body : Bodies]]
    /\ changed \in [Modules -> BOOLEAN]

\* The text stored for what was accepted last.
TextOf(w) == IF w.by = None THEN TextOfController(w.body) ELSE TextOfModule(w.body)

StoredAsWritten == \A k \in DOMAIN data : data[k].value = TextOf(wrote[k])

\* The cache holds what body b says under k.
Holds(k, b) == k \in DOMAIN data /\ data[k].value = TextOfModule(b)

HoldsNext(k, b) == k \in DOMAIN data' /\ data'[k].value = TextOfModule(b)

\* A module announces only what it has just written.
AnnouncedAfterWrite ==
    \A m \in Modules : \A i \in 1..Len(pipe[m]) :
        pipe[m][i].op = "publish" =>
            /\ pipe[m][i].body # [value |-> None, path |-> None]
            /\ i > 1 => pipe[m][i - 1] = Write(pipe[m][i].key, pipe[m][i].body)

\* The announcement that is next in line, and those on the bus, are true or
\* known to be overtaken.
AboutToAnnounce(m) == pipe[m] # <<>> /\ Head(pipe[m]).op = "publish"

Truthful ==
    /\ \A m \in Modules : AboutToAnnounce(m) =>
          changed[m] \/ Holds(Head(pipe[m]).key, Head(pipe[m]).body)
    /\ \A n \in notices : n.later \/ Holds(n.key, n.body)

\* None of them is inductive alone: a read that is answered can be taken off `asked'
\* only because AnswersInOrder says there is one, and an announcement stays true
\* only because nothing comes between it and its write in the pipe.
DataInv == /\ IInv /\ DataTypes /\ StoredAsWritten /\ AnnouncedAfterWrite /\ Truthful
           /\ AnswersInOrder

-----------------------------------------------------------------------------
LEMMA MessageFields ==
    \A msg \in Message :
        /\ msg.key \in Keys
        /\ msg.op \in {"data_write", "publish"} => msg.body \in Bodies
        /\ msg.op = "data_write" => msg = Write(msg.key, msg.body)
  BY DEF Message, Write, Read, Erase, Notice

LEMMA BodyTexts ==
    ASSUME NEW b \in Bodies
    PROVE  /\ TextOfModule(b) \in Values \cup {None}
           /\ TextOfController(b) \in Values \cup {None}
           /\ b # [value |-> None, path |-> None] => TextOfModule(b) # None
  <1>1. b \in [value : Values \cup {None}, path : Values \cup {None}]
    BY DataAssumption
  <1>. QED BY <1>1 DEF TextOfModule, TextOfController

\* What a change of k leaves of the other entries.
OthersSame(k) ==
    /\ DOMAIN data' \subseteq DOMAIN data \cup {k}
    /\ \A x \in DOMAIN data' \ {k} : data'[x].value = data[x].value

LEMMA StoreEffect ==
    ASSUME IInv, NEW k \in Keys, NEW text \in Values, Update(k, text) \/ InsertNew(k, text)
    PROVE  IInv' /\ OthersSame(k) /\ k \in DOMAIN data' /\ data'[k].value = text
  <1>1. CASE Update(k, text)
    BY <1>1, UpdateKeepsIInv DEF Update, Put, OthersSame
  <1>2. CASE InsertNew(k, text)
    <2>1. PICK room : room = MakeRoom
      OBVIOUS
    <2>2. /\ DOMAIN room.data \subseteq DOMAIN data
          /\ \A x \in DOMAIN room.data : room.data[x].value = data[x].value
      BY <2>1, MakeRoomProperties
    <2>3. data' = Put(room.data, k, [value |-> text, visited |-> FALSE])
      BY <1>2, <2>1 DEF InsertNew
    <2>. QED BY <1>2, <2>2, <2>3, InsertNewKeepsIInv DEF Put, OthersSame
  <1>. QED BY <1>1, <1>2

LEMMA LookupEffect ==
    ASSUME IInv, NEW k \in Keys, Lookup(k)
    PROVE  /\ IInv' /\ DOMAIN data' = DOMAIN data
           /\ \A x \in DOMAIN data : data'[x].value = data[x].value
  <1>1. CASE Get(k)
    <2>1. data' = [data EXCEPT ![k].visited = TRUE] /\ data \in [DOMAIN data -> Entry]
      BY <1>1 DEF Get, IInv, TypeOK
    <2>. QED BY <1>1, <2>1, GetKeepsIInv DEF Entry
  <1>2. CASE UNCHANGED vars
    BY <1>2 DEF vars, IInv, TypeOK, QueueMatchesData, QueueInjective, HandInRange, WithinLimit
  <1>. QED BY <1>1, <1>2 DEF Lookup

LEMMA RemoveEffect ==
    ASSUME IInv, NEW k \in Keys, Remove(k)
    PROVE  IInv' /\ OthersSame(k) /\ k \notin DOMAIN data'
  BY RemoveKeepsIInv DEF Remove, OthersSame

LEMMA CacheUntouched ==
    ASSUME IInv, UNCHANGED vars
    PROVE  IInv'
  BY DEF vars, IInv, TypeOK, QueueMatchesData, QueueInjective, HandInRange, WithinLimit

-----------------------------------------------------------------------------
\* The histories after a change.
LEMMA HistoryTypes ==
    ASSUME IInv, DataTypes, NEW k \in Keys, NEW who \in Modules \cup {None}, NEW b,
           OthersSame(k), Recorded(k, who, b), k \in DOMAIN data' => b \in Bodies
    PROVE  /\ notices' \subseteq [by : Modules, key : Keys, body : Bodies, later : BOOLEAN]
           /\ wrote' \in [DOMAIN data' -> [by : Modules \cup {None}, body : Bodies]]
           /\ changed' \in [Modules -> BOOLEAN]
  <1>1. wrote' \in [DOMAIN data' -> [by : Modules \cup {None}, body : Bodies]]
    <2>1. wrote' = [x \in DOMAIN data' |->
                       IF x = k THEN [by |-> who, body |-> b] ELSE wrote[x]]
      BY DEF Recorded
    <2>2. \A x \in DOMAIN data : wrote[x] \in [by : Modules \cup {None}, body : Bodies]
      BY DEF DataTypes
    <2>3. k \in DOMAIN data' => [by |-> who, body |-> b]
                               \in [by : Modules \cup {None}, body : Bodies]
      OBVIOUS
    <2>. QED BY <2>1, <2>2, <2>3 DEF OthersSame
  <1>. DEFINE gone == {k} \cup (DOMAIN data \ DOMAIN data')
  <1>2. notices' \subseteq [by : Modules, key : Keys, body : Bodies, later : BOOLEAN]
    <2>1. notices' = {[n EXCEPT !.later = @ \/ n.key \in gone] : n \in notices}
      BY DEF Recorded
    <2>2. ASSUME NEW n \in notices
          PROVE  [n EXCEPT !.later = @ \/ n.key \in gone]
                    \in [by : Modules, key : Keys, body : Bodies, later : BOOLEAN]
      BY DEF DataTypes
    <2>. QED BY <2>1, <2>2
  <1>3. changed' \in [Modules -> BOOLEAN]
    <2>1. changed' = [m \in Modules |->
                /\ m # who
                /\ \/ changed[m]
                   \/ pipe[m] # <<>> /\ Head(pipe[m]).op = "publish"
                                     /\ Head(pipe[m]).key \in gone]
      BY DEF Recorded
    <2>. QED BY <2>1, Zenon
  <1>. QED BY <1>1, <1>2, <1>3

LEMMA HistoryTruthful ==
    ASSUME IInv, DataTypes, Truthful, NEW k \in Keys, NEW who, NEW b,
           OthersSame(k), Recorded(k, who, b)
    PROVE  /\ \A m \in Modules \ {who} : AboutToAnnounce(m) =>
                  changed'[m] \/ HoldsNext(Head(pipe[m]).key, Head(pipe[m]).body)
           /\ \A n \in notices' : n.later \/ HoldsNext(n.key, n.body)
  <1>. DEFINE gone == {k} \cup (DOMAIN data \ DOMAIN data')
  <1>1. \A x \in DOMAIN data : x \notin gone =>
            x \in DOMAIN data' /\ data'[x].value = data[x].value
    BY DEF OthersSame
  <1>2. ASSUME NEW m \in Modules \ {who}, AboutToAnnounce(m)
        PROVE  changed'[m] \/ HoldsNext(Head(pipe[m]).key, Head(pipe[m]).body)
    <2>1. changed'[m] <=> changed[m] \/ Head(pipe[m]).key \in gone
      <3>1. changed' = [x \in Modules |->
                /\ x # who
                /\ \/ changed[x]
                   \/ pipe[x] # <<>> /\ Head(pipe[x]).op = "publish"
                                     /\ Head(pipe[x]).key \in gone]
        BY DEF Recorded
      <3>2. changed'[m] = (/\ m # who
                           /\ \/ changed[m]
                              \/ pipe[m] # <<>> /\ Head(pipe[m]).op = "publish"
                                                /\ Head(pipe[m]).key \in gone)
        BY <3>1, Zenon
      <3>. QED BY <1>2, <3>2, Zenon DEF AboutToAnnounce
    <2>2. changed[m] \/ Holds(Head(pipe[m]).key, Head(pipe[m]).body)
      BY <1>2 DEF Truthful
    <2>. HIDE DEF gone
    <2>. QED BY <1>1, <2>1, <2>2 DEF Holds, HoldsNext
  <1>3. ASSUME NEW n \in notices'
        PROVE  n.later \/ HoldsNext(n.key, n.body)
    <2>1. PICK o \in notices : n = [o EXCEPT !.later = @ \/ o.key \in gone]
      BY DEF Recorded
    <2>2. /\ n.key = o.key /\ n.body = o.body
          /\ n.later <=> o.later \/ o.key \in gone
      BY <2>1 DEF DataTypes
    <2>3. o.later \/ Holds(o.key, o.body)
      BY DEF Truthful
    <2>. HIDE DEF gone
    <2>. QED BY <1>1, <2>2, <2>3 DEF Holds, HoldsNext
  <1>. QED BY <1>2, <1>3

LEMMA HistoryAsWritten ==
    ASSUME IInv, DataTypes, StoredAsWritten, NEW k \in Keys, NEW who, NEW b,
           OthersSame(k), Recorded(k, who, b),
           k \in DOMAIN data' => data'[k].value = TextOf([by |-> who, body |-> b])
    PROVE  StoredAsWritten'
  <1>1. ASSUME NEW x \in DOMAIN data' PROVE data'[x].value = TextOf(wrote'[x])
    <2>1. wrote'[x] = IF x = k THEN [by |-> who, body |-> b] ELSE wrote[x]
      BY DEF Recorded
    <2>2. CASE x = k
      BY <2>1, <2>2
    <2>3. CASE x # k
      BY <2>1, <2>3 DEF OthersSame, StoredAsWritten
    <2>. QED BY <2>2, <2>3
  <1>. QED BY <1>1 DEF StoredAsWritten, TextOf, TextOfController, TextOfModule


-----------------------------------------------------------------------------
\* Taking a message, and writing some.
TakesMessage(m) == /\ pipe[m] # <<>>
                   /\ pipe' = [pipe EXCEPT ![m] = Tail(pipe[m])]

LEMMA TakeEffect ==
    ASSUME DataTypes, AnnouncedAfterWrite, NEW m \in Modules, TakesMessage(m)
    PROVE  /\ pipe' \in [Modules -> Seq(Message)] /\ AnnouncedAfterWrite'
           /\ \A o \in Modules \ {m} : pipe'[o] = pipe[o]
           /\ Head(pipe[m]) \in Message
           /\ AboutToAnnounce(m)' =>
                 /\ Head(pipe'[m]) \in Message
                 /\ Head(pipe'[m]).body # [value |-> None, path |-> None]
                 /\ Head(pipe[m]) = Write(Head(pipe'[m]).key, Head(pipe'[m]).body)
  <1>1. PICK s : s = pipe[m]
    OBVIOUS
  <1>2. s \in Seq(Message) /\ s # <<>> /\ Len(s) \in Nat \ {0}
    BY <1>1, EmptySeq DEF DataTypes, TakesMessage
  <1>3. PICK r : r = Tail(s)
    OBVIOUS
  <1>4. /\ r \in Seq(Message) /\ Len(r) = Len(s) - 1 /\ \A i \in 1..Len(r) : r[i] = s[i + 1]
        /\ Head(s) = s[1] /\ s[1] \in Message
    BY <1>2, <1>3, HeadTailProperties
  <1>5. pipe' \in [Modules -> Seq(Message)] /\ pipe'[m] = r
        /\ \A o \in Modules \ {m} : pipe'[o] = pipe[o]
    BY <1>1, <1>3, <1>4 DEF DataTypes, TakesMessage
  <1>6. \A i \in 1..Len(s) : s[i].op = "publish" =>
            /\ s[i].body # [value |-> None, path |-> None]
            /\ i > 1 => s[i - 1] = Write(s[i].key, s[i].body)
    BY <1>1 DEF AnnouncedAfterWrite
  <1>7. \A i \in 1..Len(r) : r[i].op = "publish" =>
            /\ r[i].body # [value |-> None, path |-> None]
            /\ s[i] = Write(r[i].key, r[i].body)
            /\ i > 1 => r[i - 1] = Write(r[i].key, r[i].body)
    <2>. SUFFICES ASSUME NEW i \in 1..Len(r), r[i].op = "publish"
                  PROVE  /\ r[i].body # [value |-> None, path |-> None]
                         /\ s[i] = Write(r[i].key, r[i].body)
                         /\ i > 1 => r[i - 1] = Write(r[i].key, r[i].body)
      OBVIOUS
    <2>1. PICK j \in 1..Len(s) : j = i + 1 /\ j > 1 /\ j - 1 = i
      BY <1>2, <1>4
    <2>2. r[i] = s[j] /\ (i > 1 => r[i - 1] = s[i])
      <3>1. i > 1 => i - 1 \in 1..Len(r) /\ (i - 1) + 1 = i
        BY <1>4
      <3>. QED BY <1>4, <2>1, <3>1
    <2>3. s[j].body # [value |-> None, path |-> None] /\ s[j - 1] = Write(s[j].key, s[j].body)
      BY <1>6, <2>1, <2>2
    <2>. QED BY <2>1, <2>2, <2>3
  <1>8. AnnouncedAfterWrite'
    <2>1. ASSUME NEW o \in Modules, NEW i \in 1..Len(pipe'[o]), pipe'[o][i].op = "publish"
          PROVE  /\ pipe'[o][i].body # [value |-> None, path |-> None]
                 /\ i > 1 => pipe'[o][i - 1] = Write(pipe'[o][i].key, pipe'[o][i].body)
      <3>1. CASE o = m
        BY <1>5, <1>7, <2>1, <3>1
      <3>2. CASE o # m
        BY <1>5, <2>1, <3>2 DEF AnnouncedAfterWrite
      <3>. QED BY <3>1, <3>2
    <2>. QED BY <2>1 DEF AnnouncedAfterWrite, Write
  <1>9. ASSUME AboutToAnnounce(m)'
        PROVE  /\ Head(pipe'[m]) \in Message
               /\ Head(pipe'[m]).body # [value |-> None, path |-> None]
               /\ Head(pipe[m]) = Write(Head(pipe'[m]).key, Head(pipe'[m]).body)
    <2>1. r # <<>> /\ Head(r).op = "publish"
      BY <1>5, <1>9 DEF AboutToAnnounce
    <2>2. Len(r) \in Nat \ {0} /\ Head(r) = r[1] /\ r[1] \in Message
      BY <1>4, <2>1, EmptySeq, HeadTailProperties
    <2>. QED BY <1>1, <1>4, <1>5, <1>7, <2>1, <2>2
  <1>. QED BY <1>1, <1>4, <1>5, <1>8, <1>9

LEMMA TakeOther ==
    ASSUME DataTypes, AnnouncedAfterWrite, NEW m \in Modules, TakesMessage(m),
           Head(pipe[m]).op # "data_write"
    PROVE  /\ pipe' \in [Modules -> Seq(Message)] /\ AnnouncedAfterWrite'
           /\ \A o \in Modules \ {m} : pipe'[o] = pipe[o]
           /\ Head(pipe[m]) \in Message /\ ~AboutToAnnounce(m)'
  <1>1. PICK k, b : k = Head(pipe'[m]).key /\ b = Head(pipe'[m]).body
    OBVIOUS
  <1>2. AboutToAnnounce(m)' => Head(pipe[m]) = Write(k, b)
    BY <1>1, TakeEffect
  <1>3. Write(k, b).op = "data_write"
    BY DEF Write
  <1>4. ~AboutToAnnounce(m)'
    BY <1>2, <1>3
  <1>. QED BY <1>4, TakeEffect

\* A line, or a write and its announcement.
Lines == {<<Read(k)>> : k \in Keys} \cup {<<Erase(k)>> : k \in Keys}
         \cup {<<Write(k, b), Notice(k, b)>> :
                  k \in Keys, b \in Bodies \ {[value |-> None, path |-> None]}}

LEMMA LinesProperties ==
    ASSUME NEW lines \in Lines
    PROVE  /\ lines \in Seq(Message) /\ Len(lines) \in {1, 2}
           /\ lines[1].op # "publish"
           /\ Len(lines) = 2 /\ lines[2].op = "publish" =>
                 /\ lines[2].body # [value |-> None, path |-> None]
                 /\ lines[1] = Write(lines[2].key, lines[2].body)
  <1>1. CASE lines \in {<<Read(k)>> : k \in Keys}
    <2>1. PICK k \in Keys : lines = <<Read(k)>>
      BY <1>1
    <2>2. Read(k) \in Message /\ Read(k).op # "publish"
      BY DEF Message, Read
    <2>. QED BY <2>1, <2>2
  <1>2. CASE lines \in {<<Erase(k)>> : k \in Keys}
    <2>1. PICK k \in Keys : lines = <<Erase(k)>>
      BY <1>2
    <2>2. Erase(k) \in Message /\ Erase(k).op # "publish"
      BY DEF Message, Erase
    <2>. QED BY <2>1, <2>2
  <1>3. CASE lines \in {<<Write(k, b), Notice(k, b)>> :
                  k \in Keys, b \in Bodies \ {[value |-> None, path |-> None]}}
    <2>1. PICK k \in Keys, b \in Bodies \ {[value |-> None, path |-> None]} :
             lines = <<Write(k, b), Notice(k, b)>>
      BY <1>3
    <2>2. /\ Write(k, b) \in Message /\ Write(k, b).op # "publish" /\ Notice(k, b) \in Message
          /\ Notice(k, b).key = k /\ Notice(k, b).body = b
      BY DEF Message, Write, Notice
    <2>. QED BY <2>1, <2>2
  <1>. QED BY <1>1, <1>2, <1>3 DEF Lines

LEMMA SayEffect ==
    ASSUME DataTypes, AnnouncedAfterWrite, NEW m \in Modules, NEW lines \in Lines,
           pipe' = [pipe EXCEPT ![m] = @ \o lines]
    PROVE  /\ pipe' \in [Modules -> Seq(Message)] /\ AnnouncedAfterWrite'
           /\ \A o \in Modules : AboutToAnnounce(o)' =>
                 AboutToAnnounce(o) /\ Head(pipe'[o]) = Head(pipe[o])
  <1>1. PICK s : s = pipe[m]
    OBVIOUS
  <1>2. PICK r : r = s \o lines
    OBVIOUS
  <1>3. s \in Seq(Message) /\ Len(s) \in Nat
    BY <1>1 DEF DataTypes
  <1>4. /\ lines \in Seq(Message) /\ Len(lines) \in {1, 2} /\ lines[1].op # "publish"
        /\ Len(lines) = 2 /\ lines[2].op = "publish" =>
              /\ lines[2].body # [value |-> None, path |-> None]
              /\ lines[1] = Write(lines[2].key, lines[2].body)
    BY LinesProperties
  <1>5. /\ r \in Seq(Message) /\ Len(r) = Len(s) + Len(lines)
        /\ \A i \in 1..Len(r) : r[i] = IF i <= Len(s) THEN s[i] ELSE lines[i - Len(s)]
    BY <1>2, <1>3, <1>4, ConcatProperties
  <1>6. pipe' \in [Modules -> Seq(Message)] /\ pipe'[m] = r
        /\ \A o \in Modules \ {m} : pipe'[o] = pipe[o]
    BY <1>1, <1>2, <1>5 DEF DataTypes
  <1>7. \A i \in 1..Len(s) : s[i].op = "publish" =>
            /\ s[i].body # [value |-> None, path |-> None]
            /\ i > 1 => s[i - 1] = Write(s[i].key, s[i].body)
    BY <1>1 DEF AnnouncedAfterWrite
  <1>8. ASSUME NEW i \in 1..Len(r), r[i].op = "publish"
        PROVE  /\ r[i].body # [value |-> None, path |-> None]
               /\ i > 1 => r[i - 1] = Write(r[i].key, r[i].body)
    <2>1. CASE i <= Len(s)
      <3>1. i \in 1..Len(s) /\ r[i] = s[i] /\ (i > 1 => i - 1 \in 1..Len(r) /\ i - 1 <= Len(s))
        BY <1>3, <1>4, <1>5, <2>1
      <3>2. i > 1 => r[i - 1] = s[i - 1]
        BY <1>5, <3>1
      <3>. QED BY <1>7, <1>8, <3>1, <3>2
    <2>2. CASE i = Len(s) + 1
      <3>1. r[i] = lines[1]
        BY <1>3, <1>5, <2>2
      <3>. QED BY <1>4, <1>8, <3>1
    <2>3. CASE i = Len(s) + 2
      <3>1. Len(lines) = 2 /\ i - 1 \in 1..Len(r) /\ i - Len(s) = 2 /\ (i - 1) - Len(s) = 1
        BY <1>3, <1>4, <1>5, <2>3
      <3>2. r[i] = lines[2] /\ r[i - 1] = lines[1]
        BY <1>3, <1>5, <2>3, <3>1
      <3>. QED BY <1>4, <1>8, <3>1, <3>2
    <2>. QED BY <1>3, <1>4, <1>5, <2>1, <2>2, <2>3
  <1>9. AnnouncedAfterWrite'
    <2>1. ASSUME NEW o \in Modules, NEW i \in 1..Len(pipe'[o]), pipe'[o][i].op = "publish"
          PROVE  /\ pipe'[o][i].body # [value |-> None, path |-> None]
                 /\ i > 1 => pipe'[o][i - 1] = Write(pipe'[o][i].key, pipe'[o][i].body)
      <3>1. CASE o = m
        BY <1>6, <1>8, <2>1, <3>1
      <3>2. CASE o # m
        BY <1>6, <2>1, <3>2 DEF AnnouncedAfterWrite
      <3>. QED BY <3>1, <3>2
    <2>. QED BY <2>1 DEF AnnouncedAfterWrite, Write
  <1>10. ASSUME NEW o \in Modules, AboutToAnnounce(o)'
         PROVE  AboutToAnnounce(o) /\ Head(pipe'[o]) = Head(pipe[o])
    <2>1. CASE o # m
      BY <1>6, <1>10, <2>1 DEF AboutToAnnounce
    <2>2. CASE o = m
      <3>1. Head(r).op = "publish"
        BY <1>6, <1>10, <2>2 DEF AboutToAnnounce
      <3>2. Head(r) = r[1] /\ 1 \in 1..Len(r)
        BY <1>3, <1>4, <1>5
      <3>3. s # <<>>
        BY <1>4, <1>5, <3>1, <3>2
      <3>4. Len(s) >= 1 /\ Head(s) = s[1]
        BY <1>3, <3>3
      <3>5. r[1] = s[1]
        BY <1>5, <3>2, <3>4
      <3>. QED BY <1>1, <1>6, <2>2, <3>1, <3>2, <3>3, <3>4, <3>5 DEF AboutToAnnounce
    <2>. QED BY <2>1, <2>2
  <1>. QED BY <1>6, <1>9, <1>10

-----------------------------------------------------------------------------
\* The reads among the first n messages of s, for every i up to n.
IsReads(s, n, r) ==
    r = [i \in 0..n |->
            IF i = 0 THEN <<>>
            ELSE IF s[i].op = "data_read" THEN Append(r[i - 1], s[i].key) ELSE r[i - 1]]

LEMMA ReadsEntries ==
    ASSUME NEW s, NEW n \in Nat, NEW r, IsReads(s, n, r)
    PROVE  /\ r[0] = <<>>
           /\ \A i \in 1..n :
                 r[i] = IF s[i].op = "data_read" THEN Append(r[i - 1], s[i].key) ELSE r[i - 1]
  <1>. DEFINE F == [i \in 0..n |->
            IF i = 0 THEN <<>>
            ELSE IF s[i].op = "data_read" THEN Append(r[i - 1], s[i].key) ELSE r[i - 1]]
  <1>1. r = F
    BY DEF IsReads
  <1>2. \A i \in 0..n : F[i] =
            IF i = 0 THEN <<>>
            ELSE IF s[i].op = "data_read" THEN Append(r[i - 1], s[i].key) ELSE r[i - 1]
    OBVIOUS
  <1>. HIDE DEF F
  <1>. QED BY <1>1, <1>2

LEMMA ReadsExist ==
    ASSUME NEW s, NEW n \in Nat
    PROVE  \E r : IsReads(s, n, r)
  <1>. DEFINE Bad == {i \in 0..n : ~\E r : IsReads(s, i, r)}
  <1>1. SUFFICES Bad = {}
    BY DEF Bad
  <1>2. SUFFICES ASSUME Bad # {} PROVE FALSE
    OBVIOUS
  <1>3. PICK i \in Bad : \A j \in Bad : i <= j
    <2>1. Bad \in SUBSET (0..n)
      OBVIOUS
    <2>. HIDE DEF Bad
    <2>. QED BY <1>2, <2>1, LeastElement
  <1>4. CASE i = 0
    <2>1. IsReads(s, 0, [j \in 0..0 |-> <<>>])
      BY DEF IsReads
    <2>. QED BY <1>4, <2>1
  <1>5. CASE i # 0
    <2>1. i - 1 \in 0..n /\ i - 1 \notin Bad
      BY <1>3, <1>5
    <2>2. PICK r : IsReads(s, i - 1, r)
      BY <2>1
    <2>3. r[0] = <<>> /\ \A j \in 1..(i - 1) :
             r[j] = IF s[j].op = "data_read" THEN Append(r[j - 1], s[j].key) ELSE r[j - 1]
      BY <2>1, <2>2, ReadsEntries
    <2>. DEFINE last == IF s[i].op = "data_read" THEN Append(r[i - 1], s[i].key) ELSE r[i - 1]
                q == [j \in 0..i |-> IF j = i THEN last ELSE r[j]]
    <2>4. \A j \in 0..i : q[j] = IF j = i THEN last ELSE r[j]
      OBVIOUS
    <2>5. ASSUME NEW j \in 0..i
          PROVE  q[j] = IF j = 0 THEN <<>>
                        ELSE IF s[j].op = "data_read"
                                THEN Append(q[j - 1], s[j].key) ELSE q[j - 1]
      <3>1. CASE j = 0
        BY <1>5, <2>3, <2>4, <3>1
      <3>2. CASE j = i
        <4>1. q[j] = last /\ q[j - 1] = r[i - 1]
          BY <1>5, <2>4, <3>2
        <4>. HIDE DEF q
        <4>. QED BY <1>5, <3>2, <4>1
      <3>3. CASE j # 0 /\ j # i
        <4>1. j \in 1..(i - 1) /\ q[j] = r[j] /\ q[j - 1] = r[j - 1]
          BY <2>4, <3>3
        <4>. HIDE DEF q, last
        <4>. QED BY <2>3, <3>3, <4>1
      <3>. QED BY <3>1, <3>2, <3>3
    <2>6. q = [j \in 0..i |->
                 IF j = 0 THEN <<>>
                 ELSE IF s[j].op = "data_read" THEN Append(q[j - 1], s[j].key) ELSE q[j - 1]]
      <3>1. PICK p : p = q
        OBVIOUS
      <3>2. p = [j \in 0..i |-> p[j]]
        BY <3>1
      <3>3. \A j \in 0..i : p[j] = IF j = 0 THEN <<>>
                        ELSE IF s[j].op = "data_read"
                                THEN Append(p[j - 1], s[j].key) ELSE p[j - 1]
        BY <2>5, <3>1
      <3>. HIDE DEF q
      <3>4. p = [j \in 0..i |->
                 IF j = 0 THEN <<>>
                 ELSE IF s[j].op = "data_read" THEN Append(p[j - 1], s[j].key) ELSE p[j - 1]]
        BY <3>2, <3>3
      <3>. QED BY <3>1, <3>4
    <2>. HIDE DEF q
    <2>7. IsReads(s, i, q)
      BY <2>6 DEF IsReads
    <2>. QED BY <2>7
  <1>. QED BY <1>4, <1>5

\* They are sequences of keys,
LEMMA ReadsAreKeys ==
    ASSUME NEW n \in Nat, NEW s, \A i \in 1..n : s[i] \in Message, NEW r, IsReads(s, n, r)
    PROVE  \A i \in 0..n : r[i] \in Seq(Keys)
  <1>. DEFINE Bad == {i \in 0..n : r[i] \notin Seq(Keys)}
  <1>1. SUFFICES ASSUME Bad # {} PROVE FALSE
    OBVIOUS
  <1>2. PICK i \in Bad : \A j \in Bad : i <= j
    <2>1. Bad \in SUBSET (0..n)
      OBVIOUS
    <2>. HIDE DEF Bad
    <2>. QED BY <1>1, <2>1, LeastElement
  <1>3. r[0] = <<>> /\ \A j \in 1..n :
           r[j] = IF s[j].op = "data_read" THEN Append(r[j - 1], s[j].key) ELSE r[j - 1]
    BY ReadsEntries
  <1>4. CASE i = 0
    <2>1. r[0] \in Seq(Keys)
      BY <1>3, EmptySeq
    <2>. QED BY <1>4, <2>1
  <1>5. CASE i # 0
    <2>1. i \in 1..n /\ i - 1 \in 0..n /\ r[i - 1] \in Seq(Keys)
      BY <1>2, <1>5
    <2>2. s[i].key \in Keys
      BY <2>1, MessageFields
    <2>3. r[i] \in Seq(Keys)
      BY <1>3, <2>1, <2>2, AppendProperties
    <2>. QED BY <2>3
  <1>. QED BY <1>4, <1>5

\* and depend on the messages read only.
SameStart(s, t, n) == \A i \in 1..n : s[i] = t[i]

LEMMA ReadsAgree ==
    ASSUME NEW n \in Nat, NEW k \in Nat, n <= k, NEW s, NEW t, SameStart(s, t, n),
           NEW r, IsReads(s, n, r), NEW q, IsReads(t, k, q)
    PROVE  \A i \in 0..n : r[i] = q[i]
  <1>. DEFINE Bad == {i \in 0..n : r[i] # q[i]}
  <1>1. SUFFICES ASSUME Bad # {} PROVE FALSE
    OBVIOUS
  <1>2. PICK i \in Bad : \A j \in Bad : i <= j
    <2>1. Bad \in SUBSET (0..n)
      OBVIOUS
    <2>. HIDE DEF Bad
    <2>. QED BY <1>1, <2>1, LeastElement
  <1>3. r[0] = <<>> /\ \A j \in 1..n :
           r[j] = IF s[j].op = "data_read" THEN Append(r[j - 1], s[j].key) ELSE r[j - 1]
    BY ReadsEntries
  <1>4. q[0] = <<>> /\ \A j \in 1..k :
           q[j] = IF t[j].op = "data_read" THEN Append(q[j - 1], t[j].key) ELSE q[j - 1]
    BY ReadsEntries
  <1>5. i # 0
    BY <1>3, <1>4
  <1>6. i \in 1..n /\ i \in 1..k /\ r[i - 1] = q[i - 1]
    BY <1>2, <1>5
  <1>. QED BY <1>3, <1>4, <1>6 DEF SameStart

LEMMA ReadsOf ==
    ASSUME NEW s \in Seq(Message)
    PROVE  \E r : IsReads(s, Len(s), r) /\ Reads(s) = r[Len(s)]
  <1>1. PICK r : r = CHOOSE q : IsReads(s, Len(s), q)
    OBVIOUS
  <1>2. IsReads(s, Len(s), r)
    BY <1>1, ReadsExist, LenProperties
  <1>3. Reads(s) = r[Len(s)]
    BY <1>1 DEF Reads, IsReads
  <1>. QED BY <1>2, <1>3

LEMMA ReadsAreSeq ==
    ASSUME NEW s \in Seq(Message)
    PROVE  Reads(s) \in Seq(Keys)
  <1>1. PICK r : IsReads(s, Len(s), r) /\ Reads(s) = r[Len(s)]
    BY ReadsOf
  <1>2. Len(s) \in Nat /\ \A i \in 1..Len(s) : s[i] \in Message
    OBVIOUS
  <1>. QED BY <1>1, <1>2, ReadsAreKeys

LEMMA ReadsEmpty == Reads(<<>>) = <<>>
  <1>1. PICK s : s = <<>>
    OBVIOUS
  <1>2. s \in Seq(Message) /\ Len(s) = 0
    BY <1>1
  <1>3. PICK r : IsReads(s, 0, r) /\ Reads(s) = r[0]
    BY <1>2, ReadsOf
  <1>. QED BY <1>1, <1>3, ReadsEntries

\* One message more at the end,
LEMMA ReadsAppend ==
    ASSUME NEW s \in Seq(Message), NEW x \in Message
    PROVE  Reads(Append(s, x)) =
               IF x.op = "data_read" THEN Append(Reads(s), x.key) ELSE Reads(s)
  <1>1. PICK t : t = Append(s, x)
    OBVIOUS
  <1>2. /\ t \in Seq(Message) /\ Len(t) = Len(s) + 1 /\ Len(s) \in Nat /\ t[Len(s) + 1] = x
        /\ \A i \in 1..Len(s) : s[i] = t[i]
    BY <1>1, AppendProperties
  <1>3. PICK r : IsReads(s, Len(s), r) /\ Reads(s) = r[Len(s)]
    BY ReadsOf
  <1>4. PICK q : IsReads(t, Len(s) + 1, q) /\ Reads(t) = q[Len(s) + 1]
    BY <1>2, ReadsOf
  <1>5. r[Len(s)] = q[Len(s)]
    <2>1. PICK n \in Nat : n = Len(s)
      BY <1>2
    <2>2. PICK k \in Nat : k = Len(s) + 1
      BY <1>2
    <2>3. n <= k /\ n \in 0..n /\ SameStart(s, t, n)
      BY <1>2, <2>1, <2>2 DEF SameStart
    <2>4. IsReads(s, n, r) /\ IsReads(t, k, q)
      BY <1>3, <1>4, <2>1, <2>2
    <2>5. \A i \in 0..n : r[i] = q[i]
      BY <2>3, <2>4, ReadsAgree
    <2>. QED BY <2>1, <2>3, <2>5
  <1>6. PICK n \in Nat : n = Len(s) + 1 /\ n \in 1..n /\ n - 1 = Len(s)
    BY <1>2
  <1>7. q[n] = IF t[n].op = "data_read" THEN Append(q[n - 1], t[n].key) ELSE q[n - 1]
    BY <1>4, <1>6, ReadsEntries
  <1>. QED BY <1>1, <1>2, <1>3, <1>4, <1>5, <1>6, <1>7

LEMMA ConcatAppend ==
    ASSUME NEW S, NEW a \in Seq(S), NEW b \in Seq(S), NEW x \in S
    PROVE  a \o Append(b, x) = Append(a \o b, x)
  <1>1. PICK l : l = a \o Append(b, x)
    OBVIOUS
  <1>2. PICK r : r = Append(a \o b, x)
    OBVIOUS
  <1>3. Append(b, x) \in Seq(S) /\ a \o b \in Seq(S)
    BY AppendProperties, ConcatProperties
  <1>4. l \in Seq(S) /\ Len(l) = Len(a) + Len(b) + 1
    BY <1>1, <1>3, AppendProperties, ConcatProperties
  <1>5. r \in Seq(S) /\ Len(r) = Len(a) + Len(b) + 1
    BY <1>2, <1>3, AppendProperties, ConcatProperties
  <1>6. ASSUME NEW i \in 1..Len(l) PROVE l[i] = r[i]
    BY <1>1, <1>2, <1>4
  <1>. QED BY <1>1, <1>2, <1>4, <1>5, <1>6, SeqEqual

\* and one less at the start.
LEMMA ReadsTail ==
    ASSUME NEW s \in Seq(Message), s # <<>>
    PROVE  Reads(s) = IF Head(s).op = "data_read" THEN <<Head(s).key>> \o Reads(Tail(s))
                                                  ELSE Reads(Tail(s))
  <1>1. PICK t : t = Tail(s)
    OBVIOUS
  <1>2. PICK n \in Nat : n = Len(s) - 1 /\ n + 1 = Len(s)
    BY EmptySeq
  <1>3. /\ t \in Seq(Message) /\ Len(t) = n /\ Head(s) = s[1] /\ s[1] \in Message
        /\ \A i \in 1..n : t[i] = s[i + 1] /\ t[i] \in Message
    BY <1>1, <1>2, HeadTailProperties
  <1>4. PICK r : IsReads(s, n + 1, r) /\ Reads(s) = r[n + 1]
    BY <1>2, ReadsOf
  <1>5. PICK q : IsReads(t, n, q) /\ Reads(t) = q[n]
    BY <1>3, ReadsOf
  <1>6. r[0] = <<>> /\ \A j \in 1..(n + 1) :
           r[j] = IF s[j].op = "data_read" THEN Append(r[j - 1], s[j].key) ELSE r[j - 1]
    BY <1>4, ReadsEntries
  <1>7. q[0] = <<>> /\ \A j \in 1..n :
           q[j] = IF t[j].op = "data_read" THEN Append(q[j - 1], t[j].key) ELSE q[j - 1]
    BY <1>5, ReadsEntries
  <1>8. \A i \in 0..n : q[i] \in Seq(Keys)
    BY <1>3, <1>5, ReadsAreKeys
  <1>9. PICK first : first = IF s[1].op = "data_read" THEN <<s[1].key>> ELSE <<>>
    OBVIOUS
  <1>10. first \in Seq(Keys) /\ r[1] = first
    <2>1. s[1].key \in Keys
      BY <1>3, MessageFields
    <2>2. 1 \in 1..(n + 1) /\ 1 - 1 = 0
      OBVIOUS
    <2>3. r[1] = IF s[1].op = "data_read" THEN Append(<<>>, s[1].key) ELSE <<>>
      BY <1>6, <2>2
    <2>4. Append(<<>>, s[1].key) = <<s[1].key>>
      OBVIOUS
    <2>. QED BY <1>9, <2>1, <2>3, <2>4
  <1>. DEFINE Bad == {i \in 0..n : r[i + 1] # first \o q[i]}
  <1>11. Bad = {}
    <2>1. SUFFICES ASSUME Bad # {} PROVE FALSE
      OBVIOUS
    <2>2. PICK i \in Bad : \A j \in Bad : i <= j
      <3>1. Bad \in SUBSET (0..n)
        OBVIOUS
      <3>. HIDE DEF Bad
      <3>. QED BY <2>1, <3>1, LeastElement
    <2>3. CASE i = 0
      <3>1. first \o q[0] = first
        BY <1>7, <1>10, ConcatEmptySeq
      <3>. QED BY <1>10, <2>2, <2>3, <3>1
    <2>4. CASE i # 0
      <3>1. i \in 1..n /\ i - 1 \in 0..n /\ i - 1 \notin Bad
        BY <2>2, <2>4
      <3>2. r[i] = first \o q[i - 1]
        BY <3>1
      <3>3. r[i + 1] = IF t[i].op = "data_read" THEN Append(r[i], t[i].key) ELSE r[i]
        <4>1. PICK j \in 1..(n + 1) : j = i + 1 /\ j - 1 = i
          BY <3>1
        <4>. QED BY <1>3, <1>6, <3>1, <4>1
      <3>4. q[i] = IF t[i].op = "data_read" THEN Append(q[i - 1], t[i].key) ELSE q[i - 1]
        BY <1>7, <3>1
      <3>5. t[i].key \in Keys /\ q[i - 1] \in Seq(Keys)
        BY <1>3, <1>8, <3>1, MessageFields
      <3>6. first \o Append(q[i - 1], t[i].key) = Append(first \o q[i - 1], t[i].key)
        <4>1. PICK u \in Seq(Keys), k \in Keys : u = q[i - 1] /\ k = t[i].key
          BY <3>5
        <4>2. first \o Append(u, k) = Append(first \o u, k)
          BY <1>10, ConcatAppend
        <4>. QED BY <4>1, <4>2
      <3>7. r[i + 1] = first \o q[i]
        BY <3>2, <3>3, <3>4, <3>6
      <3>. QED BY <2>2, <3>7
    <2>. QED BY <2>3, <2>4
  <1>12. r[n + 1] = first \o q[n]
    <2>1. n \in 0..n
      OBVIOUS
    <2>2. \A i \in 0..n : r[i + 1] = first \o q[i]
      BY <1>11
    <2>. QED BY <2>1, <2>2
  <1>13. CASE s[1].op = "data_read"
    BY <1>1, <1>3, <1>4, <1>5, <1>9, <1>12, <1>13
  <1>14. CASE s[1].op # "data_read"
    <2>1. q[n] \in Seq(Keys)
      BY <1>8
    <2>2. <<>> \o q[n] = q[n]
      BY <2>1, ConcatEmptySeq
    <2>. QED BY <1>1, <1>3, <1>4, <1>5, <1>9, <1>12, <1>14, <2>2
  <1>. QED BY <1>13, <1>14

LEMMA KeysAssociate ==
    ASSUME NEW s \in Seq(Keys), NEW t \in Seq(Keys), NEW u \in Seq(Keys)
    PROVE  (s \o t) \o u = s \o (t \o u)
  BY ConcatAssociative

\* What the answers and the reads of one module add up to.
LEMMA ResponseKey == \A x \in Response : x.key \in Keys
  BY DEF Response

LEMMA KeysOfSeq ==
    ASSUME NEW s \in Seq(Response)
    PROVE  KeysOf(s) \in Seq(Keys) /\ Len(KeysOf(s)) = Len(s)
  <1>1. \A i \in 1..Len(s) : s[i].key \in Keys
    BY ElementOfSeq, ResponseKey
  <1>2. KeysOf(s) \in [1..Len(s) -> Keys] /\ Len(s) \in Nat
    BY <1>1 DEF KeysOf
  <1>. QED BY <1>2, LenProperties

LEMMA OneAnswerMore ==
    ASSUME NEW s \in Seq(Response), NEW x \in Response, NEW t \in Seq(Keys)
    PROVE  KeysOf(s \o <<x>>) \o t = KeysOf(s) \o (<<x.key>> \o t)
  <1>1. PICK a : a = KeysOf(s)
    OBVIOUS
  <1>2. PICK b : b = KeysOf(s \o <<x>>)
    OBVIOUS
  <1>3. a \in Seq(Keys) /\ Len(a) = Len(s) /\ x.key \in Keys /\ Len(s) \in Nat
    BY <1>1, KeysOfSeq, ResponseKey
  <1>4. PICK y : y = s \o <<x>>
    OBVIOUS
  <1>5. /\ y \in Seq(Response) /\ Len(y) = Len(s) + 1
        /\ \A i \in 1..Len(y) : y[i] = IF i <= Len(s) THEN s[i] ELSE x
    BY <1>4
  <1>6. b \in Seq(Keys) /\ Len(b) = Len(s) + 1
    BY <1>2, <1>4, <1>5, KeysOfSeq
  <1>7. PICK c : c = a \o <<x.key>>
    OBVIOUS
  <1>8. /\ c \in Seq(Keys) /\ Len(c) = Len(s) + 1
        /\ \A i \in 1..Len(c) : c[i] = IF i <= Len(s) THEN a[i] ELSE x.key
    BY <1>3, <1>7
  <1>9. b = c
    <2>1. ASSUME NEW i \in 1..Len(b) PROVE b[i] = c[i]
      <3>1. b[i] = y[i].key
        BY <1>2, <1>4, <1>5, <1>6 DEF KeysOf
      <3>2. i <= Len(s) => a[i] = s[i].key
        BY <1>1, <1>3 DEF KeysOf
      <3>. QED BY <1>5, <1>6, <1>8, <3>1, <3>2
    <2>. QED BY <1>6, <1>8, <2>1, SeqEqual
  <1>10. (a \o <<x.key>>) \o t = a \o (<<x.key>> \o t)
    <2>1. <<x.key>> \in Seq(Keys)
      BY <1>3
    <2>. QED BY <1>3, <2>1, KeysAssociate
  <1>. QED BY <1>1, <1>2, <1>7, <1>9, <1>10

LEMMA OneAnswerLess ==
    ASSUME NEW s \in Seq(Response), s # <<>>, NEW t \in Seq(Keys)
    PROVE  /\ KeysOf(s) \o t # <<>>
           /\ KeysOf(Tail(s)) \o t = Tail(KeysOf(s) \o t)
  <1>1. PICK a : a = KeysOf(s)
    OBVIOUS
  <1>2. PICK b : b = KeysOf(Tail(s))
    OBVIOUS
  <1>3. PICK n \in Nat : n = Len(s) - 1 /\ Len(s) = n + 1
    BY EmptySeq
  <1>4. Tail(s) \in Seq(Response) /\ Len(Tail(s)) = n /\ \A i \in 1..n : Tail(s)[i] = s[i + 1]
    BY <1>3, HeadTailProperties
  <1>5. a \in Seq(Keys) /\ Len(a) = n + 1 /\ b \in Seq(Keys) /\ Len(b) = n
    BY <1>1, <1>2, <1>3, <1>4, KeysOfSeq
  <1>6. ASSUME NEW i \in 1..n PROVE b[i] = a[i + 1]
    <2>1. b[i] = Tail(s)[i].key
      BY <1>2, <1>4 DEF KeysOf
    <2>2. a[i + 1] = s[i + 1].key
      BY <1>1, <1>3 DEF KeysOf
    <2>. QED BY <1>4, <2>1, <2>2
  <1>7. PICK l : l = a \o t
    OBVIOUS
  <1>8. /\ l \in Seq(Keys) /\ Len(l) = n + 1 + Len(t) /\ Len(t) \in Nat
        /\ \A i \in 1..Len(l) : l[i] = IF i <= n + 1 THEN a[i] ELSE t[i - (n + 1)]
    <2>1. l \in Seq(Keys) /\ Len(l) = Len(a) + Len(t) /\ Len(t) \in Nat
      BY <1>5, <1>7, ConcatProperties, LenProperties
    <2>2. ASSUME NEW i \in 1..Len(l)
          PROVE  l[i] = IF i <= Len(a) THEN a[i] ELSE t[i - Len(a)]
      <3>1. i \in 1..(Len(a) + Len(t))
        BY <2>1
      <3>. QED BY <1>5, <1>7, <3>1, ConcatProperties
    <2>. QED BY <1>5, <2>1, <2>2
  <1>9. l # <<>>
    BY <1>8, EmptySeq
  <1>10. PICK d : d = Tail(l)
    OBVIOUS
  <1>11. d \in Seq(Keys) /\ Len(d) = n + Len(t) /\ \A i \in 1..Len(d) : d[i] = l[i + 1]
    BY <1>8, <1>9, <1>10, HeadTailProperties
  <1>12. PICK e : e = b \o t
    OBVIOUS
  <1>13. /\ e \in Seq(Keys) /\ Len(e) = n + Len(t)
         /\ \A i \in 1..Len(e) : e[i] = IF i <= n THEN b[i] ELSE t[i - n]
    <2>1. e \in Seq(Keys) /\ Len(e) = Len(b) + Len(t)
      BY <1>5, <1>12, ConcatProperties
    <2>2. ASSUME NEW i \in 1..Len(e)
          PROVE  e[i] = IF i <= Len(b) THEN b[i] ELSE t[i - Len(b)]
      <3>1. i \in 1..(Len(b) + Len(t))
        BY <2>1
      <3>. QED BY <1>5, <1>12, <3>1, ConcatProperties
    <2>. QED BY <1>5, <2>1, <2>2
  <1>14. ASSUME NEW i \in 1..Len(d) PROVE d[i] = e[i]
    <2>1. i + 1 \in 1..Len(l) /\ i \in 1..Len(e) /\ (i + 1) - (n + 1) = i - n
          /\ (i + 1 <= n + 1 <=> i <= n) /\ (i <= n => i \in 1..n)
      BY <1>8, <1>11, <1>13
    <2>2. d[i] = IF i <= n THEN a[i + 1] ELSE t[i - n]
      BY <1>8, <1>11, <2>1
    <2>3. e[i] = IF i <= n THEN b[i] ELSE t[i - n]
      BY <1>13, <2>1
    <2>. QED BY <1>6, <2>1, <2>2, <2>3
  <1>15. d = e
    BY <1>11, <1>13, <1>14, SeqEqual
  <1>. QED BY <1>1, <1>2, <1>7, <1>9, <1>10, <1>12, <1>15


-----------------------------------------------------------------------------
\* A step that changes no text in the cache, nor the histories of it.
SameTexts == /\ IInv' /\ DOMAIN data' = DOMAIN data
             /\ \A x \in DOMAIN data : data'[x].value = data[x].value

LEMMA SameTextsKept ==
    ASSUME DataInv, SameTexts, UNCHANGED wrote
    PROVE  /\ StoredAsWritten'
           /\ wrote' \in [DOMAIN data' -> [by : Modules \cup {None}, body : Bodies]]
           /\ \A k, b : Holds(k, b) => HoldsNext(k, b)
  BY DEF DataInv, DataTypes, SameTexts, StoredAsWritten, Holds, HoldsNext, TextOf,
         TextOfController, TextOfModule

\* Such a step keeps announcements true that are not new.
LEMMA TruthfulKept ==
    ASSUME DataInv, SameTexts, UNCHANGED wrote, notices' \subseteq notices,
           \A o \in Modules : AboutToAnnounce(o)' =>
              /\ AboutToAnnounce(o) /\ Head(pipe'[o]) = Head(pipe[o])
              /\ changed'[o] = changed[o]
    PROVE  Truthful'
  <1>1. \A k, b : Holds(k, b) => HoldsNext(k, b)
    BY SameTextsKept
  <1>2. ASSUME NEW o \in Modules, AboutToAnnounce(o)'
        PROVE  changed'[o] \/ HoldsNext(Head(pipe'[o]).key, Head(pipe'[o]).body)
    <2>1. changed[o] \/ Holds(Head(pipe[o]).key, Head(pipe[o]).body)
      BY <1>2 DEF DataInv, Truthful
    <2>. QED BY <1>1, <1>2, <2>1
  <1>3. ASSUME NEW n \in notices'
        PROVE  n.later \/ HoldsNext(n.key, n.body)
    <2>1. n.later \/ Holds(n.key, n.body)
      BY <1>3 DEF DataInv, Truthful
    <2>. QED BY <1>1, <2>1
  <1>. QED BY <1>2, <1>3 DEF Truthful, Holds, HoldsNext, TextOfModule

\* m writes lines: the reads among them are what it comes to wait for.
LEMMA SayKeepsDataInv ==
    ASSUME DataInv, NEW m \in Modules, NEW lines \in Lines, Say(m, lines),
           NEW new \in Seq(Keys), asked' = [asked EXCEPT ![m] = @ \o new],
           Reads(pipe[m] \o lines) = Reads(pipe[m]) \o new
    PROVE  DataInv'
  <1>1. /\ pipe' = [pipe EXCEPT ![m] = @ \o lines]
        /\ UNCHANGED <<vars, stdin, deaf, notices, wrote, changed>>
    BY DEF Say
  <1>2. SameTexts
    BY <1>1, CacheUntouched DEF DataInv, SameTexts, vars
  <1>3. /\ pipe' \in [Modules -> Seq(Message)] /\ AnnouncedAfterWrite'
        /\ \A o \in Modules : AboutToAnnounce(o)' =>
              AboutToAnnounce(o) /\ Head(pipe'[o]) = Head(pipe[o])
    BY <1>1, SayEffect DEF DataInv
  <1>4. asked' \in [Modules -> Seq(Keys)]
    <2>1. asked[m] \o new \in Seq(Keys)
      BY ConcatProperties DEF DataInv, DataTypes
    <2>. QED BY <2>1 DEF DataInv, DataTypes
  <1>5. DataTypes'
    BY <1>1, <1>2, <1>3, <1>4, SameTextsKept DEF DataInv, DataTypes
  <1>6. Truthful'
    BY <1>1, <1>2, <1>3, TruthfulKept
  <1>7. AnswersInOrder'
    <2>1. PICK a : a = KeysOf(stdin[m])
      OBVIOUS
    <2>2. PICK r : r = Reads(pipe[m])
      OBVIOUS
    <2>3. a \in Seq(Keys) /\ r \in Seq(Keys)
      BY <2>1, <2>2, KeysOfSeq, ReadsAreSeq DEF DataInv, DataTypes
    <2>4. a \o (r \o new) = (a \o r) \o new
      BY <2>3, KeysAssociate
    <2>5. m \notin deaf => a \o r = asked[m]
      BY <2>1, <2>2 DEF DataInv, AnswersInOrder
    <2>6. asked'[m] = asked[m] \o new /\ pipe'[m] = pipe[m] \o lines
          /\ \A o \in Modules \ {m} : asked'[o] = asked[o] /\ pipe'[o] = pipe[o]
      BY <1>1 DEF DataInv, DataTypes
    <2>7. m \notin deaf => KeysOf(stdin[m]) \o Reads(pipe'[m]) = asked'[m]
      BY <2>1, <2>2, <2>4, <2>5, <2>6
    <2>8. ASSUME NEW o \in Modules \ deaf' PROVE KeysOf(stdin'[o]) \o Reads(pipe'[o]) = asked'[o]
      <3>1. CASE o = m
        BY <1>1, <2>7, <3>1
      <3>2. CASE o # m
        BY <1>1, <2>6, <3>2 DEF DataInv, AnswersInOrder
      <3>. QED BY <3>1, <3>2
    <2>. QED BY <2>8 DEF AnswersInOrder, KeysOf, Reads
  <1>. QED BY <1>1, <1>2, <1>3, <1>5, <1>6, <1>7, SameTextsKept DEF DataInv, SameTexts

LEMMA ReadsOfLines ==
    ASSUME NEW s \in Seq(Message), NEW k \in Keys
    PROVE  /\ Reads(s \o <<Read(k)>>) = Reads(s) \o <<k>>
           /\ Reads(s \o <<Erase(k)>>) = Reads(s) \o <<>>
           /\ \A b \in Bodies : Reads(s \o <<Write(k, b), Notice(k, b)>>) = Reads(s) \o <<>>
  <1>1. PICK r \in Seq(Keys) : r = Reads(s)
    BY ReadsAreSeq
  <1>2. Append(r, k) = r \o <<k>> /\ r \o <<>> = r
    BY <1>1, AppendIsConcat, ConcatEmptySeq
  <1>3. ASSUME NEW x \in Message, x.op # "data_read" PROVE Reads(Append(s, x)) = r
    BY <1>1, <1>3, ReadsAppend
  <1>4. Reads(s \o <<Read(k)>>) = Reads(s) \o <<k>>
    <2>1. Read(k) \in Message /\ Read(k).op = "data_read" /\ Read(k).key = k
      BY DEF Message, Read
    <2>2. s \o <<Read(k)>> = Append(s, Read(k))
      BY <2>1, AppendIsConcat
    <2>. QED BY <1>1, <1>2, <2>1, <2>2, ReadsAppend
  <1>5. Reads(s \o <<Erase(k)>>) = Reads(s) \o <<>>
    <2>1. Erase(k) \in Message /\ Erase(k).op # "data_read"
      BY DEF Message, Erase
    <2>2. s \o <<Erase(k)>> = Append(s, Erase(k))
      BY <2>1, AppendIsConcat
    <2>. QED BY <1>1, <1>2, <1>3, <2>1, <2>2
  <1>6. ASSUME NEW b \in Bodies
        PROVE  Reads(s \o <<Write(k, b), Notice(k, b)>>) = Reads(s) \o <<>>
    <2>. PICK w : w = Write(k, b)
      OBVIOUS
    <2>. PICK x : x = Notice(k, b)
      OBVIOUS
    <2>1. w \in Message /\ w.op # "data_read"
      BY DEF Message, Write
    <2>2. x \in Message /\ x.op # "data_read"
      BY DEF Message, Notice
    <2>3. PICK t \in Seq(Message) : t = Append(s, w)
      BY <2>1, AppendProperties
    <2>4. s \o <<w, x>> = Append(t, x)
      <3>1. PICK l : l = s \o <<w, x>>
        OBVIOUS
      <3>2. <<w, x>> \in Seq(Message) /\ Len(<<w, x>>) = 2
        BY <2>1, <2>2
      <3>3. l \in Seq(Message) /\ Len(l) = Len(s) + 2 /\ Len(s) \in Nat
        BY <3>1, <3>2, ConcatProperties, LenProperties
      <3>4. PICK e : e = Append(t, x)
        OBVIOUS
      <3>5. /\ Len(t) = Len(s) + 1 /\ t[Len(s) + 1] = w
            /\ \A i \in 1..Len(s) : t[i] = s[i]
        BY <2>1, <2>3, AppendProperties
      <3>6. e \in Seq(Message) /\ Len(e) = Len(s) + 2
        BY <2>2, <3>3, <3>4, <3>5, AppendProperties
      <3>7. ASSUME NEW i \in 1..Len(l) PROVE l[i] = e[i]
        <4>1. \/ i <= Len(s) /\ l[i] = s[i]
              \/ i = Len(s) + 1 /\ l[i] = w
              \/ i = Len(s) + 2 /\ l[i] = x
          BY <3>1, <3>2, <3>3
        <4>2. \/ i <= Len(s) /\ e[i] = t[i]
              \/ i = Len(s) + 1 /\ e[i] = t[i]
              \/ i = Len(s) + 2 /\ e[i] = x
          BY <2>2, <3>3, <3>4, <3>5, AppendProperties
        <4>. QED BY <3>3, <3>5, <4>1, <4>2
      <3>8. l = e
        BY <3>3, <3>6, <3>7, SeqEqual
      <3>. QED BY <3>1, <3>4, <3>8
    <2>5. Reads(Append(t, x)) = Reads(t)
      BY <2>2, ReadsAppend
    <2>6. Reads(t) = r
      BY <1>3, <2>1, <2>3
    <2>7. Reads(s \o <<w, x>>) = r \o <<>>
      BY <1>2, <2>4, <2>5, <2>6
    <2>. QED BY <1>1, <2>7
  <1>. QED BY <1>4, <1>5, <1>6

LEMMA WritesKeepDataInv ==
    ASSUME DataInv, NEW m \in Modules, NEW k \in Keys,
           (\E b \in Bodies : Announce(m, k, b)) \/ Ask(m, k) \/ Drop(m, k)
    PROVE  DataInv'
  <1>1. asked \in [Modules -> Seq(Keys)] /\ pipe[m] \in Seq(Message)
    BY DEF DataInv, DataTypes
  <1>2. <<>> \in Seq(Keys) /\ (UNCHANGED asked => asked' = [asked EXCEPT ![m] = @ \o <<>>])
    <2>1. asked[m] \o <<>> = asked[m]
      BY <1>1, ConcatEmptySeq
    <2>. QED BY <1>1, <2>1
  <1>3. CASE \E b \in Bodies : Announce(m, k, b)
    <2>1. PICK b \in Bodies : Announce(m, k, b)
      BY <1>3
    <2>2. <<Write(k, b), Notice(k, b)>> \in Lines
      BY <2>1 DEF Announce, Lines
    <2>3. Say(m, <<Write(k, b), Notice(k, b)>>) /\ UNCHANGED asked
      BY <2>1 DEF Announce
    <2>. QED BY <1>1, <1>2, <2>2, <2>3, ReadsOfLines, SayKeepsDataInv
  <1>4. CASE Ask(m, k)
    <2>1. <<Read(k)>> \in Lines /\ <<k>> \in Seq(Keys) /\ Say(m, <<Read(k)>>)
      BY <1>4 DEF Lines, Ask
    <2>2. asked' = [asked EXCEPT ![m] = @ \o <<k>>]
      BY <1>1, <1>4, AppendIsConcat DEF Ask
    <2>. QED BY <1>1, <2>1, <2>2, ReadsOfLines, SayKeepsDataInv
  <1>5. CASE Drop(m, k)
    <2>1. <<Erase(k)>> \in Lines /\ Say(m, <<Erase(k)>>) /\ UNCHANGED asked
      BY <1>5 DEF Lines, Drop
    <2>. QED BY <1>1, <1>2, <2>1, ReadsOfLines, SayKeepsDataInv
  <1>. QED BY <1>3, <1>4, <1>5


-----------------------------------------------------------------------------
\* Taking a message that is no read leaves the answers owed as they are.
LEMMA OrderKept ==
    ASSUME DataInv, NEW m \in Modules, TakesMessage(m), Head(pipe[m]).op # "data_read",
           UNCHANGED <<stdin, asked, deaf>>
    PROVE  AnswersInOrder'
  <1>1. pipe[m] \in Seq(Message) /\ pipe[m] # <<>> /\ pipe'[m] = Tail(pipe[m])
        /\ \A o \in Modules \ {m} : pipe'[o] = pipe[o]
    BY DEF DataInv, DataTypes, TakesMessage
  <1>2. Reads(pipe'[m]) = Reads(pipe[m])
    BY <1>1, ReadsTail
  <1>3. ASSUME NEW o \in Modules \ deaf' PROVE KeysOf(stdin'[o]) \o Reads(pipe'[o]) = asked'[o]
    <2>1. CASE o = m
      BY <1>2, <2>1 DEF DataInv, AnswersInOrder
    <2>2. CASE o # m
      BY <1>1, <2>2 DEF DataInv, AnswersInOrder
    <2>. QED BY <2>1, <2>2
  <1>. QED BY <1>3 DEF AnswersInOrder, KeysOf, Reads

LEMMA AnswersKeepDataInv ==
    ASSUME DataInv, NEW m \in Modules, TakeAnswer(m)
    PROVE  DataInv'
  <1>1. /\ UNCHANGED <<vars, pipe, deaf, notices, wrote, changed>>
        /\ m \notin deaf /\ stdin[m] # <<>>
        /\ stdin' = [stdin EXCEPT ![m] = Tail(@)]
        /\ asked' = [asked EXCEPT ![m] = Tail(@)]
    BY DEF TakeAnswer
  <1>2. SameTexts
    BY <1>1, CacheUntouched DEF DataInv, SameTexts, vars
  <1>3. stdin[m] \in Seq(Response) /\ pipe[m] \in Seq(Message) /\ asked[m] \in Seq(Keys)
    BY DEF DataInv, DataTypes
  <1>4. stdin' \in [Modules -> Seq(Response)]
    <2>1. Tail(stdin[m]) \in Seq(Response)
      BY <1>1, <1>3, HeadTailProperties
    <2>. QED BY <1>1, <2>1 DEF DataInv, DataTypes
  <1>5. /\ asked[m] # <<>>
        /\ KeysOf(Tail(stdin[m])) \o Reads(pipe[m]) = Tail(asked[m])
    <2>1. KeysOf(stdin[m]) \o Reads(pipe[m]) = asked[m]
      BY <1>1 DEF DataInv, AnswersInOrder
    <2>2. Reads(pipe[m]) \in Seq(Keys)
      BY <1>3, ReadsAreSeq
    <2>. QED BY <1>1, <1>3, <2>1, <2>2, OneAnswerLess
  <1>6. asked' \in [Modules -> Seq(Keys)]
    <2>1. Tail(asked[m]) \in Seq(Keys)
      BY <1>3, <1>5, HeadTailProperties
    <2>. QED BY <1>1, <2>1 DEF DataInv, DataTypes
  <1>7. DataTypes'
    BY <1>1, <1>2, <1>4, <1>6, SameTextsKept DEF DataInv, DataTypes
  <1>8. AnnouncedAfterWrite'
    BY <1>1 DEF DataInv, AnnouncedAfterWrite, Write
  <1>9. Truthful'
    <2>1. \A o \in Modules : AboutToAnnounce(o)' =>
              /\ AboutToAnnounce(o) /\ Head(pipe'[o]) = Head(pipe[o])
              /\ changed'[o] = changed[o]
      BY <1>1 DEF AboutToAnnounce
    <2>. QED BY <1>1, <1>2, <2>1, TruthfulKept
  <1>10. AnswersInOrder'
    <2>1. ASSUME NEW o \in Modules \ deaf' PROVE KeysOf(stdin'[o]) \o Reads(pipe'[o]) = asked'[o]
      <3>1. CASE o = m
        <4>1. stdin'[o] = Tail(stdin[m]) /\ asked'[o] = Tail(asked[m]) /\ pipe'[o] = pipe[m]
          BY <1>1, <3>1 DEF DataInv, DataTypes
        <4>. QED BY <1>5, <4>1
      <3>2. CASE o # m
        <4>1. stdin'[o] = stdin[o] /\ asked'[o] = asked[o] /\ pipe'[o] = pipe[o]
          BY <1>1, <3>2 DEF DataInv, DataTypes
        <4>. QED BY <1>1, <4>1 DEF DataInv, AnswersInOrder
      <3>. QED BY <3>1, <3>2
    <2>. QED BY <2>1 DEF AnswersInOrder, KeysOf, Reads
  <1>. QED BY <1>1, <1>2, <1>7, <1>8, <1>9, <1>10, SameTextsKept DEF DataInv, SameTexts

\* The handler stores what a module writes.
LEMMA HandleWriteKeepsDataInv ==
    ASSUME DataInv, NEW m \in Modules, HandleWrite(m)
    PROVE  DataInv'
  <1>1. /\ pipe[m] # <<>> /\ Head(pipe[m]).op = "data_write"
        /\ TakesMessage(m) /\ UNCHANGED <<asked, stdin, deaf>>
        /\ Accept(Head(pipe[m]).key, m, Head(pipe[m]).body, TextOfModule(Head(pipe[m]).body))
    BY DEF HandleWrite, Taken, TakesMessage
  <1>2. PICK k, b : k = Head(pipe[m]).key /\ b = Head(pipe[m]).body
    OBVIOUS
  <1>3. /\ pipe' \in [Modules -> Seq(Message)] /\ AnnouncedAfterWrite'
        /\ \A o \in Modules \ {m} : pipe'[o] = pipe[o]
        /\ Head(pipe[m]) \in Message
        /\ AboutToAnnounce(m)' =>
              /\ Head(pipe'[m]) \in Message
              /\ Head(pipe'[m]).body # [value |-> None, path |-> None]
              /\ Head(pipe[m]) = Write(Head(pipe'[m]).key, Head(pipe'[m]).body)
    BY <1>1, TakeEffect DEF DataInv
  <1>4. k \in Keys /\ b \in Bodies
    BY <1>1, <1>2, <1>3, MessageFields
  <1>5. AboutToAnnounce(m)' => /\ Head(pipe'[m]).key = k /\ Head(pipe'[m]).body = b
                               /\ b # [value |-> None, path |-> None]
    BY <1>2, <1>3 DEF Write
  <1>6. AnswersInOrder'
    BY <1>1, OrderKept
  <1>7. PICK text : text = TextOfModule(b)
    OBVIOUS
  <1>8. CASE text = None
    <2>1. UNCHANGED <<vars, wrote, notices, changed>>
      BY <1>1, <1>2, <1>7, <1>8 DEF Accept
    <2>2. SameTexts
      BY <2>1, CacheUntouched DEF DataInv, SameTexts, vars
    <2>3. DataTypes'
      BY <1>1, <1>3, <2>1, <2>2, SameTextsKept DEF DataInv, DataTypes
    <2>4. \A o \in Modules : AboutToAnnounce(o)' => o # m
      BY <1>4, <1>5, <1>7, <1>8, BodyTexts
    <2>5. \A o \in Modules : AboutToAnnounce(o)' =>
              /\ AboutToAnnounce(o) /\ Head(pipe'[o]) = Head(pipe[o])
              /\ changed'[o] = changed[o]
      BY <1>3, <2>1, <2>4 DEF AboutToAnnounce
    <2>6. Truthful'
      BY <2>1, <2>2, <2>5, TruthfulKept
    <2>. QED BY <1>3, <1>6, <2>1, <2>2, <2>3, <2>6, SameTextsKept DEF DataInv, SameTexts
  <1>9. CASE text # None
    <2>1. (Update(k, text) \/ InsertNew(k, text)) /\ Recorded(k, m, b)
      BY <1>1, <1>2, <1>7, <1>9 DEF Accept
    <2>2. text \in Values
      BY <1>4, <1>7, <1>9, BodyTexts
    <2>3. IInv' /\ OthersSame(k) /\ k \in DOMAIN data' /\ data'[k].value = text
      BY <1>4, <2>1, <2>2, StoreEffect DEF DataInv
    <2>4. DataTypes'
      BY <1>1, <1>3, <1>4, <2>1, <2>3, HistoryTypes DEF DataInv, DataTypes
    <2>5. StoredAsWritten'
      <3>1. m # None
        BY DataAssumption
      <3>2. TextOf([by |-> m, body |-> b]) = text
        BY <1>7, <3>1 DEF TextOf
      <3>. QED BY <1>4, <2>1, <2>3, <3>2, HistoryAsWritten DEF DataInv
    <2>6. Truthful'
      <3>1. /\ \A o \in Modules \ {m} : AboutToAnnounce(o) =>
                  changed'[o] \/ HoldsNext(Head(pipe[o]).key, Head(pipe[o]).body)
            /\ \A n \in notices' : n.later \/ HoldsNext(n.key, n.body)
        BY <1>4, <2>1, <2>3, HistoryTruthful DEF DataInv
      <3>2. ASSUME NEW o \in Modules, AboutToAnnounce(o)'
            PROVE  changed'[o] \/ HoldsNext(Head(pipe'[o]).key, Head(pipe'[o]).body)
        <4>1. CASE o = m
          BY <1>5, <1>7, <2>3, <3>2, <4>1 DEF HoldsNext
        <4>2. CASE o # m
          <5>1. pipe'[o] = pipe[o] /\ AboutToAnnounce(o)
            BY <1>3, <3>2, <4>2 DEF AboutToAnnounce
          <5>. QED BY <3>1, <4>2, <5>1
        <4>. QED BY <4>1, <4>2
      <3>. QED BY <3>1, <3>2 DEF Truthful, Holds, HoldsNext, TextOfModule
    <2>. QED BY <1>3, <1>6, <2>3, <2>4, <2>5, <2>6 DEF DataInv
  <1>. QED BY <1>8, <1>9

LEMMA HandleDeleteKeepsDataInv ==
    ASSUME DataInv, NEW m \in Modules, HandleDelete(m)
    PROVE  DataInv'
  <1>1. /\ pipe[m] # <<>> /\ Head(pipe[m]).op = "data_delete"
        /\ TakesMessage(m) /\ UNCHANGED <<asked, stdin, deaf>>
        /\ Delete(Head(pipe[m]).key, m)
    BY DEF HandleDelete, Taken, TakesMessage
  <1>2. PICK k : k = Head(pipe[m]).key
    OBVIOUS
  <1>3. /\ pipe' \in [Modules -> Seq(Message)] /\ AnnouncedAfterWrite'
        /\ \A o \in Modules \ {m} : pipe'[o] = pipe[o]
        /\ Head(pipe[m]) \in Message /\ ~AboutToAnnounce(m)'
    BY <1>1, TakeOther DEF DataInv
  <1>4. k \in Keys
    BY <1>2, <1>3, MessageFields
  <1>5. AnswersInOrder'
    BY <1>1, OrderKept
  <1>6. CASE k \notin DOMAIN data
    <2>1. UNCHANGED <<vars, wrote, notices, changed>>
      BY <1>1, <1>2, <1>6 DEF Delete
    <2>2. SameTexts
      BY <2>1, CacheUntouched DEF DataInv, SameTexts, vars
    <2>3. DataTypes'
      BY <1>1, <1>3, <2>1, <2>2, SameTextsKept DEF DataInv, DataTypes
    <2>4. \A o \in Modules : AboutToAnnounce(o)' =>
              /\ AboutToAnnounce(o) /\ Head(pipe'[o]) = Head(pipe[o])
              /\ changed'[o] = changed[o]
      BY <1>3, <2>1 DEF AboutToAnnounce
    <2>5. Truthful'
      BY <2>1, <2>2, <2>4, TruthfulKept
    <2>. QED BY <1>3, <1>5, <2>1, <2>2, <2>3, <2>5, SameTextsKept DEF DataInv, SameTexts
  <1>7. CASE k \in DOMAIN data
    <2>1. Remove(k) /\ Recorded(k, m, None)
      BY <1>1, <1>2, <1>7 DEF Delete
    <2>2. IInv' /\ OthersSame(k) /\ k \notin DOMAIN data'
      BY <1>4, <2>1, RemoveEffect DEF DataInv
    <2>3. DataTypes'
      BY <1>1, <1>3, <1>4, <2>1, <2>2, HistoryTypes DEF DataInv, DataTypes
    <2>4. StoredAsWritten'
      BY <1>4, <2>1, <2>2, HistoryAsWritten DEF DataInv
    <2>5. Truthful'
      <3>1. /\ \A o \in Modules \ {m} : AboutToAnnounce(o) =>
                  changed'[o] \/ HoldsNext(Head(pipe[o]).key, Head(pipe[o]).body)
            /\ \A n \in notices' : n.later \/ HoldsNext(n.key, n.body)
        BY <1>4, <2>1, <2>2, HistoryTruthful DEF DataInv
      <3>2. ASSUME NEW o \in Modules, AboutToAnnounce(o)'
            PROVE  changed'[o] \/ HoldsNext(Head(pipe'[o]).key, Head(pipe'[o]).body)
        <4>1. o # m
          BY <1>3, <3>2
        <4>2. pipe'[o] = pipe[o] /\ AboutToAnnounce(o)
          BY <1>3, <3>2, <4>1 DEF AboutToAnnounce
        <4>. QED BY <3>1, <4>1, <4>2
      <3>. QED BY <3>1, <3>2 DEF Truthful, Holds, HoldsNext, TextOfModule
    <2>. QED BY <1>3, <1>5, <2>2, <2>3, <2>4, <2>5 DEF DataInv
  <1>. QED BY <1>6, <1>7


LEMMA HandleReadKeepsDataInv ==
    ASSUME DataInv, NEW m \in Modules, HandleRead(m)
    PROVE  DataInv'
  <1>1. /\ pipe[m] # <<>> /\ Head(pipe[m]).op = "data_read"
        /\ TakesMessage(m) /\ UNCHANGED <<asked, deaf, notices, wrote, changed>>
        /\ Lookup(Head(pipe[m]).key)
        /\ stdin' = IF m \in deaf THEN stdin
                     ELSE [stdin EXCEPT ![m] = @ \o Replies(Head(pipe[m]).key)]
    BY DEF HandleRead, Taken, TakesMessage
  <1>2. PICK k : k = Head(pipe[m]).key
    OBVIOUS
  <1>3. /\ pipe' \in [Modules -> Seq(Message)] /\ AnnouncedAfterWrite'
        /\ \A o \in Modules \ {m} : pipe'[o] = pipe[o]
        /\ Head(pipe[m]) \in Message /\ ~AboutToAnnounce(m)'
    BY <1>1, TakeOther DEF DataInv
  <1>4. k \in Keys
    BY <1>2, <1>3, MessageFields
  <1>5. SameTexts
    BY <1>1, <1>2, <1>4, LookupEffect DEF DataInv, SameTexts
  <1>6. PICK x : x = [key |-> k, got |-> Answer(k)]
    OBVIOUS
  <1>7. x \in Response /\ x.key = k
    <2>1. Answer(k) \in [field : {"path", "value", "none"}, text : Values \cup {None}]
      BY DEF Answer, DataEntry, DataInv, IInv, TypeOK, Entry
    <2>. QED BY <1>4, <1>6, <2>1 DEF Response
  <1>8. /\ stdin' = IF m \in deaf THEN stdin ELSE [stdin EXCEPT ![m] = @ \o <<x>>]
        /\ stdin[m] \in Seq(Response) /\ pipe[m] \in Seq(Message)
    BY <1>1, <1>2, <1>6 DEF Replies, DataInv, DataTypes
  <1>9. stdin' \in [Modules -> Seq(Response)]
    <2>1. stdin[m] \o <<x>> \in Seq(Response)
      BY <1>7, <1>8, ConcatProperties
    <2>. QED BY <1>8, <2>1 DEF DataInv, DataTypes
  <1>10. DataTypes'
    BY <1>1, <1>3, <1>5, <1>9, SameTextsKept DEF DataInv, DataTypes
  <1>11. Truthful'
    <2>1. \A o \in Modules : AboutToAnnounce(o)' =>
              /\ AboutToAnnounce(o) /\ Head(pipe'[o]) = Head(pipe[o])
              /\ changed'[o] = changed[o]
      BY <1>1, <1>3 DEF AboutToAnnounce
    <2>. QED BY <1>1, <1>5, <2>1, TruthfulKept
  <1>12. AnswersInOrder'
    <2>1. PICK rest : rest = Reads(Tail(pipe[m]))
      OBVIOUS
    <2>2. rest \in Seq(Keys)
      <3>1. Tail(pipe[m]) \in Seq(Message)
        BY <1>1, <1>8, HeadTailProperties
      <3>. QED BY <2>1, <3>1, ReadsAreSeq
    <2>3. Reads(pipe[m]) = <<k>> \o rest
      BY <1>1, <1>2, <1>8, <2>1, ReadsTail
    <2>4. KeysOf(stdin[m] \o <<x>>) \o rest = KeysOf(stdin[m]) \o (<<k>> \o rest)
      BY <1>7, <1>8, <2>2, OneAnswerMore
    <2>5. m \notin deaf => KeysOf(stdin[m]) \o Reads(pipe[m]) = asked[m]
      BY DEF DataInv, AnswersInOrder
    <2>6. ASSUME NEW o \in Modules \ deaf' PROVE KeysOf(stdin'[o]) \o Reads(pipe'[o]) = asked'[o]
      <3>1. CASE o = m
        <4>1. stdin'[o] = stdin[m] \o <<x>> /\ pipe'[o] = Tail(pipe[m]) /\ asked'[o] = asked[m]
          BY <1>1, <1>8, <3>1 DEF DataInv, DataTypes, TakesMessage
        <4>. QED BY <1>1, <2>1, <2>3, <2>4, <2>5, <3>1, <4>1
      <3>2. CASE o # m
        <4>1. stdin'[o] = stdin[o] /\ pipe'[o] = pipe[o] /\ asked'[o] = asked[o]
          BY <1>1, <1>3, <1>8, <3>2 DEF DataInv, DataTypes
        <4>. QED BY <1>1, <4>1 DEF DataInv, AnswersInOrder
      <3>. QED BY <3>1, <3>2
    <2>. QED BY <2>6 DEF AnswersInOrder, KeysOf, Reads
  <1>. QED BY <1>1, <1>3, <1>5, <1>10, <1>11, <1>12, SameTextsKept DEF DataInv, SameTexts

\* The event carries what the pipe said of the write, true or overtaken.
LEMMA HandlePublishKeepsDataInv ==
    ASSUME DataInv, NEW m \in Modules, HandlePublish(m)
    PROVE  DataInv'
  <1>1. /\ pipe[m] # <<>> /\ Head(pipe[m]).op = "publish" /\ TakesMessage(m)
        /\ UNCHANGED <<vars, asked, stdin, deaf, wrote, changed>>
        /\ notices' = notices \cup {[by |-> m, key |-> Head(pipe[m]).key,
                                     body |-> Head(pipe[m]).body, later |-> changed[m]]}
    BY DEF HandlePublish, Taken, TakesMessage
  <1>2. PICK k, b : k = Head(pipe[m]).key /\ b = Head(pipe[m]).body
    OBVIOUS
  <1>3. /\ pipe' \in [Modules -> Seq(Message)] /\ AnnouncedAfterWrite'
        /\ \A o \in Modules \ {m} : pipe'[o] = pipe[o]
        /\ Head(pipe[m]) \in Message /\ ~AboutToAnnounce(m)'
    BY <1>1, TakeOther DEF DataInv
  <1>4. k \in Keys /\ b \in Bodies
    BY <1>1, <1>2, <1>3, MessageFields
  <1>5. SameTexts
    BY <1>1, CacheUntouched DEF DataInv, SameTexts, vars
  <1>6. PICK n : n = [by |-> m, key |-> k, body |-> b, later |-> changed[m]]
    OBVIOUS
  <1>7. notices' = notices \cup {n}
        /\ n \in [by : Modules, key : Keys, body : Bodies, later : BOOLEAN]
    BY <1>1, <1>2, <1>4, <1>6 DEF DataInv, DataTypes
  <1>8. DataTypes'
    BY <1>1, <1>3, <1>5, <1>7, SameTextsKept DEF DataInv, DataTypes
  <1>9. Truthful'
    <2>1. changed[m] \/ Holds(k, b)
      BY <1>1, <1>2 DEF DataInv, Truthful, AboutToAnnounce
    <2>2. n.later = changed[m] /\ n.key = k /\ n.body = b
      BY <1>6
    <2>3. \A x \in notices' : x.later \/ Holds(x.key, x.body)
      BY <1>7, <2>1, <2>2 DEF DataInv, Truthful
    <2>4. \A o \in Modules : AboutToAnnounce(o)' =>
              changed[o] \/ Holds(Head(pipe'[o]).key, Head(pipe'[o]).body)
      <3>1. ASSUME NEW o \in Modules, AboutToAnnounce(o)'
            PROVE  AboutToAnnounce(o) /\ pipe'[o] = pipe[o]
        BY <1>3, <3>1 DEF AboutToAnnounce
      <3>. QED BY <3>1 DEF DataInv, Truthful
    <2>. QED BY <1>1, <2>3, <2>4 DEF Truthful, Holds, HoldsNext, TextOfModule, vars
  <1>10. AnswersInOrder'
    BY <1>1, OrderKept
  <1>. QED BY <1>1, <1>3, <1>5, <1>8, <1>9, <1>10, SameTextsKept DEF DataInv, SameTexts

LEMMA RestartKeepsDataInv ==
    ASSUME DataInv, NEW m \in Modules, Restart(m)
    PROVE  DataInv'
  <1>1. /\ UNCHANGED <<vars, notices, wrote>>
        /\ pipe' = [pipe EXCEPT ![m] = <<>>] /\ asked' = [asked EXCEPT ![m] = <<>>]
        /\ stdin' = [stdin EXCEPT ![m] = <<>>] /\ changed' = [changed EXCEPT ![m] = FALSE]
        /\ deaf' = deaf \ {m}
    BY DEF Restart
  <1>2. SameTexts
    BY <1>1, CacheUntouched DEF DataInv, SameTexts, vars
  <1>3. DataTypes'
    <2>1. <<>> \in Seq(Message) /\ <<>> \in Seq(Keys) /\ <<>> \in Seq(Response)
      BY EmptySeq
    <2>. QED BY <1>1, <1>2, <2>1, SameTextsKept DEF DataInv, DataTypes
  <1>4. /\ pipe'[m] = <<>> /\ asked'[m] = <<>> /\ stdin'[m] = <<>>
        /\ \A o \in Modules \ {m} : /\ pipe'[o] = pipe[o] /\ asked'[o] = asked[o]
                                    /\ stdin'[o] = stdin[o] /\ changed'[o] = changed[o]
    BY <1>1 DEF DataInv, DataTypes
  <1>5. AnnouncedAfterWrite'
    <2>1. ASSUME NEW o \in Modules, NEW i \in 1..Len(pipe'[o]), pipe'[o][i].op = "publish"
          PROVE  /\ pipe'[o][i].body # [value |-> None, path |-> None]
                 /\ i > 1 => pipe'[o][i - 1] = Write(pipe'[o][i].key, pipe'[o][i].body)
      <3>1. o # m
        BY <1>4, <2>1
      <3>. QED BY <1>4, <2>1, <3>1 DEF DataInv, AnnouncedAfterWrite
    <2>. QED BY <2>1 DEF AnnouncedAfterWrite, Write
  <1>6. Truthful'
    <2>1. \A o \in Modules : AboutToAnnounce(o)' =>
              /\ AboutToAnnounce(o) /\ Head(pipe'[o]) = Head(pipe[o])
              /\ changed'[o] = changed[o]
      BY <1>4 DEF AboutToAnnounce
    <2>. QED BY <1>1, <1>2, <2>1, TruthfulKept
  <1>7. AnswersInOrder'
    <2>1. KeysOf(<<>>) \o Reads(<<>>) = <<>>
      <3>1. PICK s : s = KeysOf(<<>>)
        OBVIOUS
      <3>2. s \in Seq(Keys) /\ Len(s) = 0
        BY <3>1, EmptySeq, KeysOfSeq
      <3>3. s = <<>>
        BY <3>2, EmptySeq
      <3>. QED BY <3>1, <3>3, ReadsEmpty, ConcatEmptySeq, EmptySeq
    <2>2. ASSUME NEW o \in Modules \ deaf' PROVE KeysOf(stdin'[o]) \o Reads(pipe'[o]) = asked'[o]
      <3>1. CASE o = m
        BY <1>4, <2>1, <3>1
      <3>2. CASE o # m
        BY <1>1, <1>4, <3>2 DEF DataInv, AnswersInOrder
      <3>. QED BY <3>1, <3>2
    <2>. QED BY <2>2 DEF AnswersInOrder, KeysOf, Reads
  <1>. QED BY <1>1, <1>2, <1>3, <1>5, <1>6, <1>7, SameTextsKept DEF DataInv, SameTexts

\* The writer task of m ends: nothing is owed to it any more.
LEMMA WriterEndsKeepsDataInv ==
    ASSUME DataInv, NEW m \in Modules, WriterEnds(m)
    PROVE  DataInv'
  <1>1. /\ UNCHANGED <<vars, pipe, asked, notices, wrote, changed>>
        /\ deaf' = deaf \cup {m} /\ stdin' = [stdin EXCEPT ![m] = <<>>]
    BY DEF WriterEnds
  <1>2. SameTexts
    BY <1>1, CacheUntouched DEF DataInv, SameTexts, vars
  <1>3. DataTypes'
    BY <1>1, <1>2, SameTextsKept, EmptySeq DEF DataInv, DataTypes
  <1>4. AnnouncedAfterWrite'
    BY <1>1 DEF DataInv, AnnouncedAfterWrite, Write
  <1>5. Truthful'
    <2>1. \A o \in Modules : AboutToAnnounce(o)' =>
              /\ AboutToAnnounce(o) /\ Head(pipe'[o]) = Head(pipe[o])
              /\ changed'[o] = changed[o]
      BY <1>1 DEF AboutToAnnounce
    <2>. QED BY <1>1, <1>2, <2>1, TruthfulKept
  <1>6. AnswersInOrder'
    <2>1. ASSUME NEW o \in Modules \ deaf' PROVE KeysOf(stdin'[o]) \o Reads(pipe'[o]) = asked'[o]
      <3>1. o \in Modules \ deaf /\ stdin'[o] = stdin[o]
        BY <1>1, <2>1 DEF DataInv, DataTypes
      <3>. QED BY <1>1, <3>1 DEF DataInv, AnswersInOrder
    <2>. QED BY <2>1 DEF AnswersInOrder, KeysOf, Reads
  <1>. QED BY <1>1, <1>2, <1>3, <1>4, <1>5, <1>6, SameTextsKept DEF DataInv, SameTexts


-----------------------------------------------------------------------------
\* A step in which no module takes part leaves the pipes and their order alone.
LEMMA PipesUntouched ==
    ASSUME DataInv, UNCHANGED <<pipe, asked, stdin, deaf>>
    PROVE  AnnouncedAfterWrite' /\ AnswersInOrder'
  <1>1. AnnouncedAfterWrite'
    BY DEF DataInv, AnnouncedAfterWrite, Write
  <1>2. \A m \in Modules \ deaf' : KeysOf(stdin'[m]) \o Reads(pipe'[m]) = asked'[m]
    BY DEF DataInv, AnswersInOrder
  <1>. QED BY <1>1, <1>2 DEF AnswersInOrder, KeysOf, Reads

\* One that leaves the texts alone too, and at most takes notices away.
LEMMA QuietKeepsDataInv ==
    ASSUME DataInv, SameTexts, UNCHANGED <<pipe, asked, stdin, deaf, wrote, changed>>,
           notices' \subseteq notices
    PROVE  DataInv'
  <1>1. DataTypes'
    BY SameTextsKept DEF DataInv, DataTypes
  <1>2. Truthful'
    <2>1. \A o \in Modules : AboutToAnnounce(o)' =>
              /\ AboutToAnnounce(o) /\ Head(pipe'[o]) = Head(pipe[o])
              /\ changed'[o] = changed[o]
      BY DEF AboutToAnnounce
    <2>. QED BY <2>1, TruthfulKept
  <1>. QED BY <1>1, <1>2, PipesUntouched, SameTextsKept DEF DataInv, SameTexts

\* One by which a controller changes k.
LEMMA ControllerKeepsDataInv ==
    ASSUME DataInv, NEW k \in Keys, NEW b, IInv', OthersSame(k), Recorded(k, None, b),
           UNCHANGED <<pipe, asked, stdin, deaf>>,
           k \in DOMAIN data' => b \in Bodies /\ data'[k].value = TextOfController(b)
    PROVE  DataInv'
  <1>1. None \notin Modules
    BY DataAssumption
  <1>2. DataTypes'
    BY HistoryTypes DEF DataInv, DataTypes
  <1>3. StoredAsWritten'
    <2>1. TextOf([by |-> None, body |-> b]) = TextOfController(b)
      BY DEF TextOf
    <2>. QED BY <2>1, HistoryAsWritten DEF DataInv
  <1>4. Truthful'
    <2>1. /\ \A o \in Modules \ {None} : AboutToAnnounce(o) =>
                changed'[o] \/ HoldsNext(Head(pipe[o]).key, Head(pipe[o]).body)
          /\ \A n \in notices' : n.later \/ HoldsNext(n.key, n.body)
      BY HistoryTruthful DEF DataInv
    <2>2. \A o \in Modules : AboutToAnnounce(o)' => AboutToAnnounce(o)
      BY DEF AboutToAnnounce
    <2>3. ASSUME NEW o \in Modules, AboutToAnnounce(o)'
          PROVE  changed'[o] \/ HoldsNext(Head(pipe'[o]).key, Head(pipe'[o]).body)
      BY <1>1, <2>1, <2>2, <2>3
    <2>. QED BY <2>1, <2>3 DEF Truthful, Holds, HoldsNext, TextOfModule
  <1>. QED BY <1>2, <1>3, <1>4, PipesUntouched DEF DataInv

LEMMA ControllersKeepDataInv ==
    ASSUME DataInv, NEW k \in Keys,
           (\E b \in Bodies : ControllerSet(k, b)) \/ ControllerGet(k) \/ ControllerDelete(k)
    PROVE  DataInv'
  <1>1. ASSUME UNCHANGED <<vars, wrote, notices, changed, pipe, asked, stdin, deaf>> PROVE DataInv'
    <2>1. SameTexts
      BY <1>1, CacheUntouched DEF DataInv, SameTexts, vars
    <2>. QED BY <1>1, <2>1, QuietKeepsDataInv
  <1>2. ASSUME NEW b \in Bodies, ControllerSet(k, b) PROVE DataInv'
    <2>1. PICK text : text = TextOfController(b)
      OBVIOUS
    <2>2. UNCHANGED <<pipe, asked, stdin, deaf>> /\ Accept(k, None, b, text)
      BY <1>2, <2>1 DEF ControllerSet
    <2>3. CASE text = None
      BY <1>1, <2>2, <2>3 DEF Accept
    <2>4. CASE text # None
      <3>1. (Update(k, text) \/ InsertNew(k, text)) /\ Recorded(k, None, b)
        BY <2>2, <2>4 DEF Accept
      <3>2. text \in Values
        BY <2>1, <2>4, BodyTexts
      <3>3. IInv' /\ OthersSame(k) /\ data'[k].value = text
        BY <3>1, <3>2, StoreEffect DEF DataInv
      <3>. QED BY <2>1, <2>2, <3>1, <3>3, ControllerKeepsDataInv
    <2>. QED BY <2>3, <2>4
  <1>3. CASE ControllerGet(k)
    <2>1. Lookup(k) /\ UNCHANGED <<pipe, asked, stdin, deaf, notices, wrote, changed>>
      BY <1>3 DEF ControllerGet
    <2>2. SameTexts
      BY <2>1, LookupEffect DEF DataInv, SameTexts
    <2>. QED BY <2>1, <2>2, QuietKeepsDataInv
  <1>4. CASE ControllerDelete(k)
    <2>1. UNCHANGED <<pipe, asked, stdin, deaf>> /\ Delete(k, None)
      BY <1>4 DEF ControllerDelete
    <2>2. CASE k \in DOMAIN data
      <3>1. Remove(k) /\ Recorded(k, None, None)
        BY <2>1, <2>2 DEF Delete
      <3>2. IInv' /\ OthersSame(k) /\ k \notin DOMAIN data'
        BY <3>1, RemoveEffect DEF DataInv
      <3>. QED BY <2>1, <3>1, <3>2, ControllerKeepsDataInv
    <2>3. CASE k \notin DOMAIN data
      BY <1>1, <2>1, <2>3 DEF Delete
    <2>. QED BY <2>2, <2>3
  <1>. QED BY <1>2, <1>3, <1>4

LEMMA InitDataInv == DataInit => DataInv
  <1>. SUFFICES ASSUME DataInit PROVE DataInv
    OBVIOUS
  <1>1. IInv /\ DOMAIN data = {}
    BY InitIInv DEF DataInit, Init
  <1>2. \A m \in Modules : pipe[m] = <<>> /\ asked[m] = <<>> /\ stdin[m] = <<>>
    BY DEF DataInit
  <1>3. DataTypes
    <2>1. <<>> \in Seq(Message) /\ <<>> \in Seq(Keys) /\ <<>> \in Seq(Response)
      BY EmptySeq
    <2>2. wrote \in [DOMAIN data -> [by : Modules \cup {None}, body : Bodies]]
      BY <1>1 DEF DataInit
    <2>. QED BY <2>1, <2>2 DEF DataInit, DataTypes
  <1>4. StoredAsWritten /\ AnnouncedAfterWrite /\ Truthful
    BY <1>1, <1>2 DEF StoredAsWritten, AnnouncedAfterWrite, Truthful, AboutToAnnounce, DataInit
  <1>5. AnswersInOrder
    <2>1. KeysOf(<<>>) \o Reads(<<>>) = <<>>
      <3>1. PICK s : s = KeysOf(<<>>)
        OBVIOUS
      <3>2. s \in Seq(Keys) /\ Len(s) = 0
        BY <3>1, EmptySeq, KeysOfSeq
      <3>3. s = <<>>
        BY <3>2, EmptySeq
      <3>. QED BY <3>1, <3>3, ReadsEmpty, ConcatEmptySeq, EmptySeq
    <2>. QED BY <1>2, <2>1 DEF AnswersInOrder
  <1>. QED BY <1>1, <1>3, <1>4, <1>5 DEF DataInv

\* What the cache holds is what was written last, what is announced is there or known
\* to be overtaken, and each read is owed one answer: kept by every message a handler
\* handles, every data request of a controller, evictions and restarts of a module
\* (cache.rs:26-62, manager.rs:188-208, 310-380, handler.rs:165-220).
THEOREM DataInvariant == DataSpec => []DataInv
  <1>1. DataInv /\ [DataNext]_dataVars => DataInv'
    <2>. SUFFICES ASSUME DataInv, [DataNext]_dataVars PROVE DataInv'
      OBVIOUS
    <2>1. ASSUME NEW m \in Modules, NEW k \in Keys,
                 (\E b \in Bodies : Announce(m, k, b)) \/ Ask(m, k) \/ Drop(m, k)
          PROVE  DataInv'
      BY <2>1, WritesKeepDataInv
    <2>2. ASSUME NEW m \in Modules,
                 \/ TakeAnswer(m) \/ HandleWrite(m) \/ HandleRead(m) \/ HandleDelete(m)
                 \/ HandlePublish(m) \/ Restart(m) \/ WriterEnds(m)
          PROVE  DataInv'
      BY <2>2, AnswersKeepDataInv, HandleWriteKeepsDataInv, HandleReadKeepsDataInv,
         HandleDeleteKeepsDataInv, HandlePublishKeepsDataInv, RestartKeepsDataInv,
         WriterEndsKeepsDataInv
    <2>3. ASSUME NEW k \in Keys,
                 \/ \E b \in Bodies : ControllerSet(k, b)
                 \/ ControllerGet(k) \/ ControllerDelete(k)
          PROVE  DataInv'
      BY <2>3, ControllersKeepDataInv
    <2>4. ASSUME NEW n \in notices, TakeNotice(n) PROVE DataInv'
      <3>1. /\ UNCHANGED <<vars, pipe, asked, stdin, deaf, wrote, changed>>
            /\ notices' \subseteq notices
        BY <2>4 DEF TakeNotice
      <3>2. SameTexts
        BY <3>1, CacheUntouched DEF DataInv, SameTexts, vars
      <3>. QED BY <3>1, <3>2, QuietKeepsDataInv
    <2>5. CASE UNCHANGED dataVars
      <3>1. UNCHANGED <<vars, pipe, asked, stdin, deaf, wrote, changed, notices>>
        BY <2>5 DEF dataVars
      <3>2. SameTexts
        BY <3>1, CacheUntouched DEF DataInv, SameTexts, vars
      <3>. QED BY <3>1, <3>2, QuietKeepsDataInv
    <2>. QED BY <2>1, <2>2, <2>3, <2>4, <2>5 DEF DataNext
  <1>. QED BY InitDataInv, <1>1, PTL DEF DataSpec

\* Every key that is present reads back as the field and the text of the last write
\* accepted for it (cache.rs:26-62, manager.rs:310-325, handler.rs:178-190).
THEOREM ReadsBack == DataSpec => []ReadBack
  <1>1. ASSUME DataInv PROVE ReadBack
    <2>. SUFFICES ASSUME NEW k \in DOMAIN data, NEW b, b = wrote[k].body
                  PROVE  /\ Unambiguous(b) =>
                               Answer(k) = IF b.path # None
                                              THEN [field |-> "path", text |-> b.path]
                                              ELSE [field |-> "value", text |-> b.value]
                         /\ wrote[k].by = None /\ b.path # None => Answer(k).text = b.path
      BY DEF ReadBack
    <2>1. data[k].value = TextOf(wrote[k])
      BY <1>1 DEF DataInv, StoredAsWritten
    <2>2. Answer(k) = [field |-> IF data[k].value \in Paths THEN "path" ELSE "value",
                       text  |-> data[k].value]
      BY DEF Answer, DataEntry
    <2>3. Unambiguous(b) => data[k].value = IF b.path # None THEN b.path ELSE b.value
      BY <2>1 DEF TextOf, TextOfController, TextOfModule, Unambiguous
    <2>4. wrote[k].by = None /\ b.path # None => data[k].value = b.path
      BY <2>1 DEF TextOf, TextOfController
    <2>. QED BY <2>2, <2>3, <2>4 DEF Unambiguous
  <1>. QED BY <1>1, DataInvariant, PTL

\* Whoever takes the event that announces a write finds the write in place, unless the
\* key was written, deleted or evicted after it (manager.rs:61-97, 188-208).
THEOREM NoticesAreTrue == DataSpec => []NoticedIsStored
  <1>1. DataInv => NoticedIsStored
    BY DEF DataInv, Truthful, Holds, NoticedIsStored, Answer, DataEntry
  <1>. QED BY <1>1, DataInvariant, PTL

\* Each read gets one answer, in the order of the reads, and a module that reads an
\* answer is waiting for one (manager.rs:330-361).
THEOREM AnswersStayInOrder == DataSpec => []AnswersInOrder
  <1>1. DataInv => AnswersInOrder
    BY DEF DataInv
  <1>. QED BY <1>1, DataInvariant, PTL
=============================================================================
