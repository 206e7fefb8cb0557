---------------------------- MODULE ModuleTopics ----------------------------
(***************************************************************************)
(* What subscribing means end to end: the pattern of a subscribe_request   *)
(* and the topic of a publish are put together segment by segment, so that *)
(* every pattern meets every topic up to MaxLen, and what the matcher and  *)
(* the check say of them is compared with what the documents promise.      *)
(***************************************************************************)
EXTENDS TopicPattern

CONSTANTS Names,   \* module names
          MaxLen   \* bound on the segments of a pattern or a topic

\* A module's name is any string: the daemon accepts names with dots, and names
\* with segments that are wildcards.
ASSUME NamesAssumption == Names \subseteq Seq(Words) \ {<<>>}
ASSUME MaxLenAssumption == MaxLen \in Nat \ {0}

VARIABLES asked,    \* the pattern a module asks for
          topic     \* the topic of an event

vars == <<asked, topic>>

Init == asked \in {<<w>> : w \in Words} /\ topic \in {<<w>> : w \in Words}

LongerPattern(w) ==
    /\ Len(asked) < MaxLen
    /\ asked' = Append(asked, w)
    /\ UNCHANGED topic

LongerTopic(w) ==
    /\ Len(topic) < MaxLen
    /\ topic' = Append(topic, w)
    /\ UNCHANGED asked

Next == \E w \in Words : LongerPattern(w) \/ LongerTopic(w)

Spec == Init /\ [][Next]_vars

-----------------------------------------------------------------------------
\* cut[p] is how much of the topic the first p segments of the pattern take.
IsCut(cut) ==
    /\ cut[0] = 0 /\ cut[Len(asked)] = Len(topic)
    /\ \A p \in 1..Len(asked) :
          IF asked[p] = Hash THEN cut[p - 1] <= cut[p]
          ELSE /\ cut[p] = cut[p - 1] + 1
               /\ cut[p] <= Len(topic)
               /\ asked[p] \in {Star, topic[cut[p]]}

\* "* matches exactly one segment, # matches zero or more segments, exact
\* strings match literally" (router.rs:3-6): the recursive search of
\* router.rs:43-79 finds a way to cut the topic exactly when there is one,
\* wherever the wildcards stand and however many there are.
MatchesAsDocumented ==
    Matching(asked, topic) <=>
        \E cut \in [0..Len(asked) -> 0..Len(topic)] : IsCut(cut)

\* The widest subscriptions the check means to let through, "system.#" and
\* "{module_id}.#", hear this topic.
MeantFor(id) == Matching(<<System, Hash>>, topic) \/ Matching(id \o <<Hash>>, topic)

\* Whatever pattern passes the check on its text (manager.rs:119-162), and
\* whatever the module's name is, the pattern hears nothing that the widest
\* subscriptions would not hear: the check on strings and the matcher on
\* segments agree on what a namespace is (router.rs:43-79).
Isolated ==
    \A id \in Names : Allowed(id, asked) /\ Matching(asked, topic) => MeantFor(id)

\* A name without wildcards, and not the empty string.
Plain(id) == id # <<Empty>> /\ \A k \in 1..Len(id) : id[k] \in Segments

\* The check costs a module with a plain name nothing it is entitled to: each
\* event those subscriptions hear may be asked for by spelling its topic out
\* (manager.rs:131-154, router.rs:52-58).
OwnEventsReachable ==
    \A id \in Names : Plain(id) /\ MeantFor(id) =>
        Allowed(id, topic) /\ Matching(topic, topic)

-----------------------------------------------------------------------------
\* What the documents say and the code does not do.

\* The event is of the module with the longest name at the head of its topic.
Under(id) == topic = id \/ Below(topic, id)
Owns(id)  == Under(id) /\ \A n \in Names : Under(n) => Len(n) <= Len(id)

\* "modules cannot eavesdrop on other modules' events" (docs/API-Module.md;
\* manager.rs:119-162): no module hears another one's event.
NoEavesdropping ==
    \A id, other \in Names :
        id # other /\ Allowed(id, asked) /\ Matching(asked, topic) => ~Owns(other)
=============================================================================
