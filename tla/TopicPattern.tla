---------------------------- MODULE TopicPattern ----------------------------
(***************************************************************************)
(* Topics, patterns, the matcher of bus/router.rs and the check a module's *)
(* subscription passes first (module/manager.rs).  A dotted string is the  *)
(* sequence of its segments; it has at least one, the empty string having  *)
(* the empty segment.                                                      *)
(***************************************************************************)
EXTENDS Integers, Sequences

CONSTANTS Segments,   \* segments that are neither wildcard
          Empty,      \* the segment of the empty string
          System,     \* "system"
          Star, Hash  \* "*" and "#"

ASSUME SegmentsAssumption ==
    /\ {Empty, System} \subseteq Segments
    /\ Empty # System /\ Star # Hash
    /\ {Star, Hash} \cap Segments = {}

\* What may stand between two dots. Only a pattern gives the wildcards a
\* meaning; in a topic they are segments like any other.
Words == Segments \cup {Star, Hash}

-----------------------------------------------------------------------------
\* matches_segments at pattern index p and topic index t, which count from 0
\* as in the code, when m answers the recursive calls. `Seeded' operators
\* here and below are mistakes the properties must catch; nothing uses them.
SeededStep(pattern, topic, m, p, t) ==
    IF p >= Len(pattern) THEN t >= Len(topic)
    ELSE IF pattern[p + 1] = Hash
            THEN \E i \in (t + 1)..Len(topic) : m[p + 1][i]
            ELSE /\ t < Len(topic)
                 /\ pattern[p + 1] \in {Star, topic[t + 1]}
                 /\ m[p + 1][t + 1]
Step(pattern, topic, m, p, t) ==
    IF p >= Len(pattern) THEN t >= Len(topic)
    ELSE IF pattern[p + 1] = Hash
            THEN \E i \in t..Len(topic) : m[p + 1][i]
            ELSE /\ t < Len(topic)
                 /\ pattern[p + 1] \in {Star, topic[t + 1]}
                 /\ m[p + 1][t + 1]

\* TopicPattern::new(pattern).matches(topic)
Matching(pattern, topic) ==
    LET m[p \in 0..Len(pattern)] ==
            [t \in 0..Len(topic) |-> Step(pattern, topic, m, p, t)]
    IN  m[0][0]

-----------------------------------------------------------------------------
\* The text of topic a starts with the text of b and a dot.
Below(a, b) == Len(a) > Len(b) /\ SubSeq(a, 1, Len(b)) = b

\* validate_module_subscription, for the module with the name `id', itself a
\* dotted string. The last two tests of the code allow nothing these do not.
SeededOwnOnly(id, pattern) == Below(pattern, id) \/ pattern = id
SeededLeadingStar(id, pattern) ==
    /\ pattern \notin {<<Empty>>, <<Star>>, <<Hash>>}
    /\ pattern[1] \in {System, Star, id[1]}
Allowed(id, pattern) ==
    /\ pattern \notin {<<Empty>>, <<Star>>, <<Hash>>}
    /\ \/ Below(pattern, <<System>>) \/ pattern = <<System>>
       \/ Below(pattern, id) \/ pattern = id
=============================================================================
