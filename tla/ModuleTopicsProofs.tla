------------------------- MODULE ModuleTopicsProofs -------------------------
(***************************************************************************)
(* The matcher of bus/router.rs decides the documented relation, and no    *)
(* pattern a module may ask for hears more than its own namespace and the  *)
(* system's, as far as its name is literal, for names, patterns and topics of *)
(* every length.  The matcher is a recursive search; that it has one result, *)
(* and which, is proved by induction over the pattern, from its end to its *)
(* start.                                                                  *)
(***************************************************************************)
EXTENDS ModuleTopics, SequenceTheorems, WellFoundedInduction, TLAPS

-----------------------------------------------------------------------------
\* Induction: what fails for some natural number fails for a smallest one.
LEMMA LeastNatural ==
    ASSUME NEW S \in SUBSET Nat, S # {}
    PROVE  \E x \in S : \A y \in S : x <= y
  <1>1. PICK R : R = OpToRel(<, Nat)
    OBVIOUS
  <1>2. IsWellFoundedOn(R, Nat)
    BY <1>1, NatLessThanWellFounded
  <1>3. PICK x \in S : \A y \in S : <<y, x>> \notin R
    BY <1>2, WFMin
  <1>4. \A u, v \in Nat : v < u => <<v, u>> \in R
    BY <1>1 DEF OpToRel
  <1>5. \A y \in S : ~(y < x)
    BY <1>3, <1>4
  <1>. QED BY <1>5

-----------------------------------------------------------------------------
\* Segment q of pattern P takes the topic from a to b.
Takes(P, T, q, a, b) ==
    IF P[q] = Hash THEN a <= b
    ELSE b = a + 1 /\ b <= Len(T) /\ P[q] \in {Star, T[b]}

\* cut says how the pattern from p on takes the topic from t on.
IsCutOf(P, T, p, t, cut) ==
    /\ cut \in [p..Len(P) -> 0..Len(T)]
    /\ cut[p] = t /\ cut[Len(P)] = Len(T)
    /\ \A q \in (p + 1)..Len(P) : Takes(P, T, q, cut[q - 1], cut[q])

Cuts(P, T, p, t) == \E cut : IsCutOf(P, T, p, t, cut)

LEMMA NoPatternLeft ==
    ASSUME NEW P \in Seq(Words), NEW T \in Seq(Words), NEW t \in 0..Len(T)
    PROVE  Cuts(P, T, Len(P), t) <=> t >= Len(T)
  <1>1. Len(P) \in Nat /\ Len(T) \in Nat
    OBVIOUS
  <1>2. ASSUME Cuts(P, T, Len(P), t) PROVE t >= Len(T)
    BY <1>1, <1>2 DEF Cuts, IsCutOf
  <1>3. ASSUME t >= Len(T) PROVE Cuts(P, T, Len(P), t)
    <2>. DEFINE cut == [q \in Len(P)..Len(P) |-> t]
    <2>1. IsCutOf(P, T, Len(P), t, cut)
      BY <1>1, <1>3 DEF IsCutOf
    <2>. QED BY <2>1 DEF Cuts
  <1>. QED BY <1>2, <1>3

LEMMA OneSegment ==
    ASSUME NEW P \in Seq(Words), NEW T \in Seq(Words),
           NEW p \in 0..(Len(P) - 1), NEW t \in 0..Len(T)
    PROVE  Cuts(P, T, p, t) <=>
              \E u \in 0..Len(T) : Takes(P, T, p + 1, t, u) /\ Cuts(P, T, p + 1, u)
  <1>1. Len(P) \in Nat /\ Len(T) \in Nat
    OBVIOUS
  <1>2. ASSUME NEW cut, IsCutOf(P, T, p, t, cut)
        PROVE  \E u \in 0..Len(T) : Takes(P, T, p + 1, t, u) /\ Cuts(P, T, p + 1, u)
    <2>. DEFINE u == cut[p + 1]
                rest == [q \in (p + 1)..Len(P) |-> cut[q]]
    <2>1. u \in 0..Len(T) /\ Takes(P, T, p + 1, t, u)
      <3>1. p + 1 \in (p + 1)..Len(P) /\ p + 1 \in p..Len(P) /\ (p + 1) - 1 = p
        BY <1>1
      <3>2. Takes(P, T, p + 1, cut[(p + 1) - 1], cut[p + 1])
        BY <1>2, <3>1 DEF IsCutOf
      <3>. QED BY <1>2, <3>1, <3>2 DEF IsCutOf
    <2>2. IsCutOf(P, T, p + 1, u, rest)
      <3>1. rest \in [(p + 1)..Len(P) -> 0..Len(T)]
        BY <1>1, <1>2 DEF IsCutOf
      <3>2. rest[p + 1] = u /\ rest[Len(P)] = Len(T)
        BY <1>1, <1>2 DEF IsCutOf
      <3>3. ASSUME NEW q \in (p + 1 + 1)..Len(P) PROVE Takes(P, T, q, rest[q - 1], rest[q])
        <4>1. q \in (p + 1)..Len(P) /\ rest[q] = cut[q] /\ rest[q - 1] = cut[q - 1]
          BY <1>1
        <4>2. Takes(P, T, q, cut[q - 1], cut[q])
          BY <1>2, <4>1 DEF IsCutOf
        <4>. QED BY <4>1, <4>2
      <3>. HIDE DEF rest, u
      <3>. QED BY <3>1, <3>2, <3>3 DEF IsCutOf
    <2>. QED BY <2>1, <2>2 DEF Cuts
  <1>3. ASSUME NEW u \in 0..Len(T), Takes(P, T, p + 1, t, u),
               NEW rest, IsCutOf(P, T, p + 1, u, rest)
        PROVE  Cuts(P, T, p, t)
    <2>. DEFINE cut == [q \in p..Len(P) |-> IF q = p THEN t ELSE rest[q]]
    <2>1. cut \in [p..Len(P) -> 0..Len(T)]
      BY <1>1, <1>3 DEF IsCutOf
    <2>2. cut[p] = t /\ cut[Len(P)] = Len(T) /\ cut[p + 1] = u
      BY <1>1, <1>3 DEF IsCutOf
    <2>3. ASSUME NEW q \in (p + 1)..Len(P) PROVE Takes(P, T, q, cut[q - 1], cut[q])
      <3>1. CASE q = p + 1
        <4>1. q - 1 = p
          BY <3>1
        <4>. QED BY <1>3, <2>2, <3>1, <4>1
      <3>2. CASE q # p + 1
        <4>1. /\ q \in (p + 1 + 1)..Len(P) /\ cut[q] = rest[q] /\ cut[q - 1] = rest[q - 1]
          BY <1>1, <3>2
        <4>2. Takes(P, T, q, rest[q - 1], rest[q])
          BY <1>3, <4>1 DEF IsCutOf
        <4>. QED BY <4>1, <4>2
      <3>. QED BY <3>1, <3>2
    <2>. HIDE DEF cut
    <2>4. IsCutOf(P, T, p, t, cut)
      BY <2>1, <2>2, <2>3 DEF IsCutOf
    <2>. QED BY <2>4 DEF Cuts
  <1>. QED BY <1>2, <1>3 DEF Cuts

-----------------------------------------------------------------------------
\* What matches_segments says at p and t, if its calls at p + 1 say the right thing.
LEMMA StepDecides ==
    ASSUME NEW P \in Seq(Words), NEW T \in Seq(Words), NEW m,
           NEW p \in 0..Len(P), NEW t \in 0..Len(T),
           p < Len(P) => \A u \in 0..Len(T) : m[p + 1][u] <=> Cuts(P, T, p + 1, u)
    PROVE  Step(P, T, m, p, t) <=> Cuts(P, T, p, t)
  <1>1. Len(P) \in Nat /\ Len(T) \in Nat
    OBVIOUS
  <1>2. CASE p = Len(P)
    <2>1. Step(P, T, m, p, t) <=> t >= Len(T)
      BY <1>1, <1>2 DEF Step
    <2>. QED BY <1>2, <2>1, NoPatternLeft
  <1>3. CASE p < Len(P)
    <2>1. Cuts(P, T, p, t) <=>
              \E u \in 0..Len(T) : Takes(P, T, p + 1, t, u) /\ Cuts(P, T, p + 1, u)
      BY <1>1, <1>3, OneSegment
    <2>2. CASE P[p + 1] = Hash
      <3>1. Step(P, T, m, p, t) <=> \E u \in t..Len(T) : m[p + 1][u]
        BY <1>1, <1>3, <2>2 DEF Step
      <3>2. \A u : u \in t..Len(T) <=> u \in 0..Len(T) /\ t <= u
        BY <1>1
      <3>3. \A u : Takes(P, T, p + 1, t, u) <=> t <= u
        BY <2>2 DEF Takes
      <3>. QED BY <1>3, <2>1, <3>1, <3>2, <3>3
    <2>3. CASE P[p + 1] # Hash
      <3>1. Step(P, T, m, p, t) <=>
                t < Len(T) /\ P[p + 1] \in {Star, T[t + 1]} /\ m[p + 1][t + 1]
        BY <1>1, <1>3, <2>3 DEF Step
      <3>2. \A u : Takes(P, T, p + 1, t, u) <=>
                u = t + 1 /\ u <= Len(T) /\ P[p + 1] \in {Star, T[u]}
        BY <2>3 DEF Takes
      <3>3. t < Len(T) <=> t + 1 \in 0..Len(T) /\ t + 1 <= Len(T)
        BY <1>1
      <3>. QED BY <1>3, <2>1, <3>1, <3>2, <3>3
    <2>. QED BY <2>2, <2>3
  <1>. QED BY <1>1, <1>2, <1>3

\* A table of the matcher's answers.
IsTable(P, T, m) == m = [p \in 0..Len(P) |-> [t \in 0..Len(T) |-> Step(P, T, m, p, t)]]

LEMMA TableEntries ==
    ASSUME NEW P, NEW T, NEW m, IsTable(P, T, m)
    PROVE  \A p \in 0..Len(P), t \in 0..Len(T) : m[p][t] = Step(P, T, m, p, t)
  <1>. DEFINE F == [p \in 0..Len(P) |-> [t \in 0..Len(T) |-> Step(P, T, m, p, t)]]
  <1>1. m = F
    BY DEF IsTable
  <1>2. \A p \in 0..Len(P), t \in 0..Len(T) : F[p][t] = Step(P, T, m, p, t)
    BY Zenon
  <1>. HIDE DEF F
  <1>. QED BY <1>1, <1>2

\* There is one,
LEMMA TableExists ==
    ASSUME NEW P \in Seq(Words), NEW T \in Seq(Words)
    PROVE  \E m : IsTable(P, T, m)
  <1>. DEFINE m == [p \in 0..Len(P) |-> [t \in 0..Len(T) |-> Cuts(P, T, p, t)]]
              F == [p \in 0..Len(P) |-> [t \in 0..Len(T) |-> Step(P, T, m, p, t)]]
  <1>1. \A p \in 0..Len(P), t \in 0..Len(T) : m[p][t] <=> Cuts(P, T, p, t)
    BY Zenon
  <1>. HIDE DEF m
  <1>2. ASSUME NEW p \in 0..Len(P), NEW t \in 0..Len(T)
        PROVE  Step(P, T, m, p, t) = Cuts(P, T, p, t)
    <2>1. p < Len(P) => p + 1 \in 0..Len(P)
      BY LenProperties
    <2>2. Step(P, T, m, p, t) <=> Cuts(P, T, p, t)
      BY <1>1, <2>1, StepDecides
    <2>3. Step(P, T, m, p, t) \in BOOLEAN /\ Cuts(P, T, p, t) \in BOOLEAN
      <3>1. CASE p >= Len(P)
        BY <3>1 DEF Step, Cuts
      <3>2. CASE ~(p >= Len(P))
        <4>1. CASE P[p + 1] = Hash
          BY <3>2, <4>1, Zenon DEF Step, Cuts
        <4>2. CASE P[p + 1] # Hash
          BY <3>2, <4>2, Zenon DEF Step, Cuts
        <4>. QED BY <4>1, <4>2
      <3>. QED BY <3>1, <3>2
    <2>. QED BY <2>2, <2>3
  <1>3. m = F
    BY <1>2, Zenon DEF m
  <1>. QED BY <1>3 DEF IsTable

\* and it holds the right answers, the end of the pattern first.
LEMMA TableDecides ==
    ASSUME NEW P \in Seq(Words), NEW T \in Seq(Words), NEW m, IsTable(P, T, m)
    PROVE  \A p \in 0..Len(P), t \in 0..Len(T) : m[p][t] <=> Cuts(P, T, p, t)
  <1>. DEFINE Right(p) == \A t \in 0..Len(T) : m[p][t] <=> Cuts(P, T, p, t)
              Wrong == {k \in 0..Len(P) : ~Right(Len(P) - k)}
  <1>1. Len(P) \in Nat
    OBVIOUS
  <1>2. ASSUME NEW p \in 0..Len(P), p < Len(P) => Right(p + 1)
        PROVE  Right(p)
    <2>1. ASSUME NEW t \in 0..Len(T) PROVE m[p][t] <=> Cuts(P, T, p, t)
      <3>1. m[p][t] = Step(P, T, m, p, t)
        BY TableEntries
      <3>. QED BY <1>2, <3>1, StepDecides
    <2>. QED BY <2>1
  <1>. HIDE DEF Right
  <1>3. Wrong = {}
    <2>. SUFFICES ASSUME Wrong # {} PROVE FALSE
      OBVIOUS
    <2>1. PICK k \in Wrong : \A j \in Wrong : k <= j
      <3>1. Wrong \in SUBSET Nat
        BY <1>1
      <3>. HIDE DEF Wrong
      <3>. QED BY <3>1, LeastNatural
    <2>2. k \in 0..Len(P) /\ ~Right(Len(P) - k)
      OBVIOUS
    <2>. DEFINE p == Len(P) - k
    <2>3. p \in 0..Len(P) /\ (p < Len(P) => k - 1 \in 0..Len(P) /\ Len(P) - (k - 1) = p + 1)
      BY <1>1, <2>2
    <2>4. p < Len(P) => k - 1 \notin Wrong
      BY <1>1, <2>1, <2>2
    <2>5. p < Len(P) => Right(p + 1)
      BY <2>3, <2>4
    <2>. QED BY <1>2, <2>2, <2>3, <2>5
  <1>4. ASSUME NEW p \in 0..Len(P) PROVE Right(p)
    <2>1. Len(P) - p \in 0..Len(P) /\ Len(P) - (Len(P) - p) = p
      BY <1>1
    <2>2. Len(P) - p \notin Wrong
      BY <1>3
    <2>. QED BY <2>1, <2>2
  <1>. QED BY <1>4 DEF Right

LEMMA MatchingDecides ==
    ASSUME NEW P \in Seq(Words), NEW T \in Seq(Words)
    PROVE  Matching(P, T) <=> Cuts(P, T, 0, 0)
  <1>. DEFINE m == CHOOSE m : IsTable(P, T, m)
  <1>1. IsTable(P, T, m)
    BY TableExists
  <1>2. Matching(P, T) = m[0][0]
    BY DEF Matching, IsTable
  <1>. HIDE DEF m
  <1>3. 0 \in 0..Len(P) /\ 0 \in 0..Len(T)
    BY LenProperties
  <1>. QED BY <1>1, <1>2, <1>3, TableDecides

-----------------------------------------------------------------------------
\* Patterns and topics are strings of segments, never without one.
Strings == /\ asked \in Seq(Words) /\ asked # <<>>
           /\ topic \in Seq(Words) /\ topic # <<>>

LEMMA StringsKept == Spec => []Strings
  <1>1. Init => Strings
    <2>. SUFFICES ASSUME Init PROVE Strings OBVIOUS
    <2>1. PICK v \in Words, w \in Words : asked = <<v>> /\ topic = <<w>>
      BY DEF Init
    <2>. QED BY <2>1 DEF Strings
  <1>2. Strings /\ [Next]_vars => Strings'
    <2>. SUFFICES ASSUME Strings, [Next]_vars PROVE Strings' OBVIOUS
    <2>1. ASSUME NEW w \in Words, LongerPattern(w) PROVE Strings'
      BY <2>1, AppendProperties DEF LongerPattern, Strings
    <2>2. ASSUME NEW w \in Words, LongerTopic(w) PROVE Strings'
      BY <2>2, AppendProperties DEF LongerTopic, Strings
    <2>. QED BY <2>1, <2>2 DEF Next, vars, Strings
  <1>. QED BY <1>1, <1>2, PTL DEF Spec

\* The recursive search of the matcher says yes exactly when the topic can be cut
\* into what the pattern's segments take, "*" one segment, "#" any number of them
\* (router.rs:3-6, 43-79), for patterns and topics of any length.
THEOREM MatcherIsRight == Spec => []MatchesAsDocumented
  <1>1. ASSUME Strings PROVE MatchesAsDocumented
    <2>1. Matching(asked, topic) <=> \E cut : IsCutOf(asked, topic, 0, 0, cut)
      BY <1>1, MatchingDecides DEF Cuts, Strings
    <2>2. ASSUME NEW cut \in [0..Len(asked) -> 0..Len(topic)]
          PROVE  IsCutOf(asked, topic, 0, 0, cut) <=> IsCut(cut)
      <3>1. \A p \in 1..Len(asked) : p - 1 \in 0..Len(asked) /\ p \in 0..Len(asked)
        BY <1>1 DEF Strings
      <3>. QED BY <2>2, <3>1 DEF IsCutOf, IsCut, Takes
    <2>3. \A cut : IsCutOf(asked, topic, 0, 0, cut) => cut \in [0..Len(asked) -> 0..Len(topic)]
      BY DEF IsCutOf
    <2>. QED BY <2>1, <2>2, <2>3 DEF MatchesAsDocumented
  <1>. QED BY <1>1, StringsKept, PTL

-----------------------------------------------------------------------------
\* Segment by segment, what the check compares as text.
Starts(P, R) == Len(R) <= Len(P) /\ \A k \in 1..Len(R) : P[k] = R[k]

LEMMA StartsIsText ==
    ASSUME NEW P \in Seq(Words), NEW R \in Seq(Words), R # <<>>
    PROVE  Below(P, R) \/ P = R <=> Starts(P, R)
  <1>1. Len(P) \in Nat /\ Len(R) \in Nat \ {0}
    BY EmptySeq, LenProperties
  <1>2. P = R <=> Len(P) = Len(R) /\ Starts(P, R)
    BY <1>1 DEF Starts
  <1>3. ASSUME Len(P) > Len(R) PROVE SubSeq(P, 1, Len(R)) = R <=> Starts(P, R)
    <2>1. PICK o : o = SubSeq(P, 1, Len(R))
      OBVIOUS
    <2>2. o \in Seq(Words) /\ Len(o) = Len(R) /\ \A k \in 1..Len(R) : o[k] = P[k]
      BY <1>1, <1>3, <2>1, SubSeqProperties
    <2>3. o = R <=> \A k \in 1..Len(R) : o[k] = R[k]
      BY <1>1, <2>2
    <2>. QED BY <1>1, <1>3, <2>1, <2>2, <2>3 DEF Starts
  <1>. QED BY <1>1, <1>2, <1>3 DEF Below, Starts

\* A pattern that starts with R hears no more than R and "#" after it.
LEMMA StartNarrows ==
    ASSUME NEW P \in Seq(Words), NEW T \in Seq(Words), NEW R \in Seq(Words),
           Starts(P, R), Matching(P, T)
    PROVE  Matching(R \o <<Hash>>, T)
  <1>. DEFINE W == R \o <<Hash>>
  <1>1. Len(P) \in Nat /\ Len(T) \in Nat /\ Len(R) \in Nat /\ Len(R) <= Len(P)
    BY DEF Starts
  <1>2. /\ W \in Seq(Words) /\ Len(W) = Len(R) + 1 /\ W[Len(R) + 1] = Hash
        /\ \A k \in 1..Len(R) : W[k] = R[k]
    <2>1. <<Hash>> \in Seq(Words)
      BY DEF Words
    <2>. QED BY <1>1, <2>1
  <1>. HIDE DEF W
  <1>3. PICK cut : IsCutOf(P, T, 0, 0, cut)
    BY MatchingDecides DEF Cuts
  <1>. DEFINE wide == [q \in 0..Len(W) |-> IF q <= Len(R) THEN cut[q] ELSE Len(T)]
  <1>4. cut \in [0..Len(P) -> 0..Len(T)] /\ cut[0] = 0
    BY <1>3 DEF IsCutOf
  <1>5. wide \in [0..Len(W) -> 0..Len(T)] /\ wide[0] = 0 /\ wide[Len(W)] = Len(T)
    BY <1>1, <1>2, <1>4
  <1>6. \A q \in 0..Len(R) : wide[q] = cut[q]
    BY <1>1, <1>2
  <1>. HIDE DEF wide
  <1>7. ASSUME NEW q \in (0 + 1)..Len(W) PROVE Takes(W, T, q, wide[q - 1], wide[q])
    <2>1. CASE q = Len(R) + 1
      <3>1. wide[q - 1] \in 0..Len(T) /\ wide[q] = Len(T) /\ W[q] = Hash
        BY <1>1, <1>2, <1>5, <2>1
      <3>. QED BY <3>1 DEF Takes
    <2>2. CASE q # Len(R) + 1
      <3>0. /\ q \in 1..Len(R) /\ q \in (0 + 1)..Len(P)
            /\ q - 1 \in 0..Len(R) /\ q \in 0..Len(R)
        BY <1>1, <1>2, <2>2
      <3>1. /\ q \in 1..Len(R) /\ q \in (0 + 1)..Len(P)
            /\ wide[q - 1] = cut[q - 1] /\ wide[q] = cut[q]
        BY <3>0, <1>6
      <3>2. Takes(P, T, q, cut[q - 1], cut[q])
        BY <1>3, <3>1 DEF IsCutOf
      <3>3. W[q] = P[q]
        BY <1>2, <3>1 DEF Starts
      <3>. QED BY <3>1, <3>2, <3>3 DEF Takes
    <2>. QED BY <2>1, <2>2
  <1>8. Cuts(W, T, 0, 0)
    BY <1>5, <1>7 DEF Cuts, IsCutOf
  <1>. QED BY <1>2, <1>8, MatchingDecides DEF W

\* Where R has no wildcards, what R and "#" after it hear starts with R.
LEMMA PlainIsLiteral ==
    ASSUME NEW T \in Seq(Words), NEW R \in Seq(Words), \A k \in 1..Len(R) : R[k] \in Segments,
           Matching(R \o <<Hash>>, T)
    PROVE  Starts(T, R)
  <1>. DEFINE W == R \o <<Hash>>
  <1>1. Len(T) \in Nat /\ Len(R) \in Nat
    OBVIOUS
  <1>2. W \in Seq(Words) /\ Len(W) = Len(R) + 1 /\ \A k \in 1..Len(R) : W[k] = R[k]
    <2>1. <<Hash>> \in Seq(Words)
      BY DEF Words
    <2>. QED BY <1>1, <2>1
  <1>3. PICK cut : IsCutOf(W, T, 0, 0, cut)
    BY <1>2, MatchingDecides DEF Cuts
  <1>. HIDE DEF W
  <1>4. ASSUME NEW q \in 1..Len(R)
        PROVE  cut[q] = cut[q - 1] + 1 /\ cut[q] <= Len(T) /\ R[q] = T[cut[q]]
    <2>1. Takes(W, T, q, cut[q - 1], cut[q])
      BY <1>1, <1>2, <1>3 DEF IsCutOf
    <2>2. W[q] = R[q] /\ R[q] # Hash /\ R[q] # Star
      BY <1>2, SegmentsAssumption
    <2>. QED BY <2>1, <2>2 DEF Takes
  <1>5. \A q \in 0..Len(R) : cut[q] = q
    <2>. DEFINE Off == {q \in 0..Len(R) : cut[q] # q}
    <2>. SUFFICES ASSUME Off # {} PROVE FALSE
      OBVIOUS
    <2>1. PICK q \in Off : \A r \in Off : q <= r
      <3>1. Off \in SUBSET Nat
        BY <1>1
      <3>. HIDE DEF Off
      <3>. QED BY <3>1, LeastNatural
    <2>2. cut[0] = 0
      BY <1>3 DEF IsCutOf
    <2>3. q \in 1..Len(R) /\ q - 1 \in 0..Len(R) /\ q - 1 \notin Off
      BY <1>1, <2>1, <2>2
    <2>4. cut[q - 1] = q - 1
      BY <2>3
    <2>. QED BY <1>1, <1>4, <2>3, <2>4
  <1>6. ASSUME NEW k \in 1..Len(R) PROVE k <= Len(T) /\ T[k] = R[k]
    <2>1. cut[k] = k
      BY <1>1, <1>5
    <2>. QED BY <1>4, <2>1
  <1>. QED BY <1>1, <1>6 DEF Starts

\* The two namespaces a name may hear.
Namespaces(id) == {<<System>>, id}

LEMMA NamespacesAreStrings ==
    ASSUME NEW id \in Names, NEW R \in Namespaces(id)
    PROVE  R \in Seq(Words) /\ R # <<>>
  <1>1. <<System>> \in Seq(Words) /\ <<System>> # <<>>
    BY SegmentsAssumption DEF Words
  <1>. QED BY <1>1, NamesAssumption DEF Namespaces

\* Whatever pattern passes the check on a module's subscription, whatever the module
\* is called, it hears nothing that "system.#" and "{module_id}.#" would not hear
\* (manager.rs:119-162, router.rs:43-79).
THEOREM ModulesAreIsolated == Spec => []Isolated
  <1>1. ASSUME Strings PROVE Isolated
    <2>. SUFFICES ASSUME NEW id \in Names, Allowed(id, asked), Matching(asked, topic)
                  PROVE  MeantFor(id)
      BY DEF Isolated
    <2>1. PICK R \in Namespaces(id) : Below(asked, R) \/ asked = R
      BY DEF Allowed, Namespaces
    <2>2. Starts(asked, R)
      BY <1>1, <2>1, NamespacesAreStrings, StartsIsText DEF Strings
    <2>3. Matching(R \o <<Hash>>, topic)
      BY <1>1, <2>2, NamespacesAreStrings, StartNarrows DEF Strings
    <2>4. <<System, Hash>> = <<System>> \o <<Hash>>
      OBVIOUS
    <2>. QED BY <2>3, <2>4 DEF MeantFor, Namespaces
  <1>. QED BY <1>1, StringsKept, PTL

\* A module with a plain name may ask for any event "system.#" and "{module_id}.#"
\* hear by spelling its topic out (manager.rs:131-154, router.rs:52-58).
THEOREM OwnEventsAreReachable == Spec => []OwnEventsReachable
  <1>1. ASSUME Strings PROVE OwnEventsReachable
    <2>. SUFFICES ASSUME NEW id \in Names, Plain(id), MeantFor(id)
                  PROVE  Allowed(id, topic) /\ Matching(topic, topic)
      BY DEF OwnEventsReachable
    <2>1. PICK R \in Namespaces(id) : Matching(R \o <<Hash>>, topic)
      <3>1. <<System, Hash>> = <<System>> \o <<Hash>>
        OBVIOUS
      <3>. QED BY <3>1 DEF MeantFor, Namespaces
    <2>2. /\ R \in Seq(Words) /\ R # <<>> /\ R # <<Empty>>
          /\ \A k \in 1..Len(R) : R[k] \in Segments
      <3>1. CASE R = <<System>>
        <4>1. Len(R) = 1 /\ R[1] = System
          BY <3>1
        <4>2. R # <<Empty>>
          BY <3>1, SegmentsAssumption
        <4>. QED BY <4>1, <4>2, NamespacesAreStrings, SegmentsAssumption
      <3>2. CASE R = id
        BY <3>2, NamespacesAreStrings DEF Plain
      <3>. QED BY <3>1, <3>2 DEF Namespaces
    <2>3. Below(topic, R) \/ topic = R
      BY <1>1, <2>1, <2>2, PlainIsLiteral, StartsIsText DEF Strings
    <2>4. topic \notin {<<Empty>>, <<Star>>, <<Hash>>}
      <3>1. ASSUME NEW w \in {Empty, Star, Hash} PROVE topic # <<w>>
        <4>1. Len(R) \in Nat \ {0} /\ Len(<<w>>) = 1
          BY <2>2, EmptySeq, LenProperties
        <4>2. ~Below(<<w>>, R)
          BY <4>1 DEF Below
        <4>3. R # <<w>>
          <5>1. CASE w = Empty
            BY <2>2, <5>1
          <5>2. CASE w # Empty
            <6>1. w \notin Segments
              BY <5>2, SegmentsAssumption
            <6>2. <<w>>[1] = w /\ Len(<<w>>) = 1
              OBVIOUS
            <6>. QED BY <2>2, <6>1, <6>2
          <5>. QED BY <5>1, <5>2
        <4>. QED BY <2>3, <4>2, <4>3
      <3>. QED BY <3>1
    <2>5. Allowed(id, topic)
      BY <2>3, <2>4 DEF Allowed, Namespaces
    <2>. DEFINE cut == [p \in 0..Len(topic) |-> p]
    <2>6. IsCutOf(topic, topic, 0, 0, cut)
      <3>1. Len(topic) \in Nat
        BY <1>1 DEF Strings
      <3>2. \A q \in (0 + 1)..Len(topic) : cut[q - 1] = q - 1 /\ cut[q] = q
        BY <3>1
      <3>3. /\ cut \in [0..Len(topic) -> 0..Len(topic)]
            /\ cut[0] = 0 /\ cut[Len(topic)] = Len(topic)
        BY <3>1
      <3>. HIDE DEF cut
      <3>. QED BY <3>1, <3>2, <3>3 DEF IsCutOf, Takes
    <2>7. Matching(topic, topic)
      BY <1>1, <2>6, MatchingDecides DEF Cuts, Strings
    <2>. QED BY <2>5, <2>7
  <1>. QED BY <1>1, StringsKept, PTL
=============================================================================
