-------------------------- MODULE EvaluationProofs --------------------------
(***************************************************************************)
(* What evaluation computes with loops, counters and early exits, shown    *)
(* for all inputs to be what EvaluationProperties says without them.       *)
(***************************************************************************)
EXTENDS EvaluationProperties, FoldLemmas

(* Two sets of positions of a sequence, one in the other, are equal when they
   have as many elements: what the counters of the code compare. *)
LEMMA CountedAll ==
  ASSUME NEW S, IsFiniteSet(S), NEW T \in SUBSET S
  PROVE  Cardinality(T) = Cardinality(S) <=> T = S
BY FS_Subset

LEMMA Positions ==
  ASSUME NEW E, NEW s \in Seq(E)
  PROVE  /\ DOMAIN s \subseteq Nat \ {0} /\ IsFiniteSet(DOMAIN s)
         /\ Cardinality(DOMAIN s) = Len(s)
         /\ \A i \in DOMAIN s : \A j \in 1..(i - 1) : j \in DOMAIN s /\ j < i
<1>1. DOMAIN s = 1..Len(s) /\ Len(s) \in Nat
  BY LenProperties
<1>2. IsFiniteSet(1..Len(s)) /\ Cardinality(1..Len(s)) = Len(s)
  <2>1. IsFiniteSet(1..Len(s))
        /\ Cardinality(1..Len(s)) = IF 1 > Len(s) THEN 0 ELSE Len(s) - 1 + 1
    BY <1>1, FS_Interval
  <2>. QED
    BY <2>1, <1>1
<1>. QED
  BY <1>1, <1>2

-----------------------------------------------------------------------------
(* A constraint whose type is not known never matches. *)
LEMMA MatchedTypes ==
  ASSUME NEW c, NEW r, MatchesConstraint(c, r)
  PROVE  c.type \in Types
BY DEF MatchesConstraint, Types

(* The loop of matches_constraints, with its counter and its early exits,
   answers whether the request is in the segment, for all sequences of
   constraints (lib.rs:440-498). *)
THEOREM LoopDecidesSegment ==
  ASSUME NEW s, NEW r, NEW E, s.constraints \in Seq(E), s.matchType \in {"all", "any"}
  PROVE  MatchesConstraints(s.constraints, s.matchType, r) <=> InSegment(s, r)
<1>. DEFINE cs == s.constraints
            match(i) == MatchesConstraint(cs[i], r)
            known(i) == cs[i].type \in Types
            examined == Examined(cs, s.matchType, r)
            matches == {i \in examined : match(i)}
<1>1. /\ DOMAIN cs \subseteq Nat \ {0} /\ IsFiniteSet(DOMAIN cs)
      /\ Cardinality(DOMAIN cs) = Len(cs)
      /\ \A i \in DOMAIN cs : \A j \in 1..(i - 1) : j \in DOMAIN cs /\ j < i
  BY Positions
<1>2. \A i : match(i) => known(i)
  BY MatchedTypes
<1>3. CASE s.matchType = "all"
  <2>1. examined = {i \in DOMAIN cs : \A j \in 1..(i - 1) : known(j) /\ match(j)}
    BY <1>3 DEF Examined
  <2>2. matches \in SUBSET DOMAIN cs
    BY <2>1
  <2>3. Cardinality(matches) = Len(cs) <=> matches = DOMAIN cs
    BY <1>1, <2>2, CountedAll
  <2>4. matches = DOMAIN cs <=> \A i \in DOMAIN cs : match(i)
    BY <1>1, <1>2, <2>1
  <2>5. MatchesConstraints(cs, s.matchType, r) <=>
          (\A i \in examined : known(i)) /\ Cardinality(matches) = Len(cs)
    BY <1>3 DEF MatchesConstraints
  <2>6. InSegment(s, r) <=> \A i \in DOMAIN cs : match(i)
    BY <1>3 DEF InSegment
  <2>. QED
    BY <1>2, <2>1, <2>3, <2>4, <2>5, <2>6
<1>4. CASE s.matchType = "any" /\ cs = <<>>
  BY <1>4 DEF MatchesConstraints, InSegment, Examined
<1>5. CASE s.matchType = "any" /\ cs # <<>>
  <2>1. examined = {i \in DOMAIN cs : \A j \in 1..(i - 1) : known(j) /\ ~match(j)}
    BY <1>5 DEF Examined
  <2>2. MatchesConstraints(cs, s.matchType, r) <=>
          (\A i \in examined : known(i)) /\ matches # {}
    BY <1>5 DEF MatchesConstraints
  <2>3. InSegment(s, r) <=>
          \E i \in DOMAIN cs : match(i) /\ \A j \in 1..i : known(j)
    BY <1>5 DEF InSegment
  <2>4. ASSUME \A i \in examined : known(i), NEW i \in matches
        PROVE  match(i) /\ i \in DOMAIN cs /\ \A j \in 1..i : known(j)
    <3>1. match(i) /\ i \in examined /\ i \in DOMAIN cs /\ i \in Nat \ {0}
      BY <1>1, <2>1
    <3>2. \A j \in 1..i : j = i \/ j \in 1..(i - 1)
      BY <3>1
    <3>. QED
      BY <3>1, <3>2, <2>1, <2>4
  <2>5. ASSUME NEW i \in DOMAIN cs, match(i), \A j \in 1..i : known(j)
        PROVE  (\A k \in examined : known(k)) /\ matches # {}
    <3>. DEFINE S == {k \in DOMAIN cs : k <= i /\ match(k)}
    <3>1. S \in SUBSET Nat /\ i \in S
      BY <1>1, <2>5
    <3>2. PICK m \in S : \A k \in S : m <= k
      BY <3>1, Least
    <3>3. m \in DOMAIN cs /\ m \in Nat \ {0} /\ m <= i /\ match(m) /\ i \in Nat
      BY <1>1
    <3>4. \A j \in 1..(m - 1) : known(j) /\ ~match(j)
      <4>. SUFFICES ASSUME NEW j \in 1..(m - 1) PROVE known(j) /\ ~match(j)
        OBVIOUS
      <4>1. j \in DOMAIN cs /\ j < m /\ j \in 1..i
        BY <1>1, <3>3
      <4>. QED
        BY <2>5, <3>2, <3>3, <4>1
    <3>5. m \in matches
      BY <2>1, <3>3, <3>4
    <3>6. ASSUME NEW k \in examined PROVE known(k)
      <4>1. k \in DOMAIN cs /\ k \in Nat \ {0} /\ \A j \in 1..(k - 1) : ~match(j)
        BY <1>1, <2>1
      <4>2. k <= m
        <5>1. ~(m < k)
          <6>1. m < k => m \in 1..(k - 1)
            BY <3>3, <4>1
          <6>. QED
            BY <6>1, <3>3, <4>1
        <5>. QED
          BY <5>1, <3>3, <4>1
      <4>3. k \in 1..i
        BY <3>3, <4>1, <4>2
      <4>. QED
        BY <2>5, <4>3
    <3>. QED
      BY <3>5, <3>6
  <2>. QED
    BY <2>2, <2>3, <2>4, <2>5
<1>. QED
  BY <1>3, <1>4, <1>5

(* The loop over the segments of a rule counts the ones that match: "and"
   asks for all of them, "or" for one (lib.rs:175-203, 337-352). *)
THEOREM CountDecidesSegments ==
  ASSUME NEW segments, IsFiniteSet(DOMAIN segments), NEW r
  PROVE  LET matched(k) == MatchesConstraints(segments[k].constraints,
                                              segments[k].matchType, r)
         IN /\ SegmentsMatch(segments, "and", r) <=> \A k \in DOMAIN segments : matched(k)
            /\ SegmentsMatch(segments, "or", r) <=> \E k \in DOMAIN segments : matched(k)
<1>. DEFINE matched(k) == MatchesConstraints(segments[k].constraints, segments[k].matchType, r)
            M == MatchedSegments(segments, r)
<1>1. M = {k \in DOMAIN segments : matched(k)}
  BY DEF MatchedSegments
<1>2. Cardinality(M) = Cardinality(DOMAIN segments) <=> M = DOMAIN segments
  BY <1>1, CountedAll
<1>3. SegmentsMatch(segments, "and", r) <=> Cardinality(M) = Cardinality(DOMAIN segments)
  BY DEF SegmentsMatch
<1>4. SegmentsMatch(segments, "or", r) <=> M # {}
  BY DEF SegmentsMatch
<1>. HIDE DEF M, matched
<1>5. SegmentsMatch(segments, "and", r) <=> \A k \in DOMAIN segments : matched(k)
  BY <1>1, <1>2, <1>3
<1>6. SegmentsMatch(segments, "or", r) <=> \E k \in DOMAIN segments : matched(k)
  BY <1>1, <1>4
<1>. QED
  BY <1>5, <1>6 DEF matched

-----------------------------------------------------------------------------
(* Rules and rollouts as Build ranks them. *)
Ranked(items) == \A i \in DOMAIN items : items[i].rank = i

LEMMA BuiltRanks ==
  ASSUME NEW flag
  PROVE  /\ Ranked([i \in DOMAIN flag.rules |-> BuildRule(flag, i)])
         /\ Ranked([i \in DOMAIN flag.rollouts |-> BuildRollout(flag, i)])
BY DEF Ranked, BuildRule, BuildRollout

(* Ranked items are never out of order, and the loop stops at the first one
   that applies. *)
LEMMA StopsAtFirst ==
  ASSUME NEW E, NEW items \in Seq(E), Ranked(items), NEW A \in SUBSET DOMAIN items
  PROVE  /\ \A i \in DOMAIN items : ~OutOfOrder(items, i)
         /\ A = {} => StopsAt(items, A) = 0
         /\ A # {} => /\ StopsAt(items, A) \in A
                      /\ \A j \in A : StopsAt(items, A) <= j
<1>1. DOMAIN items \subseteq Nat \ {0}
      /\ \A i \in DOMAIN items : \A j \in 1..(i - 1) : j \in DOMAIN items /\ j < i
  BY Positions
<1>2. ASSUME NEW i \in DOMAIN items PROVE ~OutOfOrder(items, i)
  <2>1. CASE i = 1
    BY <2>1 DEF OutOfOrder, Ranked
  <2>2. CASE i # 1
    <3>1. i \in Nat \ {0} /\ i - 1 \in 1..(i - 1)
      BY <1>1, <2>2
    <3>2. i - 1 \in DOMAIN items
      BY <1>1, <3>1
    <3>3. items[i].rank = i /\ items[i - 1].rank = i - 1
      BY <3>2 DEF Ranked
    <3>. QED
      BY <2>2, <3>1, <3>3 DEF OutOfOrder
  <2>. QED
    BY <2>1, <2>2
<1>. DEFINE stops == A \cup {i \in DOMAIN items : OutOfOrder(items, i)}
<1>3. stops = A
  BY <1>2
<1>4. StopsAt(items, A) = IF A = {} THEN 0 ELSE CHOOSE i \in A : \A j \in A : i <= j
  <2>1. StopsAt(items, A) =
          IF stops = {} THEN 0 ELSE CHOOSE i \in stops : \A j \in stops : i <= j
    BY Zenon DEF StopsAt
  <2>. HIDE DEF stops
  <2>. QED
    BY <1>3, <2>1
<1>5. A # {} => \E i \in A : \A j \in A : i <= j
  BY <1>1, Least
<1>. QED
  BY <1>2, <1>4, <1>5

(* A boolean flag is never refused for its ranks: its first rollout that
   applies decides, and "enabled" if none does (lib.rs:278-384). *)
THEOREM FirstRolloutDecides ==
  ASSUME NEW s, NEW r, NEW E,
         Has(s, s.flags, r.flag), s.flags[r.flag].type = "boolean",
         Has(s, s.rollouts, r.flag),
         s.rollouts[r.flag] \in Seq(E), Ranked(s.rollouts[r.flag])
  PROVE  LET rollouts == s.rollouts[r.flag]
             applying == {j \in DOMAIN rollouts : RolloutApplies(rollouts[j], r)}
         IN \/ applying = {} /\ BooleanAnswer(s, r) =
                 [ok |-> TRUE, enabled |-> s.flags[r.flag].enabled, reason |-> "default",
                  segments |-> {}]
            \/ \E i \in applying :
                 (\A j \in applying : i <= j) /\ BooleanAnswer(s, r) = BooleanMatch(rollouts[i], r)
<1>. DEFINE rollouts == s.rollouts[r.flag]
            applying == {j \in DOMAIN rollouts : RolloutApplies(rollouts[j], r)}
            i == StopsAt(rollouts, applying)
<1>1. /\ \A j \in DOMAIN rollouts : ~OutOfOrder(rollouts, j)
      /\ applying = {} => i = 0
      /\ applying # {} => i \in applying /\ \A j \in applying : i <= j
  BY StopsAtFirst
<1>2. DOMAIN rollouts \subseteq Nat \ {0}
  BY Positions
<1>3. BooleanAnswer(s, r) =
        IF i = 0 THEN [ok |-> TRUE, enabled |-> s.flags[r.flag].enabled, reason |-> "default",
                       segments |-> {}]
        ELSE IF OutOfOrder(rollouts, i) THEN Refusal("rank")
        ELSE BooleanMatch(rollouts[i], r)
  BY DEF BooleanAnswer
<1>. HIDE DEF i
<1>4. CASE applying = {}
  BY <1>1, <1>3, <1>4
<1>5. CASE applying # {}
  <2>1. i \in applying /\ i \in DOMAIN rollouts /\ i # 0 /\ \A j \in applying : i <= j
    BY <1>1, <1>2, <1>5
  <2>. QED
    BY <1>1, <1>3, <2>1
<1>. QED
  BY <1>4, <1>5

(* The same for the rules of a variant flag that is enabled
   (lib.rs:108-276). *)
THEOREM FirstRuleDecides ==
  ASSUME NEW s, NEW r, NEW E,
         Has(s, s.flags, r.flag), s.flags[r.flag].type = "variant", s.flags[r.flag].enabled,
         Has(s, s.rules, r.flag),
         s.rules[r.flag] \in Seq(E), Ranked(s.rules[r.flag])
  PROVE  LET rules == s.rules[r.flag]
             flag == s.flags[r.flag]
             applying == {j \in DOMAIN rules :
                            SegmentsMatch(rules[j].segments, rules[j].operator, r)}
         IN \/ applying = {} /\ VariantAnswers(s, r) = {DefaultAnswer(flag)}
            \/ \E i \in applying :
                 (\A j \in applying : i <= j) /\ VariantAnswers(s, r) = VariantRule(s, rules[i], flag, r)
<1>. DEFINE rules == s.rules[r.flag]
            flag == s.flags[r.flag]
            applying == {j \in DOMAIN rules :
                           SegmentsMatch(rules[j].segments, rules[j].operator, r)}
            i == StopsAt(rules, applying)
<1>1. /\ \A j \in DOMAIN rules : ~OutOfOrder(rules, j)
      /\ applying = {} => i = 0
      /\ applying # {} => i \in applying /\ \A j \in applying : i <= j
  <2>1. applying \in SUBSET DOMAIN rules
    OBVIOUS
  <2>2. rules \in Seq(E) /\ Ranked(rules)
    OBVIOUS
  <2>. HIDE DEF applying, rules
  <2>. QED
    BY <2>1, <2>2, StopsAtFirst
<1>2. DOMAIN rules \subseteq Nat \ {0}
  BY Positions
<1>3. VariantAnswers(s, r) =
        IF i = 0 THEN {DefaultAnswer(flag)}
        ELSE IF OutOfOrder(rules, i) THEN {Refusal("rank")}
        ELSE VariantRule(s, rules[i], flag, r)
  BY DEF VariantAnswers
<1>. HIDE DEF i
<1>4. CASE applying = {}
  BY <1>1, <1>3, <1>4
<1>5. CASE applying # {}
  <2>1. i \in applying /\ i \in DOMAIN rules /\ i # 0 /\ \A j \in applying : i <= j
    BY <1>1, <1>2, <1>5
  <2>. QED
    BY <1>1, <1>3, <2>1
<1>. QED
  BY <1>4, <1>5

(* An entity that the threshold in front takes keeps its answer when the
   percentage is raised, whatever else the server changes behind that rollout
   (lib.rs:322-336). *)
THEOREM RaisingKeepsAlways ==
  ASSUME NEW s, NEW t, NEW r, NEW E,
         \A d \in {s, t} :
           /\ Has(d, d.flags, r.flag) /\ d.flags[r.flag].type = "boolean"
           /\ Has(d, d.rollouts, r.flag)
           /\ d.rollouts[r.flag] \in Seq(E) /\ d.rollouts[r.flag] # <<>>
           /\ Ranked(d.rollouts[r.flag]),
         NEW low \in Nat, NEW high \in Nat, low <= high, NEW value,
         s.rollouts[r.flag][1].threshold = <<[percentage |-> low, value |-> value]>>,
         t.rollouts[r.flag][1].threshold = <<[percentage |-> high, value |-> value]>>,
         Crc32(r.entity, r.flag) \in Nat,
         RolloutApplies(s.rollouts[r.flag][1], r)
  PROVE  BooleanAnswer(t, r) = BooleanAnswer(s, r)
<1>. DEFINE Match == [ok |-> TRUE, enabled |-> value, reason |-> "match", segments |-> {}]
<1>1. ASSUME NEW rollout, NEW percentage \in Nat, low <= percentage,
             rollout.threshold = <<[percentage |-> percentage, value |-> value]>>
      PROVE  RolloutApplies(rollout, r) /\ BooleanMatch(rollout, r) = Match
  <2>1. rollout.threshold # <<>> /\ rollout.threshold[1].percentage = percentage
        /\ rollout.threshold[1].value = value
    BY <1>1
  <2>2. s.rollouts[r.flag][1].threshold # <<>>
        /\ s.rollouts[r.flag][1].threshold[1].percentage = low
    OBVIOUS
  <2>3. 100 * (Crc32(r.entity, r.flag) % 100) < low
    BY <2>2 DEF RolloutApplies
  <2>4. 100 * (Crc32(r.entity, r.flag) % 100) < percentage
    <3>. DEFINE b == Crc32(r.entity, r.flag) % 100
    <3>1. b \in Nat
      OBVIOUS
    <3>. HIDE DEF b
    <3>2. 100 * b < low => 100 * b < percentage
      BY <1>1, <3>1
    <3>. QED
      BY <2>3, <3>2 DEF b
  <2>. QED
    BY <2>1, <2>4 DEF RolloutApplies, BooleanMatch
<1>2. ASSUME NEW d \in {s, t}, NEW percentage \in Nat, low <= percentage,
             d.rollouts[r.flag][1].threshold = <<[percentage |-> percentage, value |-> value]>>
      PROVE  BooleanAnswer(d, r) = Match
  <2>. DEFINE rollouts == d.rollouts[r.flag]
              applying == {j \in DOMAIN rollouts : RolloutApplies(rollouts[j], r)}
  <2>1. rollouts \in Seq(E) /\ rollouts # <<>>
    OBVIOUS
  <2>2. 1 \in DOMAIN rollouts /\ DOMAIN rollouts \subseteq Nat \ {0}
    <3>1. Len(rollouts) \in Nat \ {0} /\ DOMAIN rollouts = 1..Len(rollouts)
      BY <2>1, EmptySeq, LenProperties
    <3>. QED
      BY <3>1
  <2>3. RolloutApplies(rollouts[1], r) /\ BooleanMatch(rollouts[1], r) = Match
    BY <1>1, <1>2
  <2>4. 1 \in applying
    BY <2>2, <2>3
  <2>5. \/ applying = {}
        \/ \E i \in applying :
             (\A j \in applying : i <= j) /\ BooleanAnswer(d, r) = BooleanMatch(rollouts[i], r)
    BY FirstRolloutDecides
  <2>6. PICK i \in applying :
          (\A j \in applying : i <= j) /\ BooleanAnswer(d, r) = BooleanMatch(rollouts[i], r)
    BY <2>4, <2>5
  <2>7. i \in Nat \ {0} /\ i <= 1
    BY <2>2, <2>4, <2>6
  <2>8. i = 1
    BY <2>7
  <2>. QED
    BY <2>3, <2>6, <2>8
<1>3. BooleanAnswer(s, r) = Match
  BY <1>2
<1>4. BooleanAnswer(t, r) = Match
  BY <1>2
<1>. QED
  BY <1>3, <1>4

-----------------------------------------------------------------------------
ConstraintRecords ==
  [type : Types \ {"entity"}, property : STRING, operator : STRING, value : STRING]

(* Two constraints with opposite operators exclude each other, whatever the
   texts parse to, and exactly one holds of a value that can be read
   (lib.rs:500-677). *)
THEOREM OppositesExcludeAlways ==
  ASSUME NEW c \in ConstraintRecords, NEW r, NEW pair \in OppositesOf(c.type),
         c.operator = pair[1]
  PROVE  LET one == MatchesConstraint(c, r)
             other == MatchesConstraint([c EXCEPT !.operator = pair[2]], r)
         IN IF Reads(c, ContextValue(r.context, c.property))
            THEN one <=> ~other ELSE ~one /\ ~other
<1>. DEFINE d == [c EXCEPT !.operator = pair[2]]
            v == ContextValue(r.context, c.property)
<1>1. /\ d.type = c.type /\ d.property = c.property /\ d.value = c.value
      /\ d.operator = pair[2]
      /\ c.type \in {"string", "number", "boolean", "datetime"}
  BY DEF ConstraintRecords, Types
<1>. DEFINE Opposed == IF Reads(c, v)
                       THEN MatchesConstraint(c, r) <=> ~MatchesConstraint(d, r)
                       ELSE ~MatchesConstraint(c, r) /\ ~MatchesConstraint(d, r)
<1>. SUFFICES Opposed
  OBVIOUS
<1>. HIDE DEF d, v
<1>2. CASE c.type = "string"
  <2>1. pair \in {<<"eq", "neq">>, <<"isoneof", "isnotoneof">>, <<"contains", "notcontains">>}
    BY <1>2 DEF OppositesOf, Opposites
  <2>2. MatchesConstraint(c, r) <=> MatchesString(c, v)
    BY <1>2 DEF MatchesConstraint, v
  <2>3. MatchesConstraint(d, r) <=> MatchesString(d, v)
    BY <1>1, <1>2 DEF MatchesConstraint, v
  <2>4. Reads(c, v) <=> v # NoText
    BY <1>2 DEF Reads
  <2>5. CASE pair = <<"eq", "neq">>
    BY <1>1, <2>2, <2>3, <2>4, <2>5 DEF MatchesString
  <2>6. CASE pair = <<"isoneof", "isnotoneof">>
    BY <1>1, <2>2, <2>3, <2>4, <2>6 DEF MatchesString
  <2>7. CASE pair = <<"contains", "notcontains">>
    BY <1>1, <2>2, <2>3, <2>4, <2>7 DEF MatchesString
  <2>. QED
    BY <2>1, <2>5, <2>6, <2>7
<1>3. CASE c.type = "number"
  <2>1. pair \in {<<"eq", "neq">>, <<"isoneof", "isnotoneof">>, <<"lt", "gte">>, <<"gt", "lte">>}
    BY <1>3 DEF OppositesOf, Opposites
  <2>2. MatchesConstraint(c, r) <=> MatchesNumber(c, v)
    BY <1>3 DEF MatchesConstraint, v
  <2>3. MatchesConstraint(d, r) <=> MatchesNumber(d, v)
    BY <1>1, <1>3 DEF MatchesConstraint, v
  <2>4. Reads(c, v) <=> v \in DOMAIN Numeral /\
          c.value \in DOMAIN (IF c.operator = "isoneof" THEN NumberList ELSE Numeral)
    BY <1>3 DEF Reads
  <2>5. CASE pair = <<"isoneof", "isnotoneof">>
    BY <1>1, <2>2, <2>3, <2>4, <2>5 DEF MatchesNumber, Presence, Compare
  <2>6. CASE pair = <<"eq", "neq">>
    BY <1>1, <2>2, <2>3, <2>4, <2>6 DEF MatchesNumber, Presence, Compare
  <2>7. CASE pair \in {<<"lt", "gte">>, <<"gt", "lte">>}
    BY <1>1, <2>2, <2>3, <2>4, <2>7, ParseAssumption DEF MatchesNumber, Presence, Compare
  <2>. QED
    BY <2>1, <2>5, <2>6, <2>7
<1>4. CASE c.type = "boolean"
  <2>1. pair = <<"true", "false">>
    BY <1>4 DEF OppositesOf, Opposites
  <2>2. MatchesConstraint(c, r) <=> MatchesBoolean(c, v)
    BY <1>4 DEF MatchesConstraint, v
  <2>3. MatchesConstraint(d, r) <=> MatchesBoolean(d, v)
    BY <1>1, <1>4 DEF MatchesConstraint, v
  <2>4. Reads(c, v) <=> v \in DOMAIN Truth
    BY <1>4 DEF Reads
  <2>5. CASE v \in DOMAIN Truth
    BY <1>1, <2>1, <2>2, <2>3, <2>4, <2>5 DEF MatchesBoolean, Presence
  <2>6. CASE v \notin DOMAIN Truth
    BY <1>1, <2>1, <2>2, <2>3, <2>4, <2>6 DEF MatchesBoolean, Presence
  <2>. QED
    BY <2>5, <2>6
<1>5. CASE c.type = "datetime"
  <2>1. pair \in {<<"eq", "neq">>, <<"lt", "gte">>, <<"gt", "lte">>}
    BY <1>5 DEF OppositesOf, Opposites
  <2>2. MatchesConstraint(c, r) <=> MatchesDatetime(c, v)
    BY <1>5 DEF MatchesConstraint, v
  <2>3. MatchesConstraint(d, r) <=> MatchesDatetime(d, v)
    BY <1>1, <1>5 DEF MatchesConstraint, v
  <2>4. Reads(c, v) <=> v \in DOMAIN Timestamp /\ c.value \in DOMAIN Timestamp
    BY <1>5 DEF Reads
  <2>6. CASE pair = <<"eq", "neq">>
    BY <1>1, <2>2, <2>3, <2>4, <2>6 DEF MatchesDatetime, Presence, Compare
  <2>7. CASE pair \in {<<"lt", "gte">>, <<"gt", "lte">>}
    BY <1>1, <2>2, <2>3, <2>4, <2>7, ParseAssumption DEF MatchesDatetime, Presence, Compare
  <2>. QED
    BY <2>1, <2>6, <2>7
<1>. QED
  BY <1>1, <1>2, <1>3, <1>4, <1>5

=============================================================================
