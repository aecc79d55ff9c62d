---------------------------- MODULE MCEvaluation ----------------------------
(***************************************************************************)
(* Documents and requests for TLC: every operator of every type alone, all *)
(* pairs of some segments, of some rules and of some rollouts, and what is *)
(* odd: repeated keys, rollouts of zero, another namespace.                *)
(***************************************************************************)
EXTENDS EvaluationProperties

CONSTANT Buckets   \* entity -> the bucket its hash falls into

MCNumeral == [t \in {"1", "2"} |-> IF t = "1" THEN 1 ELSE 2]
MCTruth == [t \in {"true", "false"} |-> t = "true"]
MCTimestamp == [t \in {"noon", "noon UTC", "night"} |-> IF t = "night" THEN 22 ELSE 12]
MCTextList == [t \in {"[ab]"} |-> {"ab"}]
MCNumberList == [t \in {"[1]"} |-> {1}]
MCStartsWith == {<<"ab", "a">>, <<"a", "a">>}
MCEndsWith == {<<"a", "a">>}
MCIncludes == {<<"ab", "a">>, <<"a", "a">>}

MCBuckets == [e \in {"e1", "e2", "e3", "e4"} |->
                CASE e = "e1" -> 0 [] e = "e2" -> 332 [] e = "e3" -> 500 [] e = "e4" -> 999]
MCCrc32(a, b) ==
  IF b \in DOMAIN Buckets THEN 7000 + Buckets[b] ELSE 3300 + (Buckets[a] \div 10)

-----------------------------------------------------------------------------
Constraint(type, property, operator, value) ==
  [type |-> type, property |-> property, operator |-> operator, value |-> value]
OfType(type, operators, values) ==
  {Constraint(type, "p", op, v) : op \in operators, v \in values}

EveryConstraint ==
  OfType("string", {"empty", "notempty", "eq", "neq", "prefix", "suffix", "contains",
                    "notcontains", "isoneof", "isnotoneof"}, {"a", "[ab]"})
  \cup OfType("number", {"notpresent", "present", "eq", "neq", "lt", "lte", "gt", "gte",
                         "isoneof", "isnotoneof"}, {"1", "[1]", "a"})
  \cup OfType("boolean", {"notpresent", "present", "true", "false"}, {"a"})
  \cup OfType("datetime", {"notpresent", "present", "eq", "neq", "lt", "lte", "gt", "gte"},
              {"noon", "a"})
  \cup OfType("entity", {"eq", "neq"}, {"e1"})
  \cup OfType("unknown", {"eq"}, {"a"})

P == Constraint("string", "p", "eq", "a")
Q == Constraint("number", "q", "eq", "1")
U == Constraint("unknown", "p", "eq", "a")

Segment(key, matchType, constraints) ==
  [key |-> key, matchType |-> matchType, constraints |-> constraints]

SegmentPool ==
  {Segment("s", "all", <<P>>), Segment("s", "any", <<Q>>), Segment("t", "all", <<P, Q>>),
   Segment("t", "any", <<P, Q>>), Segment("t", "any", <<U, P>>), Segment("t", "any", <<Q, U, P>>),
   Segment("u", "all", <<>>), Segment("u", "any", <<>>)}
SomeSegments == {<<>>} \cup {<<s>> : s \in SegmentPool} \cup {<<s, t>> : s, t \in SegmentPool}

Share(v, rollout) == [variant |-> v, rollout |-> rollout]
Rule(segments, operator, distributions) ==
  [segments |-> segments, operator |-> operator, distributions |-> distributions]

Everyone == <<Segment("all", "all", <<>>)>>
InP == <<Segment("p", "all", <<P>>)>>

SharePool ==
  {<<>>, <<Share("a", 0)>>, <<Share("a", 5000), Share("b", 5000)>>,
   <<Share("a", 3333), Share("b", 3333), Share("c", 3334)>>,
   <<Share("a", 0), Share("b", 3000), Share("c", 2000)>>,
   <<Share("a", 9000), Share("b", 7000)>>,
   <<Share("a", 5008), Share("b", 2), Share("c", 4990)>>}
RulePool == {Rule(s, "or", ds) : s \in {Everyone, InP}, ds \in SharePool}

Flag(key, type, enabled, default, rules, rollouts) ==
  [key |-> key, type |-> type, enabled |-> enabled, default |-> default,
   rules |-> rules, rollouts |-> rollouts]

Threshold(percentage) ==
  [threshold |-> <<[percentage |-> percentage, value |-> TRUE]>>, segment |-> <<>>]
BySegment(segments, operator, value) ==
  [threshold |-> <<>>,
   segment |-> <<[segments |-> segments, operator |-> operator, value |-> value]>>]
RolloutPool ==
  {Threshold(p) : p \in Percentages}
  \cup {BySegment(InP, op, v) : op \in {"or", "and", "none"}, v \in BOOLEAN}
  \cup {BySegment(<<>>, "and", TRUE), [threshold |-> <<>>, segment |-> <<>>],
        [Threshold(50) EXCEPT !.segment = BySegment(InP, "or", FALSE).segment]}
SomeRollouts == {<<>>} \cup {<<r>> : r \in RolloutPool} \cup {<<r, s>> : r, s \in RolloutPool}

-----------------------------------------------------------------------------
AVariantFlag == Flag("f", "variant", TRUE, "d", <<Rule(InP, "or", <<Share("a", 100)>>)>>, <<>>)
ABooleanFlag == Flag("g", "boolean", FALSE, "", <<>>, <<Threshold(5000)>>)

VariantFlags ==
  {[AVariantFlag EXCEPT !.rules = <<Rule(<<Segment("s", "any", <<c>>)>>, "or", <<>>)>>] :
     c \in EveryConstraint}
  \cup {[AVariantFlag EXCEPT !.rules = <<Rule(s, op, <<>>)>>] :
          s \in SomeSegments, op \in {"or", "and"}}
  \cup {Flag("f", type, enabled, default, <<r>>, <<>>) :
          type \in {"variant", "none"}, enabled \in BOOLEAN, default \in {"", "d"}, r \in RulePool}
  \cup {[AVariantFlag EXCEPT !.rules = <<r, s>>] : r, s \in RulePool}
  \cup {[AVariantFlag EXCEPT !.rules = <<>>, !.default = ""]}
BooleanFlags ==
  {Flag("g", "boolean", enabled, "", <<>>, r) : enabled \in BOOLEAN, r \in SomeRollouts}

Document(namespace, flags) == [namespace |-> namespace, flags |-> flags]
MCDocuments ==
  {Document(Namespace, <<f, ABooleanFlag>>) : f \in VariantFlags}
  \cup {Document(Namespace, <<AVariantFlag, g>>) : g \in BooleanFlags}
  \cup {Document(Namespace, <<[AVariantFlag EXCEPT !.rules = <<r, r>>], AVariantFlag>>) :
          r \in RulePool}
  \cup {Document(Namespace, <<[ABooleanFlag EXCEPT !.key = "f"], AVariantFlag>>),
        Document("other", <<AVariantFlag, ABooleanFlag>>), Document(Namespace, <<>>)}

Request(flag, entity, context) == [flag |-> flag, entity |-> entity, context |-> context]
Texts == {"", "a", "ab", "1", "2", "true", "false", "noon", "noon UTC", "night"}
Contexts == {<<>>} \cup {[p |-> t] : t \in Texts} \cup {[q |-> "1"], [p |-> "a", q |-> "1"]}
MCRequests ==
  {Request("f", "e1", c) : c \in Contexts}
  \cup {Request(f, e, c) : f \in {"f", "g"}, e \in DOMAIN Buckets, c \in {<<>>, [p |-> "a"]}}
  \cup {Request("unknown", "e1", <<>>)}
MCBatches ==
  LET some == {Request("f", "e3", [p |-> "a"]), Request("g", "e2", <<>>),
               Request("unknown", "e1", <<>>)}
  IN {<<>>} \cup {<<r, s>> : r, s \in some}
=============================================================================
