----------------------------- MODULE Evaluation -----------------------------
(***************************************************************************)
(* The evaluation library, flipt-evaluation: a document of the server is   *)
(* built into a store, and requests are answered from the store.  Every    *)
(* client of this repository evaluates with this code.  An evaluation      *)
(* whose outcome the code leaves open (a binary search over equal          *)
(* elements) has a set of answers.                                         *)
(*                                                                         *)
(* Rollouts and percentages are f32 in the code; here they are integers,   *)
(* in hundredths of a percent, and the arithmetic on them is exact.        *)
(* Attachments, which accompany a variant, times and durations are left    *)
(* out.                                                                    *)
(***************************************************************************)
EXTENDS Constraints, Functions, SequencesExt

CONSTANTS
  Crc32(_, _),  \* the hash of the concatenation of two texts
  Namespace,    \* the namespace of the engine
  Documents,    \* the documents the server may send
  Requests,     \* evaluation requests
  Batches       \* sequences of evaluation requests

(* source.rs: what a document consists of.  A text of an enumeration that is
   not known is read as its last alternative. *)
AtMostOne(S) == {s \in Seq(S) : Len(s) <= 1}

SourceConstraints ==
  [type : Types \cup {"unknown"}, property : STRING, operator : STRING, value : STRING]
SourceSegments ==
  [key : STRING, matchType : {"all", "any"}, constraints : Seq(SourceConstraints)]
SourceDistributions == [variant : STRING, rollout : Int]
SourceRules ==
  [segments : Seq(SourceSegments), operator : {"and", "or"},
   distributions : Seq(SourceDistributions)]
SourceRollouts ==
  [threshold : AtMostOne([percentage : Int, value : BOOLEAN]),
   segment : AtMostOne([segments : Seq(SourceSegments), value : BOOLEAN,
                        operator : {"and", "or", "none"}])]
SourceFlags ==
  [key : STRING, type : {"boolean", "variant", "none"}, enabled : BOOLEAN,
   default : STRING, rules : Seq(SourceRules), rollouts : Seq(SourceRollouts)]
SourceDocuments == [namespace : STRING, flags : Seq(SourceFlags)]

ASSUME DocumentsAssumption == Documents \subseteq SourceDocuments

ASSUME RequestsAssumption ==
  /\ Batches \subseteq Seq(Requests)
  /\ \A r \in Requests : Crc32(r.flag, r.entity) \in Nat /\ Crc32(r.entity, r.flag) \in Nat

TotalBuckets == 1000
NoVariant == ""

VARIABLES
  doc,      \* the document the engine was given last
  store,    \* what was built from it
  asked,    \* the operation and the requests of the last call
  answer    \* what it returned

vars == <<doc, store, asked, answer>>

-----------------------------------------------------------------------------
(* snapshot.rs: a document becomes maps from keys.  What is inserted later
   replaces what the map had under the same key. *)
Entry(key, value) == [k \in {key} |-> value]
Inserted(map, more) ==
  [k \in DOMAIN map \cup DOMAIN more |-> IF k \in DOMAIN more THEN more[k] ELSE map[k]]
Merged(maps) == FoldLeft(Inserted, <<>>, maps)

SegmentMap(segments) ==
  Merged([i \in DOMAIN segments |->
            Entry(segments[i].key, [matchType |-> segments[i].matchType,
                                    constraints |-> segments[i].constraints])])

(* Mutant: the id of a rule counts from 0. *)
BuildMisnumbered(flag, i) ==
  [id |-> <<flag.key, i - 1>>, rank |-> i,
   segments |-> SegmentMap(flag.rules[i].segments),
   operator |-> flag.rules[i].operator]

BuildRule(flag, i) ==
  [id |-> <<flag.key, i>>, rank |-> i,
   segments |-> SegmentMap(flag.rules[i].segments),
   operator |-> flag.rules[i].operator]

(* A threshold takes precedence over a segment; a rollout may have neither,
   and its segments no operator. *)
BuildRollout(flag, i) ==
  LET r == flag.rollouts[i] IN
  [rank |-> i,
   threshold |-> r.threshold,
   segment |->
     IF r.threshold # <<>> \/ r.segment = <<>> THEN <<>>
     ELSE << [r.segment[1] EXCEPT !.segments = SegmentMap(@),
                                  !.operator = IF @ = "none" THEN "or" ELSE @] >>]

FlagType(flag) == IF flag.type = "boolean" THEN "boolean" ELSE "variant"

Header(flag) ==
  [key |-> flag.key, type |-> FlagType(flag), enabled |-> flag.enabled,
   default |-> flag.default]
BuildRules(flag) == [i \in DOMAIN flag.rules |-> BuildRule(flag, i)]
BuildRollouts(flag) == [i \in DOMAIN flag.rollouts |-> BuildRollout(flag, i)]
BuildDistributions(flag) ==
  [id \in {<<flag.key, i>> : i \in DOMAIN flag.rules} |-> flag.rules[id[2]].distributions]

Build(d) ==
  LET flags == d.flags
  IN [namespace |-> d.namespace,
      flags |-> Merged([i \in DOMAIN flags |-> Entry(flags[i].key, Header(flags[i]))]),
      rules |-> Merged([i \in DOMAIN flags |-> Entry(flags[i].key, BuildRules(flags[i]))]),
      rollouts |-> Merged([i \in DOMAIN flags |-> Entry(flags[i].key, BuildRollouts(flags[i]))]),
      distributions |-> Merged([i \in DOMAIN flags |-> BuildDistributions(flags[i])])]

(* store.rs: nothing is found under another namespace. *)
Has(s, map, key) == s.namespace = Namespace /\ key \in DOMAIN map

-----------------------------------------------------------------------------
Refusal(e) == [ok |-> FALSE, error |-> e]

MatchedSegments(segments, request) ==
  {k \in DOMAIN segments :
     MatchesConstraints(segments[k].constraints, segments[k].matchType, request)}

(* Mutant: "and" is read as "or". *)
AnySegmentMatches(segments, operator, request) ==
  MatchedSegments(segments, request) # {}

(* The test both evaluations make of a rule or a rollout before they go on
   to the next. *)
SegmentsMatch(segments, operator, request) ==
  LET matched == MatchedSegments(segments, request) IN
  \/ operator = "or" /\ matched # {}
  \/ operator = "and" /\ Cardinality(matched) = Cardinality(DOMAIN segments)

OutOfOrder(items, i) ==
  items[i].rank < (IF i = 1 THEN 0 ELSE items[i - 1].rank)

(* The item at which a loop over rules or rollouts stops: the first that is
   out of order or among those that apply; 0 if there is none. *)
StopsAt(items, applying) ==
  LET stops == applying \cup {i \in DOMAIN items : OutOfOrder(items, i)}
  IN IF stops = {} THEN 0 ELSE CHOOSE i \in stops : \A j \in stops : i <= j

-----------------------------------------------------------------------------
(* Distributions: the upper ends of the intervals of buckets, cumulative and
   rounded to the nearest bucket, the last one pinned. *)
Weight(ds) == FoldLeft(LAMBDA sum, d : sum + d.rollout, 0, ds)
RoundedQuotient(a, b) == (2 * a + b) \div (2 * b)

CutPoints(ds) ==
  [i \in DOMAIN ds |->
     IF i = Len(ds) THEN TotalBuckets
     ELSE RoundedQuotient(TotalBuckets * Weight(SubSeq(ds, 1, i)), Weight(ds))]

Below(cuts, bucket) == {i \in DOMAIN cuts : cuts[i] < bucket}
Equal(cuts, bucket) == {i \in DOMAIN cuts : cuts[i] = bucket}

(* Mutant: the search is for the bucket, not for the bucket after it. *)
SearchBefore(cuts, bucket) == {1 + Cardinality(Below(cuts, bucket - 1))}

(* slice::binary_search in the sorted cut points: any position of one that is
   equal, or the position where it would go. *)
SearchResults(cuts, bucket) ==
  LET below == Cardinality(Below(cuts, bucket))
      equal == Cardinality(Equal(cuts, bucket))
  IN (below + 1)..(below + (IF equal = 0 THEN 1 ELSE equal))

PositiveRollouts(ds) ==
  FoldLeft(LAMBDA kept, d : IF d.rollout > 0 THEN Append(kept, d) ELSE kept, <<>>, ds)

DefaultAnswer(flag) ==
  [ok |-> TRUE, match |-> FALSE, segments |-> {}, variant |-> flag.default,
   reason |-> IF flag.default = NoVariant THEN "unknown" ELSE "default"]

Distribute(flag, ds, segments, bucket) ==
  LET matched == [DefaultAnswer(flag) EXCEPT !.segments = segments]
      cuts == CutPoints(ds)
  IN IF ds = <<>> THEN {[matched EXCEPT !.match = TRUE, !.reason = "match"]}
     ELSE {IF i > Len(ds) THEN [matched EXCEPT !.reason = "default"]
           ELSE [matched EXCEPT !.match = TRUE, !.reason = "match",
                                !.variant = ds[i].variant]
           : i \in SearchResults(cuts, bucket + 1)}

VariantRule(s, rule, flag, request) ==
  IF ~Has(s, s.distributions, rule.id) THEN {Refusal("internal")}
  ELSE Distribute(flag, PositiveRollouts(s.distributions[rule.id]),
                  MatchedSegments(rule.segments, request),
                  Crc32(request.flag, request.entity) % TotalBuckets)

VariantAnswers(s, request) ==
  LET flag == s.flags[request.flag]
      rules == s.rules[request.flag]
      i == StopsAt(rules, {j \in DOMAIN rules :
                          SegmentsMatch(rules[j].segments, rules[j].operator, request)})
  IN IF ~Has(s, s.flags, request.flag) THEN {Refusal("unknown flag")}
     ELSE IF flag.type # "variant" THEN {Refusal("wrong type")}
     ELSE IF ~flag.enabled THEN {[DefaultAnswer(flag) EXCEPT !.reason = "disabled"]}
     ELSE IF ~Has(s, s.rules, request.flag) THEN {Refusal("internal")}
     ELSE IF i = 0 THEN {DefaultAnswer(flag)}
     ELSE IF OutOfOrder(rules, i) THEN {Refusal("rank")}
     ELSE VariantRule(s, rules[i], flag, request)

-----------------------------------------------------------------------------
(* Mutant: <= for <. *)
AppliesUpTo(r, request) ==
  r.threshold # <<>>
  /\ 100 * (Crc32(request.entity, request.flag) % 100) <= r.threshold[1].percentage

(* Mutant: the comparison is the wrong way round. *)
AppliesAbove(r, request) ==
  r.threshold # <<>>
  /\ 100 * (Crc32(request.entity, request.flag) % 100) >= r.threshold[1].percentage

(* A threshold asks whether the entity's bucket of 0..99 is below it. *)
RolloutApplies(r, request) ==
  \/ r.threshold # <<>>
     /\ 100 * (Crc32(request.entity, request.flag) % 100) < r.threshold[1].percentage
  \/ r.threshold = <<>> /\ r.segment # <<>>
     /\ SegmentsMatch(r.segment[1].segments, r.segment[1].operator, request)

BooleanMatch(r, request) ==
  IF r.threshold # <<>>
  THEN [ok |-> TRUE, enabled |-> r.threshold[1].value, reason |-> "match", segments |-> {}]
  ELSE [ok |-> TRUE, enabled |-> r.segment[1].value, reason |-> "match",
        segments |-> MatchedSegments(r.segment[1].segments, request)]

BooleanAnswer(s, request) ==
  LET flag == s.flags[request.flag]
      rollouts == s.rollouts[request.flag]
      i == StopsAt(rollouts, {j \in DOMAIN rollouts : RolloutApplies(rollouts[j], request)})
  IN IF ~Has(s, s.flags, request.flag) THEN Refusal("unknown flag")
     ELSE IF flag.type # "boolean" THEN Refusal("wrong type")
     ELSE IF ~Has(s, s.rollouts, request.flag) THEN Refusal("internal")
     ELSE IF i = 0 THEN [ok |-> TRUE, enabled |-> flag.enabled, reason |-> "default",
                         segments |-> {}]
     ELSE IF OutOfOrder(rollouts, i) THEN Refusal("rank")
     ELSE BooleanMatch(rollouts[i], request)

-----------------------------------------------------------------------------
(* Mutant: an unknown flag has no response of its own. *)
ResponsesUnchecked(s, request) ==
  IF Has(s, s.flags, request.flag) /\ s.flags[request.flag].type = "boolean"
  THEN {[type |-> "boolean", response |-> BooleanAnswer(s, request)]}
  ELSE {[type |-> "variant", response |-> a] : a \in VariantAnswers(s, request)}

(* One response of a batch; an unknown flag has a response of its own. *)
Responses(s, request) ==
  IF ~Has(s, s.flags, request.flag)
  THEN {[type |-> "error", response |-> [flag |-> request.flag]]}
  ELSE IF s.flags[request.flag].type = "boolean"
       THEN {[type |-> "boolean", response |-> BooleanAnswer(s, request)]}
       ELSE {[type |-> "variant", response |-> a] : a \in VariantAnswers(s, request)}

Refused(r) == r.type # "error" /\ ~r.response.ok

(* One refusal refuses the batch. *)
BatchAnswers(s, requests) ==
  LET all == {b \in [DOMAIN requests -> UNION {Responses(s, requests[i]) : i \in DOMAIN requests}] :
                \A i \in DOMAIN requests : b[i] \in Responses(s, requests[i])}
  IN {IF \E i \in DOMAIN b : Refused(b[i]) THEN Refusal("batch")
      ELSE [ok |-> TRUE, responses |-> b] : b \in all}

-----------------------------------------------------------------------------
NoAnswer == [ok |-> FALSE, error |-> "not asked"]

Init ==
  /\ doc \in Documents
  /\ store = Build(doc)
  /\ asked = [call |-> "none", requests |-> <<>>]
  /\ answer = NoAnswer

(* An evaluation leaves the store alone: one call per behaviour shows what
   any number of calls would. *)
Ask(call, requests, answers) ==
  /\ asked.call = "none"
  /\ asked' = [call |-> call, requests |-> requests]
  /\ answer' \in answers
  /\ UNCHANGED <<doc, store>>

EvaluateVariant ==
  \E r \in Requests : Ask("variant", <<r>>, VariantAnswers(store, r))
EvaluateBoolean ==
  \E r \in Requests : Ask("boolean", <<r>>, {BooleanAnswer(store, r)})
EvaluateBatch ==
  \E b \in Batches : Ask("batch", b, BatchAnswers(store, b))

Next == EvaluateVariant \/ EvaluateBoolean \/ EvaluateBatch

Spec == Init /\ [][Next]_vars
=============================================================================
