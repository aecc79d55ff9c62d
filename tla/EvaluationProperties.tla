------------------------ MODULE EvaluationProperties ------------------------
(***************************************************************************)
(* What an evaluation has to answer, said of the server's document itself  *)
(* and not of the store that is built from it.                             *)
(***************************************************************************)
EXTENDS Evaluation

(* The maps of the store belong together: whatever flag it has, it has the
   rules and the rollouts of, and of every rule the distributions
   (snapshot.rs:42-196; lib.rs:151, 206 and 304 refuse otherwise). *)
TypeOK ==
  /\ store.namespace = doc.namespace
  /\ \A key \in DOMAIN store.flags :
       /\ store.flags[key].type \in {"variant", "boolean"}
       /\ store.flags[key].enabled \in BOOLEAN
       /\ key \in DOMAIN store.rules \cap DOMAIN store.rollouts
       /\ \A i \in DOMAIN store.rules[key] :
            store.rules[key][i].id \in DOMAIN store.distributions
  /\ asked.call \in {"none", "variant", "boolean", "batch"}
  /\ answer.ok \in BOOLEAN

-----------------------------------------------------------------------------
(* The flag of the document a request is about: the last one of its key. *)
Listed(key) ==
  IF doc.namespace # Namespace THEN {}
  ELSE {i \in DOMAIN doc.flags : doc.flags[i].key = key}
FlagOf(r) == doc.flags[CHOOSE i \in Listed(r.flag) : \A j \in Listed(r.flag) : j <= i]

(* A request is in a segment if all, or any, of its constraints hold; no
   constraints exclude nobody.  A constraint of a type the client does not
   know never holds, and under "any" hides those after it. *)
InSegment(s, r) ==
  IF s.matchType = "all" \/ s.constraints = <<>>
  THEN \A i \in DOMAIN s.constraints : MatchesConstraint(s.constraints[i], r)
  ELSE \E i \in DOMAIN s.constraints :
         /\ MatchesConstraint(s.constraints[i], r)
         /\ \A j \in 1..i : s.constraints[j].type \in Types

(* The segments of a rule: of those with the same key the last counts. *)
Effective(segments) ==
  {segments[i] : i \in {k \in DOMAIN segments :
                          \A j \in DOMAIN segments : segments[j].key = segments[k].key => j <= k}}
SegmentsOf(segments, r) == {s.key : s \in {t \in Effective(segments) : InSegment(t, r)}}
Concerns(segments, operator, r) ==
  IF operator = "and" THEN \A s \in Effective(segments) : InSegment(s, r)
  ELSE \E s \in Effective(segments) : InSegment(s, r)

First(items, P(_)) ==
  {i \in DOMAIN items : P(items[i]) /\ \A j \in 1..(i - 1) : ~P(items[j])}
Decisive(f, r) == First(f.rules, LAMBDA rule : Concerns(rule.segments, rule.operator, r))

Shares(rule) == {i \in DOMAIN rule.distributions : rule.distributions[i].rollout > 0}

RightVariant(r, a) ==
  IF Listed(r.flag) = {} \/ FlagOf(r).type = "boolean" THEN ~a.ok
  ELSE LET f == FlagOf(r) IN
       /\ a.ok
       /\ a.match <=> f.enabled /\ Decisive(f, r) # {}
       /\ ~a.match => a.variant = f.default /\ a.reason # "match"
       /\ a.match =>
            \E i \in Decisive(f, r) :
              /\ a.segments = SegmentsOf(f.rules[i].segments, r)
              /\ IF Shares(f.rules[i]) = {} THEN a.variant = f.default
                 ELSE a.variant \in {f.rules[i].distributions[k].variant : k \in Shares(f.rules[i])}

(* A boolean flag is decided by its first rollout that concerns the request
   (by its bucket of a hundred or its segments), and by "enabled" otherwise. *)
RolloutConcerns(rollout, r) ==
  IF rollout.threshold # <<>>
  THEN rollout.threshold[1].percentage > 100 * (Crc32(r.entity, r.flag) % 100)
  ELSE /\ rollout.segment # <<>>
       /\ Concerns(rollout.segment[1].segments, rollout.segment[1].operator, r)

RightBoolean(r, a) ==
  IF Listed(r.flag) = {} \/ FlagOf(r).type # "boolean" THEN ~a.ok
  ELSE LET f == FlagOf(r)
           first == First(f.rollouts, LAMBDA rollout : RolloutConcerns(rollout, r))
       IN /\ a.ok
          /\ first = {} => a.enabled = f.enabled /\ a.reason = "default"
          /\ \A i \in first :
               /\ a.reason = "match"
               /\ a.enabled = IF f.rollouts[i].threshold # <<>>
                              THEN f.rollouts[i].threshold[1].value
                              ELSE f.rollouts[i].segment[1].value

-----------------------------------------------------------------------------
(* A variant request is refused only for a flag that is unknown or boolean,
   and otherwise decided by the first rule of the document whose segments the
   request is in: repeated keys, ranks, the maps of the store and the early
   exits of the loops change nothing (lib.rs:108-276, snapshot.rs:42-117).  An
   entity that a rule with a positive rollout concerns always has one of its
   variants. *)
VariantFollowsDocument ==
  asked.call = "variant" => RightVariant(asked.requests[1], answer)

(* The same for boolean requests and rollouts (lib.rs:278-384). *)
BooleanFollowsDocument ==
  asked.call = "boolean" => RightBoolean(asked.requests[1], answer)

(* A batch is never refused because of one of its requests, and answers each
   as it would be answered alone (lib.rs:386-438: "?" on every evaluation). *)
BatchFollowsDocument ==
  asked.call = "batch" =>
    /\ answer.ok
    /\ Len(answer.responses) = Len(asked.requests)
    /\ \A i \in DOMAIN asked.requests :
         LET r == asked.requests[i]
             a == answer.responses[i]
         IN IF Listed(r.flag) = {} THEN a.type = "error"
            ELSE IF FlagOf(r).type = "boolean"
                 THEN a.type = "boolean" /\ RightBoolean(r, a.response)
                 ELSE a.type = "variant" /\ RightVariant(r, a.response)

(* What each distribution may claim: nothing if its rollout is negative. *)
Claims(ds) == [k \in DOMAIN ds |-> [ds[k] EXCEPT !.rollout = IF @ > 0 THEN @ ELSE 0]]

(* The buckets are shared out as the weights say, to within one and a half
   bucket, although the ends of the intervals are rounded, rollouts of zero or
   less are dropped and those below a bucket have equal ends (lib.rs:231-254). *)
SharesAreFair ==
  asked.call = "variant" /\ answer.ok /\ answer.match =>
    LET r == asked.requests[1]
        b == Crc32(r.flag, r.entity) % TotalBuckets
    IN \A i \in Decisive(FlagOf(r), r) :
         LET ds == Claims(FlagOf(r).rules[i].distributions)
             total == Weight(ds)
         IN Shares(FlagOf(r).rules[i]) # {} =>
              \E k \in Shares(FlagOf(r).rules[i]) :
                /\ ds[k].variant = answer.variant
                /\ 2 * TotalBuckets * Weight(SubSeq(ds, 1, k - 1)) - 3 * total <= 2 * b * total
                /\ 2 * b * total <= 2 * TotalBuckets * Weight(SubSeq(ds, 1, k)) - total

(* Raising a percentage never takes the answer from an entity that had it:
   the same entities are below the threshold, and more (lib.rs:322-336). *)
Percentages == {0, 50, 100, 5000, 10000}
Raise(f, p) == [f EXCEPT !.rollouts[1].threshold[1].percentage = p]

RaisingKeepsEntities ==
  asked.call = "boolean" /\ answer.ok /\ answer.reason = "match" =>
    LET r == asked.requests[1]
        f == FlagOf(r)
    IN \A p \in Percentages :
         /\ f.rollouts[1].threshold # <<>>
         /\ p >= f.rollouts[1].threshold[1].percentage
         /\ answer = BooleanMatch([threshold |-> f.rollouts[1].threshold], r)
         => BooleanAnswer(Build([doc EXCEPT !.flags = <<Raise(f, p)>>]), r) = answer

(* Two constraints that differ in opposite operators exclude each other.  A
   value the type can read satisfies exactly one of them; one that is absent
   or cannot be read satisfies neither (lib.rs:500-677). *)
Opposites ==
  {<<"eq", "neq">>, <<"isoneof", "isnotoneof">>, <<"contains", "notcontains">>,
   <<"lt", "gte">>, <<"gt", "lte">>, <<"true", "false">>}

(* Those the server offers for a type. *)
OppositesOf(type) ==
  {pair \in Opposites :
     \/ type = "string" /\ pair[1] \in {"eq", "isoneof", "contains"}
     \/ type = "number" /\ pair[1] \in {"eq", "isoneof", "lt", "gt"}
     \/ type = "boolean" /\ pair[1] = "true"
     \/ type = "datetime" /\ pair[1] \in {"eq", "lt", "gt"}}

Reads(c, v) ==
  \/ c.type = "string" /\ v # NoText
  \/ c.type = "number" /\ v \in DOMAIN Numeral
       /\ c.value \in DOMAIN (IF c.operator = "isoneof" THEN NumberList ELSE Numeral)
  \/ c.type = "boolean" /\ v \in DOMAIN Truth
  \/ c.type = "datetime" /\ v \in DOMAIN Timestamp /\ c.value \in DOMAIN Timestamp

ConstraintsOf(f) ==
  UNION {UNION {ToSet(f.rules[i].segments[j].constraints) : j \in DOMAIN f.rules[i].segments} :
           i \in DOMAIN f.rules}

OppositesExclude ==
  asked.call = "variant" /\ answer.ok =>
    LET r == asked.requests[1] IN
    \A c \in ConstraintsOf(FlagOf(r)) : \A pair \in OppositesOf(c.type) :
      c.operator = pair[1] =>
        LET v == ContextValue(r.context, c.property)
            one == MatchesConstraint(c, r)
            other == MatchesConstraint([c EXCEPT !.operator = pair[2]], r)
        IN IF Reads(c, v) THEN one # other ELSE ~one /\ ~other
=============================================================================
