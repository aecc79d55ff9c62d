---------------------------- MODULE Constraints ----------------------------
(***************************************************************************)
(* How flipt-evaluation decides whether a request is in a segment          *)
(* (flipt-evaluation/src/lib.rs:440-677).  A text (a context value, an     *)
(* entity id, the value of a constraint) is an opaque string: what the     *)
(* code learns by parsing or comparing it is given by the constants.       *)
(***************************************************************************)
EXTENDS Naturals, Integers, Sequences, FiniteSets

CONSTANTS
  Numeral,      \* text -> the i32 it parses to, for the texts that parse
  Truth,        \* text -> the boolean it parses to
  Timestamp,    \* text -> its RFC 3339 time, in seconds
  TextList,     \* text -> the set of strings of the JSON array it holds
  NumberList,   \* text -> the set of i32 of the JSON array it holds
  StartsWith,   \* the pairs <<text, p>> such that the text starts with p
  EndsWith,     \* likewise, ends with
  Includes      \* likewise, contains

NoText == ""    \* a property that is absent from the context reads as ""

Types == {"string", "number", "boolean", "datetime", "entity"}

ASSUME ParseAssumption ==
  /\ NoText \notin DOMAIN Numeral \cup DOMAIN Truth \cup DOMAIN Timestamp
  /\ \A t \in DOMAIN Numeral : Numeral[t] \in Int
  /\ \A t \in DOMAIN Truth : Truth[t] \in BOOLEAN
  /\ \A t \in DOMAIN Timestamp : Timestamp[t] \in Int

(* An array that does not parse contains nothing, for strings. *)
OneOfString(v, values) == values \in DOMAIN TextList /\ v \in TextList[values]

MatchesString(c, v) ==
  \/ c.operator = "empty" /\ v = NoText
  \/ /\ v # NoText
     /\ \/ c.operator = "notempty"
        \/ c.operator = "eq" /\ v = c.value
        \/ c.operator = "neq" /\ v # c.value
        \/ c.operator = "prefix" /\ <<v, c.value>> \in StartsWith
        \/ c.operator = "suffix" /\ <<v, c.value>> \in EndsWith
        \/ c.operator = "contains" /\ <<v, c.value>> \in Includes
        \/ c.operator = "notcontains" /\ <<v, c.value>> \notin Includes
        \/ c.operator = "isoneof" /\ OneOfString(v, c.value)
        \/ c.operator = "isnotoneof" /\ ~OneOfString(v, c.value)

Presence(c, v) ==
  \/ c.operator = "notpresent" /\ v = NoText
  \/ c.operator = "present" /\ v # NoText

Compare(operator, a, b) ==
  \/ operator = "eq" /\ a = b
  \/ operator = "neq" /\ a # b
  \/ operator = "lt" /\ a < b
  \/ operator = "lte" /\ a <= b
  \/ operator = "gt" /\ a > b
  \/ operator = "gte" /\ a >= b

(* Mutant: what does not parse counts as different. *)
MatchesUnreadable(c, v) ==
  \/ Presence(c, v)
  \/ c.operator = "neq" /\ v # NoText /\ v # c.value
  \/ /\ v \in DOMAIN Numeral /\ c.value \in DOMAIN Numeral
     /\ Compare(c.operator, Numeral[v], Numeral[c.value])

(* A text that does not parse is an error, which the caller reads as "does
   not match" (lib.rs:456, 459, 462): for numbers that is also the answer to
   isnotoneof when the array does not parse. *)
MatchesNumber(c, v) ==
  \/ Presence(c, v)
  \/ /\ v \in DOMAIN Numeral
     /\ \/ /\ c.value \in DOMAIN NumberList
           /\ \/ c.operator = "isoneof" /\ Numeral[v] \in NumberList[c.value]
              \/ c.operator = "isnotoneof" /\ Numeral[v] \notin NumberList[c.value]
        \/ /\ c.value \in DOMAIN Numeral
           /\ Compare(c.operator, Numeral[v], Numeral[c.value])

MatchesBoolean(c, v) ==
  \/ Presence(c, v)
  \/ /\ v \in DOMAIN Truth
     /\ \/ c.operator = "true" /\ Truth[v]
        \/ c.operator = "false" /\ ~Truth[v]

MatchesDatetime(c, v) ==
  \/ Presence(c, v)
  \/ /\ v \in DOMAIN Timestamp
     /\ c.value \in DOMAIN Timestamp
     /\ Compare(c.operator, Timestamp[v], Timestamp[c.value])

ContextValue(context, property) ==
  IF property \in DOMAIN context THEN context[property] ELSE NoText

MatchesConstraint(c, request) ==
  LET v == ContextValue(request.context, c.property) IN
  \/ c.type = "string" /\ MatchesString(c, v)
  \/ c.type = "number" /\ MatchesNumber(c, v)
  \/ c.type = "boolean" /\ MatchesBoolean(c, v)
  \/ c.type = "datetime" /\ MatchesDatetime(c, v)
  \/ c.type = "entity" /\ MatchesString(c, request.entity)

(* The constraints the loop of matches_constraints looks at: all of them, or
   those up to the first that ends it, by its type, by a match under "any" or
   by a mismatch under "all". *)
Examined(constraints, matchType, request) ==
  LET Ends(i) ==
        \/ constraints[i].type \notin Types
        \/ matchType = "any" /\ MatchesConstraint(constraints[i], request)
        \/ matchType = "all" /\ ~MatchesConstraint(constraints[i], request)
  IN {i \in DOMAIN constraints : \A j \in 1..(i - 1) : ~Ends(j)}

(* A constraint of a type the client does not know ends the loop with "no". *)
MatchesConstraints(constraints, matchType, request) ==
  LET examined == Examined(constraints, matchType, request)
      matches == {i \in examined : MatchesConstraint(constraints[i], request)}
  IN /\ \A i \in examined : constraints[i].type \in Types
     /\ \/ matchType = "all" /\ Cardinality(matches) = Len(constraints)
        \/ matchType = "any" /\ (constraints = <<>> \/ matches # {})
=============================================================================
