---------------------------- MODULE HostsProofs ----------------------------
(***************************************************************************)
(* Proofs, for every value of the constants, of what HostsProperties says  *)
(* of leases, of close(), of the memory that hosts and engines hand each   *)
(* other, of the answers they exchange and of how an engine is started.    *)
(* LeaseInv, MemoryInv, TypeInv and Started are shown to be inductive.     *)
(***************************************************************************)
EXTENDS HostsProperties, TLAPS

(* The stages of a renewal. *)
Active == {"waiting", "fetching", "updating", "reading"}

LeaseSeqs ==
  /\ expiry \in Seq(Nat) /\ Len(expiry) <= 1
  /\ lease \in Seq(Leases) /\ Len(lease) <= 1

LeaseNumbers ==
  /\ maxRetries \in Nat /\ failures \in Nat /\ granted \in Nat
  /\ delay \in Nat /\ late \in Nat /\ patience \in Nat

LeaseControl ==
  /\ renewer \in Active \cup {"off", "stopped"}
  /\ renewer \in Active => expiry # <<>>
  /\ renewer \in {"updating", "reading"} => lease # <<>>
  /\ closed \in BOOLEAN /\ interrupted \in BOOLEAN
  /\ closer \in {"no", "awaiting", "done"}

LeaseTypes == LeaseSeqs /\ LeaseNumbers /\ LeaseControl

(* How long before its expiry the renewal of the lease in use falls due. *)
Lead == IF granted > ExpiryBuffer THEN ExpiryBuffer ELSE granted - 1

(* Before the renewal is due the lease outlasts the wait by its lead; after
   that, what is left of the lease and the time already spent make up for
   the lead. *)
OnTime ==
  /\ renewer = "waiting" /\ failures = 0 => expiry[1] - delay >= Lead
  /\ renewer \in Active /\ (renewer # "waiting" \/ failures > 0) =>
       expiry[1] + late >= Lead

Counted ==
  maxRetries > 0 =>
    /\ renewer \in Active => failures < maxRetries
    /\ renewer = "stopped" /\ expiry # <<>> => closed \/ failures = maxRetries

(* close() waits for a renewal that is in the engine: no time passes there,
   so it still has patience. *)
Closing ==
  /\ host # "java" => renewer = "off"
  /\ host = "java" => phase \in {"new", "open", "closed"}
  /\ renewer \in {"fetching", "updating", "reading"} => phase # "new"
  /\ closer # "no" => closed
  /\ closer = "awaiting" /\ renewer \in {"updating", "reading"} => patience > 0
  /\ closer = "done" /\ ~interrupted => renewer \notin {"updating", "reading"}
  /\ host = "java" /\ phase = "closed" => closer = "done"

LeaseInv == LeaseTypes /\ OnTime /\ Counted /\ Closing

LEMMA OptionFacts ==
  /\ \A s \in Seq(Nat) : s # <<>> => s[1] \in Nat
  /\ \A s \in Seq(Nat) :
       LET t == [i \in DOMAIN s |-> Decrement(s[i])] IN
       /\ t \in Seq(Nat) /\ Len(t) = Len(s) /\ (t # <<>> <=> s # <<>>)
       /\ s # <<>> => t[1] = Decrement(s[1])
  /\ \A n \in Nat : NextDelay(n) \in Nat /\ Decrement(n) \in Nat
BY DEF Decrement, NextDelay, ExpiryBuffer, MinRetryDelay

LEMMA LeaseInvInit == ASSUME Init PROVE LeaseInv
<1>1. /\ host \in {"java", "go", "js"} /\ phase = "new"
      /\ CloseInit
      /\ \/ NoLeaseInit
         \/ host = "java" /\ \E l \in Leases : LeaseInit(l)
  BY Zenon DEF Init
<1>2. Closing
  BY <1>1 DEF Closing, CloseInit, NoLeaseInit, LeaseInit
<1>3. CASE NoLeaseInit
  <2>1. LeaseSeqs
    BY <1>3 DEF LeaseSeqs, NoLeaseInit
  <2>2. LeaseNumbers
    BY <1>1, <1>3 DEF LeaseNumbers, CloseInit, NoLeaseInit
  <2>3. LeaseControl
    BY <1>1, <1>3 DEF LeaseControl, Active, CloseInit, NoLeaseInit
  <2>4. OnTime /\ Counted
    BY <1>3 DEF OnTime, Counted, Active, NoLeaseInit
  <2>. QED
    BY <1>2, <2>1, <2>2, <2>3, <2>4 DEF LeaseInv, LeaseTypes
<1>4. ASSUME NEW l \in Leases, LeaseInit(l) PROVE LeaseInv
  <2>. USE <1>4 DEF LeaseInit
  <2>1. /\ l.expiresAt \in Seq(Nat) /\ Len(l.expiresAt) <= 1
        /\ l.maxRetries \in Seq(Nat) /\ Len(l.maxRetries) <= 1
        /\ expiry = <<>> \/ expiry[1] \in Nat
    BY LeasesAssumption, OptionFacts DEF LeasesAssumption
  <2>2. LeaseSeqs
    BY <2>1 DEF LeaseSeqs
  <2>3. LeaseNumbers
    BY <1>1, <2>1, OptionFacts DEF LeaseNumbers, CloseInit
  <2>4. LeaseControl
    BY <1>1 DEF LeaseControl, Active, CloseInit
  <2>5. OnTime
    BY <2>1 DEF OnTime, Active, Lead, NextDelay, ExpiryBuffer, MinRetryDelay
  <2>6. Counted
    BY DEF Counted, Active
  <2>. QED
    BY <1>2, <2>2, <2>3, <2>4, <2>5, <2>6 DEF LeaseInv, LeaseTypes
<1>. QED
  BY <1>1, <1>3, <1>4

-----------------------------------------------------------------------------
(* What a step leaves of the lease and of close(): most do not touch them. *)
Quiet ==
  /\ UNCHANGED <<host, authVars>>
  /\ host = "java" => phase' = phase \/ phase' = "open"

OthersClose ==
  /\ host = "go" /\ host' = host
  /\ closed' = TRUE
  /\ UNCHANGED <<closer, patience, interrupted, leaseVars>>

LEMMA Shape ==
  ASSUME Next
  PROVE  \/ Quiet \/ OthersClose \/ UpdateAuthentication \/ AnswerIsRead
         \/ LeaseStep \/ JavaCloses \/ JavaDestroys
<1>. USE DEF Quiet, engineVars, callVars
<1>1. ASSUME NEW op, NEW text, Calls(op, text) PROVE Quiet
  <2>1. CASE JavaCalls(op, text)
    BY <2>1 DEF JavaCalls
  <2>2. CASE GoAllocates(op, text)
    BY <2>2 DEF GoAllocates
  <2>3. CASE JsCalls(op, text)
    BY <2>3 DEF JsCalls
  <2>. QED
    BY <1>1, <2>1, <2>2, <2>3 DEF Calls
<1>2. ASSUME JavaStarts PROVE Quiet
  BY <1>2 DEF JavaStarts
<1>3. ASSUME NEW d, JavaFetched(d) PROVE Quiet
  BY <1>3 DEF JavaFetched
<1>4. ASSUME JavaReads PROVE Quiet
  BY <1>4 DEF JavaReads
<1>5. ASSUME NEW d, GoStarts(d) PROVE Quiet
  BY <1>5 DEF GoStarts
<1>6. ASSUME NEW op, NEW text, GoAllocates(op, text) PROVE Quiet
  BY <1>6 DEF GoAllocates
<1>7. ASSUME NEW op, NEW text, JsGiven(op, text) PROVE Quiet
  BY <1>7 DEF JsGiven
<1>8. ASSUME GoRuns PROVE Quiet
  BY <1>8 DEF GoRuns
<1>9. ASSUME GoCallFails PROVE Quiet
  BY <1>9 DEF GoCallFails, GoFails
<1>10. ASSUME GoUpdaterFails PROVE Quiet
  BY <1>10 DEF GoUpdaterFails
<1>11. ASSUME GoFreesText PROVE Quiet
  BY <1>11 DEF GoFreesText, GoFails
<1>12. ASSUME GoReads PROVE Quiet
  BY <1>12 DEF GoReads, GoFails
<1>13. ASSUME GoReadFails PROVE Quiet
  BY <1>13 DEF GoReadFails, GoFails
<1>14. ASSUME GoOpens PROVE Quiet
  BY <1>14 DEF GoOpens
<1>15. ASSUME GoCloses PROVE OthersClose
  BY <1>15 DEF GoCloses, OthersClose
<1>16. ASSUME JsStarts PROVE Quiet
  BY <1>16 DEF JsStarts
<1>17. ASSUME JsOpens PROVE Quiet
  BY <1>17 DEF JsOpens
<1>. QED
  BY <1>1, <1>2, <1>3, <1>4, <1>5, <1>6, <1>7, <1>8, <1>9, <1>10, <1>11, <1>12,
     <1>13, <1>14, <1>15, <1>16, <1>17 DEF Next

-----------------------------------------------------------------------------
(* Every step keeps LeaseInv. *)
LEMMA QuietKeepsLease == ASSUME LeaseInv, Quiet PROVE LeaseInv'
<1>. USE DEF Quiet, authVars, closeVars, leaseVars
<1>1. LeaseTypes' /\ OnTime' /\ Counted'
  BY DEF LeaseInv, LeaseTypes, LeaseSeqs, LeaseNumbers, LeaseControl, OnTime,
         Lead, Counted
<1>2. Closing'
  BY DEF LeaseInv, Closing
<1>. QED
  BY <1>1, <1>2 DEF LeaseInv

LEMMA OthersCloseKeepsLease == ASSUME LeaseInv, OthersClose PROVE LeaseInv'
<1>. USE DEF OthersClose, leaseVars
<1>1. LeaseTypes' /\ OnTime'
  BY DEF LeaseInv, LeaseTypes, LeaseSeqs, LeaseNumbers, LeaseControl, OnTime, Lead
<1>2. Counted' /\ Closing'
  BY DEF LeaseInv, Closing, Counted, Active
<1>. QED
  BY <1>1, <1>2 DEF LeaseInv

LEMMA ExpiryFact == ASSUME LeaseInv, renewer \in Active PROVE expiry[1] \in Nat
BY OptionFacts DEF LeaseInv, LeaseTypes, LeaseSeqs, LeaseControl

LEMMA TickKeepsLease ==
  ASSUME LeaseInv, Tick, phase # "new", UNCHANGED <<host, phase>>
  PROVE  LeaseInv'
<1>. USE DEF Tick, LeaseInv, LeaseTypes
<1>1. renewer \in {"waiting", "fetching"} /\ UNCHANGED renewer
  BY DEF leaseVars
<1>2. /\ expiry[1] \in Nat /\ expiry'[1] = Decrement(expiry[1])
      /\ expiry' \in Seq(Nat) /\ Len(expiry') = Len(expiry) /\ expiry' # <<>>
  BY <1>1, ExpiryFact, OptionFacts DEF LeaseSeqs, LeaseControl, Active
<1>3. LeaseSeqs'
  BY <1>2 DEF LeaseSeqs
<1>4. LeaseNumbers'
  BY OptionFacts DEF LeaseNumbers
<1>5. LeaseControl'
  BY <1>1, <1>2 DEF LeaseControl, Active
<1>6. OnTime'
  BY <1>1, <1>2 DEF OnTime, Lead, Active, LeaseNumbers, Decrement, ExpiryBuffer
<1>7. Counted' /\ Closing'
  BY <1>1 DEF Counted, Closing, Active
<1>. QED
  BY <1>3, <1>4, <1>5, <1>6, <1>7

LEMMA CheckKeepsLease ==
  ASSUME LeaseInv, Check, phase # "new", UNCHANGED <<host, phase>>
  PROVE  LeaseInv'
<1>. USE DEF Check, LeaseInv, LeaseTypes, closeVars
<1>1. expiry[1] \in Nat
  BY ExpiryFact DEF Active
<1>2. LeaseSeqs' /\ LeaseNumbers'
  BY DEF LeaseSeqs, LeaseNumbers
<1>3. LeaseControl'
  BY DEF LeaseControl, Active
<1>4. OnTime'
  BY <1>1 DEF OnTime, Lead, Active, LeaseNumbers, LeaseControl, ExpiryBuffer
<1>5. Counted' /\ Closing'
  BY DEF Counted, Closing, Active, LeaseControl
<1>. QED
  BY <1>2, <1>3, <1>4, <1>5

LEMMA ProviderFailsKeepsLease ==
  ASSUME LeaseInv, ProviderFails, phase # "new", UNCHANGED <<host, phase>>
  PROVE  LeaseInv'
<1>. USE DEF ProviderFails, LeaseInv, LeaseTypes, closeVars
<1>1. expiry[1] \in Nat /\ NextDelay(expiry[1]) \in Nat
  BY ExpiryFact, OptionFacts DEF Active
<1>2. LeaseSeqs' /\ LeaseNumbers'
  BY <1>1 DEF LeaseSeqs, LeaseNumbers, Decide
<1>3. LeaseControl'
  BY DEF LeaseControl, Active, Decide
<1>4. OnTime'
  BY <1>1 DEF OnTime, Lead, Active, LeaseNumbers, Decide
<1>5. Counted' /\ Closing'
  BY DEF Counted, Closing, Active, LeaseNumbers, LeaseControl, Decide
<1>. QED
  BY <1>2, <1>3, <1>4, <1>5

LEMMA ProviderReturnsKeepsLease ==
  ASSUME LeaseInv, NEW l \in Leases, ProviderReturns(l), phase # "new",
         UNCHANGED <<host, phase>>
  PROVE  LeaseInv'
<1>. USE DEF ProviderReturns, LeaseInv, LeaseTypes, closeVars
<1>1. expiry[1] \in Nat
  BY ExpiryFact DEF Active
<1>2. LeaseSeqs'
  <2>1. <<l>> \in Seq(Leases) /\ Len(<<l>>) <= 1
    OBVIOUS
  <2>2. lease' \in {lease, <<l>>} /\ expiry' = expiry
    OBVIOUS
  <2>. QED
    BY <2>1, <2>2 DEF LeaseSeqs
<1>6. LeaseNumbers'
  BY DEF LeaseNumbers
<1>3. LeaseControl'
  BY DEF LeaseControl, Active
<1>4. OnTime'
  BY <1>1 DEF OnTime, Lead, Active, LeaseNumbers
<1>5. Counted' /\ Closing'
  BY DEF Counted, Closing, Active, LeaseControl
<1>. QED
  BY <1>2, <1>3, <1>4, <1>5, <1>6

LEMMA RenewedKeepsLease ==
  ASSUME LeaseInv, NEW success \in BOOLEAN, Renewed(success), phase # "new",
         UNCHANGED <<host, phase>>
  PROVE  LeaseInv'
<1>. USE DEF Renewed, LeaseInv, LeaseTypes, closeVars
<1>1. expiry[1] \in Nat /\ NextDelay(expiry[1]) \in Nat
  BY ExpiryFact, OptionFacts DEF Active
<1>2. lease[1] \in Leases
  BY DEF LeaseSeqs, LeaseControl
<1>3. /\ expiry' \in Seq(Nat) /\ Len(expiry') <= 1
      /\ expiry' # <<>> => expiry'[1] \in Nat /\ NextDelay(expiry'[1]) \in Nat
  <2>1. lease[1].expiresAt \in Seq(Nat) /\ Len(lease[1].expiresAt) <= 1
    BY <1>2, LeasesAssumption DEF LeasesAssumption
  <2>2. expiry' \in {expiry, lease[1].expiresAt}
    OBVIOUS
  <2>3. expiry' \in Seq(Nat) /\ Len(expiry') <= 1
    BY <2>1, <2>2 DEF LeaseSeqs
  <2>. QED
    BY <2>3, OptionFacts
<1>4. LeaseSeqs' /\ LeaseNumbers'
  BY <1>3 DEF LeaseSeqs, LeaseNumbers, Decide
<1>5. LeaseControl'
  BY DEF LeaseControl, Active, Decide
<1>6. OnTime'
  BY <1>1, <1>3 DEF OnTime, Lead, Active, LeaseNumbers, Decide, NextDelay,
                    ExpiryBuffer, MinRetryDelay
<1>7. Counted' /\ Closing'
  BY DEF Counted, Closing, Active, LeaseNumbers, LeaseControl, Decide
<1>. QED
  BY <1>4, <1>5, <1>6, <1>7

LEMMA CloseKeepsLease ==
  ASSUME LeaseInv, UNCHANGED host,
         \/ CloseBegins /\ host = "java" /\ phase' = phase
         \/ (SchedulerTerminated \/ AwaitTimesOut \/ AwaitInterrupted) /\ phase' = phase
         \/ JavaDestroys
  PROVE  LeaseInv'
<1>. USE DEF LeaseInv, LeaseTypes, closeVars, leaseVars, CloseBegins,
             SchedulerTerminated, AwaitTimesOut, AwaitInterrupted, ShutdownNow,
             JavaDestroys, authVars
<1>1. LeaseSeqs' /\ LeaseNumbers'
  BY DEF LeaseSeqs, LeaseNumbers
<1>2. LeaseControl'
  BY DEF LeaseControl, Active
<1>3. OnTime'
  BY DEF OnTime, Active, Lead, LeaseNumbers
<1>4. Counted'
  BY DEF Counted, Active, LeaseControl, Closing
<1>5. Closing'
  BY DEF Closing, LeaseControl, Active
<1>. QED
  BY <1>1, <1>2, <1>3, <1>4, <1>5

LEMMA UpdateKeepsLease ==
  ASSUME LeaseInv, UpdateAuthentication
  PROVE  LeaseInv'
<1>. USE DEF LeaseInv, LeaseTypes, closeVars, UpdateAuthentication
<1>1. LeaseSeqs' /\ LeaseNumbers'
  BY DEF LeaseSeqs, LeaseNumbers
<1>2. LeaseControl'
  BY DEF LeaseControl, Active
<1>3. OnTime'
  BY DEF OnTime, Active, Lead, LeaseNumbers
<1>4. Counted'
  BY DEF Counted, Active, LeaseControl, Closing
<1>5. Closing'
  BY DEF Closing, LeaseControl, Active
<1>. QED
  BY <1>1, <1>2, <1>3, <1>4, <1>5

LEMMA NextKeepsLease == ASSUME LeaseInv, [Next]_vars PROVE LeaseInv'
<1>1. CASE UNCHANGED vars
  BY <1>1, QuietKeepsLease DEF vars, engineVars, Quiet
<1>2. CASE Quiet \/ OthersClose
  BY <1>2, QuietKeepsLease, OthersCloseKeepsLease
<1>3. CASE UpdateAuthentication
  BY <1>3, UpdateKeepsLease
<1>4. CASE AnswerIsRead
  <2>1. Renewed(updated[1].status = "success") /\ UNCHANGED <<host, phase>>
    BY <1>4 DEF AnswerIsRead, engineVars
  <2>2. phase # "new"
    BY <2>1 DEF Renewed, LeaseInv, Closing
  <2>. QED
    BY <2>1, <2>2, RenewedKeepsLease
<1>5. CASE LeaseStep
  <2>1. phase # "new" /\ UNCHANGED <<host, phase>>
    BY <1>5 DEF LeaseStep, engineVars
  <2>2. CASE Tick
    BY <2>1, <2>2, TickKeepsLease
  <2>3. CASE Check
    BY <2>1, <2>3, CheckKeepsLease
  <2>4. CASE ProviderFails
    BY <2>1, <2>4, ProviderFailsKeepsLease
  <2>5. ASSUME NEW l \in Leases, ProviderReturns(l) PROVE LeaseInv'
    BY <2>1, <2>5, ProviderReturnsKeepsLease
  <2>6. CASE SchedulerTerminated \/ AwaitTimesOut \/ AwaitInterrupted
    BY <2>1, <2>6, CloseKeepsLease
  <2>. QED
    BY <1>5, <2>2, <2>3, <2>4, <2>5, <2>6 DEF LeaseStep
<1>6. CASE JavaCloses
  BY <1>6, CloseKeepsLease DEF JavaCloses, engineVars
<1>7. CASE JavaDestroys
  BY <1>7, CloseKeepsLease DEF JavaDestroys
<1>. QED
  BY <1>1, <1>2, <1>3, <1>4, <1>5, <1>6, <1>7, Shape

(* The invariant of the scheduler and of close() always holds. *)
THEOREM LeaseInvariance == Spec => []LeaseInv
<1>1. Init => LeaseInv
  BY LeaseInvInit
<1>2. LeaseInv /\ [Next]_vars => LeaseInv'
  BY NextKeepsLease
<1>. QED
  BY <1>1, <1>2, PTL DEF Spec

(* A credential is renewed before it lapses unless the provider is slow or
   keeps failing, whatever the leases and their retries
   (FliptClient.java:370-421). *)
THEOREM LeasesKeptFresh == Spec => []LeaseKeptFresh
<1>1. LeaseInv => LeaseKeptFresh
  <2>. SUFFICES ASSUME LeaseInv PROVE LeaseKeptFresh
    OBVIOUS
  <2>1. ASSUME renewer \in {"waiting", "fetching"}, expiry = Some(0)
        PROVE  late >= (IF granted > ExpiryBuffer THEN ExpiryBuffer ELSE granted - 1)
    BY <2>1 DEF LeaseInv, LeaseTypes, LeaseNumbers, OnTime, Active, Lead, Some,
                ExpiryBuffer
  <2>2. ASSUME renewer = "stopped", expiry # None, maxRetries > 0
        PROVE  closed \/ failures = maxRetries
    BY <2>2 DEF LeaseInv, Counted, None
  <2>. QED
    BY <2>1, <2>2 DEF LeaseKeptFresh
<1>. QED
  BY <1>1, LeaseInvariance, PTL

(* No renewal uses an engine that close() has destroyed, unless close() was
   interrupted (FliptClient.java:376-443). *)
THEOREM EngineAlive == Spec => []EngineAliveWhenUsed
<1>1. LeaseInv => EngineAliveWhenUsed
  BY DEF LeaseInv, LeaseTypes, LeaseControl, Closing, EngineAliveWhenUsed, Active
<1>. QED
  BY <1>1, LeaseInvariance, PTL

-----------------------------------------------------------------------------
(* The memory a host owes the engine. *)
OwedText(text) == IF text = None THEN 0 ELSE 1

Owed ==
  IF call = None THEN 0
  ELSE IF call[1].stage = "written" THEN OwedText(call[1].text)
  ELSE IF call[1].stage = "called" THEN OwedText(call[1].text) + 1
  ELSE 1

Live == {"started", "seeded", "open", "unattended"}

CallShape == call # None => {"text", "stage"} \subseteq DOMAIN call[1]

(* What a host has been given and has not handed back: a client over the C
   interface the answers it has not read, a Go client its first two texts and
   those of the call it is making. *)
Accounted ==
  /\ host \in {"java", "go", "js"} /\ blocks \in Int
  /\ updated # None <=> renewer = "reading"
  /\ host = "js" => call = None /\ blocks = 0
  /\ host = "java" => blocks = (IF call = None THEN 0 ELSE 1)
                               + (IF updated = None THEN 0 ELSE 1)
  /\ host = "go" /\ phase \notin Live => call = None
  /\ host = "go" /\ phase \in Live /\ ~freeFailed => blocks = 2 + Owed

MemoryInv == CallShape /\ Accounted

LEMMA MemoryInit == ASSUME Init PROVE MemoryInv
<1>1. /\ host \in {"java", "go", "js"} /\ phase = "new" /\ call = None
      /\ blocks = 0 /\ updated = None
      /\ NoLeaseInit \/ \E l \in Leases : LeaseInit(l)
  BY Zenon DEF Init
<1>2. renewer # "reading"
  BY <1>1 DEF NoLeaseInit, LeaseInit
<1>. QED
  BY <1>1, <1>2 DEF MemoryInv, CallShape, Accounted, Live, None

(* Ways in which a call ends. *)
LEMMA NoCall == ASSUME call' = None PROVE CallShape' /\ Owed' = 0
BY DEF CallShape, Owed

LEMMA OwedFacts == Owed \in 0..2 /\ \A text : OwedText(text) \in 0..1
BY DEF Owed, OwedText

LEMMA JavaKeepsMemory ==
  ASSUME MemoryInv, LeaseInv, host = "java", host' = host,
         \/ call' = call /\ blocks' = blocks /\ updated' = updated /\ renewer' = renewer
         \/ \E op, text : JavaCalls(op, text)
         \/ JavaReads \/ UpdateAuthentication \/ AnswerIsRead
  PROVE  MemoryInv'
<1>. USE DEF MemoryInv, Accounted
<1>1. CASE call' = call /\ blocks' = blocks /\ updated' = updated /\ renewer' = renewer
  BY <1>1 DEF CallShape
<1>2. ASSUME NEW op, NEW text, JavaCalls(op, text) PROVE MemoryInv'
  <2>. USE <1>2 DEF JavaCalls, NewCall, Idle, ResultToPtr, authVars, leaseVars, Some
  <2>1. CallShape'
    BY DEF CallShape, None
  <2>2. call = None /\ call' # None
    BY DEF None
  <2>. QED
    BY <2>1, <2>2
<1>3. CASE JavaReads
  BY <1>3, NoCall DEF JavaReads, Return, authVars, leaseVars
<1>4. CASE UpdateAuthentication
  BY <1>4 DEF UpdateAuthentication, ResultToPtr, Some, None, CallShape
<1>5. CASE AnswerIsRead
  <2>1. renewer = "reading" /\ renewer' # "reading"
    BY <1>5 DEF AnswerIsRead, Renewed, Decide
  <2>. QED
    BY <1>5, <2>1 DEF AnswerIsRead, CallShape
<1>. QED
  BY <1>1, <1>2, <1>3, <1>4, <1>5

LEMMA GoFailsKeepsMemory ==
  ASSUME MemoryInv, LeaseInv, host = "go", call # None, UNCHANGED <<updated, renewer>>,
         host' = host, call' = None,
         \/ phase' \notin Live /\ blocks' \in Int
         \/ phase' \in Live /\ phase \in Live /\ freeFailed' = freeFailed
            /\ blocks' = blocks - Owed
         \/ phase' \in Live /\ freeFailed' = TRUE /\ blocks' = blocks
  PROVE  MemoryInv'
<1>1. CallShape' /\ Owed' = 0
  BY NoCall
<1>2. blocks' \in Int
  BY OwedFacts DEF MemoryInv, Accounted
<1>3. Accounted'
  BY <1>1, <1>2, OwedFacts DEF MemoryInv, Accounted
<1>. QED
  BY <1>1, <1>3 DEF MemoryInv

LEMMA FreeFacts ==
  ASSUME MemoryInv, NEW text, Free(text)
  PROVE  \/ blocks' = blocks - OwedText(text) /\ freeFailed' = freeFailed
         \/ blocks' = blocks /\ freeFailed' = TRUE
BY DEF MemoryInv, Accounted, Free, Deallocate, OwedText

LEMMA GoAllocatesKeepsMemory ==
  ASSUME MemoryInv, NEW op, NEW text, GoAllocates(op, text)
  PROVE  MemoryInv'
<1>. USE DEF GoAllocates, engineVars, authVars, leaseVars, NewCall, Some
<1>1. CallShape' /\ call' # None
  BY DEF CallShape, None
<1>2. call = None /\ Owed = 0 /\ Owed' = OwedText(text)
  BY DEF Idle, Owed, None
<1>3. blocks' = blocks + OwedText(text)
  BY DEF Allocate, OwedText, MemoryInv, Accounted
<1>4. host = "go" /\ phase \in Live /\ phase' = phase
  BY DEF GoPhases, Live
<1>. QED
  BY <1>1, <1>2, <1>3, <1>4, OwedFacts DEF MemoryInv, Accounted

LEMMA Answered ==
  ASSUME NEW c, NEW r, NEW d, {"text", "stage"} \subseteq DOMAIN c,
         d = [c EXCEPT !.stage = "called", !.response = r]
  PROVE  /\ d.text = c.text /\ d.stage = "called"
         /\ {"text", "stage"} \subseteq DOMAIN d
OBVIOUS

LEMMA GoRunsKeepsMemory == ASSUME MemoryInv, GoRuns PROVE MemoryInv'
<1>1. PICK r : call' = <<[call[1] EXCEPT !.stage = "called", !.response = r]>>
  BY DEF GoRuns, Some
<1>2. /\ call'[1].text = call[1].text /\ call'[1].stage = "called"
      /\ {"text", "stage"} \subseteq DOMAIN call'[1]
  <2>1. {"text", "stage"} \subseteq DOMAIN call[1]
    BY DEF GoRuns, MemoryInv, CallShape
  <2>2. call'[1] = [call[1] EXCEPT !.stage = "called", !.response = r]
    BY <1>1
  <2>. QED
    BY <2>1, <2>2, Answered
<1>3. call' # None
  BY <1>1 DEF None
<1>4. CallShape'
  BY <1>2 DEF CallShape
<1>5. Owed = OwedText(call[1].text) /\ Owed' = OwedText(call[1].text) + 1
  BY <1>2, <1>3 DEF Owed, GoRuns
<1>6. /\ blocks' = blocks + 1 /\ UNCHANGED <<host, phase, freeFailed, updated, renewer>>
      /\ host = "go" /\ call # None
  BY DEF ResultToPtr, GoRuns, authVars, leaseVars
<1>. QED
  BY <1>3, <1>4, <1>5, <1>6, OwedFacts DEF MemoryInv, Accounted

LEMMA GoCallFailsKeepsMemory ==
  ASSUME MemoryInv, LeaseInv, GoCallFails \/ GoUpdaterFails
  PROVE  MemoryInv'
<1>1. /\ host = "go" /\ host' = host /\ call # None /\ call' = None
      /\ UNCHANGED <<updated, renewer>>
      /\ Owed = OwedText(call[1].text) /\ phase \in Live
  BY DEF GoCallFails, GoUpdaterFails, GoFails, ReturnNothing, authVars, leaseVars,
         Owed, MemoryInv, Accounted
<1>2. CASE GoCallFails
  <2>1. CASE GoGivesUp(call[1].op)
    BY <1>1, <1>2, <2>1, GoFailsKeepsMemory DEF GoCallFails, GoFails, Live
  <2>2. CASE ~GoGivesUp(call[1].op)
    BY <1>1, <1>2, <2>2, FreeFacts, GoFailsKeepsMemory DEF GoCallFails, GoFails, Live
  <2>. QED
    BY <2>1, <2>2
<1>3. CASE GoUpdaterFails
  BY <1>1, <1>3, FreeFacts, GoFailsKeepsMemory DEF GoUpdaterFails, Live, MemoryInv, Accounted
<1>. QED
  BY <1>2, <1>3

LEMMA GoFreesTextKeepsMemory ==
  ASSUME MemoryInv, LeaseInv, GoFreesText
  PROVE  MemoryInv'
<1>. USE DEF GoFreesText
<1>1. /\ host = "go" /\ host' = host /\ call # None /\ UNCHANGED <<updated, renewer>>
      /\ Owed = OwedText(call[1].text) + 1 /\ phase \in Live
  BY DEF GoFails, engineVars, authVars, leaseVars, Owed, MemoryInv, Accounted
<1>2. ASSUME blocks' = Deallocate(blocks, call[1].text),
             call' = Some([call[1] EXCEPT !.stage = "freed"]),
             UNCHANGED <<freeFailed, outcome, engineVars>>
      PROVE  MemoryInv'
  <2>1. call'[1] = [call[1] EXCEPT !.stage = "freed"] /\ call' # None
    BY <1>2 DEF Some, None
  <2>2. CallShape' /\ call'[1].stage = "freed"
    BY <1>1, <2>1 DEF MemoryInv, CallShape
  <2>3. Owed' = 1
    BY <2>1, <2>2 DEF Owed
  <2>4. blocks' = blocks - OwedText(call[1].text)
    BY <1>2 DEF Deallocate, OwedText, MemoryInv, Accounted
  <2>5. phase' = phase /\ freeFailed' = freeFailed
    BY <1>2 DEF engineVars
  <2>. QED
    BY <1>1, <2>1, <2>2, <2>3, <2>4, <2>5, OwedFacts DEF MemoryInv, Accounted
<1>3. ASSUME ~freeFailed,
             GoFails(call[1].op, freeFailed' = TRUE /\ UNCHANGED blocks)
      PROVE  MemoryInv'
  <2>1. call' = None
    BY <1>3 DEF GoFails, ReturnNothing
  <2>2. \/ phase' = "failed" /\ blocks' = 0
        \/ freeFailed' = TRUE /\ blocks' = blocks
    BY <1>3 DEF GoFails
  <2>3. CASE phase' \in Live
    BY <1>1, <2>1, <2>2, <2>3, GoFailsKeepsMemory DEF Live
  <2>4. CASE phase' \notin Live
    <3>1. blocks' \in Int
      BY <2>2 DEF MemoryInv, Accounted
    <3>. QED
      BY <1>1, <2>1, <2>4, <3>1, GoFailsKeepsMemory
  <2>. QED
    BY <2>3, <2>4
<1>. QED
  BY <1>2, <1>3

LEMMA GoReadsKeepsMemory ==
  ASSUME MemoryInv, LeaseInv, GoReads \/ GoReadFails
  PROVE  MemoryInv'
<1>1. /\ host = "go" /\ host' = host /\ call # None /\ call' = None
      /\ UNCHANGED <<updated, renewer>>
      /\ Owed = 1 /\ phase \in Live /\ blocks \in Int
  BY DEF GoReads, GoReadFails, GoFails, Return, ReturnNothing, authVars, leaseVars,
         Owed, MemoryInv, Accounted
<1>2. CASE GoReads
  <2>1. CASE GoGivesUp(call[1].op) /\ call[1].response = Failure
    BY <1>1, <1>2, <2>1, GoFailsKeepsMemory DEF GoReads, GoFails, Live
  <2>2. CASE ~(GoGivesUp(call[1].op) /\ call[1].response = Failure)
    <3>1. blocks' = blocks - 1 /\ freeFailed' = freeFailed
      BY <1>2, <2>2 DEF GoReads
    <3>2. blocks' = blocks - Owed /\ blocks' \in Int
      BY <1>1, <3>1
    <3>. QED
      BY <1>1, <3>1, <3>2, GoFailsKeepsMemory
  <2>. QED
    BY <2>1, <2>2
<1>3. CASE GoReadFails
  <2>1. OwedText(Some(call[1].response)) = 1
    BY DEF OwedText, Some, None
  <2>2. CASE GoGivesUp(call[1].op)
    BY <1>1, <1>3, <2>2, GoFailsKeepsMemory DEF GoReadFails, GoFails, Live
  <2>3. CASE ~GoGivesUp(call[1].op)
    BY <1>1, <1>3, <2>1, <2>3, FreeFacts, GoFailsKeepsMemory
       DEF GoReadFails, GoFails, Live
  <2>. QED
    BY <2>2, <2>3
<1>. QED
  BY <1>2, <1>3

LEMMA StillKeepsMemory ==
  ASSUME MemoryInv, UNCHANGED <<host, callVars, updated>>,
         renewer' = "reading" <=> renewer = "reading",
         host = "go" => phase' = phase
  PROVE  MemoryInv'
BY DEF MemoryInv, CallShape, Accounted, Owed, callVars

LEMMA RestKeepsMemory ==
  ASSUME MemoryInv, LeaseInv,
         \/ \E d : GoStarts(d)
         \/ GoOpens \/ GoCloses
         \/ \E op, text : JsCalls(op, text)
         \/ LeaseStep
  PROVE  MemoryInv'
<1>. USE DEF authVars, leaseVars
<1>1. ASSUME NEW d, GoStarts(d) PROVE MemoryInv'
  <2>1. call = None /\ call' = None /\ Owed' = 0
    BY <1>1 DEF GoStarts, MemoryInv, Accounted, Live, Owed
  <2>. QED
    BY <1>1, <2>1, NoCall DEF GoStarts, MemoryInv, Accounted
<1>2. CASE GoOpens
  <2>1. call = None /\ call' = None /\ Owed' = 0 /\ Owed = 0
    BY <1>2 DEF GoOpens, Idle, callVars, Owed
  <2>. QED
    BY <1>2, <2>1, NoCall DEF GoOpens, MemoryInv, Accounted, callVars, Live
<1>3. CASE GoCloses
  BY <1>3, NoCall DEF GoCloses, Idle, MemoryInv, Accounted, Live
<1>4. ASSUME NEW op, NEW text, JsCalls(op, text) PROVE MemoryInv'
  BY <1>4, NoCall DEF JsCalls, Return, engineVars, MemoryInv, Accounted
<1>5. CASE LeaseStep
  <2>1. UNCHANGED <<host, phase, callVars, updated>>
    BY <1>5 DEF LeaseStep, engineVars
  <2>2. renewer' = "reading" <=> renewer = "reading"
    BY <1>5 DEF LeaseStep, Tick, Check, ProviderFails, ProviderReturns,
                SchedulerTerminated, AwaitTimesOut, AwaitInterrupted, ShutdownNow,
                Decide
  <2>. QED
    BY <2>1, <2>2, StillKeepsMemory
<1>. QED
  BY <1>1, <1>2, <1>3, <1>4, <1>5

LEMMA NextKeepsMemory == ASSUME MemoryInv, LeaseInv, [Next]_vars PROVE MemoryInv'
<1>1. CASE UNCHANGED vars
  BY <1>1, StillKeepsMemory DEF vars, engineVars, authVars, leaseVars
<1>2. CASE JavaStarts \/ \E d : JavaFetched(d)
  BY <1>2, StillKeepsMemory DEF JavaStarts, JavaFetched, authVars, leaseVars
<1>3. CASE (\E op, text : JavaCalls(op, text)) \/ JavaReads
  BY <1>3, JavaKeepsMemory DEF JavaCalls, JavaReads, engineVars
<1>4. CASE UpdateAuthentication \/ AnswerIsRead
  <2>1. host = "java"
    BY <1>4 DEF UpdateAuthentication, AnswerIsRead, Renewed, LeaseInv, Closing
  <2>2. host' = host
    BY <1>4 DEF UpdateAuthentication, AnswerIsRead, engineVars
  <2>. QED
    BY <1>4, <2>1, <2>2, JavaKeepsMemory
<1>5. CASE JavaCloses \/ JavaDestroys
  <2>1. /\ UNCHANGED <<host, callVars, updated>>
        /\ renewer' = renewer /\ host = "java"
    BY <1>5 DEF JavaCloses, JavaDestroys, CloseBegins, engineVars, authVars, leaseVars
  <2>. QED
    BY <2>1, StillKeepsMemory
<1>6. ASSUME NEW op, NEW text, GoAllocates(op, text) PROVE MemoryInv'
  BY <1>6, GoAllocatesKeepsMemory
<1>7. CASE GoRuns \/ GoCallFails \/ GoUpdaterFails \/ GoFreesText \/ GoReads \/ GoReadFails
  BY <1>7, GoRunsKeepsMemory, GoCallFailsKeepsMemory, GoFreesTextKeepsMemory,
     GoReadsKeepsMemory
<1>8. CASE JsStarts \/ JsOpens \/ \E op, text : JsGiven(op, text)
  <2>1. /\ UNCHANGED <<host, callVars, updated>>
        /\ renewer' = renewer /\ host = "js"
    BY <1>8 DEF JsStarts, JsOpens, JsGiven, authVars, leaseVars
  <2>. QED
    BY <2>1, StillKeepsMemory
<1>9. CASE \/ (\E d : GoStarts(d)) \/ GoOpens \/ GoCloses
           \/ (\E op, text : JsCalls(op, text)) \/ LeaseStep
  BY <1>9, RestKeepsMemory
<1>. QED
  BY <1>1, <1>2, <1>3, <1>4, <1>5, <1>6, <1>7, <1>8, <1>9 DEF Next, Calls

(* A Java host hands back every answer, a Go host every text of a call, on
   whichever way out the call takes (client.go:327-365, 612-664, 929-990,
   FliptClient.java:446-455). *)
THEOREM NoLeaks == Spec => []NothingLeaks
<1>1. Init => LeaseInv /\ MemoryInv
  BY LeaseInvInit, MemoryInit
<1>2. LeaseInv /\ MemoryInv /\ [Next]_vars => (LeaseInv /\ MemoryInv)'
  BY NextKeepsLease, NextKeepsMemory
<1>3. MemoryInv => NothingLeaks
  BY DEF MemoryInv, Accounted, NothingLeaks, Kept, Owed, Live, None
<1>. QED
  BY <1>1, <1>2, <1>3, PTL DEF Spec

-----------------------------------------------------------------------------
Statuses == {"success", "failure"}
Operations == {"evaluate", "batch", "list", "get", "seed", "update", "snapshot"}
Phases == {"new", "failed", "crashed", "closed"} \cup Live

(* What an engine returns says whether it has succeeded; no panic does. *)
LEMMA ResponsesHaveStatus ==
  /\ Failure.status \in Statuses /\ Null.status \in Statuses
  /\ \A x : Success(x).status \in Statuses
  /\ \A r : r.status \in Statuses \/ r = Panic => CatchUnwind(r).status \in Statuses
BY DEF Failure, Null, Success, CatchUnwind, Statuses

(* An evaluation is answered, and so is a batch. *)
LEMMA EvaluationsHaveStatus ==
  ASSUME NEW e, NEW r
  PROVE  Evaluation(e, r).status \in Statuses /\ BatchEvaluation(e, r).status \in Statuses
BY ResponsesHaveStatus DEF Evaluation, BatchEvaluation

(* Every call of the C interface that reads is answered. *)
LEMMA FfiHasStatus ==
  ASSUME NEW op \in {"evaluate", "batch", "list", "get"}, NEW text
  PROVE  FfiResponse(op, text).status \in Statuses
<1>. USE ResponsesHaveStatus, EvaluationsHaveStatus
<1>1. CASE op = "evaluate"
  <2>1. EvaluateUncaught(engine, text).status \in Statuses \/ EvaluateUncaught(engine, text) = Panic
    BY DEF EvaluateUncaught
  <2>. QED
    BY <1>1, <2>1 DEF FfiResponse, FfiEvaluate
<1>2. CASE op = "batch"
  <2>1. BatchUncaught(engine, text).status \in Statuses \/ BatchUncaught(engine, text) = Panic
    BY DEF BatchUncaught
  <2>. QED
    BY <1>2, <2>1 DEF FfiResponse, FfiBatch
<1>3. CASE op = "list"
  <2>1. ListFlagsUncaught(engine).status \in Statuses
    BY DEF ListFlagsUncaught
  <2>. QED
    BY <1>3, <2>1 DEF FfiResponse, FfiListFlags
<1>4. CASE op = "get"
  <2>1. GetSnapshotUncaught(engine).status \in Statuses
    BY DEF GetSnapshotUncaught
  <2>. QED
    BY <1>4, <2>1 DEF FfiResponse, FfiGetSnapshot
<1>. QED
  BY <1>1, <1>2, <1>3, <1>4

(* update_authentication answers, and leaves one engine at most. *)
LEMMA UpdateHasStatus ==
  ASSUME NEW text, Len(engine) <= 1
  PROVE  /\ FfiUpdateAuthentication(engine, text).response.status \in Statuses
         /\ Len(FfiUpdateAuthentication(engine, text).engine) <= 1
<1>. DEFINE u == UpdateAuthenticationUncaught(engine, text)
            c == [u EXCEPT !.response = CatchUnwind(u.response)]
<1>1. /\ u.response.status \in Statuses \/ u.response = Panic
      /\ {"engine", "response"} \subseteq DOMAIN u
      /\ Len(u.engine) <= 1
  BY ResponsesHaveStatus DEF UpdateAuthenticationUncaught, Some
<1>2. FfiUpdateAuthentication(engine, text) = c
  BY DEF FfiUpdateAuthentication
<1>. HIDE DEF u
<1>3. c.response = CatchUnwind(u.response) /\ c.engine = u.engine
  BY <1>1
<1>4. CatchUnwind(u.response).status \in Statuses
  BY <1>1, ResponsesHaveStatus
<1>. HIDE DEF c
<1>. QED
  BY <1>1, <1>2, <1>3, <1>4

(* Every call of the WASM module of the Go client is answered. *)
LEMMA WasmHasStatus ==
  ASSUME NEW op \in Operations, NEW text, Len(engine) <= 1
  PROVE  /\ WasmCalled(op, text).response.status \in Statuses
         /\ Len(WasmCalled(op, text).engine) <= 1
<1>. USE ResponsesHaveStatus, EvaluationsHaveStatus
<1>1. /\ WasmEvaluate(engine, text).status \in Statuses
      /\ WasmBatch(engine, text).status \in Statuses
      /\ WasmListFlags(engine).status \in Statuses
      /\ WasmGetSnapshot(engine).status \in Statuses
  BY DEF WasmEvaluate, WasmBatch, WasmListFlags, WasmGetSnapshot
<1>2. /\ WasmSeed(engine, text).response.status \in Statuses
      /\ Len(WasmSeed(engine, text).engine) <= 1
  BY DEF WasmSeed, Some
<1>3. /\ WasmSnapshot(engine, text).response.status \in Statuses
      /\ Len(WasmSnapshot(engine, text).engine) <= 1
  BY DEF WasmSnapshot, Some
<1>4. CASE op \in {"seed", "update", "snapshot"}
  BY <1>2, <1>3, <1>4 DEF WasmCalled
<1>5. CASE op \in {"evaluate", "batch", "list", "get"}
  BY <1>1, <1>5 DEF WasmCalled
<1>. QED
  BY <1>4, <1>5 DEF Operations

(* Types, and what is known of a call. *)
EngineTypes ==
  /\ phase \in Phases /\ Len(engine) <= 1
  /\ refusing \in BOOLEAN /\ freeFailed \in BOOLEAN

CallTypes ==
  /\ Len(call) <= 1
  /\ call # None => /\ {"op", "text", "stage", "response"} \subseteq DOMAIN call[1]
                    /\ call[1].op \in Operations
                    /\ call[1].stage \in {"called", "written", "freed"}
                    /\ call[1].response.status \in Statuses
  /\ updated # None => updated[1].status \in Statuses

(* A text the engine has failed to take back stays; that happens once, and a
   call leaves two texts at most. *)
Leaked ==
  /\ host = "go" /\ phase \in Live => blocks - Owed \in 2..(IF freeFailed THEN 4 ELSE 2)
  /\ host = "go" /\ phase \notin Live => blocks \in 0..6

LateInv == late \in 0..(ExpiryBuffer + 1)

TypeInv == EngineTypes /\ CallTypes /\ Leaked /\ LateInv

(* Before the first step nothing is called and nothing has leaked. *)
LEMMA TypeInvInit == ASSUME Init PROVE TypeInv
<1>1. /\ phase = "new" /\ engine = None /\ call = None /\ blocks = 0 /\ freeFailed = FALSE
      /\ updated = None /\ refusing = FALSE
      /\ NoLeaseInit \/ \E l \in Leases : LeaseInit(l)
  BY Zenon DEF Init
<1>2. late = 0
  BY <1>1 DEF NoLeaseInit, LeaseInit
<1>3. EngineTypes
  <2>1. refusing \in BOOLEAN /\ freeFailed \in BOOLEAN
    BY <1>1, Zenon
  <2>2. phase \in Phases /\ Len(engine) <= 1
    BY <1>1 DEF Phases, None
  <2>. QED
    BY <2>1, <2>2 DEF EngineTypes
<1>6. Leaked
  <2>1. phase \notin Live /\ blocks \in 0..6
    BY <1>1 DEF Live
  <2>. QED
    BY <2>1 DEF Leaked
<1>4. CallTypes
  BY <1>1 DEF CallTypes, None
<1>5. LateInv
  BY <1>2 DEF LateInv, ExpiryBuffer
<1>. QED
  BY <1>3, <1>4, <1>5, <1>6 DEF TypeInv

(* Only time passing makes a renewal late. *)
LEMMA NextKeepsLate == ASSUME LateInv, LeaseInv, [Next]_vars PROVE LateInv'
<1>. USE DEF LateInv, ExpiryBuffer
<1>1. CASE UNCHANGED vars
  BY <1>1 DEF vars, authVars, leaseVars
<1>2. CASE Quiet \/ OthersClose \/ UpdateAuthentication \/ JavaCloses \/ JavaDestroys
  BY <1>2 DEF Quiet, OthersClose, UpdateAuthentication, JavaCloses, CloseBegins, JavaDestroys,
              authVars, leaseVars
<1>3. CASE AnswerIsRead
  BY <1>3 DEF AnswerIsRead, Renewed
<1>4. CASE LeaseStep
  BY <1>4 DEF LeaseStep, Tick, Check, ProviderFails, ProviderReturns, SchedulerTerminated,
              AwaitTimesOut, AwaitInterrupted, ShutdownNow, leaseVars
<1>. QED
  BY <1>1, <1>2, <1>3, <1>4, Shape

-----------------------------------------------------------------------------
(* Every step keeps the types. *)
Types == EngineTypes /\ CallTypes /\ Leaked

(* What starts, feeds or seeds an engine leaves one at most. *)
LEMMA EnginesHaveLength ==
  ASSUME Len(engine) <= 1
  PROVE  /\ \A document : Len(FfiFetched(engine, document)) <= 1
         /\ \A pointer : Len(FfiInitialize(pointer)) <= 1
         /\ \A namespace, pointer : Len(WasmInitialize(namespace, pointer)) <= 1
         /\ \A namespace : Len(JsNew(namespace)) <= 1
         /\ \A json : /\ Len(JsSeed(engine, json).engine) <= 1
                     /\ Len(JsSnapshot(engine, json).engine) <= 1
<1>1. Len(None) <= 1 /\ \A x : Len(Some(x)) <= 1
  BY DEF None, Some
<1>2. \A document : Len(FfiFetched(engine, document)) <= 1
  BY <1>1 DEF FfiFetched
<1>3. \A pointer : Len(FfiInitialize(pointer)) <= 1
  BY <1>1 DEF FfiInitialize, InitializeEngine
<1>4. \A namespace, pointer : Len(WasmInitialize(namespace, pointer)) <= 1
  BY <1>1 DEF WasmInitialize
<1>5. \A namespace : Len(JsNew(namespace)) <= 1
  BY <1>1 DEF JsNew
<1>6. \A json : Len(JsSeed(engine, json).engine) <= 1
  BY <1>1 DEF JsSeed
<1>7. \A json : Len(JsSnapshot(engine, json).engine) <= 1
  BY <1>1 DEF JsSnapshot
<1>. QED
  BY <1>2, <1>3, <1>4, <1>5, <1>6, <1>7

(* A new call. *)
LEMMA NewCallTypes ==
  ASSUME NEW op \in Operations, NEW text, NEW stage \in {"called", "written", "freed"},
         NEW response, response.status \in Statuses,
         call' = Some(NewCall(op, text, stage, response)), updated' = updated, CallTypes
  PROVE  CallTypes'
<1>1. /\ call'[1] = NewCall(op, text, stage, response) /\ Len(call') <= 1
  BY DEF Some
<1>2. /\ {"op", "text", "stage", "response"} \subseteq DOMAIN NewCall(op, text, stage, response)
      /\ NewCall(op, text, stage, response).op = op
      /\ NewCall(op, text, stage, response).stage = stage
      /\ NewCall(op, text, stage, response).response = response
  BY DEF NewCall
<1>. QED
  BY <1>1, <1>2 DEF CallTypes

(* A call that has ended. *)
LEMMA NoCallTypes ==
  ASSUME call' = None, updated' = updated, CallTypes PROVE CallTypes'
BY DEF CallTypes, None

(* A step that leaves the calls alone. *)
LEMMA StillTypes ==
  ASSUME Types, UNCHANGED <<callVars, updated>>
  PROVE  CallTypes'
BY DEF Types, CallTypes, callVars

(* Only the Go client leaks. *)
LEMMA OthersLeak ==
  ASSUME MemoryInv, host # "go", host' = host PROVE Leaked'
BY DEF Leaked, MemoryInv, Accounted

(* A client over the C interface. *)
LEMMA CInterfaceKeepsTypes ==
  ASSUME Types, MemoryInv, LeaseInv, 
         \/ JavaStarts \/ (\E d : JavaFetched(d)) \/ JavaReads
         \/ JavaCloses \/ JavaDestroys
         \/ \E op \in {"evaluate", "batch", "list", "get"} : \E text : JavaCalls(op, text)
         \/ UpdateAuthentication \/ AnswerIsRead
  PROVE  Types'
<1>. USE DEF Types
<1>1. host = "java" /\ host' = host
  BY DEF JavaStarts, JavaFetched, JavaReads, JavaCloses, JavaDestroys, JavaCalls,
         UpdateAuthentication, AnswerIsRead, Renewed, engineVars, LeaseInv, Closing
<1>2. Leaked'
  BY <1>1, OthersLeak
<1>3. CASE JavaStarts
  <2>1. EngineTypes'
    BY <1>3, EnginesHaveLength DEF JavaStarts, EngineTypes, Phases, Live, callVars
  <2>. QED
    BY <1>2, <1>3, <2>1, StillTypes DEF JavaStarts
<1>4. ASSUME NEW d, JavaFetched(d) PROVE Types'
  <2>1. Len(engine') <= 1
    BY <1>4, EnginesHaveLength DEF JavaFetched, EngineTypes
  <2>2. refusing' \in BOOLEAN
    BY <1>4 DEF JavaFetched, EngineTypes
  <2>3. EngineTypes'
    BY <1>4, <2>1, <2>2 DEF JavaFetched, EngineTypes, callVars
  <2>. QED
    BY <1>2, <1>4, <2>3, StillTypes DEF JavaFetched
<1>5. CASE JavaReads
  BY <1>2, <1>5, NoCallTypes DEF JavaReads, Return, engineVars, EngineTypes
<1>6. CASE JavaCloses
  BY <1>2, <1>6, StillTypes DEF JavaCloses, engineVars, callVars, EngineTypes
<1>7. CASE JavaDestroys
  <2>1. EngineTypes'
    BY <1>7 DEF JavaDestroys, FfiDestroy, None, EngineTypes, Phases, callVars
  <2>. QED
    BY <1>2, <1>7, <2>1, StillTypes DEF JavaDestroys
<1>8. ASSUME NEW op \in {"evaluate", "batch", "list", "get"}, NEW text, JavaCalls(op, text)
      PROVE  Types'
  <2>1. EngineTypes'
    BY <1>8 DEF JavaCalls, engineVars, EngineTypes
  <2>2. CallTypes'
    BY <1>8, FfiHasStatus, NewCallTypes DEF JavaCalls, Operations
  <2>. QED
    BY <1>2, <2>1, <2>2
<1>9. CASE UpdateAuthentication
  <2>1. PICK text : /\ engine' = FfiUpdateAuthentication(engine, text).engine
                    /\ updated' = Some(FfiUpdateAuthentication(engine, text).response)
    BY <1>9 DEF UpdateAuthentication
  <2>2. /\ FfiUpdateAuthentication(engine, text).response.status \in Statuses
        /\ Len(engine') <= 1
    BY <2>1, UpdateHasStatus DEF EngineTypes
  <2>3. updated'[1].status \in Statuses
    BY <2>1, <2>2 DEF Some
  <2>4. CallTypes'
    BY <1>9, <2>3 DEF UpdateAuthentication, CallTypes
  <2>5. EngineTypes'
    BY <1>9, <2>2 DEF UpdateAuthentication, EngineTypes
  <2>. QED
    BY <1>2, <2>4, <2>5
<1>10. CASE AnswerIsRead
  <2>1. EngineTypes'
    BY <1>10 DEF AnswerIsRead, EngineTypes, engineVars
  <2>2. CallTypes'
    BY <1>10 DEF AnswerIsRead, CallTypes, None
  <2>. QED
    BY <1>2, <2>1, <2>2
<1>. QED
  BY <1>3, <1>4, <1>5, <1>6, <1>7, <1>8, <1>9, <1>10

(* The JavaScript client. *)
LEMMA JsKeepsTypes ==
  ASSUME Types, MemoryInv, LeaseInv,
         \/ JsStarts \/ JsOpens \/ (\E op, text : JsGiven(op, text))
         \/ \E op, text : JsCalls(op, text)
  PROVE  Types'
<1>. USE DEF Types
<1>1. host = "js" /\ host' = host
  BY DEF JsStarts, JsOpens, JsGiven, JsCalls, engineVars
<1>2. Leaked'
  BY <1>1, OthersLeak
<1>3. CASE JsStarts
  <2>1. EngineTypes'
    BY <1>3, EnginesHaveLength DEF JsStarts, EngineTypes, Phases, Live, callVars
  <2>. QED
    BY <1>2, <1>3, <2>1, StillTypes DEF JsStarts
<1>4. CASE JsOpens
  BY <1>2, <1>4, StillTypes DEF JsOpens, EngineTypes, Phases, Live, callVars
<1>5. ASSUME NEW op, NEW text, JsGiven(op, text) PROVE Types'
  <2>1. Len(engine') <= 1
    BY <1>5, EnginesHaveLength DEF JsGiven, EngineTypes
  <2>2. EngineTypes'
    BY <1>5, <2>1 DEF JsGiven, EngineTypes, Phases, Live, callVars
  <2>. QED
    BY <1>2, <1>5, <2>2, StillTypes DEF JsGiven
<1>6. ASSUME NEW op, NEW text, JsCalls(op, text) PROVE Types'
  BY <1>2, <1>6, NoCallTypes DEF JsCalls, Return, engineVars, EngineTypes
<1>. QED
  BY <1>3, <1>4, <1>5, <1>6

(* What a step of the Go client leaves behind. *)
LEMMA LeakFacts ==
  ASSUME Types, MemoryInv, host = "go", phase \in Live
  PROVE  /\ blocks \in Int /\ blocks - Owed >= 2 /\ blocks - Owed <= 4 /\ blocks \in 0..6
         /\ ~freeFailed => blocks - Owed = 2
BY OwedFacts DEF Types, Leaked, EngineTypes, MemoryInv, Accounted

(* A step that owes what it takes, leaks for the first time or ends the
   client. *)
LEMMA StillLeaks ==
  ASSUME Types, MemoryInv, host = "go", host' = host, phase \in Live,
         \/ phase' \in Live /\ freeFailed' = freeFailed /\ blocks' - Owed' = blocks - Owed
         \/ phase' \in Live /\ freeFailed' = TRUE
            /\ blocks' - Owed' \in 2..4
         \/ phase' \notin Live /\ blocks' \in 0..6
  PROVE  Leaked'
<1>1. CASE phase' \in Live /\ freeFailed' = freeFailed /\ blocks' - Owed' = blocks - Owed
  <2>1. freeFailed' = TRUE \/ freeFailed' = FALSE
    BY <1>1 DEF Types, EngineTypes
  <2>. QED
    BY <1>1, <2>1 DEF Types, Leaked
<1>2. CASE phase' \in Live /\ freeFailed' = TRUE /\ blocks' - Owed' \in 2..4
  BY <1>2 DEF Leaked
<1>3. CASE phase' \notin Live /\ blocks' \in 0..6
  BY <1>3 DEF Leaked
<1>. QED
  BY <1>1, <1>2, <1>3

(* The text of a call is owed from the moment it is allocated. *)
LEMMA GoCallMade ==
  ASSUME Types, MemoryInv, LeaseInv, NEW op \in Operations, NEW text, GoAllocates(op, text)
  PROVE  Types'
<1>. USE DEF Types, GoAllocates, engineVars
<1>1. EngineTypes'
  BY DEF EngineTypes
<1>2. CallTypes'
  <2>1. Failure.status \in Statuses
    BY ResponsesHaveStatus
  <2>. QED
    BY <2>1, NewCallTypes
<1>3. Leaked'
  <2>1. call = None /\ Owed = 0
    BY DEF Idle, Owed, None
  <2>2. Owed' = OwedText(text)
    BY DEF NewCall, Some, None, Owed
  <2>3. blocks' = blocks + OwedText(text)
    BY DEF Allocate, OwedText, MemoryInv, Accounted
  <2>4. phase \in Live /\ phase' \in Live
    BY DEF GoPhases, Live
  <2>5. blocks' - Owed' = blocks - Owed
    BY <2>1, <2>2, <2>3, <2>4, LeakFacts, OwedFacts
  <2>. QED
    BY <2>4, <2>5, StillLeaks
<1>. QED
  BY <1>1, <1>2, <1>3

(* The record of a call when its stage and its response change. *)
LEMMA AnsweredTypes ==
  ASSUME NEW c, NEW r, r.status \in Statuses, NEW stage \in {"called", "written", "freed"},
         {"op", "text", "stage", "response"} \subseteq DOMAIN c, c.op \in Operations
  PROVE  LET d == [c EXCEPT !.stage = stage, !.response = r] IN
         /\ {"op", "text", "stage", "response"} \subseteq DOMAIN d
         /\ d.op \in Operations /\ d.stage = stage
         /\ d.response.status \in Statuses
OBVIOUS

(* The engine's answer is owed besides. *)
LEMMA GoRunsKeepsTypes ==
  ASSUME Types, MemoryInv, LeaseInv, GoRuns
  PROVE  Types'
<1>. USE DEF Types
<1>1. PICK called : /\ called = WasmCalled(call[1].op, call[1].text)
                    /\ engine' = called.engine
                    /\ call' = Some([call[1] EXCEPT !.stage = "called",
                                                    !.response = called.response])
  BY DEF GoRuns
<1>2. /\ call # None /\ {"op", "text", "stage", "response"} \subseteq DOMAIN call[1]
      /\ call[1].op \in Operations /\ call[1].stage = "written"
  BY DEF GoRuns, CallTypes
<1>3. called.response.status \in Statuses /\ Len(called.engine) <= 1
  BY <1>1, <1>2, WasmHasStatus DEF EngineTypes
<1>4. EngineTypes'
  BY <1>1, <1>3 DEF GoRuns, EngineTypes
<1>5. CallTypes'
  <2>. DEFINE d == [call[1] EXCEPT !.stage = "called", !.response = called.response]
  <2>1. /\ {"op", "text", "stage", "response"} \subseteq DOMAIN d
        /\ d.op \in Operations /\ d.stage = "called"
        /\ d.response.status \in Statuses
    BY <1>2, <1>3, AnsweredTypes
  <2>2. call' = <<d>> /\ updated' = updated
    BY <1>1 DEF Some, GoRuns
  <2>. HIDE DEF d
  <2>. QED
    BY <2>1, <2>2 DEF CallTypes
<1>6. Leaked'
  <2>1. PICK r : call' = <<[call[1] EXCEPT !.stage = "called", !.response = r]>>
    BY <1>1 DEF Some
  <2>2. /\ call'[1].text = call[1].text /\ call'[1].stage = "called" /\ call' # None
    BY <1>2, <2>1, Answered DEF None
  <2>3. Owed = OwedText(call[1].text) /\ Owed' = OwedText(call[1].text) + 1
    BY <1>2, <2>2 DEF Owed
  <2>4. blocks' = blocks + 1 /\ UNCHANGED <<host, phase, freeFailed>> /\ host = "go"
    BY DEF ResultToPtr, GoRuns
  <2>5. phase \in Live
    BY <1>2, <2>4 DEF MemoryInv, Accounted
  <2>6. blocks' - Owed' = blocks - Owed
    BY <2>3, <2>4, <2>5, LeakFacts, OwedFacts
  <2>. QED
    BY <2>4, <2>5, <2>6, StillLeaks
<1>. QED
  BY <1>4, <1>5, <1>6

(* A call that ends in the Go client. *)
LEMMA GoEndsTypes ==
  ASSUME Types, MemoryInv, host = "go", host' = host, phase \in Live,
         call' = None, updated' = updated, phase' \in Phases, Len(engine') <= 1,
         refusing' = refusing, 
         \/ phase' \in Live /\ freeFailed' = freeFailed /\ blocks' = blocks - Owed
         \/ ~freeFailed /\ freeFailed' = TRUE /\ blocks' = blocks
         \/ phase' \notin Live /\ freeFailed' \in BOOLEAN /\ blocks' \in 0..6
  PROVE  Types'
<1>1. CallTypes' /\ Owed' = 0
  BY NoCallTypes, NoCall DEF Types
<1>2. freeFailed' \in BOOLEAN
  BY DEF Types, EngineTypes
<1>3. EngineTypes'
  BY <1>2 DEF Types, EngineTypes
<1>4. /\ blocks \in Int /\ blocks - Owed >= 2 /\ blocks - Owed <= 4 /\ blocks \in 0..6
      /\ Owed \in 0..2 /\ (~freeFailed => blocks - Owed = 2)
  BY LeakFacts, OwedFacts
<1>5. CASE phase' \in Live /\ freeFailed' = freeFailed /\ blocks' = blocks - Owed
  <2>1. blocks' - Owed' = blocks - Owed
    BY <1>1, <1>4, <1>5
  <2>. QED
    BY <1>1, <1>3, <1>5, <2>1, StillLeaks DEF Types
<1>6. CASE phase' \in Live /\ ~freeFailed /\ freeFailed' = TRUE /\ blocks' = blocks
  <2>1. blocks' - Owed' \in 2..4
    BY <1>1, <1>4, <1>6
  <2>. QED
    BY <1>1, <1>3, <1>6, <2>1, StillLeaks DEF Types
<1>7. CASE phase' \notin Live
  <2>1. blocks' \in 0..6
    BY <1>4, <1>7
  <2>. QED
    BY <1>1, <1>3, <1>7, <2>1, StillLeaks DEF Types
<1>. QED
  BY <1>5, <1>6, <1>7

(* What is handed back is no longer owed, or is leaked. *)
LEMMA Freed ==
  ASSUME MemoryInv, NEW text, Free(text)
  PROVE  \/ blocks' = blocks - OwedText(text) /\ freeFailed' = freeFailed
         \/ ~freeFailed /\ freeFailed' = TRUE /\ blocks' = blocks
BY DEF MemoryInv, Accounted, Free, Deallocate, OwedText

(* The ways in which a call fails. *)
LEMMA GoFailuresKeepTypes ==
  ASSUME Types, MemoryInv, LeaseInv, GoCallFails \/ GoUpdaterFails \/ GoReadFails
  PROVE  Types'
<1>1. /\ host = "go" /\ host' = host /\ call # None /\ call' = None
      /\ updated' = updated /\ refusing' = refusing /\ phase \in Live
  BY DEF GoCallFails, GoUpdaterFails, GoReadFails, GoFails, ReturnNothing, MemoryInv, Accounted
<1>2. /\ blocks \in 0..6 /\ Len(engine) <= 1 /\ Len(None) <= 1
      /\ freeFailed \in BOOLEAN /\ phase \in Phases
  BY <1>1, LeakFacts DEF Types, EngineTypes, None
<1>3. CASE GoUpdaterFails
  <2>1. engine' = engine /\ Owed = OwedText(call[1].text)
    BY <1>1, <1>3 DEF GoUpdaterFails, Owed
  <2>2. CASE phase' = "unattended" /\ Free(call[1].text)
    BY <1>1, <1>2, <2>1, <2>2, Freed, GoEndsTypes DEF Live, Phases
  <2>3. CASE phase' = "crashed" /\ UNCHANGED <<blocks, freeFailed>>
    BY <1>1, <1>2, <2>1, <2>3, GoEndsTypes DEF Live, Phases
  <2>. QED
    BY <1>3, <2>2, <2>3 DEF GoUpdaterFails
<1>4. ASSUME NEW text, GoFails(call[1].op, Free(text)), OwedText(text) = Owed
      PROVE  Types'
  <2>1. CASE GoGivesUp(call[1].op)
    <3>1. engine' = None /\ phase' = "failed" /\ blocks' = 0 /\ freeFailed' = freeFailed
      BY <1>4, <2>1 DEF GoFails
    <3>. QED
      BY <1>1, <1>2, <3>1, GoEndsTypes DEF Live, Phases
  <2>2. CASE ~GoGivesUp(call[1].op)
    <3>1. /\ Free(text) /\ engine' = engine
          /\ phase' \in {"unattended", phase}
      BY <1>4, <2>2 DEF GoFails
    <3>. QED
      BY <1>1, <1>2, <1>4, <3>1, Freed, GoEndsTypes DEF Live, Phases
  <2>. QED
    BY <2>1, <2>2
<1>5. CASE GoCallFails
  BY <1>1, <1>4, <1>5 DEF GoCallFails, Owed
<1>6. CASE GoReadFails
  <2>1. OwedText(Some(call[1].response)) = 1 /\ Owed = 1
    BY <1>1, <1>6 DEF OwedText, Some, None, GoReadFails, Owed
  <2>. QED
    BY <1>4, <1>6, <2>1 DEF GoReadFails
<1>. QED
  BY <1>3, <1>5, <1>6

(* Handing back the text of a call, which may leak it and the answer. *)
LEMMA GoFreesTextKeepsTypes ==
  ASSUME Types, MemoryInv, LeaseInv, GoFreesText
  PROVE  Types'
<1>1. /\ host = "go" /\ host' = host /\ call # None
      /\ updated' = updated /\ refusing' = refusing /\ phase \in Live
      /\ Owed = OwedText(call[1].text) + 1
  BY DEF GoFreesText, GoFails, engineVars, MemoryInv, Accounted, Owed
<1>2. /\ blocks \in 0..6 /\ Len(engine) <= 1 /\ Len(None) <= 1 /\ blocks \in Int
      /\ freeFailed \in BOOLEAN /\ phase \in Phases
  BY <1>1, LeakFacts DEF Types, EngineTypes, None
<1>3. ASSUME blocks' = Deallocate(blocks, call[1].text),
             call' = Some([call[1] EXCEPT !.stage = "freed"]),
             UNCHANGED <<freeFailed, outcome, engineVars>>
      PROVE  Types'
  <2>. DEFINE d == [call[1] EXCEPT !.stage = "freed"]
  <2>1. /\ {"op", "text", "stage", "response"} \subseteq DOMAIN call[1]
        /\ call[1].op \in Operations /\ call[1].response.status \in Statuses
    BY <1>1 DEF Types, CallTypes
  <2>2. /\ {"op", "text", "stage", "response"} \subseteq DOMAIN d
        /\ d.op \in Operations /\ d.stage = "freed" /\ d.response.status \in Statuses
    BY <2>1
  <2>3. call' = <<d>>
    BY <1>3 DEF Some
  <2>. HIDE DEF d
  <2>4. CallTypes'
    BY <1>1, <2>2, <2>3 DEF Types, CallTypes
  <2>5. EngineTypes'
    BY <1>3 DEF Types, EngineTypes, engineVars
  <2>6. Owed' = 1
    BY <2>2, <2>3 DEF Owed, None
  <2>7. blocks' = blocks - OwedText(call[1].text)
    BY <1>2, <1>3 DEF Deallocate, OwedText
  <2>8. blocks' - Owed' = blocks - Owed
    BY <1>1, <1>2, <2>6, <2>7, OwedFacts
  <2>9. phase' \in Live /\ freeFailed' = freeFailed
    BY <1>1, <1>3 DEF engineVars
  <2>10. Leaked'
    BY <1>1, <2>8, <2>9, StillLeaks
  <2>. QED
    BY <2>4, <2>5, <2>10 DEF Types
<1>4. ASSUME ~freeFailed, GoFails(call[1].op, freeFailed' = TRUE /\ UNCHANGED blocks)
      PROVE  Types'
  <2>1. call' = None
    BY <1>4 DEF GoFails, ReturnNothing
  <2>2. CASE GoGivesUp(call[1].op)
    <3>1. engine' = None /\ phase' = "failed" /\ blocks' = 0 /\ freeFailed' = freeFailed
      BY <1>4, <2>2 DEF GoFails
    <3>. QED
      BY <1>1, <1>2, <2>1, <3>1, GoEndsTypes DEF Live, Phases
  <2>3. CASE ~GoGivesUp(call[1].op)
    <3>1. /\ freeFailed' = TRUE /\ blocks' = blocks /\ engine' = engine
          /\ phase' \in {"unattended", phase}
      BY <1>4, <2>3 DEF GoFails
    <3>. QED
      BY <1>1, <1>2, <1>4, <2>1, <3>1, GoEndsTypes DEF Live, Phases
  <2>. QED
    BY <2>2, <2>3
<1>. QED
  BY <1>3, <1>4 DEF GoFreesText

(* The answer is read and handed back. *)
LEMMA GoReadsKeepsTypes ==
  ASSUME Types, MemoryInv, LeaseInv, GoReads
  PROVE  Types'
<1>1. /\ host = "go" /\ host' = host /\ call # None /\ call' = None
      /\ updated' = updated /\ refusing' = refusing /\ phase \in Live /\ Owed = 1
  BY DEF GoReads, GoFails, Return, ReturnNothing, MemoryInv, Accounted, Owed
<1>2. /\ blocks \in 0..6 /\ Len(engine) <= 1 /\ Len(None) <= 1 /\ blocks \in Int
      /\ blocks - Owed >= 2 /\ freeFailed \in BOOLEAN /\ phase \in Phases
  BY <1>1, LeakFacts DEF Types, EngineTypes, None
<1>3. CASE GoGivesUp(call[1].op) /\ call[1].response = Failure
  <2>1. engine' = None /\ phase' = "failed" /\ blocks' = 0 /\ freeFailed' = freeFailed
    BY <1>3 DEF GoReads, GoFails
  <2>. QED
    BY <1>1, <1>2, <2>1, GoEndsTypes DEF Live, Phases
<1>4. CASE ~(GoGivesUp(call[1].op) /\ call[1].response = Failure)
  <2>1. /\ blocks' = blocks - 1 /\ engine' = engine /\ freeFailed' = freeFailed
        /\ phase' \in {"seeded", "open", "crashed", phase}
    BY <1>4, Zenon DEF GoReads
  <2>2. blocks' = blocks - Owed /\ blocks' \in 0..6
    BY <1>1, <1>2, <2>1
  <2>. QED
    BY <1>1, <1>2, <2>1, <2>2, GoEndsTypes DEF Live, Phases
<1>. QED
  BY <1>3, <1>4

(* The life of a Go client. *)
LEMMA GoOpensAndCloses ==
  ASSUME Types, MemoryInv, LeaseInv, (\E d : GoStarts(d)) \/ GoOpens \/ GoCloses
  PROVE  Types'
<1>1. call = None /\ call' = None /\ Owed = 0 /\ Owed' = 0
  <2>1. call = None /\ call' = None
    BY DEF GoStarts, GoOpens, GoCloses, Idle, callVars, MemoryInv, Accounted, Live
  <2>. QED
    BY <2>1 DEF Owed
<1>2. CallTypes'
  BY <1>1, NoCallTypes DEF Types, GoStarts, GoOpens, GoCloses
<1>3. ASSUME NEW d, GoStarts(d) PROVE Types'
  <2>1. Len(engine') <= 1 /\ phase' \in Phases
    BY <1>3, EnginesHaveLength DEF GoStarts, Types, EngineTypes, Phases, Live
  <2>2. EngineTypes'
    BY <1>3, <2>1 DEF GoStarts, Types, EngineTypes
  <2>3. blocks' - Owed' = 2 /\ blocks' \in 0..6
    BY <1>1, <1>3 DEF GoStarts
  <2>4. Leaked'
    BY <1>3, <2>2, <2>3 DEF Leaked, EngineTypes, Live, GoStarts
  <2>. QED
    BY <1>2, <2>2, <2>4 DEF Types
<1>4. CASE GoOpens
  <2>1. EngineTypes'
    BY <1>4 DEF GoOpens, Types, EngineTypes, Phases, Live, callVars
  <2>2. /\ phase \in Live /\ phase' \in Live /\ blocks' = blocks /\ freeFailed' = freeFailed
        /\ host = "go" /\ host' = host
    BY <1>4 DEF GoOpens, Live, callVars
  <2>3. Leaked'
    BY <1>1, <2>2, StillLeaks
  <2>. QED
    BY <1>2, <2>1, <2>3 DEF Types
<1>5. CASE GoCloses
  <2>1. EngineTypes'
    BY <1>5 DEF GoCloses, WasmDestroy, Types, EngineTypes, Phases, None
  <2>2. Leaked'
    BY <1>5 DEF GoCloses, Leaked, Live
  <2>. QED
    BY <1>2, <2>1, <2>2 DEF Types
<1>. QED
  BY <1>3, <1>4, <1>5

(* TypeInv is inductive, given the other invariants. *)
LEMMA NextKeepsTypes == ASSUME TypeInv, MemoryInv, LeaseInv, [Next]_vars PROVE TypeInv'
<1>. Types /\ LateInv
  BY DEF TypeInv, Types
<1>1. CASE (UNCHANGED vars) \/ LeaseStep
  <2>1. UNCHANGED <<engineVars, callVars, updated>>
    BY <1>1 DEF vars, LeaseStep
  <2>2. EngineTypes'
    BY <2>1 DEF Types, EngineTypes, engineVars, callVars
  <2>3. Leaked'
    BY <2>1 DEF Types, Leaked, Owed, engineVars, callVars
  <2>. QED
    BY <2>1, <2>2, <2>3, StillTypes, NextKeepsLate DEF TypeInv
<1>2. ASSUME Next, ~LeaseStep PROVE Types'
  <2>1. ASSUME NEW r \in Requests,
               \/ Len(r) = 1 /\ Calls("evaluate", Some(Text(Some(r))))
               \/ Calls("batch", Some(Text(Some(r))))
        PROVE  Types'
    BY <2>1, CInterfaceKeepsTypes, GoCallMade, JsKeepsTypes DEF Calls, Operations
  <2>2. CASE Calls("list", None) \/ Calls("get", None)
    BY <2>2, CInterfaceKeepsTypes, GoCallMade, JsKeepsTypes DEF Calls, Operations
  <2>3. CASE \/ JavaStarts \/ JavaFetched(None) \/ (\E d \in Documents : JavaFetched(Some(d)))
             \/ JavaReads \/ UpdateAuthentication \/ AnswerIsRead \/ JavaCloses
             \/ JavaDestroys
    BY <2>3, CInterfaceKeepsTypes
  <2>4. CASE \/ \E d \in Documents \cup {EmptySnapshot(Namespace)} : GoStarts(d)
             \/ GoOpens \/ GoCloses
    BY <2>4, GoOpensAndCloses
  <2>5. ASSUME NEW t, \/ GoAllocates("update", t) \/ GoAllocates("snapshot", t)
                      \/ GoAllocates("seed", t)
        PROVE  Types'
    BY <2>5, GoCallMade DEF Operations
  <2>6. ASSUME NEW op, NEW t, JsGiven(op, t) PROVE Types'
    BY <2>6, JsKeepsTypes
  <2>7. CASE GoRuns \/ GoCallFails \/ GoUpdaterFails \/ GoFreesText \/ GoReads \/ GoReadFails
    BY <2>7, GoRunsKeepsTypes, GoFailuresKeepTypes, GoFreesTextKeepsTypes, GoReadsKeepsTypes
  <2>8. CASE JsStarts \/ JsOpens
    BY <2>8, JsKeepsTypes
  <2>. QED
    BY <1>2, <2>1, <2>2, <2>3, <2>4, <2>5, <2>6, <2>7, <2>8, Zenon DEF Next
<1>. QED
  BY <1>1, <1>2, NextKeepsLate DEF TypeInv, Types

(* Whatever the options, the payloads and the failures, no panic of an engine
   reaches its host, and an engine owes six texts at most: two for the client,
   two for the call, and two of a call whose text it could not take back
   (lib.rs:280-430 of flipt-engine-ffi, client.go:327-365 and 929-990). *)
THEOREM HostsTypes == Spec => []TypeOK
<1>1. Init => LeaseInv /\ MemoryInv /\ TypeInv
  BY LeaseInvInit, MemoryInit, TypeInvInit
<1>2. LeaseInv /\ MemoryInv /\ TypeInv /\ [Next]_vars => (LeaseInv /\ MemoryInv /\ TypeInv)'
  BY NextKeepsLease, NextKeepsMemory, NextKeepsTypes
<1>3. LeaseInv /\ MemoryInv /\ TypeInv => TypeOK
  <2>. SUFFICES ASSUME LeaseInv, MemoryInv, TypeInv PROVE TypeOK
    OBVIOUS
  <2>1. blocks \in 0..6
    <3>1. CASE host = "go"
      <4>1. CASE phase \in Live
        BY <3>1, <4>1, LeakFacts DEF TypeInv, Types
      <4>2. CASE phase \notin Live
        BY <3>1, <4>2 DEF TypeInv, Leaked
      <4>. QED
        BY <4>1, <4>2
    <3>2. CASE host # "go"
      BY <3>2 DEF MemoryInv, Accounted
    <3>. QED
      BY <3>1, <3>2
  <2>2. /\ renewer \in {"off", "waiting", "fetching", "updating", "reading", "stopped"}
        /\ closer \in {"no", "awaiting", "done"} /\ failures \in Nat
    BY DEF LeaseInv, LeaseTypes, LeaseNumbers, LeaseControl, Active
  <2>3. /\ phase \in {"new", "started", "seeded", "open", "unattended", "failed", "crashed",
                       "closed"}
        /\ Len(engine) <= 1 /\ refusing \in BOOLEAN /\ freeFailed \in BOOLEAN
    BY DEF TypeInv, EngineTypes, Phases, Live
  <2>4. /\ Len(call) <= 1
        /\ call # None => /\ call[1].stage \in {"called", "written", "freed"}
                          /\ call[1].response.status \in {"success", "failure"}
        /\ updated # None => updated[1].status \in {"success", "failure"}
    BY DEF TypeInv, CallTypes, Statuses
  <2>. QED
    BY <2>1, <2>2, <2>3, <2>4 DEF TypeOK, TypeInv, LateInv
<1>. QED
  BY <1>1, <1>2, <1>3, PTL DEF Spec

-----------------------------------------------------------------------------
(* The start of an engine of the C interface, and what is left of it: only the
   credential of its fetcher changes. *)
SameFetcher(f, g) ==
  /\ DOMAIN f = DOMAIN g
  /\ f.url = g.url /\ f.namespace = g.namespace /\ f.timeout = g.timeout
  /\ f.mode = g.mode /\ f.client = g.client

SameEngine(e, f) ==
  /\ DOMAIN e = DOMAIN f
  /\ e.namespace = f.namespace /\ e.strategy = f.strategy
  /\ SameFetcher(e.fetcher, f.fetcher)

EngineShape(e) ==
  /\ {"namespace", "store", "error", "strategy", "fetcher"} \subseteq DOMAIN e
  /\ {"url", "namespace", "authorization", "timeout", "mode", "client"} \subseteq DOMAIN e.fetcher

Started ==
  host = "java" /\ engine # None =>
    /\ FfiInitialize(options) # None
    /\ EngineShape(engine[1])
    /\ SameEngine(engine[1], FfiInitialize(options)[1])

(* What initialize_engine returns has the fields of an engine. *)
LEMMA StartShape ==
  ASSUME NEW pointer, FfiInitialize(pointer) # None
  PROVE  EngineShape(FfiInitialize(pointer)[1])
<1>1. \A builder : Build(builder) # None =>
        {"url", "namespace", "authorization", "timeout", "mode", "client"} \subseteq
          DOMAIN Build(builder)[1]
  BY DEF Build, Some, None
<1>2. Build(NewBuilder(DefaultUrl)) # None
  BY DEF Build, NewBuilder, Some, None
<1>. DEFINE opts == OrElse(pointer[1].json, DefaultOpts)
            built == Build(ConfiguredBuilder(opts))
            fetcher == OrElse(built, Build(NewBuilder(DefaultUrl))[1])
<1>3. {"url", "namespace", "authorization", "timeout", "mode", "client"} \subseteq DOMAIN fetcher
  BY <1>1, <1>2 DEF OrElse
<1>4. PICK n, s, r : FfiInitialize(pointer)[1] =
        [namespace |-> n, store |-> s, error |-> FALSE, strategy |-> r, fetcher |-> fetcher]
  BY DEF FfiInitialize, InitializeEngine, Some
<1>. HIDE DEF fetcher
<1>. QED
  BY <1>3, <1>4 DEF EngineShape

(* Another document or error leaves the start. *)
LEMMA ChangedStore ==
  ASSUME NEW e, EngineShape(e), NEW f, SameEngine(e, f), NEW s, NEW b
  PROVE  /\ EngineShape([e EXCEPT !.store = s, !.error = b])
         /\ SameEngine([e EXCEPT !.store = s, !.error = b], f)
         /\ EngineShape([e EXCEPT !.error = b])
         /\ SameEngine([e EXCEPT !.error = b], f)
BY DEF EngineShape, SameEngine

(* So does the end of a fetch. *)
LEMMA FetchedKeepsStart ==
  ASSUME NEW document, NEW e \in {engine[1]}, EngineShape(e), NEW f, SameEngine(e, f)
  PROVE  /\ FfiFetched(engine, document) # None
         /\ EngineShape(FfiFetched(engine, document)[1])
         /\ SameEngine(FfiFetched(engine, document)[1], f)
<1>1. PICK s, b, g : /\ \/ g = [e EXCEPT !.store = s, !.error = b]
                        \/ g = [e EXCEPT !.error = b]
                     /\ FfiFetched(engine, document) = <<g>>
  BY DEF FfiFetched, Some
<1>2. EngineShape(g) /\ SameEngine(g, f)
  <2>1. CASE g = [e EXCEPT !.store = s, !.error = b]
    BY <2>1, ChangedStore
  <2>2. CASE g = [e EXCEPT !.error = b]
    BY <2>2, ChangedStore
  <2>. QED
    BY <1>1, <2>1, <2>2
<1>. QED
  BY <1>1, <1>2 DEF None

(* Another credential leaves the start, too. *)
LEMMA UpdateKeepsStart ==
  ASSUME NEW text, engine # None, NEW e \in {engine[1]}, Len(engine) <= 1,
         EngineShape(e), NEW f, SameEngine(e, f)
  PROVE  /\ EngineShape(FfiUpdateAuthentication(engine, text).engine[1])
         /\ SameEngine(FfiUpdateAuthentication(engine, text).engine[1], f)
<1>1. \/ FfiUpdateAuthentication(engine, text).engine = engine
      \/ \E a : FfiUpdateAuthentication(engine, text).engine
                  = <<[e EXCEPT !.fetcher.authorization = a]>>
  <2>. DEFINE u == UpdateAuthenticationUncaught(engine, text)
  <2>1. /\ {"engine", "response"} \subseteq DOMAIN u
        /\ \/ u.engine = engine
           \/ \E a : u.engine = <<[e EXCEPT !.fetcher.authorization = a]>>
    BY DEF UpdateAuthenticationUncaught, Some
  <2>. HIDE DEF u
  <2>2. [u EXCEPT !.response = CatchUnwind(u.response)].engine = u.engine
    BY <2>1
  <2>. QED
    BY <2>1, <2>2 DEF FfiUpdateAuthentication, u
<1>2. ASSUME NEW a, NEW g, g = [e EXCEPT !.fetcher.authorization = a]
      PROVE  EngineShape(g) /\ SameEngine(g, f)
  <2>1. /\ DOMAIN g = DOMAIN e /\ g.namespace = e.namespace /\ g.strategy = e.strategy
        /\ g.fetcher = [e.fetcher EXCEPT !.authorization = a]
    BY <1>2 DEF EngineShape
  <2>2. SameFetcher(g.fetcher, e.fetcher)
    BY <2>1 DEF EngineShape, SameFetcher
  <2>. QED
    BY <2>1, <2>2 DEF EngineShape, SameEngine, SameFetcher
<1>3. CASE FfiUpdateAuthentication(engine, text).engine = engine
  BY <1>3
<1>4. ASSUME NEW a, FfiUpdateAuthentication(engine, text).engine
                      = <<[e EXCEPT !.fetcher.authorization = a]>>
      PROVE  /\ EngineShape(FfiUpdateAuthentication(engine, text).engine[1])
             /\ SameEngine(FfiUpdateAuthentication(engine, text).engine[1], f)
  <2>1. FfiUpdateAuthentication(engine, text).engine[1] = [e EXCEPT !.fetcher.authorization = a]
    BY <1>4
  <2>. QED
    BY <1>2, <2>1
<1>. QED
  BY <1>1, <1>3, <1>4

(* Started is inductive. *)
LEMMA NextKeepsStarted ==
  ASSUME Started, TypeInv, LeaseInv, [Next]_vars
  PROVE  Started'
<1>1. ASSUME UNCHANGED <<host, options, engine>> PROVE Started'
  BY <1>1 DEF Started
<1>2. ASSUME host # "java", host' = host PROVE Started'
  BY <1>2 DEF Started
<1>3. CASE UNCHANGED vars \/ LeaseStep \/ JavaReads \/ AnswerIsRead \/ JavaCloses
           \/ \E op, text : JavaCalls(op, text)
  BY <1>1, <1>3 DEF vars, LeaseStep, JavaReads, AnswerIsRead, JavaCloses, JavaCalls, engineVars
<1>4. CASE JavaStarts
  <2>1. engine' = FfiInitialize(options) /\ options' = options
    BY <1>4 DEF JavaStarts
  <2>. QED
    BY <2>1, StartShape DEF Started, SameEngine, SameFetcher
<1>5. ASSUME NEW d, JavaFetched(d) PROVE Started'
  <2>1. engine' = FfiFetched(engine, d) /\ engine # None /\ UNCHANGED <<host, options>>
    BY <1>5 DEF JavaFetched
  <2>. QED
    BY <2>1, FetchedKeepsStart DEF Started
<1>6. CASE UpdateAuthentication
  <2>1. PICK text : engine' = FfiUpdateAuthentication(engine, text).engine
    BY <1>6 DEF UpdateAuthentication
  <2>2. UNCHANGED <<host, options>>
    BY <1>6 DEF UpdateAuthentication
  <2>3. CASE engine = None
    <3>1. engine' = engine
      <4>1. FfiUpdateAuthentication(None, text).engine = None
        BY DEF FfiUpdateAuthentication, UpdateAuthenticationUncaught
      <4>. QED
        BY <2>1, <2>3, <4>1
    <3>. QED
      BY <1>1, <2>2, <3>1
  <2>4. CASE engine # None
    BY <2>1, <2>2, <2>4, UpdateKeepsStart DEF Started, TypeInv, EngineTypes
  <2>. QED
    BY <2>3, <2>4
<1>7. CASE JavaDestroys
  BY <1>7 DEF JavaDestroys, FfiDestroy, Started
<1>8. CASE \/ (\E op, text : GoAllocates(op, text) \/ JsCalls(op, text) \/ JsGiven(op, text))
           \/ (\E d : GoStarts(d))
           \/ GoRuns \/ GoCallFails \/ GoUpdaterFails \/ GoFreesText \/ GoReads
           \/ GoReadFails \/ GoOpens \/ GoCloses \/ JsStarts \/ JsOpens
  BY <1>2, <1>8 DEF GoAllocates, JsCalls, JsGiven, GoStarts, GoRuns, GoCallFails,
     GoUpdaterFails, GoFreesText, GoReads, GoReadFails, GoOpens, GoCloses, JsStarts,
     JsOpens, GoFails, engineVars
<1>. QED
  BY <1>3, <1>4, <1>5, <1>6, <1>7, <1>8, Zenon DEF Next, Calls

(* What the configured client is. *)
LEMMA ClientAsConfigured ==
  ASSUME NEW tls, ~Spoiled(tls)
  PROVE  /\ ConfigureTls(tls) # None
         /\ TlsAsConfigured(ConfigureTls(tls)[1], tls)
<1>1. \A c \in {tls.ca_cert_data, tls.ca_cert_file, tls.client_cert_data,
                tls.client_key_data, tls.client_cert_file, tls.client_key_file} :
        c = None \/ c[1] = "pem"
  BY DEF Spoiled, Some
<1>2. /\ LoadCaCertificateData(tls) \subseteq {"pem"}
      /\ LoadCaCertificateData(tls) # {} <=> tls.ca_cert_data # None \/ tls.ca_cert_file # None
  BY <1>1 DEF LoadCaCertificateData, ReadFiles
<1>3. /\ LoadClientCertificateData(tls) \subseteq {"pem"}
      /\ LoadClientCertificateData(tls) # {} <=>
           \/ tls.client_cert_data # None /\ tls.client_key_data # None
           \/ tls.client_cert_file # None /\ tls.client_key_file # None
  BY <1>1 DEF LoadClientCertificateData, ReadFiles
<1>4. CASE OrElse(tls.insecure_skip_verify, FALSE)
  BY <1>4 DEF ConfigureTls, TlsAsConfigured, Some, None, PlainClient
<1>5. CASE ~OrElse(tls.insecure_skip_verify, FALSE)
  <2>1. ConfigureTls(tls) =
          Some([PlainClient EXCEPT
                  !.customCa = LoadCaCertificateData(tls) # {},
                  !.hostname = ~OrElse(tls.insecure_skip_hostname_verify, FALSE),
                  !.identity = LoadClientCertificateData(tls) # {}])
    BY <1>2, <1>3, <1>5 DEF ConfigureTls
  <2>. DEFINE client == ConfigureTls(tls)[1]
  <2>2. /\ ConfigureTls(tls) # None /\ client.chain = TRUE
        /\ client.hostname = ~OrElse(tls.insecure_skip_hostname_verify, FALSE)
        /\ client.customCa = (LoadCaCertificateData(tls) # {})
        /\ client.identity = (LoadClientCertificateData(tls) # {})
    <3>1. /\ ConfigureTls(tls) # None
          /\ client = [PlainClient EXCEPT
                         !.customCa = LoadCaCertificateData(tls) # {},
                         !.hostname = ~OrElse(tls.insecure_skip_hostname_verify, FALSE),
                         !.identity = LoadClientCertificateData(tls) # {}]
      BY <2>1 DEF Some, None
    <3>. HIDE DEF client
    <3>. QED
      BY <3>1, Zenon DEF PlainClient
  <2>. HIDE DEF client
  <2>3. TlsAsConfigured(client, tls)
    BY <1>2, <1>3, <1>5, <2>2, Zenon DEF TlsAsConfigured
  <2>. QED
    BY <2>2, <2>3 DEF client
<1>. QED
  BY <1>4, <1>5

(* Without TLS settings the plain client is the configured one. *)
LEMMA NoTlsIsPlain ==
  ~Spoiled(NoTls) /\ TlsAsConfigured(PlainClient, NoTls)
BY DEF Spoiled, TlsAsConfigured, NoTls, PlainClient, OrElse, None

(* What initialize_engine makes of its options. *)
LEMMA StartedWith ==
  ASSUME NEW opts,
         NEW e \in {FfiInitialize(options)[1]}, FfiInitialize(options) # None,
         options[1].json # None, opts = options[1].json[1]
  PROVE  LET tls == OrElse(opts.tls_config, NoTls)
             built == Build(ConfiguredBuilder(opts))
         IN /\ e.namespace = OrElse(opts.namespace, "default")
            /\ e.fetcher = OrElse(built, Build(NewBuilder(DefaultUrl))[1])
<1>1. OrElse(options[1].json, DefaultOpts) = opts
  BY DEF OrElse
<1>. QED
  BY <1>1 DEF FfiInitialize, InitializeEngine, Some, None

(* What the builder of the fetcher passes on. *)
LEMMA BuildFacts ==
  ASSUME NEW b
  PROVE  LET client == IF b.tls_config = None THEN Some(PlainClient)
                       ELSE ConfigureTls(b.tls_config[1])
         IN /\ Build(b) = None <=> client = None
            /\ Build(b) # None =>
                 /\ Build(b)[1].url = b.base_url
                 /\ Build(b)[1].namespace = OrElse(b.namespace, "default")
                 /\ Build(b)[1].client = client[1]
                 /\ Build(b)[1].mode = "streaming" => Build(b)[1].timeout = None
BY DEF Build, Some, None

(* A fetcher that is built is as configured; one that is not was given a
   certificate that is spoiled. *)
LEMMA BuiltAsConfigured ==
  ASSUME NEW opts, NEW built \in {Build(ConfiguredBuilder(opts))},
         NEW tls \in {OrElse(opts.tls_config, NoTls)}
  PROVE  /\ built = None => Spoiled(tls)
         /\ built # None => /\ built[1].url = OrElse(opts.url, DefaultUrl)
                            /\ built[1].namespace = OrElse(opts.namespace, "default")
                            /\ Spoiled(tls) \/ TlsAsConfigured(built[1].client, tls)
                            /\ built[1].mode = "streaming" => built[1].timeout = None
<1>. DEFINE b == ConfiguredBuilder(opts)
            client == IF b.tls_config = None THEN Some(PlainClient)
                      ELSE ConfigureTls(b.tls_config[1])
<1>1. /\ b.base_url = OrElse(opts.url, DefaultUrl)
      /\ b.namespace = Some(OrElse(opts.namespace, "default"))
      /\ b.tls_config = opts.tls_config
  BY DEF ConfiguredBuilder, NewBuilder
<1>2. client # None => Spoiled(tls) \/ TlsAsConfigured(client[1], tls)
  <2>1. CASE opts.tls_config = None
    BY <1>1, <2>1, NoTlsIsPlain DEF OrElse, Some
  <2>2. CASE opts.tls_config # None
    BY <1>1, <2>2, ClientAsConfigured DEF OrElse
  <2>. QED
    BY <2>1, <2>2
<1>3. client = None => Spoiled(tls)
  BY <1>1, ClientAsConfigured DEF OrElse, Some, None
<1>4. built = None <=> client = None
  BY BuildFacts
<1>. HIDE DEF b
<1>5. built # None =>
        /\ built[1].url = b.base_url /\ built[1].namespace = OrElse(b.namespace, "default")
        /\ built[1].client = client[1]
        /\ built[1].mode = "streaming" => built[1].timeout = None
  BY BuildFacts DEF b
<1>6. OrElse(b.namespace, "default") = OrElse(opts.namespace, "default")
  BY <1>1 DEF OrElse, Some, None
<1>. HIDE DEF client
<1>. QED
  BY <1>1, <1>2, <1>3, <1>4, <1>5, <1>6

(* The fetcher that takes its place. *)
LEMMA DefaultBuilt ==
  LET f == Build(NewBuilder(DefaultUrl))[1] IN
  f.url = DefaultUrl /\ f.namespace = "default" /\ f.client = PlainClient /\ f.mode = "polling"
BY DEF Build, NewBuilder, Some, OrElse, None

(* An engine asks the server, about the namespace and with the TLS settings it
   was given, whichever options it was given and whatever happens afterwards,
   unless a certificate is spoiled (lib.rs:705-796, http.rs:214-315
   and tls.rs:57-165 of flipt-engine-ffi). *)
THEOREM EnginesStartAsConfigured == Spec => []StartedAsConfigured
<1>1. Init => LeaseInv /\ MemoryInv /\ TypeInv /\ Started
  BY LeaseInvInit, MemoryInit, TypeInvInit DEF Init, Started
<1>2. LeaseInv /\ MemoryInv /\ TypeInv /\ Started /\ [Next]_vars
      => (LeaseInv /\ MemoryInv /\ TypeInv /\ Started)'
  BY NextKeepsLease, NextKeepsMemory, NextKeepsTypes, NextKeepsStarted
<1>3. Started => StartedAsConfigured
  <2>. SUFFICES ASSUME Started, host = "java", engine # None, options[1].json # None
                PROVE  StartedAsConfigured
    BY DEF StartedAsConfigured
  <2>. DEFINE asked == options[1].json[1]
              tls == OrElse(asked.tls_config, NoTls)
              built == Build(ConfiguredBuilder(asked))
              plain == Build(NewBuilder(DefaultUrl))[1]
              f == FfiInitialize(options)[1]
              fetcher == engine[1].fetcher
  <2>1. /\ FfiInitialize(options) # None
        /\ engine[1].namespace = f.namespace
        /\ fetcher.url = f.fetcher.url /\ fetcher.namespace = f.fetcher.namespace
        /\ fetcher.timeout = f.fetcher.timeout /\ fetcher.mode = f.fetcher.mode
        /\ fetcher.client = f.fetcher.client
    BY DEF Started, SameEngine, SameFetcher
  <2>2. f.namespace = OrElse(asked.namespace, "default") /\ f.fetcher = OrElse(built, plain)
    BY <2>1, StartedWith
  <2>3. CASE built = None
    <3>1. f.fetcher = plain
      BY <2>2, <2>3 DEF OrElse
    <3>2. Spoiled(tls)
      BY <2>3, BuiltAsConfigured
    <3>3. /\ plain.url = DefaultUrl /\ plain.namespace = "default"
          /\ plain.client = PlainClient /\ plain.mode = "polling"
      BY DefaultBuilt
    <3>. HIDE DEF plain, built, f
    <3>. QED
      BY <2>1, <3>1, <3>2, <3>3 DEF StartedAsConfigured
  <2>4. CASE built # None
    <3>1. f.fetcher = built[1]
      BY <2>2, <2>4 DEF OrElse
    <3>2. /\ built[1].url = OrElse(asked.url, DefaultUrl)
          /\ built[1].namespace = OrElse(asked.namespace, "default")
          /\ Spoiled(tls) \/ TlsAsConfigured(built[1].client, tls)
          /\ built[1].mode = "streaming" => built[1].timeout = None
      BY <2>4, BuiltAsConfigured
    <3>. HIDE DEF plain, built, f
    <3>. QED
      BY <2>1, <2>2, <3>1, <3>2 DEF StartedAsConfigured
  <2>. QED
    BY <2>3, <2>4
<1>. QED
  BY <1>1, <1>2, <1>3, PTL DEF Spec
=============================================================================
