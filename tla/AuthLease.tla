------------------------------ MODULE AuthLease ------------------------------
(***************************************************************************)
(* The renewal of authentication leases by the Java client                 *)
(* (FliptClient.java) and its close(): one thread of a scheduler asks the  *)
(* application's provider for a new lease thirty seconds before the one in *)
(* use expires.  The call into the engine is an action of Hosts.           *)
(*                                                                         *)
(* A tick is five seconds, and times are counted from now.  The scheduler  *)
(* runs a task as soon as it is due, and a call into the engine and the    *)
(* reading of its answer take no time; only the provider may be slow.      *)
(***************************************************************************)
EXTENDS Integers, Sequences

CONSTANT Leases   \* the leases the provider may grant: [strategy, expiresAt,
                  \* maxRetries], a fixed one with expiresAt None

ASSUME LeasesAssumption ==
  \A l \in Leases : /\ l.expiresAt \in Seq(Nat) /\ Len(l.expiresAt) <= 1
                   /\ l.maxRetries \in Seq(Nat) /\ Len(l.maxRetries) <= 1

ExpiryBuffer == 6    \* 30 seconds
MinRetryDelay == 1   \* 5 seconds

VARIABLES
  closed,       \* closed
  closer,       \* close(): "no", "awaiting" the scheduler, or "done"
  patience,     \* ticks left of awaitTermination
  interrupted,  \* whether it was interrupted
  renewer,      \* the thread: "off", "waiting", "fetching", "updating",
                \* "reading" or "stopped"
  delay,        \* ticks until the next check
  expiry,       \* currentExpiry
  failures,     \* consecutiveAuthFailures
  maxRetries,   \* maxAuthRetries
  lease,        \* the lease being handed to the engine
  granted,      \* how long the lease in use was valid when it was granted
  late          \* ticks spent since the renewal of that lease fell due

closeVars == <<closed, closer, patience, interrupted>>
leaseVars == <<renewer, delay, expiry, failures, maxRetries, lease, granted, late>>
authVars == <<closeVars, leaseVars>>

(* Mutant: the check is due when the lease expires. *)
NextDelayUnbuffered(e) == IF e > 0 THEN e ELSE MinRetryDelay

NextDelay(e) ==
  IF e > ExpiryBuffer THEN e - ExpiryBuffer ELSE MinRetryDelay

(* The constructor, when there is a provider: a fixed lease needs no
   renewing, and has no retries to count. *)
LeaseInit(initial) ==
  /\ expiry = initial.expiresAt
  /\ maxRetries = IF initial.maxRetries = <<>> THEN 0 ELSE initial.maxRetries[1]
  /\ granted = IF expiry = <<>> THEN 0 ELSE expiry[1]
  /\ delay = IF expiry = <<>> THEN 0 ELSE NextDelay(expiry[1])
  /\ renewer = IF expiry = <<>> THEN "off" ELSE "waiting"
  /\ failures = 0 /\ lease = <<>> /\ late = 0

NoLeaseInit ==
  /\ expiry = <<>> /\ maxRetries = 0 /\ granted = 0 /\ delay = 0
  /\ renewer = "off" /\ failures = 0 /\ lease = <<>> /\ late = 0

CloseInit ==
  closed = FALSE /\ closer = "no" /\ patience = 0 /\ interrupted = FALSE

-----------------------------------------------------------------------------
Decrement(n) == IF n > 0 THEN n - 1 ELSE 0

(* Five seconds pass; what is due happens first. *)
Tick ==
  /\ \/ renewer = "waiting" /\ delay > 0
     \/ renewer = "fetching"
  /\ closer = "awaiting" => patience > 0
  /\ closer # "done"
  /\ patience' = Decrement(patience)
  /\ delay' = Decrement(delay)
  /\ expiry' = [i \in DOMAIN expiry |-> Decrement(expiry[i])]
  /\ late' = IF (renewer = "fetching" \/ failures > 0) /\ late <= ExpiryBuffer
             THEN late + 1 ELSE late
  /\ UNCHANGED <<closed, closer, interrupted, renewer, failures, maxRetries,
                 lease, granted>>

(* The task begins. *)
Check ==
  /\ renewer = "waiting" /\ delay = 0
  /\ renewer' = IF closed THEN "stopped" ELSE "fetching"
  /\ UNCHANGED <<closeVars, delay, expiry, failures, maxRetries, lease,
                 granted, late>>

(* What the task does last. *)
Decide(stop, e, count) ==
  IF stop \/ e = <<>> \/ count >= maxRetries
  THEN renewer' = "stopped" /\ UNCHANGED delay
  ELSE renewer' = "waiting" /\ delay' = NextDelay(e[1])

(* The provider throws. *)
ProviderFails ==
  /\ renewer = "fetching"
  /\ failures' = failures + 1
  /\ Decide(closed, expiry, failures + 1)
  /\ UNCHANGED <<closeVars, expiry, maxRetries, lease, granted, late>>

(* Mutant: closed is not looked at again. *)
ProviderReturnsUnchecked(l) ==
  /\ renewer = "fetching"
  /\ renewer' = "updating" /\ lease' = <<l>>
  /\ UNCHANGED <<closeVars, delay, expiry, failures, maxRetries, granted, late>>

ProviderReturns(l) ==
  /\ renewer = "fetching"
  /\ IF closed
     THEN renewer' = "stopped" /\ UNCHANGED lease
     ELSE renewer' = "updating" /\ lease' = <<l>>
  /\ UNCHANGED <<closeVars, delay, expiry, failures, maxRetries, granted, late>>

(* The answer of update_authentication has been read. *)
Renewed(success) ==
  /\ renewer = "reading"
  /\ IF success
     THEN /\ failures' = 0 /\ late' = 0
          /\ expiry' = lease[1].expiresAt
          /\ granted' = IF expiry' = <<>> THEN 0 ELSE expiry'[1]
     ELSE /\ failures' = failures + 1
          /\ UNCHANGED <<expiry, granted, late>>
  /\ Decide(closed, expiry', failures')
  /\ lease' = <<>>
  /\ UNCHANGED <<closeVars, maxRetries>>

-----------------------------------------------------------------------------
(* close().  shutdown() keeps a task that is scheduled, so the scheduler
   terminates only once that task has run; shutdownNow() drops it, and
   interrupts a provider, which may throw or not. *)

CloseBegins ==
  /\ ~closed
  /\ closed' = TRUE
  /\ closer' = IF renewer = "off" THEN "done" ELSE "awaiting"
  /\ patience' = IF renewer = "off" THEN 0 ELSE 1
  /\ UNCHANGED <<interrupted, leaseVars>>

SchedulerTerminated ==
  /\ closer = "awaiting" /\ renewer = "stopped"
  /\ closer' = "done"
  /\ UNCHANGED <<closed, patience, interrupted, leaseVars>>

ShutdownNow ==
  /\ closer' = "done"
  /\ renewer' = IF renewer = "waiting" THEN "stopped" ELSE renewer
  /\ UNCHANGED <<closed, patience, delay, expiry, failures, maxRetries, lease,
                 granted, late>>

AwaitTimesOut ==
  /\ closer = "awaiting" /\ patience = 0 /\ renewer # "stopped"
  /\ ShutdownNow
  /\ UNCHANGED interrupted

AwaitInterrupted ==
  /\ closer = "awaiting"
  /\ ShutdownNow
  /\ interrupted' = TRUE
=============================================================================
