----------------------------- MODULE Evaluator -----------------------------
(***************************************************************************)
(* The Evaluator of the FFI engine (flipt-engine-ffi/src/evaluator.rs)     *)
(* behind the RwLock that Engine puts around it: one stored snapshot, one  *)
(* stored error, one writer, many reading callers.  A snapshot is a        *)
(* version: 0 for the one Engine::new starts from, v for the server's v.   *)
(* A batch reads the store once per request, all under one read lock.      *)
(***************************************************************************)
EXTENDS FetchResults, FiniteSets

CONSTANTS
  Callers,     \* the threads that call into the engine
  BatchSize    \* the largest number of requests in a batch

ASSUME EvaluatorAssumption == BatchSize \in Nat \ {0}

VARIABLES
  store,   \* the version of the stored snapshot
  error,   \* whether an error is stored
  call,    \* call[c]: requests c still has to evaluate, or NoCall
  seen,    \* seen[c]: the versions c's call has read so far
  got      \* got[c]: how c's last call ended (ok), and the version its last
           \* answer was taken from (ver)

evaluatorVars == <<store, error, call, seen, got>>
callVars == <<call, seen, got>>

NoCall == BatchSize + 1
Idle(c) == call[c] = NoCall

EvaluatorInit ==
  /\ store = 0
  /\ error = FALSE
  /\ call = [c \in Callers |-> NoCall]
  /\ seen = [c \in Callers |-> {}]
  /\ got = [c \in Callers |-> Ok(0)]

(* The write lock is granted only when no caller holds the read lock. *)
WriteLockFree == \A c \in Callers : Idle(c)

(* Mutant: the snapshot is replaced without the write lock. *)
ReplaceSnapshotUnlocked(res) ==
  /\ store' = IF res.ok THEN res.ver ELSE store
  /\ error' = ~res.ok
  /\ UNCHANGED callVars

(* Mutant: a document does not clear the stored error. *)
ReplaceSnapshotKeepsError(res) ==
  /\ WriteLockFree
  /\ store' = IF res.ok THEN res.ver ELSE store
  /\ error' = (error \/ ~res.ok)
  /\ UNCHANGED callVars

(* replace_snapshot: a document replaces the snapshot and clears the error,
   an error leaves the snapshot and is returned by every call from then on. *)
ReplaceSnapshot(res) ==
  /\ WriteLockFree
  /\ store' = IF res.ok THEN res.ver ELSE store
  /\ error' = ~res.ok
  /\ UNCHANGED callVars

(* A call while an error is stored returns the error at once. *)
CallRefused(c) ==
  /\ Idle(c)
  /\ error
  /\ got' = [got EXCEPT ![c].ok = FALSE]
  /\ UNCHANGED <<store, error, call, seen>>

(* variant, boolean, list_flags, get_snapshot (n = 1) and batch take the
   read lock, find no error and keep the lock until they have an answer. *)
BeginCall(c, n) ==
  /\ Idle(c)
  /\ ~error
  /\ call' = [call EXCEPT ![c] = n]
  /\ seen' = [seen EXCEPT ![c] = {}]
  /\ UNCHANGED <<store, error, got>>

EvaluateOne(c) ==
  /\ call[c] \in 1..BatchSize
  /\ call' = [call EXCEPT ![c] = @ - 1]
  /\ seen' = [seen EXCEPT ![c] = @ \cup {store}]
  /\ UNCHANGED <<store, error, got>>

(* One request of the call is in error: the whole call returns that error. *)
AbortCall(c) ==
  /\ call[c] \in 1..BatchSize
  /\ call' = [call EXCEPT ![c] = NoCall]
  /\ seen' = [seen EXCEPT ![c] = {}]
  /\ UNCHANGED <<store, error, got>>

EndCall(c) ==
  /\ call[c] = 0
  /\ call' = [call EXCEPT ![c] = NoCall]
  /\ \E v \in seen[c] : got' = [got EXCEPT ![c] = Ok(v)]
  /\ seen' = [seen EXCEPT ![c] = {}]
  /\ UNCHANGED <<store, error>>

EvaluatorTypeOK ==
  /\ store \in Nat
  /\ error \in BOOLEAN
  /\ call \in [Callers -> 0..NoCall]
  /\ seen \in [Callers -> SUBSET Nat]
  /\ got \in [Callers -> Result]

-----------------------------------------------------------------------------
(* All answers of one batch come from one snapshot: the updater cannot
   replace the store between two requests of a batch (evaluator.rs:90-99
   evaluates the batch under the lock Engine::batch took). *)
BatchIsAtomic == \A c \in Callers : Cardinality(seen[c]) <= 1
=============================================================================
