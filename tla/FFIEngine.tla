----------------------------- MODULE FFIEngine -----------------------------
(***************************************************************************)
(* The Engine of flipt-engine-ffi (src/lib.rs): Engine::new starts it from *)
(* a given snapshot, blocks on one initial fetch, then leaves the fetcher  *)
(* and an updater running; callers evaluate under the read lock while the  *)
(* updater replaces the snapshot; _update_authentication changes the       *)
(* credential; _destroy_engine stops both tasks and waits for them.        *)
(*                                                                         *)
(* An engine pointer is not used once destroy_engine has been called, and  *)
(* no call is in progress then: the contract of every wrapper over the C   *)
(* interface.                                                              *)
(***************************************************************************)
EXTENDS HTTPFetcher, Evaluator

CONSTANT Strategy     \* error_strategy: "fail" or "fallback"

ASSUME EngineAssumption == Strategy \in {"fail", "fallback"}

VARIABLES
  life,     \* of the engine: "new" until Engine::new returns, then "live";
            \* "stopping", "notified" and "gone" inside _destroy_engine
  updater,  \* the updater task: "recv", "apply" or "done"
  held      \* the result it has received and not applied yet

engineVars == <<life, updater, held>>
vars == <<serverVars, fetcherVars, evaluatorVars, engineVars>>

Init ==
  /\ ServerInit /\ FetcherInit /\ EvaluatorInit
  /\ life = "new"
  /\ updater = "recv"
  /\ held = Err

TypeOK ==
  /\ ServerTypeOK /\ FetcherTypeOK /\ EvaluatorTypeOK
  /\ life \in {"new", "live", "stopping", "notified", "gone"}
  /\ updater \in {"recv", "apply", "done"}
  /\ held \in Result

-----------------------------------------------------------------------------
(* An error reaches the evaluator only under the strategy "fail". *)
Applied(result) == result.ok \/ Strategy = "fail"

(* Mutant: Engine::new ignores the error strategy. *)
HandleInitialFailsFast ==
  /\ pc = "initial"
  /\ reply.kind # "none"
  /\ FetchEtag
  /\ ReplaceSnapshot(FetchResult)
  /\ pc' = "check"
  /\ RequestOver
  /\ life' = "live"
  /\ UNCHANGED <<auth, res, elapsed, chan>>
  /\ UNCHANGED <<updater, held>>
  /\ UNCHANGED <<serverVars, streamVars, stopVars>>

(* The end of Engine::new: the answer to the initial fetch replaces the
   snapshot, the fetcher's task takes over its clone (with the ETag). *)
HandleInitial ==
  /\ pc = "initial"
  /\ reply.kind # "none"
  /\ FetchEtag
  /\ IF Applied(FetchResult) THEN ReplaceSnapshot(FetchResult)
                             ELSE UNCHANGED evaluatorVars
  /\ pc' = "check"
  /\ RequestOver
  /\ life' = "live"
  /\ UNCHANGED <<auth, res, elapsed, chan>>
  /\ UNCHANGED <<updater, held>>
  /\ UNCHANGED <<serverVars, streamVars, stopVars>>

(* Mutant: the newest result is taken first. *)
ReceiveNewest ==
  /\ updater = "recv"
  /\ chan # <<>>
  /\ held' = chan[Len(chan)]
  /\ chan' = SubSeq(chan, 1, Len(chan) - 1)
  /\ updater' = "apply"
  /\ UNCHANGED <<pc, etag, auth, res, elapsed, life>>
  /\ UNCHANGED <<serverVars, evaluatorVars, requestVars, streamVars, stopVars>>

(* rx.recv().await: the next result, or the end once the fetcher is done. *)
Receive ==
  /\ updater = "recv"
  /\ chan # <<>>
  /\ held' = Head(chan)
  /\ chan' = Tail(chan)
  /\ updater' = "apply"
  /\ UNCHANGED <<pc, etag, auth, res, elapsed, life>>
  /\ UNCHANGED <<serverVars, evaluatorVars, requestVars, streamVars, stopVars>>

Apply ==
  /\ updater = "apply"
  /\ IF Applied(held) THEN ReplaceSnapshot(held) ELSE UNCHANGED evaluatorVars
  /\ held' = Err
  /\ updater' = "recv"
  /\ UNCHANGED <<serverVars, fetcherVars, life>>

UpdaterEnds ==
  /\ updater = "recv"
  /\ chan = <<>>
  /\ pc = "done"
  /\ updater' = "done"
  /\ UNCHANGED <<serverVars, fetcherVars, evaluatorVars, life, held>>

-----------------------------------------------------------------------------
(* The callers. *)

Calling(c) ==
  /\ \/ CallRefused(c)
     \/ \E n \in 1..BatchSize : BeginCall(c, n)
  /\ life = "live"
  /\ UNCHANGED <<serverVars, fetcherVars, engineVars>>

Evaluating(c) ==
  /\ EvaluateOne(c) \/ AbortCall(c) \/ EndCall(c)
  /\ UNCHANGED <<serverVars, fetcherVars, engineVars>>

UpdateAuthentication ==
  /\ life = "live"
  /\ \E a \in Cred : a # auth /\ SendAuth(a)
  /\ UNCHANGED <<serverVars, evaluatorVars, engineVars>>

(* _destroy_engine, in its three steps. *)
DestroyStop ==
  /\ life = "live"
  /\ \A c \in Callers : Idle(c)
  /\ SetStopSignal
  /\ life' = "stopping"
  /\ UNCHANGED <<serverVars, evaluatorVars, updater, held>>

DestroyNotify ==
  /\ life = "stopping"
  /\ NotifyWaiters
  /\ life' = "notified"
  /\ UNCHANGED <<serverVars, evaluatorVars, updater, held>>

(* Mutant: the updater's handle is dropped, not awaited. *)
DestroyDoesNotJoin ==
  /\ life = "notified"
  /\ life' = "gone"
  /\ UNCHANGED <<serverVars, fetcherVars, evaluatorVars, updater, held>>

DestroyJoin ==
  /\ life = "notified"
  /\ updater = "done"
  /\ life' = "gone"
  /\ UNCHANGED <<serverVars, fetcherVars, evaluatorVars, updater, held>>

-----------------------------------------------------------------------------
FetcherStep ==
  \/ InitialFetch \/ LoopCheck \/ HandlePolling \/ SendResult
  \/ PauseCheck \/ ArmNotified \/ PauseTick \/ PauseNotified
  \/ HandleConnect \/ StreamCheck \/ StreamNext \/ StreamEnd

Fetcher == FetcherStep /\ UNCHANGED <<serverVars, evaluatorVars, engineVars>>

NetworkFails ==
  AttemptFails /\ UNCHANGED <<serverVars, evaluatorVars, engineVars>>

Network ==
  /\ ServerAnswers \/ ServerPushes
  /\ UNCHANGED <<serverVars, evaluatorVars, engineVars>>

(* A stream is dropped by an outage, or spends one of MaxOutages itself. *)
ConnectionLost ==
  /\ StreamDrops
  /\ IF up THEN /\ outages < MaxOutages
                /\ outages' = outages + 1
                /\ UNCHANGED <<srv, up, cred>>
           ELSE UNCHANGED serverVars
  /\ UNCHANGED <<evaluatorVars, engineVars>>

Server == ServerNext /\ UNCHANGED <<fetcherVars, evaluatorVars, engineVars>>

Destroy == DestroyStop \/ DestroyNotify \/ DestroyJoin

Next ==
  \/ Fetcher \/ HandleInitial
  \/ Receive \/ Apply \/ UpdaterEnds
  \/ \E c \in Callers : Calling(c) \/ Evaluating(c)
  \/ UpdateAuthentication \/ Destroy
  \/ NetworkFails \/ Network \/ ConnectionLost \/ Server

Spec == Init /\ [][Next]_vars

(***************************************************************************)
(* Fairness.  The tokio runtime runs every task that can run (WF on the    *)
(* fetcher and on the updater), its timers fire, a call in progress ends,  *)
(* destroy_engine goes on, and the std RwLock does not starve the writer   *)
(* (SF on Apply).  A failed connection attempt is reported.  Nothing is    *)
(* assumed of the server: it may stay silent on a request for ever.        *)
(***************************************************************************)
EngineFairness ==
  /\ WF_vars(Fetcher) /\ WF_vars(HandleInitial)
  /\ WF_vars(Receive) /\ SF_vars(Apply) /\ WF_vars(UpdaterEnds)
  /\ \A c \in Callers : WF_vars(Evaluating(c))
  /\ WF_vars(DestroyNotify) /\ WF_vars(DestroyJoin)
  /\ WF_vars(NetworkFails)

FairSpec == Spec /\ EngineFairness

(* The server answers the requests that reach it and pushes what it owes,
   and a stream to a server that is down is noticed to be lost. *)
ServerFairness == WF_vars(Network) /\ WF_vars(~up /\ ConnectionLost)

LiveSpec == FairSpec /\ ServerFairness
=============================================================================
