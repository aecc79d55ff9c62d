-------------------------- MODULE FFIEngineProofs --------------------------
(***************************************************************************)
(* Proofs, for every value of the constants, of the safety properties of   *)
(* FFIEngineProperties.  IInv of FFIEngineInvariant is shown to be         *)
(* inductive one part at a time (types, program counters, reads, order);   *)
(* the theorems follow from it.                                            *)
(***************************************************************************)
EXTENDS FFIEngineInvariant, FiniteSetTheorems, TLAPS

USE ServerAssumption, EvaluatorAssumption, FetcherAssumption, EngineAssumption
    DEF ServerAssumption, EvaluatorAssumption, FetcherAssumption, EngineAssumption

(* What the steps below need to know of results and sequences of them. *)
LEMMA ResultFacts ==
  /\ Err \in Result /\ ~Err.ok
  /\ \A v \in Nat : Ok(v) \in Result /\ Ok(v).ok /\ Ok(v).ver = v
  /\ \A r \in Result : r.ok \in BOOLEAN /\ r.ver \in Nat
  /\ <<>> \in Seq(Result)
BY DEF Err, Ok, Result

LEMMA ResultSeqFacts ==
  ASSUME NEW s \in Seq(Result)
  PROVE  /\ \A r \in Result : /\ Append(s, r) \in Seq(Result)
                              /\ Len(Append(s, r)) = Len(s) + 1
         /\ s # <<>> => /\ Head(s) \in Result
                        /\ Tail(s) \in Seq(Result)
                        /\ Len(Tail(s)) = Len(s) - 1
OBVIOUS

-----------------------------------------------------------------------------
(* Types. *)

LEMMA InitTypeOK == ASSUME Init PROVE TypeOK
<1>. USE DEF Init
<1>1. ServerTypeOK
  BY DEF ServerInit, ServerTypeOK, Version, Cred
<1>2. FetcherTypeOK
  <2>. USE DEF FetcherInit, NoEtag, Cred
  <2>1. RequestTypeOK
    BY DEF RequestTypeOK, NoRequest, NoAnswer, Answer, AnswerKind
  <2>2. StreamTypeOK
    BY ResultFacts DEF StreamTypeOK
  <2>3. chan \in Seq(Result) /\ Len(chan) <= Capacity
    BY ResultFacts
  <2>4. pc \in PC /\ etag \in 0..MaxVersion /\ auth \in 0..MaxCred
    BY DEF PC
  <2>5. res \in Result /\ elapsed \in 0..Interval
    BY ResultFacts
  <2>6. stop \in BOOLEAN /\ woken \in BOOLEAN
    OBVIOUS
  <2>. QED
    BY <2>1, <2>2, <2>3, <2>4, <2>5, <2>6 DEF FetcherTypeOK
<1>3. EvaluatorTypeOK
  <2>. USE DEF EvaluatorInit, NoCall
  <2>1. call \in [Callers -> 0..NoCall]
    OBVIOUS
  <2>2. got \in [Callers -> Result]
    BY ResultFacts
  <2>. QED
    BY <2>1, <2>2 DEF EvaluatorTypeOK
<1>. QED
  BY <1>1, <1>2, <1>3, ResultFacts DEF TypeOK

LEMMA StepServerType == ASSUME TypeOK, [Next]_vars PROVE ServerTypeOK'
<1>. USE DEF TypeOK, ServerTypeOK, Version, Cred
<1>1. serverVars' = serverVars => ServerTypeOK'
  BY DEF serverVars
<1>2. ServerNext => ServerTypeOK'
  <2>1. Publish => ServerTypeOK'
    BY DEF Publish
  <2>2. ASSUME GoDown PROVE ServerTypeOK'
    <3>1. outages' \in 0..MaxOutages
      BY <2>2 DEF GoDown
    <3>. QED  BY <2>2, <3>1 DEF GoDown
  <2>3. ComeUp => ServerTypeOK'
    BY DEF ComeUp
  <2>4. RotateCredential => ServerTypeOK'
    BY DEF RotateCredential
  <2>. QED  BY <2>1, <2>2, <2>3, <2>4 DEF ServerNext
<1>3. ConnectionLost => ServerTypeOK'
  BY <1>1 DEF ConnectionLost
<1>4. serverVars' = serverVars \/ ServerNext \/ ConnectionLost
  BY DEF Next, vars, Fetcher, HandleInitial, Receive, Apply, UpdaterEnds,
         Calling, Evaluating, UpdateAuthentication, Destroy, DestroyStop,
         DestroyNotify, DestroyJoin, NetworkFails, Network, Server
<1>. QED  BY <1>1, <1>2, <1>3, <1>4

LEMMA FetchResultType == ASSUME TypeOK PROVE FetchResult \in Result
BY ResultFacts DEF FetchResult, TypeOK, FetcherTypeOK, RequestTypeOK

LEMMA StepEvaluatorType == ASSUME TypeOK, [Next]_vars PROVE EvaluatorTypeOK'
<1>. USE ResultFacts DEF TypeOK, EvaluatorTypeOK
<1>1. evaluatorVars' = evaluatorVars => EvaluatorTypeOK'
  BY DEF evaluatorVars
<1>2. ASSUME NEW r \in Result, ReplaceSnapshot(r)
      PROVE  EvaluatorTypeOK'
  BY <1>2 DEF ReplaceSnapshot, callVars
<1>3. ASSUME NEW c \in Callers, Calling(c)
      PROVE  EvaluatorTypeOK'
  <2>1. CASE CallRefused(c)
    <3>1. got[c] \in [ok : BOOLEAN, ver : Nat]
      BY DEF Result
    <3>2. [got[c] EXCEPT !.ok = FALSE] \in Result
      BY <3>1 DEF Result
    <3>. QED  BY <2>1, <3>2 DEF CallRefused
  <2>2. ASSUME NEW n \in 1..BatchSize, BeginCall(c, n)
        PROVE  EvaluatorTypeOK'
    BY <2>2 DEF BeginCall, NoCall
  <2>. QED  BY <1>3, <2>1, <2>2 DEF Calling
<1>4. ASSUME NEW c \in Callers, Evaluating(c)
      PROVE  EvaluatorTypeOK'
  <2>1. CASE EvaluateOne(c)
    BY <2>1 DEF EvaluateOne, NoCall
  <2>2. CASE AbortCall(c)
    BY <2>2 DEF AbortCall, NoCall
  <2>3. CASE EndCall(c)
    BY <2>3 DEF EndCall, NoCall
  <2>. QED  BY <1>4, <2>1, <2>2, <2>3 DEF Evaluating
<1>5. HandleInitial => EvaluatorTypeOK'
  BY <1>1, <1>2, FetchResultType DEF HandleInitial
<1>6. Apply => EvaluatorTypeOK'
  BY <1>1, <1>2 DEF Apply
<1>. QED
  BY <1>1, <1>3, <1>4, <1>5, <1>6
  DEF Next, vars, Fetcher, Receive, UpdaterEnds, UpdateAuthentication,
      Destroy, DestroyStop, DestroyNotify, DestroyJoin, NetworkFails, Network,
      ConnectionLost, Server

LEMMA StepFetcherType ==
  ASSUME TypeOK, FetcherControl, [Next]_vars
  PROVE  FetcherTypeOK'
<1>. USE ResultFacts
     DEF TypeOK, FetcherTypeOK, PC, NoEtag, requestVars, streamVars, stopVars
<1>1. UNCHANGED requestVars => RequestTypeOK'
  BY DEF RequestTypeOK
<1>2. UNCHANGED streamVars => StreamTypeOK'
  BY DEF StreamTypeOK
<1>3. RequestOver => RequestTypeOK'
  BY DEF RequestTypeOK, RequestOver, NoRequest, NoAnswer, Answer, AnswerKind, Cred
<1>4. ASSUME NEW next, SendRequest(next) PROVE RequestTypeOK'
  BY <1>4 DEF RequestTypeOK, SendRequest, NoAnswer, Answer, AnswerKind
<1>5. LeaveStream => StreamTypeOK'
  BY DEF StreamTypeOK, LeaveStream
<1>6. fetcherVars' = fetcherVars => FetcherTypeOK'
  BY <1>1, <1>2 DEF fetcherVars
<1>7. FetcherStep => FetcherTypeOK'
  <2>1. InitialFetch => FetcherTypeOK'
    BY <1>2, <1>4 DEF InitialFetch, SendRequest
  <2>2. LoopCheck => FetcherTypeOK'
    BY <1>1, <1>2, <1>4 DEF LoopCheck, SendRequest
  <2>3. HandlePolling => FetcherTypeOK'
    BY <1>2, <1>3 DEF HandlePolling, FetchEtag, FetchResult, RequestTypeOK
  <2>4. SendResult => FetcherTypeOK'
    BY <1>1, <1>2, ResultSeqFacts DEF SendResult
  <2>5. PauseCheck => FetcherTypeOK'
    BY <1>1, <1>2 DEF PauseCheck
  <2>6. ArmNotified => FetcherTypeOK'
    BY <1>1, <1>2 DEF ArmNotified
  <2>7. ASSUME PauseTick PROVE FetcherTypeOK'
    <3>1. elapsed' \in 0..Interval
      BY <2>7 DEF PauseTick, FetcherControl
    <3>. QED  BY <2>7, <3>1, <1>1, <1>2 DEF PauseTick, DropNotified
  <2>8. PauseNotified => FetcherTypeOK'
    BY <1>1, <1>2 DEF PauseNotified, DropNotified
  <2>9. ASSUME HandleConnect PROVE FetcherTypeOK'
    <3>1. CASE reply.kind = "stream"
      <4>1. StreamTypeOK'
        BY <2>9, <3>1 DEF HandleConnect, StreamTypeOK
      <4>. QED  BY <2>9, <3>1, <4>1, <1>3 DEF HandleConnect
    <3>2. CASE reply.kind # "stream"
      BY <2>9, <3>2, <1>2, <1>3 DEF HandleConnect
    <3>. QED  BY <3>1, <3>2
  <2>10. StreamCheck => FetcherTypeOK'
    BY <1>1, <1>2, <1>5 DEF StreamCheck
  <2>11. StreamNext => FetcherTypeOK'
    BY <1>1, ResultSeqFacts DEF StreamNext, DropNotified, StreamTypeOK
  <2>12. StreamEnd => FetcherTypeOK'
    BY <1>1, <1>5 DEF StreamEnd, DropNotified
  <2>. QED
    BY <2>1, <2>2, <2>3, <2>4, <2>5, <2>6, <2>7, <2>8, <2>9, <2>10, <2>11,
       <2>12 DEF FetcherStep
<1>8. AttemptFails => FetcherTypeOK'
  BY <1>2 DEF AttemptFails, RequestTypeOK, Answer, AnswerKind
<1>9. ServerAnswers => FetcherTypeOK'
  BY <1>2 DEF ServerAnswers, PossibleAnswers, RequestTypeOK, Answer, AnswerKind,
              ServerTypeOK, Version
<1>10. ASSUME ServerPushes PROVE FetcherTypeOK'
  <2>1. wire' \in Seq(Result)
    <3>1. Ok(srv) \in Result /\ wire \in Seq(Result)
      BY DEF ServerTypeOK, Version, StreamTypeOK
    <3>2. Append(wire, Ok(srv)) \in Seq(Result) /\ Append(wire, Err) \in Seq(Result)
      BY <3>1, ResultSeqFacts
    <3>. QED  BY <1>10, <3>2 DEF ServerPushes
  <2>2. StreamTypeOK'
    BY <1>10, <2>1 DEF ServerPushes, StreamTypeOK, ServerTypeOK, Version
  <2>. QED  BY <1>10, <2>2, <1>1 DEF ServerPushes
<1>11. StreamDrops => FetcherTypeOK'
  BY <1>1, ResultSeqFacts DEF StreamDrops, StreamTypeOK
<1>12. HandleInitial => FetcherTypeOK'
  BY <1>2, <1>3 DEF HandleInitial, FetchEtag, RequestTypeOK
<1>13. Receive => FetcherTypeOK'
  BY <1>1, <1>2, ResultSeqFacts DEF Receive
<1>14. UpdateAuthentication => FetcherTypeOK'
  BY <1>1, <1>2 DEF UpdateAuthentication, SendAuth
<1>15. Destroy => FetcherTypeOK'
  <2>1. DestroyStop => FetcherTypeOK'
    BY <1>1, <1>2 DEF DestroyStop, SetStopSignal
  <2>2. DestroyNotify => FetcherTypeOK'
    BY <1>1, <1>2 DEF DestroyNotify, NotifyWaiters
  <2>. QED  BY <1>6, <2>1, <2>2 DEF Destroy, DestroyJoin
<1>. QED
  BY <1>6, <1>7, <1>8, <1>9, <1>10, <1>11, <1>12, <1>13, <1>14, <1>15
  DEF Next, vars, Fetcher, Apply, UpdaterEnds, Calling, Evaluating,
      NetworkFails, Network, ConnectionLost, Server

LEMMA StepTypeOK == ASSUME TypeOK, FetcherControl, [Next]_vars PROVE TypeOK'
<1>1. /\ life' \in {"new", "live", "stopping", "notified", "gone"}
      /\ updater' \in {"recv", "apply", "done"}
  BY DEF TypeOK, Next, vars, engineVars, Fetcher, HandleInitial, Receive, Apply,
         UpdaterEnds, Calling, Evaluating, UpdateAuthentication, Destroy,
         DestroyStop, DestroyNotify, DestroyJoin, NetworkFails, Network,
         ConnectionLost, Server
<1>2. held' \in Result
  <2>1. chan \in Seq(Result)
    BY DEF TypeOK, FetcherTypeOK
  <2>. QED
    BY <2>1, ResultFacts, ResultSeqFacts
    DEF TypeOK, Next, vars, engineVars, Fetcher, HandleInitial, Receive, Apply,
        UpdaterEnds, Calling, Evaluating, UpdateAuthentication, Destroy,
        DestroyStop, DestroyNotify, DestroyJoin, NetworkFails, Network,
        ConnectionLost, Server
<1>. QED
  BY <1>1, <1>2, StepServerType, StepFetcherType, StepEvaluatorType DEF TypeOK

-----------------------------------------------------------------------------
(* Program counters. *)

LEMMA InitControl == ASSUME Init PROVE FetcherControl /\ EngineControl
<1>1. FetcherControl
  BY DEF Init, FetcherInit, FetcherControl, NoAnswer, Answer
<1>2. EngineControl
  BY DEF Init, FetcherInit, EvaluatorInit, EngineControl, WriteLockFree, Idle
<1>. QED  BY <1>1, <1>2

LEMMA StepFetcherControl ==
  ASSUME TypeOK, FetcherControl, [Next]_vars
  PROVE  FetcherControl'
<1>. USE DEF FetcherControl, InFlight, requestVars, streamVars, stopVars
<1>1. fetcherVars' = fetcherVars => FetcherControl'
  BY DEF fetcherVars
<1>2. FetcherStep => FetcherControl'
  <2>1. InitialFetch => FetcherControl'
    BY DEF InitialFetch, SendRequest, NoAnswer, Answer
  <2>2. LoopCheck => FetcherControl'
    BY DEF LoopCheck, SendRequest, NoAnswer, Answer
  <2>3. HandlePolling => FetcherControl'
    BY DEF HandlePolling, RequestOver, NoAnswer, Answer
  <2>4. SendResult => FetcherControl'
    BY DEF SendResult
  <2>5. PauseCheck => FetcherControl'
    BY DEF PauseCheck, TypeOK, FetcherTypeOK
  <2>6. ArmNotified => FetcherControl'
    BY DEF ArmNotified
  <2>7. PauseTick => FetcherControl'
    BY DEF PauseTick
  <2>8. PauseNotified => FetcherControl'
    BY DEF PauseNotified
  <2>9. HandleConnect => FetcherControl'
    BY DEF HandleConnect, RequestOver, NoAnswer, Answer
  <2>10. StreamCheck => FetcherControl'
    BY DEF StreamCheck, LeaveStream
  <2>11. StreamNext => FetcherControl'
    BY DEF StreamNext
  <2>12. StreamEnd => FetcherControl'
    BY DEF StreamEnd, LeaveStream
  <2>. QED
    BY <2>1, <2>2, <2>3, <2>4, <2>5, <2>6, <2>7, <2>8, <2>9, <2>10, <2>11,
       <2>12 DEF FetcherStep
<1>3. AttemptFails => FetcherControl'
  BY DEF AttemptFails, Unanswered, Answer
<1>4. ServerAnswers => FetcherControl'
  BY DEF ServerAnswers, Unanswered, PossibleAnswers, Answer
<1>5. ServerPushes => FetcherControl'
  BY DEF ServerPushes
<1>6. StreamDrops => FetcherControl'
  BY DEF StreamDrops
<1>7. HandleInitial => FetcherControl'
  BY DEF HandleInitial, RequestOver, NoAnswer, Answer
<1>8. Receive => FetcherControl'
  BY DEF Receive
<1>9. UpdateAuthentication => FetcherControl'
  BY DEF UpdateAuthentication, SendAuth
<1>10. Destroy => FetcherControl'
  <2>1. DestroyStop => FetcherControl'
    BY DEF DestroyStop, SetStopSignal
  <2>2. DestroyNotify => FetcherControl'
    BY DEF DestroyNotify, NotifyWaiters
  <2>. QED  BY <1>1, <2>1, <2>2 DEF Destroy, DestroyJoin
<1>. QED
  BY <1>1, <1>2, <1>3, <1>4, <1>5, <1>6, <1>7, <1>8, <1>9, <1>10
  DEF Next, vars, Fetcher, Apply, UpdaterEnds, Calling, Evaluating,
      NetworkFails, Network, ConnectionLost, Server

LEMMA StepEngineControl ==
  ASSUME TypeOK, FetcherControl, EngineControl, [Next]_vars
  PROVE  EngineControl'
<1>. USE DEF EngineControl, WriteLockFree, Idle
<1>1. ASSUME UNCHANGED <<pc, chan, call, engineVars>> PROVE EngineControl'
  BY <1>1 DEF engineVars
<1>2. Fetcher => EngineControl'
  <2>. USE DEF evaluatorVars, engineVars
  <2>1. ASSUME UNCHANGED <<chan, evaluatorVars, engineVars>>,
               pc' # pc => pc # "done" /\ (pc' \in {"start", "initial"} <=> pc \in {"start", "initial"})
        PROVE  EngineControl'
    BY <2>1
  <2>2. SendResult => FetcherStep /\ life # "new" /\ updater # "done"
    BY DEF SendResult, FetcherStep
  <2>3. ASSUME SendResult, Fetcher PROVE EngineControl'
    BY <2>2, <2>3 DEF SendResult, Fetcher
  <2>4. FetcherStep => SendResult \/ 
           (UNCHANGED chan /\ pc # "done" /\ (pc' \in {"start", "initial"} <=> pc \in {"start", "initial"}))
    BY DEF FetcherStep, InitialFetch, LoopCheck, SendRequest, HandlePolling, PauseCheck,
           ArmNotified, PauseTick, PauseNotified, HandleConnect, StreamCheck,
           StreamNext, StreamEnd
  <2>. QED  BY <2>1, <2>3, <2>4 DEF Fetcher
<1>3. HandleInitial => EngineControl'
  BY DEF HandleInitial, ReplaceSnapshot, evaluatorVars, callVars
<1>4. Receive => EngineControl'
  BY DEF Receive, evaluatorVars
<1>5. Apply => EngineControl'
  BY DEF Apply, fetcherVars, ReplaceSnapshot, evaluatorVars, callVars
<1>6. UpdaterEnds => EngineControl'
  BY DEF UpdaterEnds, fetcherVars, evaluatorVars
<1>7. ASSUME NEW c \in Callers, Calling(c) PROVE EngineControl'
  BY <1>7 DEF Calling, fetcherVars, engineVars
<1>8. ASSUME NEW c \in Callers, Evaluating(c) PROVE EngineControl'
  <2>1. call[c] # NoCall
    BY <1>8 DEF Evaluating, EvaluateOne, AbortCall, EndCall, NoCall
  <2>. QED  BY <2>1, <1>8 DEF Evaluating, fetcherVars, engineVars
<1>9. UpdateAuthentication => EngineControl'
  BY <1>1 DEF UpdateAuthentication, SendAuth, evaluatorVars
<1>10. Destroy => EngineControl'
  BY DEF Destroy, DestroyStop, DestroyNotify, DestroyJoin, SetStopSignal,
         NotifyWaiters, fetcherVars, evaluatorVars
<1>11. NetworkFails \/ Network => EngineControl'
  BY <1>1 DEF NetworkFails, Network, AttemptFails, ServerAnswers, ServerPushes,
              evaluatorVars
<1>12. ConnectionLost \/ Server => EngineControl'
  BY <1>1 DEF ConnectionLost, Server, StreamDrops, fetcherVars, evaluatorVars
<1>13. vars' = vars => EngineControl'
  BY <1>1 DEF vars, fetcherVars, evaluatorVars
<1>. QED
  BY <1>2, <1>3, <1>4, <1>5, <1>6, <1>7, <1>8, <1>9, <1>10, <1>11, <1>12,
     <1>13 DEF Next

-----------------------------------------------------------------------------
(* The store and its readers. *)

(* Only the initial fetch and the updater write the store, each when no call
   is in progress, and neither writes an older version. *)
LEMMA StoreForward ==
  ASSUME IInv, [Next]_vars
  PROVE  \/ UNCHANGED <<store, error>>
         \/ /\ store' \in Nat /\ store' >= store /\ store' <= srv
            /\ WriteLockFree
            /\ UNCHANGED <<srv, call, seen, got>>
            /\ life # "gone" /\ life' # "gone"
            /\ error' => Strategy = "fail" /\ store' = store
<1>. USE DEF IInv, TypeOK, EvaluatorTypeOK, ServerTypeOK, Version
<1>1. ASSUME HandleInitial, Applied(FetchResult), ReplaceSnapshot(FetchResult)
      PROVE  store' \in Nat /\ store' >= store /\ store' <= srv
  <2>1. CASE reply.kind = "doc"
    <3>1. store' = reply.ver /\ reply.ver \in Nat
      BY <1>1, <2>1, ResultFacts
      DEF ReplaceSnapshot, FetchResult, FetcherTypeOK, RequestTypeOK
    <3>. QED  BY <2>1, <3>1 DEF InOrder, NotBefore
  <2>2. CASE reply.kind # "doc"
    BY <1>1, <2>2, ResultFacts DEF ReplaceSnapshot, FetchResult, InOrder, NotBefore
  <2>. QED  BY <2>1, <2>2
<1>2. ASSUME Apply, Applied(held), ReplaceSnapshot(held)
      PROVE  store' \in Nat /\ store' >= store /\ store' <= srv
  BY <1>2, ResultFacts DEF ReplaceSnapshot, InOrder, NotBefore, AtLeast
<1>3. ASSUME HandleInitial, ~UNCHANGED evaluatorVars
      PROVE  /\ Applied(FetchResult) /\ ReplaceSnapshot(FetchResult)
             /\ UNCHANGED srv /\ life # "gone" /\ life' # "gone"
  BY <1>3 DEF HandleInitial, serverVars, EngineControl
<1>4. ASSUME Apply, ~UNCHANGED evaluatorVars
      PROVE  /\ Applied(held) /\ ReplaceSnapshot(held)
             /\ UNCHANGED srv /\ life # "gone" /\ life' # "gone"
  BY <1>4 DEF Apply, serverVars, EngineControl
<1>5. ASSUME NEW r, Applied(r), ReplaceSnapshot(r)
      PROVE  /\ WriteLockFree /\ UNCHANGED <<call, seen, got>>
             /\ error' => Strategy = "fail" /\ store' = store
  BY <1>5 DEF ReplaceSnapshot, Applied, callVars
<1>6. HandleInitial \/ Apply \/ UNCHANGED <<store, error>>
  BY DEF Next, vars, Fetcher, Receive, UpdaterEnds, Calling, CallRefused,
         BeginCall, Evaluating, EvaluateOne, AbortCall, EndCall,
         UpdateAuthentication, Destroy, DestroyStop, DestroyNotify, DestroyJoin,
         NetworkFails, Network, ConnectionLost, Server, evaluatorVars
<1>. QED
  BY <1>1, <1>2, <1>3, <1>4, <1>5, <1>6 DEF evaluatorVars

LEMMA StepReads == ASSUME IInv, [Next]_vars PROVE Reads'
<1>. USE DEF IInv, TypeOK, EvaluatorTypeOK, Reads, Idle, Result
<1>1. ASSUME UNCHANGED <<store, call, seen, got>> PROVE Reads'
  BY <1>1
<1>2. ASSUME store' \in Nat, store' >= store, WriteLockFree,
             UNCHANGED <<call, seen, got>>
      PROVE  Reads'
  BY <1>2 DEF WriteLockFree
<1>3. ASSUME NEW c \in Callers, Calling(c) PROVE Reads'
  <2>1. CASE CallRefused(c)
    BY <2>1 DEF CallRefused
  <2>2. ASSUME NEW n \in 1..BatchSize, BeginCall(c, n) PROVE Reads'
    BY <2>2 DEF BeginCall
  <2>. QED  BY <1>3, <2>1, <2>2 DEF Calling
<1>4. ASSUME NEW c \in Callers, Evaluating(c) PROVE Reads'
  <2>1. CASE EvaluateOne(c)
    BY <2>1 DEF EvaluateOne, NoCall
  <2>2. CASE AbortCall(c)
    BY <2>2 DEF AbortCall
  <2>3. CASE EndCall(c)
    BY <2>3 DEF EndCall, Ok
  <2>. QED  BY <1>4, <2>1, <2>2, <2>3 DEF Evaluating
<1>5. \/ UNCHANGED <<call, seen, got>>
      \/ \E c \in Callers : Calling(c) \/ Evaluating(c)
  BY DEF Next, vars, Fetcher, HandleInitial, Receive, Apply, UpdaterEnds,
         ReplaceSnapshot, UpdateAuthentication, Destroy, DestroyStop,
         DestroyNotify, DestroyJoin, NetworkFails, Network, ConnectionLost,
         Server, evaluatorVars, callVars
<1>. QED
  BY <1>1, <1>2, <1>3, <1>4, <1>5, StoreForward

-----------------------------------------------------------------------------
(* The order of documents. *)

LEMMA AppendElements ==
  ASSUME NEW s \in Seq(Result), NEW r \in Result,
         NEW i \in DOMAIN Append(s, r)
  PROVE  \/ i \in DOMAIN s /\ Append(s, r)[i] = s[i] /\ i < Len(s) + 1
         \/ i = Len(s) + 1 /\ Append(s, r)[i] = r
OBVIOUS

LEMMA TailElements ==
  ASSUME NEW s \in Seq(Result), s # <<>>
  PROVE  /\ 1 \in DOMAIN s /\ Head(s) = s[1]
         /\ \A i \in DOMAIN Tail(s) : /\ i \in Nat /\ i > 0
                                     /\ i + 1 \in DOMAIN s
                                     /\ Tail(s)[i] = s[i + 1]
OBVIOUS

LEMMA ElementTypes ==
  ASSUME NEW s \in Seq(Result), NEW i \in DOMAIN s
  PROVE  i \in Nat /\ s[i] \in Result /\ s[i].ver \in Nat /\ s[i].ok \in BOOLEAN
<1>1. s[i] \in Result
  OBVIOUS
<1>. QED  BY <1>1 DEF Result

(* Appending what is not older than anything in the sequence keeps it in
   order, and so does removing its head. *)
LEMMA SortedAppend ==
  ASSUME NEW s \in Seq(Result), NEW r \in Result, Sorted(s),
         r.ok => \A i \in DOMAIN s : s[i].ok => s[i].ver <= r.ver
  PROVE  Sorted(Append(s, r))
<1> SUFFICES ASSUME NEW i \in DOMAIN Append(s, r), NEW j \in DOMAIN Append(s, r),
                    i < j, Append(s, r)[i].ok, Append(s, r)[j].ok
             PROVE  Append(s, r)[i].ver <= Append(s, r)[j].ver
  BY DEF Sorted
<1>1. i \in DOMAIN s /\ Append(s, r)[i] = s[i]
  <2>1. i \in 1..(Len(s) + 1) /\ j \in 1..(Len(s) + 1)
    OBVIOUS
  <2>. QED  BY <2>1, AppendElements
<1>. QED
  BY <1>1, AppendElements DEF Sorted

LEMMA SortedTail ==
  ASSUME NEW s \in Seq(Result), s # <<>>, Sorted(s)
  PROVE  Sorted(Tail(s))
<1> SUFFICES ASSUME NEW i \in DOMAIN Tail(s), NEW j \in DOMAIN Tail(s),
                    i < j, Tail(s)[i].ok, Tail(s)[j].ok
             PROVE  Tail(s)[i].ver <= Tail(s)[j].ver
  BY DEF Sorted
<1>1. /\ i + 1 \in DOMAIN s /\ Tail(s)[i] = s[i + 1]
      /\ j + 1 \in DOMAIN s /\ Tail(s)[j] = s[j + 1]
      /\ i + 1 < j + 1
  BY TailElements
<1>. QED  BY <1>1 DEF Sorted

LEMMA InitOrder == ASSUME Init PROVE InOrder
BY ResultFacts
DEF Init, ServerInit, FetcherInit, EvaluatorInit, InOrder, NotBefore, AtLeast,
    Sorted, NoAnswer, Answer

LEMMA StepOrder == ASSUME IInv, [Next]_vars PROVE InOrder'
<1>. USE DEF IInv, InOrder
<1>t. /\ srv \in Nat /\ store \in Nat /\ held \in Result /\ res \in Result
      /\ chan \in Seq(Result) /\ wire \in Seq(Result) /\ reply.ver \in Nat
  BY DEF TypeOK, ServerTypeOK, Version, EvaluatorTypeOK, FetcherTypeOK,
         RequestTypeOK, StreamTypeOK
<1>1. ASSUME UNCHANGED <<srv, store, held, chan, res, wire, reply>>
      PROVE  InOrder'
  BY <1>1 DEF NotBefore, Sorted, AtLeast
<1>2. ASSUME UNCHANGED <<srv, store, held, chan, res, wire>>, reply'.kind # "doc"
      PROVE  InOrder'
  BY <1>2 DEF NotBefore, Sorted, AtLeast
<1>3. Fetcher => InOrder'
  <2>. USE DEF Fetcher, serverVars, evaluatorVars, engineVars, requestVars,
               streamVars, stopVars
  <2>1. Fetcher /\ InitialFetch => InOrder'
    BY <1>2 DEF InitialFetch, SendRequest, NoAnswer, Answer
  <2>2. Fetcher /\ LoopCheck => InOrder'
    BY <1>1, <1>2 DEF LoopCheck, SendRequest, NoAnswer, Answer
  <2>3. ASSUME Fetcher, HandlePolling PROVE InOrder'
    <3>1. wire = <<>> /\ ~res.ok
      BY <2>3, ResultFacts DEF HandlePolling, FetcherControl
    <3>2. UNCHANGED <<srv, store, held, chan, wire>> /\ reply'.kind # "doc"
      BY <2>3 DEF HandlePolling, RequestOver, NoAnswer, Answer
    <3>3. \/ ~res'.ok
          \/ reply.kind = "doc" /\ res'.ver = reply.ver
      BY <2>3, <1>t, <3>1, ResultFacts DEF HandlePolling, FetchResult
    <3>. QED  BY <1>t, <3>1, <3>2, <3>3 DEF NotBefore, Sorted, AtLeast
  <2>4. ASSUME Fetcher, SendResult PROVE InOrder'
    <3>1. UNCHANGED <<srv, store, held, wire, reply>> /\ chan' = Append(chan, res) /\ ~res'.ok
      BY <2>4, ResultFacts DEF SendResult
    <3>2. ASSUME NEW v \in Nat, NotBefore(v), res.ok => res.ver <= v
          PROVE  NotBefore(v)'
      BY <1>t, <3>1, <3>2, AppendElements, ElementTypes DEF NotBefore
    <3>3. Sorted(chan)'
      <4>1. res.ok => \A i \in DOMAIN chan : chan[i].ok => chan[i].ver <= res.ver
        BY <1>t, ElementTypes DEF NotBefore
      <4>. QED  BY <1>t, <3>1, <4>1, SortedAppend
    <3>4. \A i \in DOMAIN chan' : /\ AtLeast(chan'[i], store)
                                  /\ held.ok => AtLeast(chan'[i], held.ver)
      BY <1>t, <3>1, AppendElements DEF NotBefore, AtLeast
    <3>5. reply.kind # "doc"
      BY <2>4 DEF SendResult, FetcherControl, InFlight
    <3>6. \A i \in DOMAIN wire' : wire'[i].ok => NotBefore(wire[i].ver)'
      <4>. SUFFICES ASSUME NEW i \in DOMAIN wire, wire[i].ok
                    PROVE  NotBefore(wire[i].ver)'
        BY <3>1
      <4>. DEFINE v == wire[i].ver
      <4>1. NotBefore(v) /\ v \in Nat /\ (res.ok => res.ver <= v)
        BY <1>t, ElementTypes
      <4>. HIDE DEF v
      <4>2. \A u \in Nat : u = v => NotBefore(u)'
        BY <3>2, <4>1
      <4>. QED  BY <3>1, <4>1, <4>2 DEF NotBefore, v
    <3>7. NotBefore(srv)'
      BY <1>t, <3>1, <3>2
    <3>. QED  BY <3>1, <3>3, <3>4, <3>5, <3>6, <3>7 DEF AtLeast
  <2>5. Fetcher /\ (PauseCheck \/ ArmNotified \/ PauseTick \/ PauseNotified) => InOrder'
    BY <1>1 DEF PauseCheck, ArmNotified, PauseTick, PauseNotified
  <2>6. ASSUME Fetcher, UNCHANGED <<chan, res>>, reply'.kind # "doc",
               wire' = wire \/ wire' = <<>>
        PROVE  InOrder'
    BY <2>6, <1>2 DEF NotBefore, Sorted, AtLeast
  <2>7. ASSUME Fetcher, HandleConnect PROVE InOrder'
    <3>1. ~res.ok
      BY <2>7, ResultFacts DEF HandleConnect, FetcherControl
    <3>2. /\ UNCHANGED <<srv, store, held, chan>> /\ reply'.kind # "doc"
          /\ wire' = wire \/ wire' = <<>>
          /\ ~res'.ok
      BY <2>7, <3>1, ResultFacts DEF HandleConnect, RequestOver, NoAnswer, Answer
    <3>. QED  BY <3>1, <3>2 DEF NotBefore, Sorted, AtLeast
  <2>8. Fetcher /\ (StreamCheck \/ StreamEnd) => InOrder'
    <3>1. pc \in {"streamCheck", "streamWait"} => reply.kind # "doc"
      BY DEF FetcherControl, InFlight
    <3>. QED  BY <2>6, <3>1 DEF StreamCheck, StreamEnd, LeaveStream
  <2>9. ASSUME Fetcher, StreamNext PROVE InOrder'
    <3>1. /\ UNCHANGED <<srv, store, held, chan, reply>>
          /\ wire # <<>> /\ res' = Head(wire) /\ wire' = Tail(wire)
      BY <2>9 DEF StreamNext
    <3>2. reply.kind # "doc"
      BY <2>9 DEF StreamNext, FetcherControl, InFlight
    <3>3. res' = wire[1] /\ 1 \in DOMAIN wire
      BY <1>t, <3>1, TailElements
    <3>4. Sorted(wire)'
      BY <1>t, <3>1, SortedTail
    <3>5. \A i \in DOMAIN wire' :
            wire'[i].ok => /\ NotBefore(wire'[i].ver) /\ wire'[i].ver <= srv
                           /\ res'.ok => res'.ver <= wire'[i].ver
      <4>. TAKE i \in DOMAIN wire'
      <4>1. i + 1 \in DOMAIN wire /\ wire'[i] = wire[i + 1] /\ 1 < i + 1
        BY <1>t, <3>1, TailElements
      <4>. QED  BY <3>3, <4>1 DEF Sorted
    <3>. QED  BY <3>1, <3>2, <3>3, <3>4, <3>5 DEF NotBefore, AtLeast, Sorted
  <2>. QED
    BY <2>1, <2>2, <2>3, <2>4, <2>5, <2>7, <2>8, <2>9 DEF FetcherStep
<1>4. ASSUME HandleInitial PROVE InOrder'
  <2>1. /\ chan = <<>> /\ ~held.ok /\ wire = <<>> /\ ~res.ok
        /\ UNCHANGED <<srv, held, chan, wire, res>>
        /\ reply'.kind # "doc"
    BY <1>4, ResultFacts
    DEF HandleInitial, EngineControl, FetcherControl, RequestOver, NoAnswer,
        Answer, serverVars, streamVars
  <2>2. store' <= srv /\ store' \in Nat
    BY <1>t, <1>4, StoreForward DEF InOrder, NotBefore
  <2>. QED  BY <2>1, <2>2 DEF NotBefore, Sorted, AtLeast
<1>5. ASSUME Receive PROVE InOrder'
  <2>1. /\ UNCHANGED <<srv, store, wire, reply, res>>
        /\ ~held.ok /\ chan # <<>>
        /\ held' = chan[1] /\ 1 \in DOMAIN chan /\ chan' = Tail(chan)
    BY <1>5, <1>t, TailElements, ResultFacts
    DEF Receive, EngineControl, serverVars, evaluatorVars, streamVars, requestVars
  <2>2. Sorted(chan)'
    BY <1>t, <2>1, SortedTail
  <2>3. \A i \in DOMAIN chan' :
          /\ i + 1 \in DOMAIN chan /\ chan'[i] = chan[i + 1] /\ 1 < i + 1
    BY <1>t, <2>1, TailElements
  <2>4. \A i \in DOMAIN chan' : /\ AtLeast(chan'[i], store)
                                /\ held'.ok => AtLeast(chan'[i], held'.ver)
    BY <1>t, <2>1, <2>3, ElementTypes DEF Sorted, AtLeast
  <2>5. ASSUME NEW v, NotBefore(v) PROVE NotBefore(v)'
    BY <2>1, <2>3, <2>5 DEF NotBefore
  <2>6. NotBefore(srv)' /\ AtLeast(held, store)'
    BY <2>1, <2>5 DEF NotBefore, AtLeast
  <2>7. \A i \in DOMAIN wire : wire[i].ok => NotBefore(wire[i].ver)'
    BY <2>1, <2>3 DEF NotBefore
  <2>8. /\ res.ok => NotBefore(res.ver)'
        /\ reply.kind = "doc" => NotBefore(reply.ver)'
    BY <2>1, <2>3 DEF NotBefore
  <2>. QED  BY <2>1, <2>2, <2>4, <2>6, <2>7, <2>8 DEF Sorted, AtLeast
<1>6. ASSUME Apply PROVE InOrder'
  <2>1. /\ UNCHANGED <<srv, chan, wire, reply, res>> /\ ~held'.ok
        /\ store' = store \/ (held.ok /\ store' = held.ver)
    BY <1>6, ResultFacts
    DEF Apply, serverVars, fetcherVars, evaluatorVars, ReplaceSnapshot
  <2>. QED  BY <2>1 DEF NotBefore, AtLeast, Sorted
<1>7. ASSUME Network PROVE InOrder'
  <2>. USE <1>7 DEF Network, serverVars, evaluatorVars, engineVars
  <2>1. CASE ServerAnswers
    <3>1. /\ UNCHANGED <<srv, store, held, chan, wire, res>>
          /\ reply'.kind = "doc" => reply'.ver = srv
      BY <2>1 DEF ServerAnswers, PossibleAnswers, Answer, streamVars
    <3>. QED  BY <1>t, <3>1 DEF NotBefore, AtLeast, Sorted
  <2>2. CASE ServerPushes
    <3>1. /\ UNCHANGED <<srv, store, held, chan, res, reply>>
          /\ wire' = Append(wire, Ok(srv)) \/ wire' = Append(wire, Err)
      BY <2>2 DEF ServerPushes, requestVars
    <3>2. PICK r \in Result : wire' = Append(wire, r) /\ (r.ok => r.ver = srv)
      BY <1>t, <3>1, ResultFacts
    <3>3. Sorted(wire)'
      BY <1>t, <3>2, SortedAppend
    <3>4. \A i \in DOMAIN wire' :
            (i \in DOMAIN wire /\ wire'[i] = wire[i]) \/ wire'[i] = r
      BY <1>t, <3>2, AppendElements
    <3>. QED  BY <1>t, <3>1, <3>2, <3>3, <3>4 DEF NotBefore, AtLeast, Sorted
  <2>. QED  BY <2>1, <2>2
<1>8. ASSUME ConnectionLost PROVE InOrder'
  <2>1. /\ UNCHANGED <<srv, store, held, chan, res, reply>>
        /\ wire' = wire \/ wire' = Append(wire, Err)
    BY <1>8 DEF ConnectionLost, StreamDrops, serverVars, evaluatorVars,
                engineVars, requestVars
  <2>2. CASE wire' = wire
    BY <1>1, <2>1, <2>2
  <2>3. CASE wire' = Append(wire, Err)
    <3>1. Sorted(wire)'
      BY <1>t, <2>3, SortedAppend, ResultFacts
    <3>2. \A i \in DOMAIN wire' :
            wire'[i].ok => i \in DOMAIN wire /\ wire'[i] = wire[i]
      BY <1>t, <2>3, AppendElements, ResultFacts
    <3>. QED  BY <2>1, <3>1, <3>2 DEF NotBefore, AtLeast, Sorted
  <2>. QED  BY <2>1, <2>2, <2>3
<1>9. ASSUME Server PROVE InOrder'
  <2>1. /\ UNCHANGED <<store, held, chan, wire, res, reply>>
        /\ srv' \in Nat /\ srv' >= srv
    BY <1>9, <1>t
    DEF Server, ServerNext, Publish, GoDown, ComeUp, RotateCredential,
        fetcherVars, evaluatorVars, engineVars
  <2>2. \A i \in DOMAIN wire : wire[i].ver \in Nat
    BY <1>t, ElementTypes
  <2>3. \A i \in DOMAIN chan : chan[i].ver \in Nat
    BY <1>t, ElementTypes
  <2>. QED  BY <1>t, <2>1, <2>2, <2>3, ResultFacts DEF NotBefore, AtLeast, Sorted
<1>10. NetworkFails => InOrder'
  BY <1>1, <1>2 DEF NetworkFails, AttemptFails, Answer, serverVars,
                    evaluatorVars, engineVars, streamVars
<1>11. UpdaterEnds \/ UpdateAuthentication \/ Destroy => InOrder'
  BY <1>1 DEF UpdaterEnds, UpdateAuthentication, SendAuth, Destroy, DestroyStop,
              DestroyNotify, DestroyJoin, SetStopSignal, NotifyWaiters,
              serverVars, fetcherVars, evaluatorVars, engineVars, requestVars,
              streamVars
<1>12. ASSUME NEW c \in Callers, Calling(c) \/ Evaluating(c) PROVE InOrder'
  BY <1>1, <1>12 DEF Calling, CallRefused, BeginCall, Evaluating, EvaluateOne,
                     AbortCall, EndCall, serverVars, fetcherVars, engineVars
<1>13. vars' = vars => InOrder'
  BY <1>1 DEF vars, serverVars, fetcherVars, evaluatorVars, engineVars
<1>. QED
  BY <1>3, <1>4, <1>5, <1>6, <1>7, <1>8, <1>9, <1>10, <1>11, <1>12, <1>13
  DEF Next

-----------------------------------------------------------------------------
(* The invariant, and the theorems. *)

LEMMA InitIInv == ASSUME Init PROVE IInv
<1>1. Reads
  BY ResultFacts DEF Init, EvaluatorInit, Reads
<1>. QED  BY <1>1, InitTypeOK, InitControl, InitOrder DEF IInv

LEMMA StepIInv == ASSUME IInv, [Next]_vars PROVE IInv'
BY StepTypeOK, StepFetcherControl, StepEngineControl, StepReads, StepOrder DEF IInv

(* IInv holds throughout every behaviour of the engine. *)
THEOREM Invariance == Spec => []IInv
BY InitIInv, StepIInv, PTL DEF Spec

(* Every variable keeps its type; in particular the results channel never
   holds more than Capacity results (http.rs:331) and the polling pause never
   overruns its interval (http.rs:346-366). *)
THEOREM TypeCorrect == Spec => []TypeOK
<1>1. IInv => TypeOK
  BY DEF IInv
<1>. QED  BY <1>1, Invariance, PTL

(* Documents never overtake each other between the server and the store. *)
THEOREM DocumentsInOrder == Spec => []InOrder
<1>1. IInv => InOrder
  BY DEF IInv
<1>. QED  BY <1>1, Invariance, PTL

(* All answers of a batch come from one snapshot (evaluator.rs:90-99). *)
THEOREM BatchAtomicity == Spec => []BatchIsAtomic
<1>1. IInv => BatchIsAtomic
  <2> SUFFICES ASSUME IInv, NEW c \in Callers
               PROVE  Cardinality(seen[c]) <= 1
    BY DEF BatchIsAtomic
  <2>1. seen[c] = {} \/ seen[c] = {store}
    BY DEF IInv, Reads
  <2>2. Cardinality({}) = 0 /\ Cardinality({store}) = 1
    BY FS_EmptySet, FS_Singleton
  <2>. QED  BY <2>1, <2>2
<1>. QED  BY <1>1, Invariance, PTL

(* A caller's answers never go back to an older snapshot
   (lib.rs:235-246, evaluator.rs:33-44). *)
THEOREM MonotonicAnswers == Spec => AnswersNeverGoBack
<1>1. IInv /\ [Next]_vars => [\A c \in Callers : got'[c].ver >= got[c].ver]_vars
  <2> SUFFICES ASSUME IInv, Next
               PROVE  \A c \in Callers : got'[c].ver >= got[c].ver
    BY DEF IInv
  <2>. USE DEF IInv, TypeOK, EvaluatorTypeOK, Result
  <2>1. got' = got => \A c \in Callers : got'[c].ver >= got[c].ver
    OBVIOUS
  <2>2. ASSUME NEW d \in Callers, Calling(d) \/ Evaluating(d)
        PROVE  \A c \in Callers : got'[c].ver >= got[c].ver
    <3>1. CASE CallRefused(d)
      BY <3>1 DEF CallRefused
    <3>2. CASE EndCall(d)
      BY <3>2 DEF EndCall, Reads, Ok
    <3>3. CASE got' = got
      BY <2>1, <3>3
    <3>. QED
      BY <2>2, <3>1, <3>2, <3>3
      DEF Calling, BeginCall, Evaluating, EvaluateOne, AbortCall
  <2>3. got' = got \/ \E c \in Callers : Calling(c) \/ Evaluating(c)
    BY DEF Next, Fetcher, HandleInitial, Receive, Apply, UpdaterEnds,
           ReplaceSnapshot, UpdateAuthentication, Destroy, DestroyStop,
           DestroyNotify, DestroyJoin, NetworkFails, Network, ConnectionLost,
           Server, evaluatorVars, callVars
  <2>. QED  BY <2>1, <2>2, <2>3
<1>. QED  BY <1>1, Invariance, PTL DEF AnswersNeverGoBack, Spec

(* The engine implements the view that FlagView specifies: the snapshot only
   advances, never past what is published; an error shows only under the
   strategy "fail"; nothing moves after destroy_engine (lib.rs:154-230). *)
THEOREM Implementation == Spec => ImplementsView
<1>1. Init => View!ViewInit
  BY DEF Init, ServerInit, EvaluatorInit, View!ViewInit
<1>2. IInv /\ [Next]_vars => [View!ViewNext]_View!viewVars
  <2> SUFFICES ASSUME IInv, [Next]_vars, ~UNCHANGED View!viewVars
               PROVE  View!ViewNext
    OBVIOUS
  <2>. USE DEF IInv, TypeOK, ServerTypeOK, Version, EvaluatorTypeOK
  <2>1. CASE ~UNCHANGED <<store, error>>
    BY <2>1, StoreForward
    DEF View!ViewNext, View!Advance, View!StartFailing
  <2>2. CASE UNCHANGED <<store, error>>
    <3>1. UNCHANGED srv \/ (srv' = srv + 1 /\ UNCHANGED life)
      BY DEF Next, vars, Fetcher, HandleInitial, Receive, Apply, UpdaterEnds,
             Calling, Evaluating, UpdateAuthentication, Destroy, DestroyStop,
             DestroyNotify, DestroyJoin, NetworkFails, Network, ConnectionLost,
             Server, ServerNext, Publish, GoDown, ComeUp, RotateCredential,
             serverVars, engineVars
    <3>2. life = "gone" => life' = "gone"
      BY DEF Next, vars, Fetcher, HandleInitial, Receive, Apply, UpdaterEnds,
             Calling, Evaluating, UpdateAuthentication, Destroy, DestroyStop,
             DestroyNotify, DestroyJoin, NetworkFails, Network, ConnectionLost,
             Server, engineVars, EngineControl
    <3>. QED
      BY <2>2, <3>1, <3>2
      DEF View!viewVars, View!ViewNext, View!PublishVersion, View!Close
  <2>. QED  BY <2>1, <2>2
<1>. QED  BY <1>1, <1>2, Invariance, PTL DEF Spec, ImplementsView, View!ViewSpec

(* Under the strategy "fallback" no call is refused (lib.rs:187-194, 213-221). *)
THEOREM FallbackAnswers == Spec => []FallbackNeverRefuses
<1>. DEFINE FInv == Strategy = "fallback" => ~error /\ \A c \in Callers : got[c].ok
<1>1. Init => FInv
  BY ResultFacts DEF Init, EvaluatorInit
<1>2. IInv /\ [Next]_vars /\ FInv => FInv'
  <2> SUFFICES ASSUME IInv, [Next]_vars, FInv, Strategy = "fallback"
               PROVE  ~error' /\ \A c \in Callers : got'[c].ok
    OBVIOUS
  <2>1. ~error'
    BY StoreForward
  <2>2. ASSUME NEW d \in Callers, Calling(d) \/ Evaluating(d)
        PROVE  \A c \in Callers : got'[c].ok
    <3>1. CASE EndCall(d)
      <4>. PICK v \in seen[d] : got' = [got EXCEPT ![d] = Ok(v)]
        BY <3>1 DEF EndCall
      <4>. QED  BY DEF Ok, IInv, TypeOK, EvaluatorTypeOK
    <3>. QED
      BY <2>2, <3>1
      DEF Calling, CallRefused, BeginCall, Evaluating, EvaluateOne, AbortCall
  <2>3. got' = got \/ \E c \in Callers : Calling(c) \/ Evaluating(c)
    BY DEF Next, vars, Fetcher, HandleInitial, Receive, Apply, UpdaterEnds,
           ReplaceSnapshot, UpdateAuthentication, Destroy, DestroyStop,
           DestroyNotify, DestroyJoin, NetworkFails, Network, ConnectionLost,
           Server, evaluatorVars, callVars
  <2>. QED  BY <2>1, <2>2, <2>3
<1>3. FInv => FallbackNeverRefuses
  BY DEF FallbackNeverRefuses
<1>. QED  BY <1>1, <1>2, <1>3, Invariance, PTL DEF Spec

(* After destroy_engine no task of the engine does anything (lib.rs:929-944). *)
THEOREM Quiescence == Spec => QuietAfterDestroy
<1>1. IInv /\ [Next]_vars =>
        [life = "gone" => UNCHANGED <<fetcherVars, evaluatorVars, engineVars>>]_vars
  <2> SUFFICES ASSUME IInv, Next, life = "gone"
               PROVE  UNCHANGED <<fetcherVars, evaluatorVars, engineVars>>
    BY DEF IInv
  <2>1. /\ pc = "done" /\ chan = <<>> /\ updater = "done" /\ conn = "none"
        /\ \A c \in Callers : call[c] = NoCall
    BY DEF IInv, EngineControl, FetcherControl, WriteLockFree, Idle
  <2>2. ~Fetcher /\ ~HandleInitial
    BY <2>1 DEF Fetcher, FetcherStep, InitialFetch, LoopCheck, HandlePolling,
                SendResult, PauseCheck, ArmNotified, PauseTick, PauseNotified,
                HandleConnect, StreamCheck, StreamNext, StreamEnd, HandleInitial
  <2>3. ~Receive /\ ~Apply /\ ~UpdaterEnds /\ ~UpdateAuthentication /\ ~Destroy
    BY <2>1 DEF Receive, Apply, UpdaterEnds, UpdateAuthentication, Destroy,
                DestroyStop, DestroyNotify, DestroyJoin
  <2>4. ~NetworkFails /\ ~Network /\ ~ConnectionLost
    BY <2>1 DEF NetworkFails, Network, AttemptFails, ServerAnswers, Unanswered,
                InFlight, ServerPushes, ConnectionLost, StreamDrops
  <2>5. ASSUME NEW c \in Callers PROVE ~Calling(c) /\ ~Evaluating(c)
    BY <2>1 DEF Calling, Evaluating, EvaluateOne, AbortCall, EndCall, NoCall
  <2>. QED  BY <2>2, <2>3, <2>4, <2>5 DEF Next, Server
<1>. QED  BY <1>1, Invariance, PTL DEF QuietAfterDestroy, Spec

(* When bodies always decode, the ETag presented to the server is that of a
   document the engine has or will get (http.rs:462-464, 507-526). *)
THEOREM EtagSound == BodyFaults = FALSE => (Spec => []EtagIsDelivered)
<1> SUFFICES ASSUME BodyFaults = FALSE PROVE Spec => []EtagIsDelivered
  OBVIOUS
<1>1. Init => EtagIsDelivered
  BY DEF Init, FetcherInit, EtagIsDelivered
<1>2. IInv /\ [Next]_vars /\ EtagIsDelivered => EtagIsDelivered'
  <2> SUFFICES ASSUME IInv, [Next]_vars, EtagIsDelivered
               PROVE  EtagIsDelivered'
    OBVIOUS
  <2>t. /\ store \in Nat /\ held \in Result /\ chan \in Seq(Result) /\ res \in Result
        /\ etag \in Nat /\ reply.ver \in Nat
    BY DEF IInv, TypeOK, EvaluatorTypeOK, FetcherTypeOK, RequestTypeOK
  <2>1. CASE UNCHANGED <<etag, store, held, chan, res>>
    BY <2>1 DEF EtagIsDelivered
  <2>2. ASSUME HandlePolling, Fetcher PROVE EtagIsDelivered'
    <3>1. ~res.ok
      BY <2>2, ResultFacts DEF IInv, FetcherControl, HandlePolling
    <3>2. UNCHANGED <<store, held, chan>>
      BY <2>2 DEF HandlePolling, Fetcher, evaluatorVars, engineVars
    <3>3. \/ etag' = etag \/ etag' = NoEtag
          \/ res' = Ok(reply.ver) /\ etag' = reply.ver
      BY <2>2 DEF HandlePolling, FetchEtag, FetchResult, IInv, FetcherControl
    <3>. QED  BY <2>t, <3>1, <3>2, <3>3, ResultFacts DEF EtagIsDelivered, Holds
  <2>3. ASSUME SendResult, Fetcher PROVE EtagIsDelivered'
    <3>1. UNCHANGED <<etag, store, held>> /\ chan' = Append(chan, res)
      BY <2>3 DEF SendResult, Fetcher, evaluatorVars, engineVars
    <3>2. /\ \A i \in DOMAIN chan : i \in DOMAIN chan' /\ chan'[i] = chan[i]
          /\ Len(chan) + 1 \in DOMAIN chan' /\ chan'[Len(chan) + 1] = res
      BY <2>t, <3>1
    <3>. QED  BY <3>1, <3>2 DEF EtagIsDelivered, Holds
  <2>4. ASSUME StreamNext, Fetcher PROVE EtagIsDelivered'
    <3>1. UNCHANGED <<etag, store, held, chan>> /\ ~res.ok
      BY <2>4, ResultFacts
      DEF StreamNext, Fetcher, evaluatorVars, engineVars, IInv, FetcherControl
    <3>. QED  BY <3>1 DEF EtagIsDelivered, Holds
  <2>5. ASSUME HandleConnect, Fetcher PROVE EtagIsDelivered'
    <3>1. UNCHANGED <<etag, store, held, chan>> /\ ~res.ok
      BY <2>5, ResultFacts
      DEF HandleConnect, Fetcher, evaluatorVars, engineVars, IInv, FetcherControl
    <3>. QED  BY <3>1 DEF EtagIsDelivered, Holds
  <2>6. Fetcher => EtagIsDelivered'
    BY <2>1, <2>2, <2>3, <2>4, <2>5
    DEF Fetcher, FetcherStep, InitialFetch, LoopCheck, PauseCheck, ArmNotified,
        PauseTick, PauseNotified, StreamCheck, StreamEnd, evaluatorVars, engineVars
  <2>7. ASSUME HandleInitial PROVE EtagIsDelivered'
    <3>1. chan = <<>> /\ ~held.ok /\ ~res.ok /\ store' >= store
      BY <2>7, <2>t, ResultFacts, StoreForward
      DEF HandleInitial, IInv, EngineControl, FetcherControl
    <3>2. \/ etag' = etag \/ etag' = NoEtag
          \/ store' = reply.ver /\ etag' = reply.ver
      BY <2>7, <2>t, ResultFacts
      DEF HandleInitial, FetchEtag, FetchResult, IInv, FetcherControl, Applied,
          ReplaceSnapshot
    <3>3. store' \in Nat
      BY <2>t, StoreForward
    <3>. QED  BY <2>t, <3>1, <3>2, <3>3 DEF EtagIsDelivered, Holds
  <2>8. ASSUME Receive PROVE EtagIsDelivered'
    <3>1. /\ UNCHANGED <<etag, store, res>> /\ ~held.ok /\ chan # <<>>
          /\ held' = chan[1] /\ chan' = Tail(chan)
      BY <2>8, <2>t, TailElements, ResultFacts
      DEF Receive, IInv, EngineControl, evaluatorVars
    <3>2. \A i \in DOMAIN chan : i # 1 => i - 1 \in DOMAIN chan' /\ chan'[i - 1] = chan[i]
      BY <2>t, <3>1
    <3>. QED  BY <3>1, <3>2 DEF EtagIsDelivered, Holds
  <2>9. ASSUME Apply PROVE EtagIsDelivered'
    <3>1. UNCHANGED <<etag, chan, res>> /\ store' >= store
      BY <2>9, <2>t, StoreForward DEF Apply, fetcherVars
    <3>2. held.ok => store' = held.ver
      BY <2>9 DEF Apply, Applied, ReplaceSnapshot
    <3>3. store' \in Nat
      BY <2>t, StoreForward
    <3>. QED  BY <2>t, <3>1, <3>2, <3>3 DEF EtagIsDelivered, Holds
  <2>10. \/ Fetcher \/ HandleInitial \/ Receive \/ Apply
         \/ UNCHANGED <<etag, store, held, chan, res>>
    BY DEF Next, vars, UpdaterEnds, Calling, CallRefused, BeginCall, Evaluating,
           EvaluateOne, AbortCall, EndCall, UpdateAuthentication, SendAuth,
           Destroy, DestroyStop, DestroyNotify, DestroyJoin, SetStopSignal,
           NotifyWaiters, NetworkFails, AttemptFails, Network, ServerAnswers,
           ServerPushes, ConnectionLost, StreamDrops, Server, fetcherVars,
           evaluatorVars, engineVars
  <2>. QED  BY <2>1, <2>6, <2>7, <2>8, <2>9, <2>10
<1>. QED  BY <1>1, <1>2, Invariance, PTL DEF Spec
=============================================================================
