------------------------------- MODULE Hosts -------------------------------
(***************************************************************************)
(* Clients around an engine: how they start it, call it, take its answers, *)
(* free its memory and stop it.  One behaviour is that of one host:        *)
(*   "java"  a client over the C interface, with the discipline of the     *)
(*           Java client: every text the engine returns is read and then   *)
(*           handed back; with a provider, it renews its lease meanwhile;  *)
(*   "go"    the Go client, which copies texts into and out of the memory  *)
(*           of its WASM module, where every step may fail;                *)
(*   "js"    the JavaScript client, whose engine takes and returns values. *)
(* How the Go and JavaScript clients fetch is the subject of GoClient and  *)
(* of JSClient: here a payload arrives at any time.  The application makes *)
(* one call at a time and none once it has closed its client.              *)
(***************************************************************************)
EXTENDS AuthLease, EngineInterface

CONSTANTS
  Namespace,     \* the namespace of the clients over WASM
  OptionTexts,   \* what initialize_engine of the C interface is given
  Requests,      \* sequences of evaluation requests
  Documents,     \* documents the server may send
  Seeds          \* seed snapshots: [utf8, json]

(* Version 0 is that of an empty snapshot. *)
Sound(document) ==
  /\ document.version \in Nat
  /\ document.version = 0 => document.flags = {}

(* A text that is not UTF-8 parses to nothing. *)
SoundText(t) == t.json # None => t.utf8 /\ Sound(t.json[1])

ASSUME DocumentsAssumption ==
  /\ \A d \in Documents : Sound(d)
  /\ \A t \in Seeds : SoundText(t)
  /\ \A o \in OptionTexts :
       o # None /\ o[1].json # None /\ o[1].json[1].snapshot # None =>
         SoundText(o[1].json[1].snapshot[1])
  /\ \A r \in Requests : DOMAIN r = 1..Len(r)

VARIABLES
  host,        \* "java", "go" or "js"
  options,     \* what the engine was started with
  engine,      \* the engine; None before it starts and once it is destroyed
  phase,       \* "new", "started", "seeded", "open", "unattended" (open, but
               \* its updater has ended), "failed", "crashed" or "closed"
  call,        \* the application's or the updater's call, if any:
               \* [op, text, stage, response, promised]
  blocks,      \* texts in the engine's memory that a host has to hand back
  freeFailed,  \* whether the engine has failed to take one back
  outcome,     \* what the last call was answered: [response, promised]
  current,     \* the last document or seed the engine has taken, if it is of
               \* the engine's namespace
  refusing,    \* whether the engine is to refuse calls
  updated      \* the answer of update_authentication

engineVars == <<host, options, engine, phase, current, refusing>>
callVars == <<call, blocks, freeFailed, outcome>>
vars == <<engineVars, callVars, updated, authVars>>

(* NewClient never hands back its namespace and its first payload: they go
   when the runtime is closed. *)
Kept == IF host = "go" THEN 2 ELSE 0

OwnDocument(document, namespace) ==
  IF document.namespace = namespace /\ document.version > 0
  THEN Some(document) ELSE None

Init ==
  /\ host \in {"java", "go", "js"}
  /\ engine = None /\ phase = "new" /\ call = None /\ blocks = 0
  /\ freeFailed = FALSE /\ outcome = None /\ updated = None
  /\ current = None /\ refusing = FALSE
  /\ CloseInit
  /\ options \in (IF host = "java" THEN OptionTexts ELSE {None})
  /\ \/ NoLeaseInit
     \/ /\ host = "java"
        /\ options[1].json # None /\ options[1].json[1].authentication # None
        /\ \E l \in Leases :
             /\ options[1].json[1].authentication[1] = l.strategy
             /\ LeaseInit(l)

Idle == call = None /\ ~closed

-----------------------------------------------------------------------------
(* What a call is to be answered, whatever the host, when the values of the
   contexts are strings. *)

Strings(requests) ==
  \A i \in DOMAIN requests :
    /\ requests[i].context # None
    /\ \A p \in requests[i].context[1] : p.kind = "string"

Promise(request) ==
  IF current # None /\ request.flag_key \in current[1].flags
  THEN <<current[1].version, request.flag_key,
         {<<p.property, p.text>> : p \in request.context[1]}>>
  ELSE <<0, request.flag_key, {}>>

Promised(op, text) ==
  CASE op = "evaluate" ->
         IF refusing \/ Promise(text[1].json[1][1])[1] = 0 THEN Failure
         ELSE Success({Promise(text[1].json[1][1])})
    [] op = "batch" ->
         IF refusing THEN Failure
         ELSE Success({Promise(text[1].json[1][i]) : i \in DOMAIN text[1].json[1]})
    [] op = "list" ->
         IF refusing THEN Failure
         ELSE Success({<<current[1].version, key, {}>> : key \in current[1].flags})
    [] op = "get" ->
         Success({<<current[1].version, current[1].namespace, current[1].flags>>})

(* Before there is a document the hosts differ in what they list, and a host
   over the C interface returns the text of a failure as if it were the
   snapshot. *)
HasPromise(op, text) ==
  \/ op \in {"evaluate", "batch"} /\ Strings(text[1].json[1])
  \/ op = "list" /\ (refusing \/ current # None)
  \/ op = "get" /\ ~refusing /\ current # None

NewCall(op, text, stage, response) ==
  [op |-> op, text |-> text, stage |-> stage, response |-> response,
   promised |-> IF HasPromise(op, text) THEN Some(Promised(op, text)) ELSE None]

Return(c, response) ==
  /\ call' = None
  /\ outcome' = Some([response |-> response, promised |-> c.promised])

(* A call of the updater, or one that fails in the host. *)
ReturnNothing == call' = None /\ outcome' = None

-----------------------------------------------------------------------------
(* A client over the C interface. *)

(* A null pointer is not noticed: every call on it is refused. *)
JavaStarts ==
  /\ host = "java" /\ phase = "new"
  /\ engine' = FfiInitialize(options)
  /\ phase' = "open"
  /\ current' = IF engine' = None THEN None
                ELSE OwnDocument(engine'[1].store, engine'[1].namespace)
  /\ refusing' = (engine' = None)
  /\ UNCHANGED <<host, options, callVars, updated, authVars>>

(* A fetch ends; document is None if it failed. *)
JavaFetched(document) ==
  /\ host = "java" /\ engine # None
  /\ engine' = FfiFetched(engine, document)
  /\ IF document # None
     THEN /\ current' = OwnDocument(document[1], engine[1].namespace)
          /\ refusing' = FALSE
     ELSE /\ refusing' = (refusing \/ engine[1].strategy = "fail")
          /\ UNCHANGED current
  /\ UNCHANGED <<host, options, phase, callVars, updated, authVars>>

FfiResponse(op, text) ==
  CASE op = "evaluate" -> FfiEvaluate(engine, text)
    [] op = "batch" -> FfiBatch(engine, text)
    [] op = "list" -> FfiListFlags(engine)
    [] op = "get" -> FfiGetSnapshot(engine)

JavaCalls(op, text) ==
  /\ host = "java" /\ phase = "open" /\ Idle
  /\ call' = Some(NewCall(op, text, "called", FfiResponse(op, text)))
  /\ blocks' = ResultToPtr(blocks)
  /\ outcome' = None
  /\ UNCHANGED <<freeFailed, engineVars, updated, authVars>>

(* Mutant: a text that does not say "success" is not handed back. *)
JavaReadsWithoutFinally ==
  /\ host = "java" /\ call # None
  /\ blocks' = IF call[1].response.status = "success" THEN blocks - 1 ELSE blocks
  /\ Return(call[1], call[1].response)
  /\ UNCHANGED <<freeFailed, engineVars, updated, authVars>>

(* readValue and getSnapshot: the text goes back in their finally. *)
JavaReads ==
  /\ host = "java" /\ call # None
  /\ blocks' = blocks - 1
  /\ Return(call[1], call[1].response)
  /\ UNCHANGED <<freeFailed, engineVars, updated, authVars>>

UpdateAuthentication ==
  LET called == FfiUpdateAuthentication(engine, Some(Text(Some(lease[1].strategy))))
  IN /\ renewer = "updating" /\ phase # "closed"
     /\ engine' = called.engine
     /\ updated' = Some(called.response)
     /\ blocks' = ResultToPtr(blocks)
     /\ renewer' = "reading"
     /\ UNCHANGED <<host, options, phase, current, refusing, call, freeFailed,
                    outcome, closeVars, delay, expiry, failures, maxRetries,
                    lease, granted, late>>

AnswerIsRead ==
  /\ Renewed(updated[1].status = "success")
  /\ updated' = None
  /\ blocks' = blocks - 1
  /\ UNCHANGED <<engineVars, call, freeFailed, outcome>>

(* What the scheduler's thread, its provider and time do on their own. *)
LeaseStep ==
  /\ phase # "new"
  /\ \/ Tick
     \/ Check
     \/ ProviderFails
     \/ \E l \in Leases : ProviderReturns(l)
     \/ SchedulerTerminated
     \/ AwaitTimesOut
     \/ AwaitInterrupted
  /\ UNCHANGED <<engineVars, callVars, updated>>

JavaCloses ==
  /\ host = "java" /\ phase = "open" /\ call = None
  /\ CloseBegins
  /\ UNCHANGED <<engineVars, callVars, updated>>

JavaDestroys ==
  /\ host = "java" /\ closer = "done" /\ phase = "open"
  /\ engine' = FfiDestroy(engine)
  /\ phase' = "closed"
  /\ UNCHANGED <<host, options, current, refusing, callVars, updated, authVars>>

-----------------------------------------------------------------------------
(* The Go client.  A call holds c.mu from its first step to its last. *)

(* An engine takes a text back, or fails to, which happens once at most. *)
Free(text) ==
  \/ blocks' = Deallocate(blocks, text) /\ UNCHANGED freeFailed
  \/ text # None /\ ~freeFailed /\ freeFailed' = TRUE /\ UNCHANGED blocks

GoStarts(document) ==
  /\ host = "go" /\ phase = "new"
  /\ engine' = WasmInitialize(Some(Namespace), Some(Text(Some(document))))
  /\ phase' = "started"
  /\ blocks' = 2
  /\ current' = OwnDocument(document, Namespace)
  /\ UNCHANGED <<host, options, refusing, call, freeFailed, outcome, updated,
                 authVars>>

(* NewClient hands the engine its seed, then once more what it fetched. *)
GoPhases(op) ==
  CASE op = "seed" -> {"started"}
    [] op = "update" -> {"seeded"}
    [] op = "snapshot" -> {"open"}
    [] OTHER -> {"open", "unattended"}

GoGivesUp(op) == op \in {"seed", "update"}

(* The text of a request, of a payload or of a seed is written to memory that
   was allocated for it. *)
GoAllocates(op, text) ==
  /\ host = "go" /\ phase \in GoPhases(op) /\ Idle
  /\ call' = Some(NewCall(op, text, "written", Failure))
  /\ blocks' = Allocate(blocks, text)
  /\ outcome' = None
  /\ UNCHANGED <<freeFailed, engineVars, updated, authVars>>

WasmCalled(op, text) ==
  CASE op = "evaluate" -> [engine |-> engine, response |-> WasmEvaluate(engine, text)]
    [] op = "batch" -> [engine |-> engine, response |-> WasmBatch(engine, text)]
    [] op = "list" -> [engine |-> engine, response |-> WasmListFlags(engine)]
    [] op = "get" -> [engine |-> engine, response |-> WasmGetSnapshot(engine)]
    [] op = "seed" -> WasmSeed(engine, text)
    [] op \in {"update", "snapshot"} -> WasmSnapshot(engine, text)

(* What the engine is to hold after it was given a document or a seed. *)
Takes(op, text) ==
  current' =
    IF op \in {"update", "snapshot"} /\ Readable(text)
      THEN OwnDocument(text[1].json[1], Namespace)
    ELSE IF op = "seed" /\ Readable(text) /\ text[1].json[1].namespace = Namespace
      THEN OwnDocument(text[1].json[1], Namespace)
    ELSE current

GoRuns ==
  /\ host = "go" /\ call # None /\ call[1].stage = "written"
  /\ LET called == WasmCalled(call[1].op, call[1].text) IN
       /\ engine' = called.engine
       /\ call' = Some([call[1] EXCEPT !.stage = "called",
                                       !.response = called.response])
  /\ Takes(call[1].op, call[1].text)
  /\ blocks' = ResultToPtr(blocks)
  /\ UNCHANGED <<host, options, phase, refusing, freeFailed, outcome, updated,
                 authVars>>

(* The call ends without an answer.  A client that cannot be started closes
   the runtime, with its memory; handleUpdates returns, and no update is
   handled any more.  Remaining is what else is done with the memory. *)
GoFails(op, Remaining) ==
  /\ ReturnNothing
  /\ IF GoGivesUp(op)
     THEN /\ engine' = None /\ phase' = "failed" /\ blocks' = 0
          /\ UNCHANGED freeFailed
     ELSE /\ Remaining
          /\ phase' = IF op = "snapshot" THEN "unattended" ELSE phase
          /\ UNCHANGED engine
  /\ UNCHANGED <<host, options, current, refusing>>

(* Mutant: a call that fails leaves its text behind. *)
GoCallFailsDirty ==
  /\ host = "go" /\ call # None /\ call[1].stage = "written"
  /\ call[1].op # "snapshot"
  /\ GoFails(call[1].op, UNCHANGED <<blocks, freeFailed>>)
  /\ UNCHANGED <<updated, authVars>>

(* The text could not be written or the call has failed; the text is handed
   back. *)
GoCallFails ==
  /\ host = "go" /\ call # None /\ call[1].stage = "written"
  /\ call[1].op # "snapshot"
  /\ GoFails(call[1].op, Free(call[1].text))
  /\ UNCHANGED <<updated, authVars>>

(* handleUpdates hands back a payload it could not write, but when the call
   fails it looks at the result before it looks at the error: without a
   result it panics, which ends the process. *)
GoUpdaterFails ==
  /\ host = "go" /\ call # None /\ call[1].stage = "written"
  /\ call[1].op = "snapshot"
  /\ \/ phase' = "unattended" /\ Free(call[1].text)
     \/ phase' = "crashed" /\ UNCHANGED <<blocks, freeFailed>>
  /\ ReturnNothing
  /\ UNCHANGED <<host, options, engine, current, refusing, updated, authVars>>

GoFreesText ==
  /\ host = "go" /\ call # None /\ call[1].stage = "called"
  /\ \/ /\ blocks' = Deallocate(blocks, call[1].text)
        /\ call' = Some([call[1] EXCEPT !.stage = "freed"])
        /\ UNCHANGED <<freeFailed, outcome, engineVars>>
     \/ /\ ~freeFailed /\ call[1].text # None
        /\ GoFails(call[1].op, freeFailed' = TRUE /\ UNCHANGED blocks)
  /\ UNCHANGED <<updated, authVars>>

(* A result is copied, handed back and decoded; handleUpdates does not look
   at it.  A seed or a first document that is refused ends NewClient, and
   ListFlags panics on flags of another namespace, which are null. *)
GoReads ==
  /\ host = "go" /\ call # None /\ call[1].stage = "freed"
  /\ IF GoGivesUp(call[1].op) /\ call[1].response = Failure
     THEN GoFails(call[1].op, FALSE)
     ELSE /\ blocks' = blocks - 1
          /\ IF call[1].op = "snapshot" \/ call[1].response = Null THEN ReturnNothing
             ELSE Return(call[1], call[1].response)
          /\ phase' = CASE call[1].op = "seed" -> "seeded"
                        [] call[1].op = "update" -> "open"
                        [] call[1].response = Null -> "crashed"
                        [] OTHER -> phase
          /\ UNCHANGED <<host, options, engine, current, refusing, freeFailed>>
  /\ UNCHANGED <<updated, authVars>>

(* The result cannot be read, which handleUpdates does not try, or not be
   handed back. *)
GoReadFails ==
  /\ host = "go" /\ call # None /\ call[1].stage = "freed"
  /\ GoFails(call[1].op, Free(Some(call[1].response)))
  /\ call[1].op = "snapshot" => freeFailed' # freeFailed
  /\ UNCHANGED <<updated, authVars>>

GoOpens ==
  /\ host = "go" /\ phase \in {"started", "seeded"} /\ Idle
  /\ phase' = "open"
  /\ UNCHANGED <<host, options, engine, current, refusing, callVars, updated,
                 authVars>>

GoCloses ==
  /\ host = "go" /\ phase \in {"open", "unattended"} /\ Idle
  /\ engine' = WasmDestroy(engine)
  /\ blocks' = 0
  /\ phase' = "closed" /\ closed' = TRUE
  /\ UNCHANGED <<host, options, current, refusing, call, freeFailed, outcome,
                 updated, closer, patience, interrupted, leaseVars>>

-----------------------------------------------------------------------------
(* The JavaScript client. *)

JsStarts ==
  /\ host = "js" /\ phase = "new"
  /\ engine' = JsNew(Namespace)
  /\ phase' = "started"
  /\ UNCHANGED <<host, options, current, refusing, callVars, updated, authVars>>

JsGiven(op, text) ==
  LET called == IF op = "seed" THEN JsSeed(engine, text[1].json)
                ELSE JsSnapshot(engine, text[1].json)
  IN /\ host = "js" /\ engine # None
     /\ phase \in {"started", "seeded", "open"}
     /\ op = "seed" => phase = "started"
     /\ engine' = called.engine
     /\ phase' = CASE called.response = Failure /\ phase # "open" -> "failed"
                   [] op = "seed" -> "seeded"
                   [] OTHER -> "open"
     /\ Takes(op, text)
     /\ UNCHANGED <<host, options, refusing, callVars, updated, authVars>>

(* Under the strategy fallback a client with a seed opens without a first
   document. *)
JsOpens ==
  /\ host = "js" /\ phase = "seeded"
  /\ phase' = "open"
  /\ UNCHANGED <<host, options, engine, current, refusing, callVars, updated,
                 authVars>>

JsResponse(op, text) ==
  CASE op = "evaluate" -> JsEvaluate(engine, text[1].json[1])
    [] op = "batch" -> JsBatch(engine, text[1].json[1])
    [] op = "list" -> JsListFlags(engine)
    [] op = "get" -> JsGetSnapshot(engine)

JsCalls(op, text) ==
  /\ host = "js" /\ phase = "open" /\ Idle
  /\ Return(NewCall(op, text, "called", Failure), JsResponse(op, text))
  /\ UNCHANGED <<blocks, freeFailed, engineVars, updated, authVars>>

-----------------------------------------------------------------------------
Calls(op, text) == JavaCalls(op, text) \/ GoAllocates(op, text) \/ JsCalls(op, text)

Payloads == {Some(Text(Some(d))) : d \in Documents} \cup {Some(Text(None))}

Next ==
  \/ \E r \in Requests : \/ Len(r) = 1 /\ Calls("evaluate", Some(Text(Some(r))))
                         \/ Calls("batch", Some(Text(Some(r))))
  \/ Calls("list", None)
  \/ Calls("get", None)
  \/ JavaStarts
  \/ JavaFetched(None)
  \/ \E d \in Documents : JavaFetched(Some(d))
  \/ JavaReads
  \/ UpdateAuthentication
  \/ AnswerIsRead
  \/ LeaseStep
  \/ JavaCloses
  \/ JavaDestroys
  \/ \E d \in Documents \cup {EmptySnapshot(Namespace)} : GoStarts(d)
  \/ \E t \in Payloads : \/ GoAllocates("update", t)
                         \/ GoAllocates("snapshot", t)
                         \/ JsGiven("snapshot", t)
  \/ \E t \in Seeds : GoAllocates("seed", Some(t)) \/ JsGiven("seed", Some(t))
  \/ GoRuns \/ GoCallFails \/ GoUpdaterFails \/ GoFreesText
  \/ GoReads \/ GoReadFails \/ GoOpens \/ GoCloses
  \/ JsStarts
  \/ JsOpens

Spec == Init /\ [][Next]_vars
=============================================================================
