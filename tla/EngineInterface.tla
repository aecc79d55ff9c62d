--------------------------- MODULE EngineInterface ---------------------------
(***************************************************************************)
(* The functions an engine exports: those of the C interface               *)
(* (flipt-engine-ffi), of the WASM module the Go client runs               *)
(* (flipt-engine-wasm) and of the one the JavaScript client runs           *)
(* (flipt-engine-wasm-js).  Each is a function of the engine, None for a   *)
(* null pointer, and of the text it is given, None for a null pointer or a *)
(* length of 0.                                                            *)
(*                                                                         *)
(* A snapshot knows some flags; what an evaluation computes from it is the *)
(* subject of Evaluation, and here it is the version of the snapshot, the  *)
(* flag and the context that was read.  Variant and boolean evaluations    *)
(* differ in nothing else.  The results of every function are sets, those  *)
(* of a function without a result are empty.                               *)
(***************************************************************************)
EXTENDS EngineStart

Success(result) == [status |-> "success", result |-> Some(result)]
Failure == [status |-> "failure", result |-> None]
Null == [status |-> "success", result |-> None]

(* The response of a function that did not return, and what the wrappers of
   the C interface make of it. *)
Panic == [status |-> "panic", result |-> None]

(* Mutant: a panic reaches the caller. *)
CatchUnwindNothing(response) == response

CatchUnwind(response) == IF response = Panic THEN Failure ELSE response

-----------------------------------------------------------------------------
(* flipt-evaluation, as the engines use it.  An engine of any kind has a
   namespace and a store. *)

HasFlag(engine, key) ==
  engine.store.namespace = engine.namespace /\ key \in engine.store.flags

Answer(engine, request) ==
  <<engine.store.version, request.flag_key, request.context>>

Evaluation(engine, request) ==
  IF HasFlag(engine, request.flag_key)
  THEN Success({Answer(engine, request)}) ELSE Failure

BatchEvaluation(engine, requests) ==
  Success({IF HasFlag(engine, requests[i].flag_key)
           THEN Answer(engine, requests[i])
           ELSE <<0, requests[i].flag_key, {}>> : i \in DOMAIN requests})

Flags(engine) == {<<engine.store.version, key, {}>> : key \in engine.store.flags}
Contents(engine) == {<<engine.store.version, engine.store.namespace, engine.store.flags>>}

(* A request's context is None or a set of [property, kind, text]. *)
WithContext(requests, Convert(_)) ==
  [i \in DOMAIN requests |->
     [flag_key |-> requests[i].flag_key,
      context |-> Convert(OrElse(requests[i].context, {}))]]

-----------------------------------------------------------------------------
(* flipt-engine-ffi.  The evaluator refuses every call while it holds an
   error. *)

(* Values that are not strings are dropped. *)
FfiContext(context) ==
  {<<p.property, p.text>> : p \in {q \in context : q.kind = "string"}}

(* str::from_utf8(..).unwrap() and serde_json::from_str(..).unwrap() *)
FfiUnreadable(pointer) == ~pointer[1].utf8 \/ pointer[1].json = None

EvaluateUncaught(engine, pointer) ==
  IF engine = None THEN Failure
  ELSE IF FfiUnreadable(pointer) THEN Panic
  ELSE IF engine[1].error THEN Failure
  ELSE Evaluation(engine[1], WithContext(pointer[1].json[1], FfiContext)[1])

BatchUncaught(engine, pointer) ==
  IF engine = None THEN Failure
  ELSE IF FfiUnreadable(pointer) THEN Panic
  ELSE IF engine[1].error THEN Failure
  ELSE BatchEvaluation(engine[1], WithContext(pointer[1].json[1], FfiContext))

ListFlagsUncaught(engine) ==
  IF engine = None \/ engine[1].error THEN Failure
  ELSE IF engine[1].store.namespace # engine[1].namespace THEN Failure
  ELSE Success(Flags(engine[1]))

(* On success the text is the snapshot in base64, not a response in JSON. *)
GetSnapshotUncaught(engine) ==
  IF engine = None \/ engine[1].error THEN Failure
  ELSE Success(Contents(engine[1]))

(* The credential the fetcher sends from now on, and the response. *)
UpdateAuthenticationUncaught(engine, pointer) ==
  IF engine = None \/ pointer = None \/ FfiUnreadable(pointer)
    THEN [engine |-> engine, response |-> Failure]
  ELSE IF HeaderPanics(pointer[1].json[1])
    THEN [engine |-> engine, response |-> Panic]
  ELSE [engine |-> Some([engine[1] EXCEPT !.fetcher.authorization =
                           Authenticate(pointer[1].json[1])]),
        response |-> Success({})]

FfiInitialize(pointer) == InitializeEngine(pointer)
FfiEvaluate(engine, pointer) == CatchUnwind(EvaluateUncaught(engine, pointer))
FfiBatch(engine, pointer) == CatchUnwind(BatchUncaught(engine, pointer))
FfiListFlags(engine) == CatchUnwind(ListFlagsUncaught(engine))
FfiGetSnapshot(engine) == CatchUnwind(GetSnapshotUncaught(engine))

FfiUpdateAuthentication(engine, pointer) ==
  LET called == UpdateAuthenticationUncaught(engine, pointer)
  IN [called EXCEPT !.response = CatchUnwind(called.response)]

FfiDestroy(engine) == None

(* Not a function of the interface: the fetcher's result reaches the engine. *)
FfiFetched(engine, document) ==
  IF document # None
  THEN Some([engine[1] EXCEPT !.store = document[1], !.error = FALSE])
  ELSE Some([engine[1] EXCEPT !.error = @ \/ engine[1].strategy = "fail"])

-----------------------------------------------------------------------------
(* flipt-engine-wasm *)

Readable(pointer) ==
  pointer # None /\ pointer[1].utf8 /\ pointer[1].json # None

(* Values that are not strings are rendered as JSON; null is dropped. *)
WasmContext(context) ==
  {<<p.property, p.text>> : p \in {q \in context : q.kind # "null"}}

WasmInitialize(namespace, pointer) ==
  IF namespace = None \/ ~Readable(pointer) THEN None
  ELSE Some([namespace |-> namespace[1], store |-> pointer[1].json[1]])

WasmEvaluate(engine, pointer) ==
  IF engine = None \/ ~Readable(pointer) THEN Failure
  ELSE Evaluation(engine[1], WithContext(pointer[1].json[1], WasmContext)[1])

WasmBatch(engine, pointer) ==
  IF engine = None \/ ~Readable(pointer) THEN Failure
  ELSE BatchEvaluation(engine[1], WithContext(pointer[1].json[1], WasmContext))

(* Flags of another namespace are an Option without value: a success whose
   result is null. *)
WasmListFlags(engine) ==
  IF engine = None THEN Failure
  ELSE IF engine[1].store.namespace # engine[1].namespace THEN Null
  ELSE Success(Flags(engine[1]))

WasmGetSnapshot(engine) ==
  IF engine = None THEN Failure ELSE Success(Contents(engine[1]))

WasmSnapshot(engine, pointer) ==
  IF engine = None \/ ~Readable(pointer)
  THEN [engine |-> engine, response |-> Failure]
  ELSE [engine |-> Some([engine[1] EXCEPT !.store = pointer[1].json[1]]),
        response |-> Success({})]

(* Mutant: the namespace of the seed is not looked at. *)
WasmSeedUnchecked(engine, pointer) ==
  IF engine = None \/ ~Readable(pointer)
  THEN [engine |-> engine, response |-> Failure]
  ELSE [engine |-> Some([engine[1] EXCEPT !.store = pointer[1].json[1]]),
        response |-> Success({})]

(* The seed is a snapshot in base64; that of another namespace is refused. *)
WasmSeed(engine, pointer) ==
  IF engine = None \/ ~Readable(pointer)
  THEN [engine |-> engine, response |-> Failure]
  ELSE IF pointer[1].json[1].namespace # engine[1].namespace
  THEN [engine |-> engine, response |-> Failure]
  ELSE [engine |-> Some([engine[1] EXCEPT !.store = pointer[1].json[1]]),
        response |-> Success({})]

WasmDestroy(engine) == None

(* The blocks that are in use after allocate, deallocate and a function that
   returns a text.  Nothing is allocated for an empty text. *)
Allocate(blocks, pointer) == IF pointer = None THEN blocks ELSE blocks + 1
Deallocate(blocks, pointer) == IF pointer = None THEN blocks ELSE blocks - 1
ResultToPtr(blocks) == blocks + 1

-----------------------------------------------------------------------------
(* flipt-engine-wasm-js.  Values cross the boundary without pointers; a
   function that throws is a failure here. *)

JsNew(namespace) ==
  Some([namespace |-> namespace, store |-> EmptySnapshot(namespace)])

(* A request must have a context, of strings only. *)
JsReadable(requests) ==
  \A i \in DOMAIN requests :
    /\ requests[i].context # None
    /\ \A p \in requests[i].context[1] : p.kind = "string"

JsContext(context) == {<<p.property, p.text>> : p \in context}

JsEvaluate(engine, requests) ==
  IF ~JsReadable(requests) THEN Failure
  ELSE Evaluation(engine[1], WithContext(requests, JsContext)[1])

JsBatch(engine, requests) ==
  IF ~JsReadable(requests) THEN Failure
  ELSE BatchEvaluation(engine[1], WithContext(requests, JsContext))

JsListFlags(engine) ==
  IF engine[1].store.namespace # engine[1].namespace THEN Null
  ELSE Success(Flags(engine[1]))

JsGetSnapshot(engine) == Success(Contents(engine[1]))

JsSnapshot(engine, json) ==
  IF json = None
  THEN [engine |-> engine, response |-> Failure]
  ELSE [engine |-> Some([engine[1] EXCEPT !.store = json[1]]),
        response |-> Success({})]

JsSeed(engine, json) ==
  IF json = None
  THEN [engine |-> engine, response |-> Failure]
  ELSE IF json[1].namespace # engine[1].namespace
  THEN [engine |-> engine, response |-> Failure]
  ELSE [engine |-> Some([engine[1] EXCEPT !.store = json[1]]),
        response |-> Success({})]
=============================================================================
