-------------------------- MODULE AgreementProofs --------------------------
(***************************************************************************)
(* The proof, for every value of the constants, that the three engines and *)
(* their hosts answer alike.  AgreeInv is shown to be inductive.           *)
(***************************************************************************)
EXTENDS HostsProperties, TLAPS

-----------------------------------------------------------------------------
(* The inductive invariant. *)

Live == {"started", "seeded", "open", "unattended"}

(* What the application may expect follows from the engine: current is its
   store, if that is of its namespace and not empty, and it refuses calls
   while it holds an error or there is none. *)
Linked ==
  /\ refusing \in BOOLEAN
  /\ host \in {"java", "go", "js"} /\ (host = "java" => options \in OptionTexts)
  /\ engine # None =>
       /\ {"namespace", "store"} \subseteq DOMAIN engine[1]
       /\ Sound(engine[1].store)
       /\ current = OwnDocument(engine[1].store, engine[1].namespace)
       /\ host = "java" => "error" \in DOMAIN engine[1] /\ engine[1].error = refusing
       /\ host # "java" => engine[1].namespace = Namespace

Present ==
  /\ host # "java" => ~refusing
  /\ host = "java" /\ phase = "open" /\ engine = None => refusing
  /\ host # "java" /\ phase \in Live => engine # None
  /\ phase = "new" => engine = None /\ current = None /\ ~refusing /\ call = None

(* What hosts give to which call. *)
Proper(op, text) ==
  CASE op \in {"evaluate", "batch"} ->
         \E r \in Requests : /\ text = Some(Text(Some(r)))
                             /\ op = "evaluate" => Len(r) = 1
    [] op \in {"update", "snapshot"} -> text \in Payloads
    [] op = "seed" -> \E t \in Seeds : text = Some(t)
    [] OTHER -> op \in {"list", "get"} /\ text = None

Expected(op, text) ==
  IF HasPromise(op, text) THEN Some(Promised(op, text)) ELSE None

(* A call that has not reached the engine yet is promised what holds now, one
   that has was answered as promised. *)
Promises ==
  call # None =>
    /\ {"op", "text", "stage", "response", "promised"} \subseteq DOMAIN call[1]
    /\ host = "go" => phase \in Live
    /\ IF call[1].stage = "written"
       THEN /\ host = "go" /\ Proper(call[1].op, call[1].text)
            /\ call[1].promised = Expected(call[1].op, call[1].text)
       ELSE call[1].promised # None => call[1].response = call[1].promised[1]

AgreeInv == Linked /\ Present /\ Promises /\ HostsAgree

-----------------------------------------------------------------------------
(* Options and responses. *)

LEMMA OptionFacts ==
  /\ \A x : Some(x) # None /\ Some(x)[1] = x
  /\ \A x, y : OrElse(Some(x), y) = x /\ OrElse(None, y) = y
BY DEF Some, None, OrElse

LEMMA Responses ==
  /\ Failure # Panic /\ \A x : Success(x) # Panic /\ Success(x) # Failure
  /\ CatchUnwind(Failure) = Failure
  /\ \A x : CatchUnwind(Success(x)) = Success(x)
<1>1. Failure.status = "failure" /\ Panic.status = "panic"
      /\ \A x : Success(x).status = "success"
  BY DEF Failure, Panic, Success
<1>2. Failure # Panic /\ \A x : Success(x) # Panic /\ Success(x) # Failure
  BY <1>1
<1>. QED
  BY <1>2 DEF CatchUnwind

(* A text of requests reaches an engine as it was sent. *)
LEMMA Sent ==
  ASSUME NEW r, NEW text, text = Some(Text(Some(r)))
  PROVE  /\ text # None /\ text[1].json[1] = r /\ text[1].json # None /\ text[1].utf8
         /\ Readable(text) /\ ~FfiUnreadable(text)
BY DEF Some, Text, None, Readable, FfiUnreadable

(* What the engine has is what the application may expect. *)
LEMMA Known ==
  ASSUME Linked, engine # None
  PROVE  /\ \A key : HasFlag(engine[1], key) <=> current # None /\ key \in current[1].flags
         /\ current # None => /\ current[1] = engine[1].store /\ current[1].version # 0
                              /\ engine[1].store.namespace = engine[1].namespace
BY OptionFacts DEF Linked, HasFlag, OwnDocument, Sound

(* The context of a request whose values are strings. *)
Sets(context) == {<<p.property, p.text>> : p \in context}

LEMMA Contexts ==
  ASSUME NEW r, Strings(r), NEW i \in DOMAIN r
  PROVE  LET context == OrElse(r[i].context, {}) IN
         /\ context = r[i].context[1]
         /\ FfiContext(context) = Sets(context)
         /\ WasmContext(context) = Sets(context)
         /\ JsContext(context) = Sets(context)
<1>. DEFINE context == OrElse(r[i].context, {})
<1>1. /\ context = r[i].context[1]
      /\ \A p \in context : p.kind = "string"
  BY DEF Strings, OrElse
<1>2. {q \in context : q.kind = "string"} = context
      /\ {q \in context : q.kind # "null"} = context
  BY <1>1
<1>. QED
  BY <1>1, <1>2 DEF FfiContext, WasmContext, JsContext, Sets

LEMMA StringsReadable == ASSUME NEW r, Strings(r) PROVE JsReadable(r)
BY DEF Strings, JsReadable

-----------------------------------------------------------------------------
(* What the engines answer is what is promised. *)

(* w is r as an engine reads it. *)
IsRead(w, r) ==
  /\ DOMAIN w = DOMAIN r
  /\ \A i \in DOMAIN r : /\ w[i].flag_key = r[i].flag_key
                         /\ w[i].context = Sets(r[i].context[1])

LEMMA AllRead ==
  ASSUME NEW r, Strings(r)
  PROVE  /\ IsRead(WithContext(r, FfiContext), r)
         /\ IsRead(WithContext(r, WasmContext), r)
         /\ IsRead(WithContext(r, JsContext), r)
BY Contexts DEF WithContext, IsRead

LEMMA AnswerKept ==
  ASSUME Linked, engine # None, NEW w, NEW r, IsRead(w, r), NEW i \in DOMAIN r
  PROVE  /\ IF HasFlag(engine[1], w[i].flag_key)
            THEN Answer(engine[1], w[i]) = Promise(r[i]) /\ Promise(r[i])[1] # 0
            ELSE <<0, w[i].flag_key, {}>> = Promise(r[i]) /\ Promise(r[i])[1] = 0
BY Known DEF IsRead, Answer, Promise, Sets

LEMMA EvaluationKept ==
  ASSUME Linked, engine # None, NEW w, NEW r, IsRead(w, r), NEW i \in DOMAIN r
  PROVE  Evaluation(engine[1], w[i]) =
           IF Promise(r[i])[1] = 0 THEN Failure ELSE Success({Promise(r[i])})
BY AnswerKept DEF Evaluation

LEMMA BatchKept ==
  ASSUME Linked, engine # None, NEW w, NEW r, IsRead(w, r)
  PROVE  BatchEvaluation(engine[1], w) = Success({Promise(r[i]) : i \in DOMAIN r})
<1>. DEFINE Item(i) == IF HasFlag(engine[1], w[i].flag_key)
                       THEN Answer(engine[1], w[i])
                       ELSE <<0, w[i].flag_key, {}>>
<1>1. \A i \in DOMAIN r : Item(i) = Promise(r[i])
  BY AnswerKept
<1>2. DOMAIN w = DOMAIN r
  BY DEF IsRead
<1>3. {Item(i) : i \in DOMAIN w} = {Promise(r[i]) : i \in DOMAIN r}
  <2>. HIDE DEF Item
  <2>. QED
    BY <1>1, <1>2
<1>. QED
  BY <1>3 DEF BatchEvaluation

LEMMA ContentsKept ==
  ASSUME Linked, engine # None, current # None
  PROVE  /\ engine[1].store.namespace = engine[1].namespace
         /\ Flags(engine[1]) = {<<current[1].version, key, {}>> : key \in current[1].flags}
         /\ Contents(engine[1]) =
              {<<current[1].version, current[1].namespace, current[1].flags>>}
BY Known DEF Flags, Contents

Reading == {"evaluate", "batch", "list", "get"}

LEMMA PromisedCalls ==
  ASSUME NEW op, NEW text, Proper(op, text), HasPromise(op, text)
  PROVE  /\ op \in Reading
         /\ op \in {"evaluate", "batch"} =>
              \E r \in Requests : /\ text = Some(Text(Some(r))) /\ Strings(r)
                                  /\ text[1].json[1] = r
                                  /\ op = "evaluate" => 1 \in DOMAIN r
BY Sent, DocumentsAssumption DEF Proper, HasPromise, Reading

LEMMA FfiKeepsPromise ==
  ASSUME Linked, Present, host = "java", phase = "open", NEW op, NEW text, Proper(op, text),
         HasPromise(op, text)
  PROVE  FfiResponse(op, text) = Promised(op, text)
<1>1. CASE engine = None
  <2>1. refusing
    BY <1>1 DEF Present
  <2>. QED
    BY <1>1, <2>1, PromisedCalls, Responses
      DEF Reading, HasPromise, FfiResponse, Promised, FfiEvaluate, FfiBatch, FfiListFlags,
          EvaluateUncaught, BatchUncaught, ListFlagsUncaught
<1>2. CASE engine # None
  <2>1. engine[1].error = refusing
    BY <1>2 DEF Linked
  <2>2. CASE op = "evaluate"
    <3>1. PICK r \in Requests : /\ text = Some(Text(Some(r))) /\ Strings(r)
                                /\ text[1].json[1] = r /\ 1 \in DOMAIN r
      BY <2>2, PromisedCalls
    <3>2. Evaluation(engine[1], WithContext(r, FfiContext)[1]) =
            IF Promise(r[1])[1] = 0 THEN Failure ELSE Success({Promise(r[1])})
      BY <1>2, <3>1, AllRead, EvaluationKept
    <3>. QED
      BY <1>2, <2>1, <2>2, <3>1, <3>2, Sent, Responses
        DEF FfiResponse, Promised, FfiEvaluate, EvaluateUncaught
  <2>3. CASE op = "batch"
    <3>1. PICK r \in Requests : /\ text = Some(Text(Some(r))) /\ Strings(r)
                                /\ text[1].json[1] = r
      BY <2>3, PromisedCalls
    <3>2. BatchEvaluation(engine[1], WithContext(r, FfiContext)) =
            Success({Promise(r[i]) : i \in DOMAIN r})
      BY <1>2, <3>1, AllRead, BatchKept
    <3>. QED
      BY <1>2, <2>1, <2>3, <3>1, <3>2, Sent, Responses
        DEF FfiResponse, Promised, FfiBatch, BatchUncaught
  <2>4. CASE op = "list"
    BY <1>2, <2>1, <2>4, ContentsKept, Responses
      DEF HasPromise, FfiResponse, Promised, FfiListFlags, ListFlagsUncaught
  <2>5. CASE op = "get"
    BY <1>2, <2>1, <2>5, ContentsKept, Responses
      DEF HasPromise, FfiResponse, Promised, FfiGetSnapshot, GetSnapshotUncaught
  <2>. QED
    BY <2>2, <2>3, <2>4, <2>5, PromisedCalls DEF Reading
<1>. QED
  BY <1>1, <1>2

LEMMA WasmKeepsPromise ==
  ASSUME Linked, engine # None, ~refusing, NEW op, NEW text, Proper(op, text),
         HasPromise(op, text)
  PROVE  /\ WasmCalled(op, text).engine = engine
         /\ WasmCalled(op, text).response = Promised(op, text)
<1>1. CASE op = "evaluate"
  <2>1. PICK r \in Requests : /\ text = Some(Text(Some(r))) /\ Strings(r)
                              /\ text[1].json[1] = r /\ 1 \in DOMAIN r
    BY <1>1, PromisedCalls
  <2>2. Evaluation(engine[1], WithContext(r, WasmContext)[1]) =
          IF Promise(r[1])[1] = 0 THEN Failure ELSE Success({Promise(r[1])})
    BY <2>1, AllRead, EvaluationKept
  <2>. QED
    BY <1>1, <2>1, <2>2, Sent DEF WasmCalled, Promised, WasmEvaluate
<1>2. CASE op = "batch"
  <2>1. PICK r \in Requests : /\ text = Some(Text(Some(r))) /\ Strings(r)
                              /\ text[1].json[1] = r
    BY <1>2, PromisedCalls
  <2>2. BatchEvaluation(engine[1], WithContext(r, WasmContext)) =
          Success({Promise(r[i]) : i \in DOMAIN r})
    BY <2>1, AllRead, BatchKept
  <2>. QED
    BY <1>2, <2>1, <2>2, Sent DEF WasmCalled, Promised, WasmBatch
<1>3. CASE op = "list"
  BY <1>3, ContentsKept DEF HasPromise, WasmCalled, Promised, WasmListFlags
<1>4. CASE op = "get"
  BY <1>4, ContentsKept DEF HasPromise, WasmCalled, Promised, WasmGetSnapshot
<1>. QED
  BY <1>1, <1>2, <1>3, <1>4, PromisedCalls DEF Reading

LEMMA JsKeepsPromise ==
  ASSUME Linked, engine # None, ~refusing, NEW op, NEW text, Proper(op, text),
         HasPromise(op, text)
  PROVE  JsResponse(op, text) = Promised(op, text)
<1>1. CASE op = "evaluate"
  <2>1. PICK r \in Requests : /\ text = Some(Text(Some(r))) /\ Strings(r)
                              /\ text[1].json[1] = r /\ 1 \in DOMAIN r
    BY <1>1, PromisedCalls
  <2>2. Evaluation(engine[1], WithContext(r, JsContext)[1]) =
          IF Promise(r[1])[1] = 0 THEN Failure ELSE Success({Promise(r[1])})
    BY <2>1, AllRead, EvaluationKept
  <2>. QED
    BY <1>1, <2>1, <2>2, StringsReadable DEF JsResponse, Promised, JsEvaluate
<1>2. CASE op = "batch"
  <2>1. PICK r \in Requests : /\ text = Some(Text(Some(r))) /\ Strings(r)
                              /\ text[1].json[1] = r
    BY <1>2, PromisedCalls
  <2>2. BatchEvaluation(engine[1], WithContext(r, JsContext)) =
          Success({Promise(r[i]) : i \in DOMAIN r})
    BY <2>1, AllRead, BatchKept
  <2>. QED
    BY <1>2, <2>1, <2>2, StringsReadable DEF JsResponse, Promised, JsBatch
<1>3. CASE op = "list"
  BY <1>3, ContentsKept DEF HasPromise, JsResponse, Promised, JsListFlags
<1>4. CASE op = "get"
  BY <1>4, ContentsKept DEF HasPromise, JsResponse, Promised, JsGetSnapshot
<1>. QED
  BY <1>1, <1>2, <1>3, <1>4, PromisedCalls DEF Reading

-----------------------------------------------------------------------------
(* Every step keeps what the application may expect linked to the engine. *)

LEMMA Initialized ==
  ASSUME NEW o \in OptionTexts, InitializeEngine(o) # None
  PROVE  LET e == InitializeEngine(o)[1] IN
         /\ {"namespace", "store", "error"} \subseteq DOMAIN e
         /\ Sound(e.store) /\ e.error = FALSE
<1>. DEFINE opts == OrElse(o[1].json, DefaultOpts)
            seed == IF opts.snapshot = None THEN None ELSE opts.snapshot[1].json
<1>. DEFINE initial ==
       [namespace |-> OrElse(opts.namespace, "default"),
        store |-> OrElse(seed, DefaultSnapshot), error |-> FALSE,
        strategy |-> OrElse(opts.error_strategy, "fail"),
        fetcher |-> OrElse(Build(ConfiguredBuilder(opts)), Build(NewBuilder(DefaultUrl))[1])]
<1>1. o # None /\ InitializeEngine(o) = Some(initial)
  BY Zenon DEF InitializeEngine
<1>2. Sound(DefaultSnapshot)
  BY DEF Sound, DefaultSnapshot, EmptySnapshot
<1>3. seed # None => Sound(seed[1])
  <2>1. CASE o[1].json = None
    BY <2>1, OptionFacts DEF DefaultOpts
  <2>2. CASE o[1].json # None
    BY <1>1, <2>2, DocumentsAssumption DEF OrElse, SoundText
  <2>. QED
    BY <2>1, <2>2
<1>4. Sound(OrElse(seed, DefaultSnapshot))
  <2>. HIDE DEF seed
  <2>. QED
    BY <1>2, <1>3 DEF OrElse
<1>5. InitializeEngine(o)[1] = initial
  <2>. HIDE DEF initial
  <2>. QED
    BY <1>1, OptionFacts
<1>. HIDE DEF seed, opts
<1>. QED
  BY <1>4, <1>5

LEMMA JavaLinked ==
  ASSUME Linked, Present,
         \/ JavaStarts \/ JavaFetched(None) \/ \E d \in Documents : JavaFetched(Some(d))
         \/ UpdateAuthentication \/ JavaDestroys
  PROVE  Linked' /\ Present'
<1>1. CASE JavaStarts
  <2>. USE <1>1 DEF JavaStarts, FfiInitialize, callVars
  <2>1. host = "java" /\ phase' = "open" /\ ~refusing /\ options \in OptionTexts
    BY DEF Present, Linked
  <2>2. CASE engine' = None
    BY <2>1, <2>2 DEF Linked, Present
  <2>3. CASE engine' # None
    BY <2>1, <2>3, Initialized DEF Linked, Present
  <2>. QED
    BY <2>2, <2>3
<1>2. CASE JavaFetched(None)
  <2>. USE <1>2 DEF JavaFetched, FfiFetched, callVars
  <2>1. engine' = Some([engine[1] EXCEPT !.error = @ \/ engine[1].strategy = "fail"])
    OBVIOUS
  <2>2. refusing' = (refusing \/ engine[1].strategy = "fail")
    OBVIOUS
  <2>3. UNCHANGED <<host, options, phase, current, call>> /\ host = "java" /\ engine # None
    OBVIOUS
  <2>4. engine'[1] = [engine[1] EXCEPT !.error = @ \/ engine[1].strategy = "fail"]
        /\ engine' # None
    BY <2>1, OptionFacts, Zenon
  <2>. QED
    BY <2>2, <2>3, <2>4 DEF Linked, Present
<1>3. ASSUME NEW d \in Documents, JavaFetched(Some(d)) PROVE Linked' /\ Present'
  <2>1. /\ engine'[1] = [engine[1] EXCEPT !.store = d, !.error = FALSE] /\ engine' # None
        /\ current' = OwnDocument(d, engine[1].namespace) /\ refusing' = FALSE
    BY <1>3, OptionFacts DEF JavaFetched, FfiFetched
  <2>2. UNCHANGED <<host, options, phase, call>> /\ host = "java" /\ engine # None
    BY <1>3 DEF JavaFetched, callVars
  <2>3. Sound(d)
    BY DocumentsAssumption
  <2>. QED
    BY <2>1, <2>2, <2>3 DEF Linked, Present
<1>4. CASE UpdateAuthentication
  <2>1. UNCHANGED <<host, options, phase, current, refusing, call>>
    BY <1>4 DEF UpdateAuthentication
  <2>2. \/ engine' = engine
        \/ /\ engine # None /\ engine' # None
           /\ \E x : engine'[1] = [engine[1] EXCEPT !.fetcher = x]
    BY <1>4, OptionFacts DEF UpdateAuthentication, FfiUpdateAuthentication,
                             UpdateAuthenticationUncaught
  <2>3. CASE engine' = engine
    BY <2>1, <2>3 DEF Linked, Present
  <2>4. ASSUME engine # None, engine' # None, NEW x,
               engine'[1] = [engine[1] EXCEPT !.fetcher = x]
        PROVE  Linked' /\ Present'
    BY <2>1, <2>4 DEF Linked, Present
  <2>. QED
    BY <2>2, <2>3, <2>4
<1>5. CASE JavaDestroys
  BY <1>5 DEF JavaDestroys, FfiDestroy, Linked, Present, callVars
<1>. QED
  BY <1>1, <1>2, <1>3, <1>4, <1>5

(* An engine that was given a text has taken it, or is as before. *)
Given(text, e) ==
  \/ e = engine /\ current' = current
  \/ /\ Readable(text) /\ e = Some([engine[1] EXCEPT !.store = text[1].json[1]])
     /\ current' = OwnDocument(text[1].json[1], Namespace)

LEMMA GivenLinked ==
  ASSUME Linked, host # "java", engine # None, NEW op, NEW text, Proper(op, text),
         op \in {"seed", "update", "snapshot"}, Takes(op, text),
         NEW e, Given(text, e)
  PROVE  /\ e # None
         /\ {"namespace", "store"} \subseteq DOMAIN e[1]
         /\ Sound(e[1].store)
         /\ current' = OwnDocument(e[1].store, e[1].namespace)
         /\ e[1].namespace = Namespace
<1>1. CASE e = engine /\ current' = current
  BY <1>1 DEF Linked
<1>2. ASSUME Readable(text), e = Some([engine[1] EXCEPT !.store = text[1].json[1]]),
             current' = OwnDocument(text[1].json[1], Namespace)
      PROVE  /\ e # None
             /\ {"namespace", "store"} \subseteq DOMAIN e[1]
             /\ Sound(e[1].store)
             /\ current' = OwnDocument(e[1].store, e[1].namespace)
             /\ e[1].namespace = Namespace
  <2>1. Sound(text[1].json[1])
    <3>1. text # None /\ text[1].json # None
      BY <1>2 DEF Readable
    <3>2. CASE op = "seed"
      <4>1. PICK t \in Seeds : text = Some(t)
        BY <3>2 DEF Proper
      <4>2. text[1] = t
        BY <4>1, OptionFacts
      <4>. QED
        BY <3>1, <4>2, DocumentsAssumption DEF SoundText
    <3>3. CASE op \in {"update", "snapshot"}
      <4>1. text \in Payloads
        BY <3>3 DEF Proper
      <4>2. \/ text[1] = Text(None)
            \/ \E d \in Documents : text[1] = Text(Some(d))
        BY <4>1, OptionFacts DEF Payloads
      <4>3. \A x : Text(x).json = x
        BY DEF Text
      <4>. QED
        BY <3>1, <4>2, <4>3, OptionFacts, DocumentsAssumption
    <3>. QED
      BY <3>2, <3>3
  <2>2. e # None /\ e[1] = [engine[1] EXCEPT !.store = text[1].json[1]]
    BY <1>2, OptionFacts
  <2>. QED
    BY <1>2, <2>1, <2>2 DEF Linked
<1>. QED
  BY <1>1, <1>2 DEF Given

LEMMA WasmGiven ==
  ASSUME Linked, host # "java", engine # None, NEW op, NEW text,
         op \in {"seed", "update", "snapshot"}, Takes(op, text)
  PROVE  Given(text, WasmCalled(op, text).engine)
<1>1. engine[1].namespace = Namespace
  BY DEF Linked
<1>2. CASE op = "seed"
  BY <1>1, <1>2 DEF Given, WasmCalled, WasmSeed, Takes
<1>3. CASE op \in {"update", "snapshot"}
  <2>1. WasmCalled(op, text) = WasmSnapshot(engine, text)
    BY <1>3 DEF WasmCalled
  <2>. QED
    BY <1>3, <2>1 DEF Given, WasmSnapshot, Takes
<1>. QED
  BY <1>2, <1>3

LEMMA JsGivenText ==
  ASSUME Linked, host # "java", engine # None, NEW op, NEW text, Proper(op, text),
         op \in {"seed", "snapshot"}, Takes(op, text)
  PROVE  Given(text, (IF op = "seed" THEN JsSeed(engine, text[1].json)
                      ELSE JsSnapshot(engine, text[1].json)).engine)
<1>1. engine[1].namespace = Namespace
  BY DEF Linked
<1>2. text # None /\ Readable(text) = (text[1].json # None)
  <2>1. CASE op = "seed"
    <3>1. PICK t \in Seeds : text = Some(t)
      BY <2>1 DEF Proper
    <3>2. text[1] = t /\ text # None
      BY <3>1, OptionFacts
    <3>. QED
      BY <3>2, DocumentsAssumption DEF SoundText, Readable
  <2>2. CASE op = "snapshot"
    <3>1. text \in Payloads
      BY <2>2 DEF Proper
    <3>2. text # None /\ \E x : text[1] = Text(x)
      BY <3>1, OptionFacts DEF Payloads
    <3>3. \A x : Text(x).json = x /\ Text(x).utf8 = TRUE
      BY DEF Text
    <3>. QED
      BY <3>2, <3>3 DEF Readable
  <2>. QED
    BY <2>1, <2>2
<1>3. CASE op = "seed"
  BY <1>1, <1>2, <1>3 DEF Given, JsSeed, Takes
<1>4. CASE op = "snapshot"
  BY <1>2, <1>4 DEF Given, JsSnapshot, Takes
<1>. QED
  BY <1>3, <1>4

LEMMA StillLinked ==
  ASSUME Linked, Present, UNCHANGED <<host, options, current, refusing>>,
         \/ /\ engine' = engine /\ (phase = "new" => call' = call)
            /\ \/ phase' = phase
               \/ host # "java" /\ phase' # "new" /\ phase \in Live
         \/ engine' = None /\ host # "java" /\ phase' \notin Live \cup {"new"}
  PROVE  Linked' /\ Present'
BY DEF Linked, Present, Live

LEMMA GoStartsLinked ==
  ASSUME Linked, Present, NEW d \in Documents \cup {EmptySnapshot(Namespace)}, GoStarts(d)
  PROVE  Linked' /\ Present'
<1>1. Sound(d)
  BY DocumentsAssumption DEF Sound, EmptySnapshot
<1>2. engine' = Some([namespace |-> Namespace, store |-> d])
  <2>1. Readable(Some(Text(Some(d)))) /\ Some(Text(Some(d)))[1].json[1] = d
    BY Sent
  <2>. QED
    BY <2>1, OptionFacts DEF GoStarts, WasmInitialize
<1>3. /\ engine' # None /\ engine'[1].namespace = Namespace /\ engine'[1].store = d
      /\ {"namespace", "store"} \subseteq DOMAIN engine'[1]
  BY <1>2, OptionFacts
<1>4. /\ host = "go" /\ phase' = "started" /\ UNCHANGED <<host, options, refusing>>
      /\ current' = OwnDocument(d, Namespace)
  BY DEF GoStarts
<1>. QED
  BY <1>1, <1>3, <1>4 DEF Linked, Present

LEMMA GoRunsLinked ==
  ASSUME Linked, Present, Promises, GoRuns
  PROVE  Linked' /\ Present'
<1>. DEFINE op == call[1].op  text == call[1].text
<1>1. /\ host = "go" /\ phase \in Live /\ Proper(op, text) /\ engine # None
      /\ engine' = WasmCalled(op, text).engine /\ Takes(op, text)
      /\ UNCHANGED <<host, options, phase, refusing>>
  BY DEF GoRuns, Promises, Present
<1>. HIDE DEF op, text
<1>2. CASE op \in {"seed", "update", "snapshot"}
  <2>1. /\ engine' # None
        /\ {"namespace", "store"} \subseteq DOMAIN engine'[1]
        /\ Sound(engine'[1].store)
        /\ current' = OwnDocument(engine'[1].store, engine'[1].namespace)
        /\ engine'[1].namespace = Namespace
    <3>1. host # "java"
      BY <1>1
    <3>2. Given(text, engine')
      BY <1>1, <1>2, <3>1, WasmGiven
    <3>. QED
      BY <1>1, <1>2, <3>1, <3>2, GivenLinked, Zenon
  <2>. QED
    BY <1>1, <2>1 DEF Linked, Present, Live
<1>3. CASE op \notin {"seed", "update", "snapshot"}
  <2>1. op \in Reading
    BY <1>1, <1>3 DEF Proper, Reading
  <2>2. engine' = engine /\ current' = current
    BY <1>1, <2>1 DEF Reading, WasmCalled, Takes
  <2>. QED
    BY <1>1, <2>2 DEF Linked, Present, Live
<1>. QED
  BY <1>2, <1>3

LEMMA GoLinked ==
  ASSUME Linked, Present, Promises,
         \/ GoCallFails \/ GoUpdaterFails \/ GoFreesText
         \/ GoReads \/ GoReadFails \/ GoOpens \/ GoCloses
  PROVE  Linked' /\ Present'
<1>1. CASE GoOpens \/ GoCloses
  BY <1>1, StillLinked DEF GoOpens, GoCloses, WasmDestroy, callVars, Live
<1>2. CASE GoCallFails \/ GoUpdaterFails \/ GoFreesText \/ GoReads \/ GoReadFails
  <2>1. host = "go" /\ call # None /\ phase \in Live
    BY <1>2 DEF GoCallFails, GoUpdaterFails, GoFreesText, GoReads, GoReadFails, Promises
  <2>2. ASSUME NEW op, NEW A, GoFails(op, A) PROVE Linked' /\ Present'
    <3>1. UNCHANGED <<host, options, current, refusing>>
      BY <2>2 DEF GoFails
    <3>2. \/ engine' = None /\ phase' = "failed"
          \/ engine' = engine /\ phase' \in {"unattended", phase}
      BY <2>2 DEF GoFails
    <3>. QED
      BY <2>1, <3>1, <3>2, StillLinked DEF Live
  <2>3. CASE GoUpdaterFails
    BY <2>1, <2>3, StillLinked DEF GoUpdaterFails, Live
  <2>4. CASE GoCallFails \/ GoReadFails
    BY <2>2, <2>4 DEF GoCallFails, GoReadFails
  <2>5. CASE GoFreesText
    <3>1. CASE UNCHANGED engineVars
      BY <2>1, <3>1, StillLinked DEF engineVars, Live
    <3>2. CASE GoFails(call[1].op, freeFailed' = TRUE /\ UNCHANGED blocks)
      BY <2>2, <3>2
    <3>. QED
      BY <2>5, <3>1, <3>2 DEF GoFreesText
  <2>6. CASE GoReads
    <3>1. CASE GoFails(call[1].op, FALSE)
      BY <2>2, <3>1
    <3>2. CASE /\ phase' = CASE call[1].op = "seed" -> "seeded"
                              [] call[1].op = "update" -> "open"
                              [] call[1].response = Null -> "crashed"
                              [] OTHER -> phase
               /\ UNCHANGED <<host, options, engine, current, refusing, freeFailed>>
      <4>1. phase' \in {"seeded", "open", "crashed", phase}
        BY <3>2
      <4>. QED
        BY <2>1, <3>2, <4>1, StillLinked DEF Live
    <3>. QED
      BY <2>6, <3>1, <3>2 DEF GoReads
  <2>. QED
    BY <1>2, <2>3, <2>4, <2>5, <2>6
<1>. QED
  BY <1>1, <1>2

LEMMA JsLinked ==
  ASSUME Linked, Present, NEW op \in {"seed", "snapshot"}, NEW text, Proper(op, text),
         JsGiven(op, text)
  PROVE  Linked' /\ Present'
<1>1. /\ host = "js" /\ engine # None /\ phase \in Live /\ Takes(op, text)
      /\ engine' = (IF op = "seed" THEN JsSeed(engine, text[1].json)
                    ELSE JsSnapshot(engine, text[1].json)).engine
      /\ UNCHANGED <<host, options, refusing>>
      /\ phase' \in {"failed", "seeded", "open"}
  BY DEF JsGiven, Live
<1>2. /\ engine' # None
      /\ {"namespace", "store"} \subseteq DOMAIN engine'[1]
      /\ Sound(engine'[1].store)
      /\ current' = OwnDocument(engine'[1].store, engine'[1].namespace)
      /\ engine'[1].namespace = Namespace
  <2>1. host # "java" /\ op \in {"seed", "update", "snapshot"}
    BY <1>1
  <2>2. Given(text, engine')
    BY <1>1, <2>1, JsGivenText
  <2>. QED
    BY <1>1, <2>1, <2>2, GivenLinked, Zenon
<1>. QED
  BY <1>1, <1>2 DEF Linked, Present, Live

LEMMA JsStartsLinked ==
  ASSUME Linked, Present, JsStarts \/ JsOpens
  PROVE  Linked' /\ Present'
<1>1. CASE JsOpens
  BY <1>1, StillLinked DEF JsOpens, Live
<1>2. CASE JsStarts
  <2>1. engine' = Some([namespace |-> Namespace, store |-> EmptySnapshot(Namespace)])
    BY <1>2 DEF JsStarts, JsNew
  <2>2. /\ engine' # None /\ engine'[1].namespace = Namespace
        /\ engine'[1].store = EmptySnapshot(Namespace)
        /\ {"namespace", "store"} \subseteq DOMAIN engine'[1]
    BY <2>1, OptionFacts
  <2>3. /\ host = "js" /\ phase' = "started" /\ current' = None
        /\ UNCHANGED <<host, options, refusing>>
    BY <1>2 DEF JsStarts, Present
  <2>4. /\ Sound(EmptySnapshot(Namespace))
        /\ OwnDocument(EmptySnapshot(Namespace), Namespace) = None
    BY DEF Sound, EmptySnapshot, OwnDocument
  <2>. QED
    BY <2>2, <2>3, <2>4 DEF Linked, Present
<1>. QED
  BY <1>1, <1>2

-----------------------------------------------------------------------------
(* Every step keeps the promises of calls, and what they return keeps them. *)

Agreed == Promises /\ HostsAgree

LEMMA NewCallFacts ==
  ASSUME NEW op, NEW text, NEW stage, NEW response
  PROVE  LET c == NewCall(op, text, stage, response) IN
         /\ {"op", "text", "stage", "response", "promised"} \subseteq DOMAIN c
         /\ c.op = op /\ c.text = text /\ c.stage = stage /\ c.response = response
         /\ c.promised = Expected(op, text)
BY DEF NewCall, Expected

LEMMA ExpectedFacts ==
  ASSUME NEW op, NEW text, Expected(op, text) # None
  PROVE  HasPromise(op, text) /\ Expected(op, text)[1] = Promised(op, text)
BY OptionFacts DEF Expected

LEMMA StillAgreed ==
  ASSUME Agreed, UNCHANGED <<host, call, outcome>>,
         host = "go" /\ call # None => UNCHANGED <<phase, current, refusing>>
  PROVE  Agreed'
<1>1. HostsAgree'
  BY DEF Agreed, HostsAgree
<1>2. CASE call = None \/ host # "go"
  BY <1>1, <1>2 DEF Agreed, Promises
<1>3. CASE UNCHANGED <<phase, current, refusing>>
  <2>1. \A op, text : Expected(op, text)' = Expected(op, text)
    BY <1>3 DEF Expected, HasPromise, Promised, Promise
  <2>. QED
    BY <1>1, <1>3, <2>1 DEF Agreed, Promises
<1>. QED
  BY <1>2, <1>3

(* A call that returns, with its answer or with none. *)
LEMMA ReturnsAgreed ==
  ASSUME Agreed, \/ ReturnNothing
                 \/ call # None /\ call[1].stage # "written" /\ Return(call[1], call[1].response)
  PROVE  Agreed'
<1>1. call' = None
  BY DEF ReturnNothing, Return
<1>2. CASE ReturnNothing
  BY <1>1, <1>2 DEF ReturnNothing, Agreed, Promises, HostsAgree
<1>3. CASE call # None /\ call[1].stage # "written" /\ Return(call[1], call[1].response)
  <2>1. outcome'[1] = [response |-> call[1].response, promised |-> call[1].promised]
    BY <1>3, OptionFacts DEF Return
  <2>2. call[1].promised # None => call[1].response = call[1].promised[1]
    BY <1>3 DEF Agreed, Promises
  <2>. QED
    BY <1>1, <2>1, <2>2 DEF Agreed, Promises, HostsAgree
<1>. QED
  BY <1>2, <1>3

LEMMA CallsAgreed ==
  ASSUME AgreeInv, NEW op, NEW text, Proper(op, text), Calls(op, text) \/ GoAllocates(op, text)
  PROVE  Agreed'
<1>. USE DEF AgreeInv
<1>1. CASE JavaCalls(op, text)
  <2>1. /\ host = "java" /\ phase = "open" /\ host' = host /\ outcome' = None
        /\ call' = Some(NewCall(op, text, "called", FfiResponse(op, text)))
    BY <1>1 DEF JavaCalls, engineVars
  <2>2. call'[1] = NewCall(op, text, "called", FfiResponse(op, text))
    BY <2>1, OptionFacts
  <2>3. Expected(op, text) # None => FfiResponse(op, text) = Expected(op, text)[1]
    BY <2>1, ExpectedFacts, FfiKeepsPromise
  <2>. QED
    BY <2>1, <2>2, <2>3, NewCallFacts DEF Agreed, Promises, HostsAgree
<1>2. CASE GoAllocates(op, text)
  <2>1. /\ host = "go" /\ phase \in Live /\ outcome' = None
        /\ UNCHANGED <<host, phase, current, refusing>>
        /\ call' = Some(NewCall(op, text, "written", Failure))
    BY <1>2 DEF GoAllocates, engineVars, GoPhases, Live
  <2>2. call'[1] = NewCall(op, text, "written", Failure)
    BY <2>1, OptionFacts
  <2>3. Expected(op, text)' = Expected(op, text)
    BY <2>1 DEF Expected, HasPromise, Promised, Promise
  <2>. QED
    BY <2>1, <2>2, <2>3, NewCallFacts DEF Agreed, Promises, HostsAgree
<1>3. CASE JsCalls(op, text)
  <2>. DEFINE c == NewCall(op, text, "called", Failure)
  <2>1. host = "js" /\ phase = "open" /\ Return(c, JsResponse(op, text))
    BY <1>3 DEF JsCalls
  <2>2. engine # None /\ ~refusing
    BY <2>1 DEF Present, Live
  <2>3. c.promised = Expected(op, text)
    BY NewCallFacts
  <2>4. Expected(op, text) # None => JsResponse(op, text) = Expected(op, text)[1]
    BY <2>2, ExpectedFacts, JsKeepsPromise
  <2>. HIDE DEF c
  <2>5. /\ call' = None
        /\ outcome'[1] = [response |-> JsResponse(op, text), promised |-> c.promised]
    BY <2>1, OptionFacts DEF Return
  <2>. QED
    BY <2>3, <2>4, <2>5 DEF Agreed, Promises, HostsAgree
<1>. QED
  BY <1>1, <1>2, <1>3 DEF Calls

LEMMA GoRunsAgreed ==
  ASSUME AgreeInv, GoRuns
  PROVE  Agreed'
<1>. DEFINE op == call[1].op  text == call[1].text
<1>1. /\ host = "go" /\ call # None /\ call[1].stage = "written" /\ phase \in Live
      /\ UNCHANGED <<host, phase, refusing, outcome>>
      /\ {"op", "text", "stage", "response", "promised"} \subseteq DOMAIN call[1]
      /\ Proper(op, text) /\ call[1].promised = Expected(op, text)
      /\ engine # None /\ ~refusing /\ Linked /\ HostsAgree
  BY DEF GoRuns, AgreeInv, Promises, Present
<1>2. call' = Some([call[1] EXCEPT !.stage = "called",
                                   !.response = WasmCalled(op, text).response])
  BY DEF GoRuns
<1>. HIDE DEF op, text
<1>3. Expected(op, text) # None => WasmCalled(op, text).response = Expected(op, text)[1]
  BY <1>1, ExpectedFacts, WasmKeepsPromise
<1>4. call'[1] = [call[1] EXCEPT !.stage = "called",
                                 !.response = WasmCalled(op, text).response]
  BY <1>2, OptionFacts
<1>. QED
  BY <1>1, <1>3, <1>4 DEF Agreed, Promises, HostsAgree

LEMMA GoAgreed ==
  ASSUME AgreeInv,
         \/ GoCallFails \/ GoUpdaterFails \/ GoFreesText
         \/ GoReads \/ GoReadFails \/ GoOpens \/ GoCloses
  PROVE  Agreed'
<1>1. Agreed
  BY DEF AgreeInv, Agreed
<1>2. CASE GoOpens \/ GoCloses
  BY <1>1, <1>2, StillAgreed DEF GoOpens, GoCloses, Idle, callVars
<1>3. CASE GoCallFails \/ GoUpdaterFails \/ GoReadFails
  <2>1. ReturnNothing
    BY <1>3 DEF GoCallFails, GoUpdaterFails, GoReadFails, GoFails
  <2>. QED
    BY <1>1, <2>1, ReturnsAgreed
<1>4. CASE GoFreesText
  <2>1. CASE ReturnNothing
    BY <1>1, <2>1, ReturnsAgreed
  <2>2. CASE /\ call' = Some([call[1] EXCEPT !.stage = "freed"])
             /\ UNCHANGED <<freeFailed, outcome, engineVars>>
    <3>1. call'[1] = [call[1] EXCEPT !.stage = "freed"]
      BY <2>2, OptionFacts
    <3>2. /\ call # None /\ call[1].stage # "written" /\ UNCHANGED <<host, phase, outcome>>
      BY <1>4, <2>2 DEF GoFreesText, engineVars
    <3>. QED
      BY <1>1, <3>1, <3>2 DEF Agreed, Promises, HostsAgree
  <2>. QED
    BY <1>4, <2>1, <2>2 DEF GoFreesText, GoFails
<1>5. CASE GoReads
  <2>1. call # None /\ call[1].stage # "written"
    BY <1>5 DEF GoReads
  <2>2. ReturnNothing \/ Return(call[1], call[1].response)
    BY <1>5 DEF GoReads, GoFails
  <2>. QED
    BY <1>1, <2>1, <2>2, ReturnsAgreed
<1>. QED
  BY <1>2, <1>3, <1>4, <1>5

-----------------------------------------------------------------------------
LEMMA AgreeInit == ASSUME Init PROVE AgreeInv
<1>1. /\ host \in {"java", "go", "js"} /\ engine = None /\ phase = "new" /\ call = None
      /\ outcome = None /\ current = None /\ refusing = FALSE
      /\ host = "java" => options \in OptionTexts
  BY Zenon DEF Init
<1>. QED
  BY <1>1 DEF AgreeInv, Linked, Present, Promises, HostsAgree, Live

LEMMA ProperCalls ==
  /\ \A r \in Requests : /\ Len(r) = 1 => Proper("evaluate", Some(Text(Some(r))))
                         /\ Proper("batch", Some(Text(Some(r))))
  /\ Proper("list", None) /\ Proper("get", None)
  /\ \A t \in Payloads : Proper("update", t) /\ Proper("snapshot", t)
  /\ \A t \in Seeds : Proper("seed", Some(t))
BY DEF Proper

(* The actions, with what they are given. *)
LEMMA Steps ==
  ASSUME Next
  PROVE  \/ \E op, text : Proper(op, text) /\ (Calls(op, text) \/ GoAllocates(op, text))
         \/ JavaStarts \/ JavaFetched(None) \/ \E d \in Documents : JavaFetched(Some(d))
         \/ JavaReads \/ UpdateAuthentication \/ AnswerIsRead \/ LeaseStep
         \/ JavaCloses \/ JavaDestroys
         \/ \E d \in Documents \cup {EmptySnapshot(Namespace)} : GoStarts(d)
         \/ \E op \in {"seed", "snapshot"} : \E text : Proper(op, text) /\ JsGiven(op, text)
         \/ GoRuns
         \/ GoCallFails \/ GoUpdaterFails \/ GoFreesText
         \/ GoReads \/ GoReadFails \/ GoOpens \/ GoCloses
         \/ JsStarts \/ JsOpens
BY ProperCalls, Zenon DEF Next

LEMMA NextAgrees == ASSUME AgreeInv, Next PROVE AgreeInv'
<1>. USE DEF AgreeInv, Agreed
<1>1. ASSUME NEW op, NEW text, Proper(op, text), Calls(op, text) \/ GoAllocates(op, text)
      PROVE  AgreeInv'
  <2>1. UNCHANGED engineVars /\ phase # "new"
    BY <1>1 DEF Calls, JavaCalls, GoAllocates, GoPhases, JsCalls
  <2>2. Linked' /\ Present'
    BY <2>1, StillLinked DEF engineVars
  <2>. QED
    BY <1>1, <2>2, CallsAgreed
<1>2. CASE \/ JavaStarts \/ JavaFetched(None) \/ \E d \in Documents : JavaFetched(Some(d))
           \/ UpdateAuthentication \/ JavaDestroys
  <2>1. UNCHANGED <<host, call, outcome>>
    BY <1>2 DEF JavaStarts, JavaFetched, UpdateAuthentication, JavaDestroys, callVars
  <2>2. host = "go" => UNCHANGED <<phase, current, refusing>>
    BY <1>2 DEF JavaStarts, JavaFetched, UpdateAuthentication, JavaDestroys
  <2>. QED
    BY <1>2, <2>1, <2>2, JavaLinked, StillAgreed
<1>3. CASE LeaseStep \/ JavaCloses \/ AnswerIsRead
  <2>1. UNCHANGED engineVars /\ UNCHANGED <<call, outcome>>
    BY <1>3 DEF LeaseStep, JavaCloses, AnswerIsRead, callVars
  <2>. QED
    BY <2>1, StillLinked, StillAgreed DEF engineVars
<1>4. CASE JavaReads
  <2>1. /\ call # None /\ call[1].stage # "written" /\ UNCHANGED engineVars /\ phase # "new"
        /\ Return(call[1], call[1].response)
    BY <1>4 DEF JavaReads, Promises, Present
  <2>. QED
    BY <2>1, StillLinked, ReturnsAgreed DEF engineVars
<1>5. ASSUME NEW d \in Documents \cup {EmptySnapshot(Namespace)}, GoStarts(d)
      PROVE  AgreeInv'
  <2>1. UNCHANGED <<host, call, outcome>> /\ call = None
    BY <1>5 DEF GoStarts, Present
  <2>. QED
    BY <1>5, <2>1, GoStartsLinked, StillAgreed
<1>6. ASSUME NEW op \in {"seed", "snapshot"}, NEW text, Proper(op, text), JsGiven(op, text)
      PROVE  AgreeInv'
  <2>1. UNCHANGED <<host, call, outcome>> /\ host = "js"
    BY <1>6 DEF JsGiven, callVars
  <2>. QED
    BY <1>6, <2>1, JsLinked, StillAgreed
<1>7. CASE GoRuns
  BY <1>7, GoRunsLinked, GoRunsAgreed
<1>8. CASE \/ GoCallFails \/ GoUpdaterFails \/ GoFreesText
           \/ GoReads \/ GoReadFails \/ GoOpens \/ GoCloses
  BY <1>8, GoLinked, GoAgreed
<1>9. CASE JsStarts \/ JsOpens
  <2>1. UNCHANGED <<host, call, outcome>> /\ host = "js"
    BY <1>9 DEF JsStarts, JsOpens, callVars
  <2>. QED
    BY <1>9, <2>1, JsStartsLinked, StillAgreed
<1>. QED
  BY Steps, <1>1, <1>2, <1>3, <1>4, <1>5, <1>6, <1>7, <1>8, <1>9, Zenon

(* AgreeInv always holds. *)
THEOREM AgreeInvariance == Spec => []AgreeInv
<1>1. ASSUME AgreeInv, UNCHANGED vars PROVE AgreeInv'
  <2>1. UNCHANGED <<host, call, outcome, phase, current, refusing, options, engine>>
    BY <1>1 DEF vars, engineVars, callVars
  <2>2. Linked' /\ Present'
    BY <1>1, <2>1, StillLinked DEF AgreeInv
  <2>. QED
    BY <1>1, <2>1, <2>2, StillAgreed DEF AgreeInv, Agreed
<1>2. AgreeInv /\ [Next]_vars => AgreeInv'
  BY <1>1, NextAgrees
<1>. QED
  BY AgreeInit, <1>2, PTL DEF Spec

(* Java, Go and JavaScript clients give the same answers from the same
   document, whatever their engines were given and refused before (lib.rs of
   flipt-engine-ffi, flipt-engine-wasm and flipt-engine-wasm-js). *)
THEOREM EnginesAgree == Spec => []HostsAgree
BY AgreeInvariance, PTL DEF AgreeInv
=============================================================================
