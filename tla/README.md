# Verification of the Flipt client SDKs

This directory holds TLA+ models of the Flipt client SDKs, the TLC
configurations that check them, and proofs for TLAPS. A client fetches a
snapshot of a namespace's flags from a Flipt server, keeps it fresh by polling
or streaming, and evaluates flags against it in the process. What can go wrong
is therefore of two kinds: a client answers from the wrong snapshot (too old,
half replaced, gone back, stuck), or it evaluates the right snapshot wrongly.
Every path below is relative to the repository.

## 1. Inventory

| Component | Source | State | Operations | Talks to |
|---|---|---|---|---|
| Evaluation library | `flipt-evaluation/src` | a `Snapshot`: maps from flag and rule keys | build, look-ups, variant / boolean / batch evaluation, constraints | called by every engine |
| FFI engine | `flipt-engine-ffi/src/lib.rs` | engine, updater task, mutex and read-write lock | initialize, evaluate*, list, get_snapshot, update_authentication, destroy | fetcher by an mpsc channel, callers by the lock |
| FFI evaluator | `flipt-engine-ffi/src/evaluator.rs` | snapshot, stored error | replace_snapshot, evaluations | the engine |
| FFI fetcher | `flipt-engine-ffi/src/http.rs` | ETag, credential (watch channel), stop signal and notification | initial fetch, poll loop, stream loop, retries | the server, the channel |
| TLS configuration | `flipt-engine-ffi/src/tls.rs` | none | read once at start | the fetcher's HTTP client |
| WASM engines | `flipt-engine-wasm`, `flipt-engine-wasm-js` | a snapshot | snapshot, seed_snapshot, get_snapshot, evaluate* | Go client, JavaScript clients |
| Go client | `flipt-client-go/client.go`, `retry.go` | engine, error and ETag under a mutex; two channels; contexts | NewClient, Evaluate*, ListFlags, GetSnapshot, Close | WASM engine, the server |
| JavaScript client | `flipt-client-js/src` | ETag, engine, timer | init, refresh, evaluate*, close | WASM engine, the server |
| React store | `flipt-client-react/src` | client, isLoading, error, timer, listeners | initialise with retries, poll, notify, attach, detach | JavaScript client |
| Java client | `flipt-client-java/src` | engine pointer, lease of a credential, scheduler | evaluate*, renewal of leases, close | FFI engine |
| Python, Ruby, C#, Dart, Swift, Kotlin clients | `flipt-client-*` | an engine pointer | JSON in, JSON out | FFI engine |
| Legacy node and browser clients | `flipt-client-node`, `flipt-client-browser` | as the JavaScript client | as the JavaScript client | WASM engine, the server |
| Packaging, tests | `package`, `test` | none | | |

What is hard, and what makes each component correct:

* **FFI engine.** Four parties run at once: the fetcher, the updater, the
  callers and whoever destroys the engine. Results wait in a channel while
  calls hold the lock; credentials change under a request that is being
  retried; streams end and are reopened; destruction has to reach a task that
  may be in any await. Correct means: documents are applied in the order the
  server published them; a batch is answered from one snapshot; answers never
  go back; errors show under the strategy *fail* only; the ETag never runs
  ahead of the data; the engine catches up when the server recovers;
  `destroy_engine` returns and leaves nothing running.
* **Go client.** The same promises, kept by goroutines and channels of
  capacity one, with one engine in a single-threaded WASM module, and a `Close`
  that waits for all of them.
* **Evaluation library.** No concurrency, but maps built from positions,
  loops with several early exits, rounding of intervals, parsing that may
  fail. Correct means: the document decides, in its order; nobody falls
  between two intervals; an operator and its opposite disagree.
* **JavaScript client and React store.** Refreshes overlap, since neither
  timer waits for the one before, and share an ETag across awaits; effects are
  run again, with new options or off the tree, while an initialisation is under
  way. Correct means: "not modified" is answered only to a client that has the
  document; the hooks show the store; the newest options win; loading ends.
* **Java client.** A scheduler renews the credential before it expires, with
  retries, against `close`. Correct means: a lease lapses only if the provider
  is slower than the margin; no renewal uses a destroyed engine.
* **WASM engines and their hosts.** Texts cross into the memory of a module
  that knows nothing of its host, and any step of a call may fail. Correct
  means: nothing leaks, and the answers do not depend on the kind of engine.
* **TLS configuration.** Six certificates and two switches, with precedences,
  and a fallback when they cannot be used. Correct means: an engine talks to
  the server it was configured for, with the checks it was configured with.

The hazards, each with its line in the source, are listed in `PROJECT.json`
with the properties that watch over them, or the reason why none does.

## 2. Modules

| Module | What it is |
|---|---|
| `FlagView` | abstract specification: what every client promises |
| `FliptServer` | the server as far as clients depend on it (external) |
| `FetchResults` | `FetchResult`: a document or an error |
| `HTTPFetcher` | `http.rs` |
| `Evaluator` | `evaluator.rs` and the read-write lock |
| `FFIEngine` | `lib.rs`; composes the three above |
| `FFIEngineProperties`, `FFIEngineInvariant`, `FFIEngineProofs` | properties, inductive invariant, theorems |
| `GoClient`, `GoClientProperties`, `GoClientProofs` | `client.go`, its properties and theorems |
| `Constraints`, `Evaluation`, `EvaluationProperties` | `flipt-evaluation` and its properties |
| `EvaluationProofs`, `DocumentProofs`, `FoldLemmas` | theorems about its loops, about whole documents, and the lemmas on folds these rest on |
| `EngineStart` | `initialize_engine`, the builder of the fetcher, `tls.rs` |
| `EngineInterface` | the functions the three engines export |
| `AuthLease` | the Java scheduler that renews leases, and `close` |
| `Hosts`, `HostsProperties`, `HostsProofs`, `AgreementProofs` | Java, Go and JavaScript hosts around an engine, their properties and theorems; composes the three above |
| `JSClient` | `init` and `refresh` of the JavaScript client, on Node |
| `ReactStore` | the React store; extends `JSClient` |
| `JSProperties`, `JSProofs` | the properties and theorems of both |
| `MCFFIEngine`, `MCGoClient`, `MCEvaluation`, `MCHosts`, `MCJavaScript` | instances for TLC |

`PROJECT.json` maps every definition to the lines it stands for. Operators
that a comment calls a *mutant* are not part of the model: each is a plausible
bug in the definition it stands above, and shows that a property notices it.

### What is abstracted

* A snapshot, in the models of engine and client, is the **version** it was
  published as; version 0 is the empty or the seeded snapshot. What is
  evaluated from one snapshot is the subject of `Evaluation`.
* The **ETag** of version *v* is *v*. `EtagOptional` lets answers come without.
* A **credential** is a number; the server accepts one at a time and may change
  it (an expired token), which `update_authentication` catches up with.
* An **outage** is any reason for an attempt to fail without a final answer.
  The back-off between attempts is time, and left out.
* Headers, URLs, JSON and logging are left out, except that a 200 answer or a
  frame may fail to decode (`BodyFaults` and `FrameFaults` of the FFI engine,
  `Lossy` and `FrameFaults` of the Go client), and except for what an engine is
  started with (`EngineStart`).

### FFI engine

Each await, lock or atomic access is a boundary between two actions. `pc` is
where the fetcher task is: `initial` to `check` is `initial_fetch` and the top
of the loop in `start`; `polling`, `send`, `pause`, `pauseArm`, `pauseWait` are
one turn of the polling loop, the pause counted in periods of 500 ms as in the
source; `connecting`, `streamCheck`, `streamArm`, `streamWait` are the streaming
loop. The check of `stop_signal` and the creation of the `Notified` future are
separate actions, as they are separate statements. The updater is `recv`, then
`apply`, which needs the write lock. A call is a sequence of reads under the
read lock, one per request of a batch. `_destroy_engine` is three steps: store
the signal, notify, wait for the updater. Wrappers never use an engine pointer
after `destroy_engine`, nor destroy an engine during a call; the model keeps to
that contract.

### Go client

The goroutines are `recorder` (of errors), `updater` (`handleUpdates`), the
canceller, `fetcher` (`startPolling` or `startStreaming`) and the stream reader.
A `select` with several ready cases may take any of them, as in Go. The steps
under `c.mu` are separate from those before and after it. The fetch mode is a
variable chosen at the start, so that one run covers both. The goroutines exist
from the moment `NewClient` returns (`Started`); `Close` stops none of them, it
waits.

The engine takes a payload or refuses it, and `handleUpdates` does not read
which: `ApplySnapshot` has both outcomes, and clears the error in both. A 200
answer with an empty body, or a chunk without a result, is worse: it is passed
on without a payload, and looks like a 304 (`FetchesNothing`). `lost` is a
history variable: the versions the client was given in one of these ways.
`Lossy` is the set of those it may happen to. An answer the engine refuses at
the start makes `NewClient` fail (`StartRefused`). A frame that is no JSON stays
in the buffer of `handleStream` with all that comes after it (`garbled`); one
that is no chunk, or too much, makes `handleStream` wait for its reader
(`drain`). Calls that fail in the WASM runtime itself are left out here;
`Hosts` has them.

### Evaluation

`Build` turns a document into the maps of the store, one fold (`Merged`) for
each, in which a later entry replaces an earlier one of the same key. What a
document may be is typed by `SourceDocuments` after `models/source.rs`: optional
values are sequences of at most one element, and any integer is a rollout or a
percentage. `CutPoints` are not sorted, since the search (`SearchResults`)
depends only on how many of them are below a bucket or equal to it. `Constraints` is `matches_constraints` and the matchers: texts are
opaque, and constants say how they parse and which contain which. The loops
over rules and rollouts are given by the item at which they stop. A binary
search among equal elements may return any of them, as Rust's documentation
leaves open, so an evaluation has a set of answers. Rollouts are exact integers
in hundredths of a percent, where the code has `f32`: the error of the sums is
below a hundredth of a bucket, and could move the end of an interval by one
bucket where the exact quotient is that close to a half. An evaluation changes
no state, so that a behaviour is one document and one call; TLC tries them all.

### Start of an engine, exported functions, hosts

`EngineStart` and `EngineInterface` hold no state: they are what each exported
function computes from the engine and its argument. An `Option` is a sequence
of at most one element. A text passed by pointer is `[utf8, json]`: whether its
bytes are UTF-8, and what it parses to. The content of a certificate is "pem"
or "junk", and a file may be "unreadable"; what an HTTP client was built from is
a record of what it checks and shows. `Panic` is the response of a function
that did not return, and `CatchUnwind` what the C interface makes of it.

`Hosts` puts these functions behind three hosts. A Java call is the call into
the engine, then the reading of the text in a `finally` that hands it back. A Go
call is `allocate` and write, the call itself, `deallocate` of the argument, then
the copy and `deallocate` of the result; each step may fail. JavaScript passes
values, in one step. The memory is abstracted to the number of `blocks` a host
owes the engine. `current` and `refusing` are what the application may expect,
kept apart from the engine: each call notes its promise when it begins, and
`HostsAgree` compares it with the answer. How a payload is fetched is the
subject of the other models; here one arrives at any time.

`AuthLease` counts time in ticks of five seconds, the smallest delay of the
scheduler, from now: `delay` is what is left until the next check, `expiry` what
is left of the lease. A tick cannot pass while a task is due. Only the provider
takes time; `late` counts what it and the retries have taken since the renewal
fell due. `close` gives the scheduler one tick, then drops what waits and
interrupts what runs.

### JavaScript client and React store

A request in flight is `[client, kind, stage, etag, status, version]`, and its
stages are the two awaits of `refresh` and `initializeSnapshot`: "sent", then
"answered", then "body". Requests of several clients, and several of one, are in
flight at once and overtake each other. A client is its options, its ETag and
the document its engine has; `torn` is no state of the code but records that an
ETag was stored whose document may not have been. There are three ways to that:
the body is lost after `storeEtag`; two refreshes have both stored their ETag and
the older body is read last; or one is answered 304 for an ETag that the other
has replaced meanwhile, so that it takes the 304 for a new document.

`starting` is the client whose `init` the owner waits for (`isMounted` of one
run of the effect) and `held` the client in use. The effect, its retries, the
poll, `attach`, `detach` and `notify` of `useFliptClient.ts` are the actions of
`ReactStore`. The poll keeps the interval it was set up with, and `attach` that
of the first render, as the closures in the code do. A client that is replaced
is not closed, and its refreshes go on until they end.

## 3. Runs

| Run | Instance | What is shown |
|---|---|---|
| `ffi_polling_fail` | polling, strategy fail, 3 versions, channel of 2, an outage, a retry, answers without ETag, batches of 2 | types, atomic batches, the ETag is never ahead of the data, order of documents, refinement of `FlagView`, answers never go back, nothing runs after destruction |
| `ffi_polling_fallback` | polling, fallback, two callers, request timeout, pause of two periods, broken bodies | no call is refused; `destroy_engine` returns although the server may stay silent |
| `ffi_streaming` | streaming, 3 versions, channel of 1, a dropped stream | the inductive invariant, refinement, the last version arrives, destruction returns if the notification found the fetcher waiting |
| `ffi_polling_live` | polling, no callers, an outage, an expired credential | the last version arrives and the error is cleared |
| `go_client` | both modes, strategy fail, a caller, 2 versions, either of which may be lost, an outage, bad frames | exclusion in the engine, the ETag, refinement of `FlagView`, quiet after `Close`, what `Close` waits for, the last version arrives unless it was lost |
| `evaluation` | about 970 documents, 10 contexts, 4 entities, batches of up to 2 | variant, boolean and batch answers follow the document; shares of buckets are fair; raising a percentage keeps entities; opposite operators exclude each other |
| `hosts` | 3 hosts, 78 sets of options, 3 documents, 3 seeds, 4 requests, 4 leases | equal answers whatever the engine, nothing leaks, leases are kept fresh, no use of a destroyed engine, the server and the checks are the configured ones |
| `javascript` | Node and React, 3 sets of options, 2 versions, an outage, 2 requests in flight, 2 changes | the ETag against the document, the hooks against the store, the newest options win, updates arrive, loading ends |
| `ffi_streaming_destroy` | violation | a lost wakeup: `destroy_engine` hangs |
| `ffi_broken_body` | violation | one broken body, and the seed snapshot stays for ever |
| `go_close` | violation | `Close` hangs on a full error channel |
| `go_stale_error` | violation, polling | after one failed poll, 304 answers keep the error for ever |

The runs that end in a violation check one property each that the
documentation or a test of the repository states; `PROJECT.json` quotes it
under `findings`, together with disagreements between code and documentation
that the passing runs are stated around: torn ETags, payloads that the Go client's
engine refuses under an ETag already stored, leases without retries, a client certificate given as data that is ignored beside a key file, two
defaults of the JavaScript client, the interval 0 of the React store, and the
two forms of `get_snapshot`.
`EtagIsTaken` and `EventuallyServed` leave aside the versions that came as
something that is no document (`lost`): the ETag is stored first, so that in
polling mode 304 answers keep the engine behind such a version until the next
one is published, and in streaming mode nothing more is pushed until then or
until the stream is opened again. `EventuallyServed` also leaves a stream aside
that stays stuck on a bad frame (`Stuck`: the states `garbled` and `drain`).
`CloseReturnsUnlessBlocked` says exactly when `Close` hangs. In the same way
`NotModifiedIsCurrent` and `EventuallyCurrent` of the JavaScript client speak of
clients that are not torn, and `LeaseKeptFresh` of leases with retries.

**Bounds.** `MaxVersion`, `MaxOutages`, `MaxCred`, `WireBound` and `MaxChanges`
bound the environment; `MaxRequests` bounds how many requests of a JavaScript
client overlap. Two versions make "older" and "newer" possible and three let a
document be stored, another be queued and a third be fetched at the same time,
which is what the order of documents is about; one outage gives failure and
recovery, which a second one only repeats from a state already reached. In
`go_client` a lost version 1 is followed by version 2 on a stream, and a lost
version 2 is the last one. The
channel is 100 long in the source and 1 or 2 here, so that it is full in the
run; `MaxRetries` is 3 in the source and at most 1 here, since a retry leaves no
trace but its count. Two requests in flight are enough for every way of tearing
an ETag, and are what a replaced effect and its successor take; two changes let
options go and come back, or a provider leave the tree and return. In
`evaluation`, two rules, rollouts or segments show order and combination; the
distributions include zero, uneven, not summing to 100 %, and smaller than a
bucket, and the entities lie on the first, last and boundary buckets. In `hosts`
some options leave out the URL, with a certificate that is valid or not; a lease is longer than the buffer of 30 s, shorter than it, fixed, or one whose
token is not header text; every source of a certificate is absent, valid or
spoiled; an engine fails once at taking a text back. `Deadlock` is not checked:
an engine that has been destroyed, a closed client and an answered evaluation
stop.

**Fairness.** `FairSpec` of the FFI engine assumes the tokio runtime and its
timers (weak fairness of the fetcher and the updater), that calls end, and that
the lock does not starve the writer (strong fairness of `Apply`); nothing of the
server. `LiveSpec` adds that a reachable server answers, pushes what it owes on
a stream, and that the loss of a stream to a server that is down is noticed.
For Go, weak fairness where a goroutine waits for nothing another can take away,
and strong fairness where it competes for `c.mu` or a channel, which Go's
starvation mode for mutexes and its random choice in `select` justify. No
property of these two assumes that outages end: each says what follows if the
server stays reachable. `LiveSpec` of `JSProperties` does assume that the server
comes back, since a failed first fetch is retried only by React and a Node
program has to start over; further that the oldest request is dealt with, that
React runs its effects, and that timers fire. Nobody is made to change options,
to leave the tree or to close a client.

## 4. Theorems

Eight modules hold theorems and lemmas, which are proved for all values of the constants
that satisfy the named assumptions beside their declarations. `IInv` is
itself an invariant of the run `ffi_streaming`; of the other inductive invariants
the runs check what is proved from them.

### `FFIEngineProofs`

For any number of callers, any capacity, interval, number of retries and batch
size, either mode, either strategy:

| Theorem | Statement |
|---|---|
| `Invariance` | `IInv` always holds |
| `TypeCorrect` | `TypeOK`, so the channel and the pause keep their bounds |
| `DocumentsInOrder` | documents do not overtake each other between server and store |
| `BatchAtomicity` | a batch is answered from one snapshot |
| `MonotonicAnswers` | no caller gets an answer older than its last |
| `Implementation` | the engine implements `FlagView` |
| `FallbackAnswers` | under fallback no call is refused |
| `Quiescence` | nothing of the engine runs after `destroy_engine` |
| `EtagSound` | if bodies always decode, the ETag is that of a document stored or on its way |

The order of documents is not inductive by itself: that a reply is not older
than what is queued needs that there is only one request or stream at a time
and no result pending when it starts. `FetcherControl` says where the fetcher
can have a request, a stream or a result; `EngineControl` ties the life of the
engine to its tasks (before `Engine::new` returns the channel is empty, after
destruction the updater has ended); `Reads` says that the reads of a call in
progress are of the present store, because the updater needs the lock. `IInv` is
their conjunction with `TypeOK` and `InOrder`. It is preserved by every action,
one lemma per conjunct. The refinement maps `view` to the store, `failing` to the
stored error and `closed` to the end of `destroy_engine`; a step either is a
step of `FlagView` or leaves these unchanged. `EtagSound` needs its hypothesis:
`ffi_broken_body` is what happens without.

### `GoClientProofs`

For any number of calling goroutines, in both modes and under both strategies,
with bad frames or without, and whichever versions may be lost (`Lossy`):

| Theorem | Statement |
|---|---|
| `GoInvariance` | `GoInv` always holds |
| `GoTypeCorrect` | `TypeOK`, so every channel keeps its capacity |
| `GoEtagSound` | `c.etag` is that of a document the engine has or is being given, or of a version that was lost |
| `GoExclusion` | no goroutine is in the WASM module with another, but for readers of `ListFlags` |
| `GoQuiescence` | nothing of the client moves after `Close` |
| `GoImplementation` | the client implements `FlagView` |

That the engine never goes back needs every place a version can be in on its
way: the wire, the reader's channel, the fetcher, `snapshotChan`, the updater.
`InLine` and `FramesInLine` say that in each of them a version is older than none
that is nearer to the engine. They rest on `Stages` (which goroutine may hold
something where) and `Streams` (a stream is there while its handler is, so that
a new one starts empty). The ETag goes through the same places beside its
document, and a 304 carries one without: `EtagsArrive` says that such an ETag is
that of a document the engine has or is being given, or of a lost version, and
that a payload carries its own ETag or, from a stream, none. The latter is why
a refusal loses exactly the version whose ETag was stored.

### `JSProofs`

For any number of requests in flight, any options, any number of changes:

| Theorem | Statement |
|---|---|
| `JSInvariance` | `JSInv` always holds |
| `JSTypeCorrect` | `TypeOK` |
| `EtagsAreTrue` | a client that is not torn is answered 304 only for the document it has |
| `HooksShowStore` | the hooks show the store, which is loading only without a client and polls only on the tree |
| `NewestIsInstalled` | no client of older options is ever installed, nor one off the tree |

`Whole` is the heart: of a client that is not torn at most one refresh has an
ETag ahead of its document, and it is the ETag the client has stored. It needs
`Inits`: the first fetch of a client is its only request, so that the late ETag
of `init` cannot meet that of a refresh. `Owners` says for which client and which
options the owner waits.

### `HostsProofs`

For all leases the provider may grant (times and retries any numbers), all
options, documents, seeds and requests:

| Theorem | Statement |
|---|---|
| `LeaseInvariance` | `LeaseInv` always holds |
| `LeasesKeptFresh` | a lease lapses only if provider or retries took the time a renewal has; one with retries is given up only after all of them failed in a row |
| `EngineAlive` | no renewal uses a destroyed engine unless `close` was interrupted |
| `NoLeaks` | between calls an engine holds no text for its host, whatever step has failed |
| `HostsTypes` | `TypeOK`: no panic of an engine reaches its host, and an engine owes six texts at most |
| `EnginesStartAsConfigured` | `StartedAsConfigured`: the server, the namespace and the TLS settings an engine uses are those it was given, until it is destroyed |

`OnTime` is what makes the first inductive: while the renewal waits, the lease
outlasts the wait by its lead; afterwards what is left of it and the time
already spent make up for the lead. `Counted` bounds the failures, `Closing` says
what `close` can find the scheduler doing. `NoLeaks` has an invariant of its own,
`MemoryInv`: what a host owes in each stage of a call.

`TypeInv` adds what an engine has leaked once it has failed to take a text back
(`Leaked`): two texts at most, the argument and the result of that call, so that
with the two of the Go client and the two of a further call it owes six. That
every response is a success or a failure rests on one lemma per kind of engine
(`FfiHasStatus`, `UpdateHasStatus`, `WasmHasStatus`).

`Started` compares the engine in use with the one `initialize_engine` made of the
same options: documents, errors and credentials change it, the URL, the
namespace, the mode, the timeout and the HTTP client stay. What remains is a
case analysis of the builder and of `configure_tls` (`BuiltAsConfigured`,
`ClientAsConfigured`). It showed that an engine whose client cannot be built
falls back further than to the default server: the fetcher then asks about the
namespace "default", whatever the engine's own, also when the URL was the
default one. `StartedAsConfigured` says so, and the run has such options.

### `AgreementProofs`

For all options, documents, seeds and requests:

| Theorem | Statement |
|---|---|
| `AgreeInvariance` | `AgreeInv` always holds |
| `EnginesAgree` | `HostsAgree`: Java, Go and JavaScript clients give the same answers from the same document |

An engine answers from its store, an application expects what it was promised
when the call began. `Linked` ties the two: `current` is the store if that is of
the engine's namespace and not empty, and a client over the C interface is
refused exactly while its engine holds an error. `Present` says where there is an
engine. `Promises` carries a promise through the stages of a Go call, in which
neither may change. The functions of the three engines are then compared one by
one (`FfiKeepsPromise`, `WasmKeepsPromise`, `JsKeepsPromise`). The proof assumes
`DocumentsAssumption`: a snapshot of version 0 is empty, and a text that is not
UTF-8 parses to nothing.

### `EvaluationProofs`

No behaviours here: what the code's loops compute, for all inputs.

| Theorem | Statement |
|---|---|
| `LoopDecidesSegment` | the counter and early exits of `matches_constraints` decide "all" and "any" for every sequence of constraints |
| `CountDecidesSegments` | counting the segments that match decides "and" and "or" |
| `FirstRuleDecides`, `FirstRolloutDecides` | with the ranks that building a store gives, an evaluation is never refused for a rank, and the first rule or rollout that concerns the request decides |
| `RaisingKeepsAlways` | raising the percentage of the first threshold keeps the answer of every entity it took |
| `OppositesExcludeAlways` | constraints with opposite operators exclude each other, for all texts and whatever they parse to |

The first two rest on facts about the least element of a set of numbers (the
item at which a loop stops) and the cardinality of a subset; the next two on
`BuiltRanks`: the ranks of a built store are the positions in the document, and
so strictly increase. `ParseAssumption` says that numbers parse to numbers,
dates to instants and booleans to truth values; nothing is assumed about
which texts do.

### `DocumentProofs` and `FoldLemmas`

For all documents of the types of `models/source.rs`, all requests and batches,
any hash function and any namespace:

| Theorem | Statement |
|---|---|
| `AlwaysAnswered` | `EvaluationInv`: the store is what the document builds, and an answer one of those the store gives |
| `StoreAlwaysComplete` | `TypeOK`: every flag has its rules, its rollouts and the distributions of every rule, in the document's order |
| `VariantAlwaysFollows` | `VariantFollowsDocument` |
| `BooleanAlwaysFollows` | `BooleanFollowsDocument` |
| `BatchAlwaysFollows` | `BatchFollowsDocument` |
| `SharesAlwaysFair` | `SharesAreFair` for any number of distributions with any rollouts |
| `RaisingAlwaysKeeps` | `RaisingKeepsEntities` |
| `OppositesAlwaysExclude` | `OppositesExclude` |

The state machine is one call, so that the invariant is simple and the work is in
the operators. The loops of the code are folds, and the prover has no induction
over data. Two lemmas take its place: every set of numbers that is not empty has a
least element (`Least`), so that a claim about all lengths is refuted at a least
length or not at all; and a fold of the library is a function of sets of
positions, so that two folds that start and continue alike are equal
(`FoldsAgree`) and a function that continues like the fold exists
(`FoldExists`). Upon these,

* `MergedKeepsLast`: a fold of maps has under each key what the last map with
  that key has; hence `BuildKeepsLast`: the store has the header, the rules and
  the rollouts of the last flag with a key, and the distributions of each of its
  rules even when an earlier flag of that key had other ones;
* `SegmentsDecide`: the segments that match, counted in the map of the store,
  decide what the list of the document says although keys repeat in it;
* `VariantIsRight`, `BooleanIsRight`: the item at which a loop stops is the first
  of the document that concerns the request (`FirstsAreDecisive`, from
  `FirstRuleDecides` of `EvaluationProofs`), and the answer is that item's;
* `SharesKept`: dropping the rollouts that are not positive changes no sum;
  `InitialSegment` and `SearchBetween`: the cut points rise, so that those below a
  bucket are an initial segment and the search finds one between its
  neighbours; `RoundedWithin`, `RoundingRises`: rounding moves an end by half a
  bucket at most and keeps the order; together `CutsAreFair`.

`SharesAreFair` speaks of what a distribution may claim (`Claims`): a negative
rollout is dropped by the code, and would otherwise lower the sums it is compared
with. `OppositesExclude` pairs operators per type, as those of another type are
an unknown operator to the code. The proofs assume `DocumentsAssumption` (the
documents are of the types that serde accepts) and `RequestsAssumption` (batches
consist of requests and hashes are natural numbers).

### Model-checked only

Every invariant and every action property that a passing run checks is proved.
What TLC alone shows is liveness: `EventuallyCurrent`, `EventuallyServed`,
`LoadingEnds`, `DestroyReturns`, `DestroyReturnsWhenArmed` and
`CloseReturnsUnlessBlocked`, as proofs about fairness are beyond the prover; and
the four runs that end in a violation, whose counterexamples are traces.

## 5. Not modelled

* The legacy node and browser clients are superseded by the JavaScript client;
  their refresh is the same, but for the list of ETags the browser client sends.
* The Python, Ruby, C#, Dart, Swift and Kotlin wrappers over the FFI engine have
  no state of their own: what they do is what the C interface does. Packaging
  and the test harness are not part of the running system.
* FFI engine: a panic of the fetcher task on an ETag that is not visible ASCII;
  the time between attempts, and so that a stream which fails at once is
  reopened without a delay. The check for a closed credential channel in
  `update_authentication` is left out of `EngineInterface`: the fetcher
  task, which owns the other end, ends before the engine does only if it panics.
* Go client: hooks, header text, 200 answers without an ETag. That a failed stream is never reported is
  how the model behaves; no property claims otherwise.
* JavaScript client: hooks, a custom fetcher, a server that answers 304 without
  an ETag. React: that a poll is skipped while the browser is offline (so the
  fairness of `PollTick` assumes it is online again and again), and refreshes
  the application starts on the client itself, of which the hooks are not told.
  A `maxRetryAttempts` of 0 never loads; `LoadingEnds` leaves it aside and the
  run does not contain it.
* Hosts: an application makes one call at a time and none after `close` (two
  calls at once are the subject of `FFIEngine` and `GoClient`). Calls and the
  reading of answers take no time against leases. The content of the memory and
  the text of messages are left out. Context values that are not strings are
  treated differently by the engines (the FFI engine drops them, the WASM
  engine renders them as JSON, the JavaScript one refuses the request), so that
  `HostsAgree` speaks of strings only.
* Evaluation: the hash is a constant; attachments, timestamps and durations of
  responses, and the order of `list_flags`.

## 6. Plan

The plan of the project, in the order it was followed: the FFI engine that six
of the SDKs share with its proofs; the Go client on the same abstract view; the
evaluation library; the JavaScript client with the React store; the start of an
engine, the exported functions, their hosts and the leases; theorems about each.

Left to do: time, for streams that fail at once.
