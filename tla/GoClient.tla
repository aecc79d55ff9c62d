------------------------------ MODULE GoClient ------------------------------
(***************************************************************************)
(* The Go client (flipt-client-go/client.go) around the WASM engine.       *)
(* NewClient fetches once and starts four goroutines: the recorder of      *)
(* errors, the updater (handleUpdates), the canceller of the HTTP context  *)
(* and the fetcher, which polls or streams; a fifth one reads the stream.  *)
(* They talk over two channels of capacity 1.  c.mu guards the engine, the *)
(* error and the ETag.  The engine may refuse a payload; a call into it    *)
(* that fails in the WASM runtime itself (an allocation, a trap) is left   *)
(* out here and part of Hosts.                                             *)
(*                                                                         *)
(* A client is not used once Close has been called, and no call is in      *)
(* progress then.                                                          *)
(***************************************************************************)
EXTENDS FliptServer, Sequences

CONSTANTS
  Strategy,      \* "fail" or "fallback"
  Callers,       \* the goroutines that call into the client
  WireBound,     \* unread stream frames (bounds the model)
  FetchModes,    \* the modes a client may be configured with
  Lossy,         \* the versions that may come as something that is no
                 \* document: nothing, or a payload the engine refuses
  FrameFaults    \* whether a frame may be no JSON, no chunk, or too long

ASSUME GoClientAssumption ==
  /\ Strategy \in {"fail", "fallback"}
  /\ WireBound \in Nat \ {0}
  /\ FetchModes \subseteq {"polling", "streaming"}
  /\ Lossy \subseteq Version
  /\ FrameFaults \in BOOLEAN

VARIABLES
  mode,           \* cfg.FetchMode: "polling" or "streaming"
  life,           \* "new", "open", "closing", "closed", or "failed" when
                  \* NewClient returned an error
  ctxDone,        \* whether the client's context is cancelled
  fctxDone,       \* whether the context of the HTTP requests is
  store,          \* the version in the engine
  err,            \* whether c.err is set
  etag,           \* c.etag, NoEtag when it is empty
  errChan,        \* how many errors are in errChan
  snapshotChan,   \* snapshotChan
  recorder,       \* the recorder: "select", "record" or "done"
  updater,        \* handleUpdates: "select", "etag", "apply", "engine",
                  \* "report" or "done"
  taken,          \* the snapshot handleUpdates has received
  fetcher,        \* where startPolling or startStreaming is
  asked,          \* the ETag its request carries
  found,          \* the snapshot it is about to send
  conn,           \* the stream: "none", "open", or "closed" by the server
  wire,           \* frames the stream reader has not read yet
  pushed,         \* the version pushed last on this stream
  readCh,         \* readCh, of capacity 1
  eof,            \* whether the reader is done, its error in readErrCh
  caller,         \* caller[c]: "idle", "checked", "engine" or "list"
  lost            \* history: the versions that came as something that is
                  \* no document

ctxVars == <<ctxDone, fctxDone>>
guardedVars == <<store, err, etag>>
chanVars == <<errChan, snapshotChan>>
workerVars == <<recorder, updater, taken>>
fetchVars == <<fetcher, asked, found>>
streamVars == <<conn, wire, pushed, readCh, eof>>
clientVars == <<mode, lost, life, ctxVars, guardedVars, chanVars, workerVars,
                fetchVars, streamVars, caller>>
vars == <<serverVars, clientVars>>

NoEtag == 0
ChanCapacity == 1
Snapshot(v, e) == [ver |-> v, etag |-> e]
NoSnapshot == Snapshot(0, NoEtag)
Snapshots == [ver : 0..MaxVersion, etag : 0..MaxVersion]
NotModified(s) == s.ver = 0      \* a snapshot without a payload

Init ==
  /\ ServerInit
  /\ mode \in FetchModes
  /\ life = "new"
  /\ ctxDone = FALSE /\ fctxDone = FALSE
  /\ store = 0 /\ err = FALSE /\ etag = NoEtag
  /\ errChan = 0 /\ snapshotChan = <<>>
  /\ recorder = "select" /\ updater = "select" /\ taken = NoSnapshot
  /\ fetcher = "select" /\ asked = NoEtag /\ found = NoSnapshot
  /\ conn = "none" /\ wire = <<>> /\ pushed = 0 /\ readCh = <<>> /\ eof = FALSE
  /\ caller = [c \in Callers |-> "idle"]
  /\ lost = {}

TypeOK ==
  /\ ServerTypeOK
  /\ mode \in FetchModes
  /\ life \in {"new", "open", "closing", "closed", "failed"}
  /\ ctxDone \in BOOLEAN /\ fctxDone \in BOOLEAN
  /\ store \in 0..MaxVersion /\ err \in BOOLEAN /\ etag \in 0..MaxVersion
  /\ errChan \in 0..ChanCapacity
  /\ snapshotChan \in Seq(Snapshots) /\ Len(snapshotChan) <= ChanCapacity
  /\ recorder \in {"select", "record", "done"}
  /\ updater \in {"select", "etag", "apply", "engine", "report", "done"}
  /\ taken \in Snapshots /\ found \in Snapshots
  /\ fetcher \in {"select", "fetch", "sendErr", "sendSnapshot", "connect",
                  "stream", "garbled", "sendFrame", "drain", "done"}
  /\ asked \in 0..MaxVersion
  /\ conn \in {"none", "open", "closed"}
  /\ wire \in Seq(Version) /\ Len(wire) <= WireBound
  /\ pushed \in 0..MaxVersion
  /\ readCh \in Seq(Version) /\ Len(readCh) <= 1 /\ eof \in BOOLEAN
  /\ caller \in [Callers -> {"idle", "checked", "engine", "list"}]
  /\ lost \subseteq Lossy

(* c.mu: taken for writing around a call into the engine, except that
   ListFlags takes it for reading. *)
WriterInside == updater = "engine" \/ \E c \in Callers : caller[c] = "engine"
CanRLock == ~WriterInside
CanLock == ~WriterInside /\ \A c \in Callers : caller[c] # "list"

-----------------------------------------------------------------------------
(* NewClient: the first fetch, and what the strategy makes of its failure. *)

StartFetched ==
  /\ life = "new" /\ up
  /\ life' = "open"
  /\ store' = srv /\ etag' = srv
  /\ UNCHANGED <<serverVars, mode, lost, ctxVars, err, chanVars, workerVars>>
  /\ UNCHANGED <<fetchVars, streamVars, caller>>

StartUnreachable ==
  /\ life = "new" /\ ~up
  /\ IF Strategy = "fallback"
     THEN life' = "open" /\ err' = TRUE
     ELSE life' = "failed" /\ UNCHANGED err
  /\ UNCHANGED <<serverVars, mode, lost, ctxVars, store, etag, chanVars, workerVars>>
  /\ UNCHANGED <<fetchVars, streamVars, caller>>

(* An answer of which the engine cannot be made: initialize_engine returns a
   null pointer, whatever the strategy. *)
StartRefused ==
  /\ life = "new" /\ up /\ srv \in Lossy
  /\ life' = "failed"
  /\ UNCHANGED <<serverVars, mode, lost, ctxVars, guardedVars, chanVars>>
  /\ UNCHANGED <<workerVars, fetchVars, streamVars, caller>>

(* NewClient starts its goroutines when nothing has failed; Close does not
   stop them, it waits for them. *)
Started == life \in {"open", "closing", "closed"}

-----------------------------------------------------------------------------
(* The goroutine that stores errors. *)

RecorderStops ==
  /\ Started
  /\ recorder = "select" /\ ctxDone
  /\ recorder' = "done"
  /\ UNCHANGED <<serverVars, mode, lost, life, ctxVars, guardedVars, chanVars>>
  /\ UNCHANGED <<updater, taken, fetchVars, streamVars, caller>>

RecorderTakes ==
  /\ Started
  /\ recorder = "select" /\ errChan > 0
  /\ errChan' = errChan - 1
  /\ recorder' = "record"
  /\ UNCHANGED <<serverVars, mode, lost, life, ctxVars, guardedVars, snapshotChan>>
  /\ UNCHANGED <<updater, taken, fetchVars, streamVars, caller>>

RecordError ==
  /\ recorder = "record" /\ CanLock
  /\ err' = TRUE
  /\ recorder' = "select"
  /\ UNCHANGED <<serverVars, mode, lost, life, ctxVars, store, etag, chanVars>>
  /\ UNCHANGED <<updater, taken, fetchVars, streamVars, caller>>

-----------------------------------------------------------------------------
(* handleUpdates, and the report of why it ended. *)

UpdaterStops ==
  /\ Started
  /\ updater = "select" /\ ctxDone
  /\ updater' = "report"
  /\ UNCHANGED <<serverVars, mode, lost, life, ctxVars, guardedVars, chanVars>>
  /\ UNCHANGED <<recorder, taken, fetchVars, streamVars, caller>>

UpdaterTakes ==
  /\ Started
  /\ updater = "select" /\ snapshotChan # <<>>
  /\ taken' = Head(snapshotChan)
  /\ snapshotChan' = Tail(snapshotChan)
  /\ updater' = "etag"
  /\ UNCHANGED <<serverVars, mode, lost, life, ctxVars, guardedVars, errChan>>
  /\ UNCHANGED <<recorder, fetchVars, streamVars, caller>>

(* Mutant: the payload that comes with an ETag is forgotten. *)
StoreEtagOnly ==
  /\ updater = "etag" /\ CanLock
  /\ etag' = taken.etag
  /\ updater' = "select" /\ taken' = NoSnapshot
  /\ UNCHANGED <<serverVars, mode, lost, life, ctxVars, store, err, chanVars>>
  /\ UNCHANGED <<recorder, fetchVars, streamVars, caller>>

(* The ETag is stored first; without a payload that is all. *)
StoreEtag ==
  /\ updater = "etag" /\ CanLock
  /\ etag' = taken.etag
  /\ IF NotModified(taken)
     THEN updater' = "select" /\ taken' = NoSnapshot
     ELSE updater' = "apply" /\ UNCHANGED taken
  /\ UNCHANGED <<serverVars, mode, lost, life, ctxVars, store, err, chanVars>>
  /\ UNCHANGED <<recorder, fetchVars, streamVars, caller>>

(* Mutant: the engine is updated without c.mu. *)
EnterEngineUnlocked ==
  /\ updater = "apply"
  /\ updater' = "engine"
  /\ UNCHANGED <<serverVars, mode, lost, life, ctxVars, guardedVars, chanVars>>
  /\ UNCHANGED <<recorder, taken, fetchVars, streamVars, caller>>

EnterEngine ==
  /\ updater = "apply" /\ CanLock
  /\ updater' = "engine"
  /\ UNCHANGED <<serverVars, mode, lost, life, ctxVars, guardedVars, chanVars>>
  /\ UNCHANGED <<recorder, taken, fetchVars, streamVars, caller>>

(* The engine installs the document, or it refuses the payload and keeps
   what it has.  Nobody reads its answer: the ETag stays, the error is
   cleared in either case. *)
ApplySnapshot ==
  /\ updater = "engine"
  /\ \/ store' = taken.ver /\ UNCHANGED lost
     \/ taken.ver \in Lossy /\ lost' = lost \cup {taken.ver} /\ UNCHANGED store
  /\ err' = FALSE
  /\ updater' = "select" /\ taken' = NoSnapshot
  /\ UNCHANGED <<serverVars, mode, life, ctxVars, etag, chanVars>>
  /\ UNCHANGED <<recorder, fetchVars, streamVars, caller>>

ReportEnd ==
  /\ updater = "report" /\ errChan < ChanCapacity
  /\ errChan' = errChan + 1
  /\ updater' = "done"
  /\ UNCHANGED <<serverVars, mode, lost, life, ctxVars, guardedVars, snapshotChan>>
  /\ UNCHANGED <<recorder, taken, fetchVars, streamVars, caller>>

(* Mutant: the requests use a context that Close does not cancel. *)
RequestsNotCancelled == FALSE

(* The goroutine that cancels the requests when the client is closed. *)
CancelRequests ==
  /\ Started
  /\ ctxDone /\ ~fctxDone
  /\ fctxDone' = TRUE
  /\ UNCHANGED <<serverVars, mode, lost, life, ctxDone, guardedVars, chanVars>>
  /\ UNCHANGED <<workerVars, fetchVars, streamVars, caller>>

-----------------------------------------------------------------------------
(* startPolling.  The attempts of doWithRetry count as one request, which
   fails only when the server is down. *)

FetcherGoes(next) ==
  /\ Started
  /\ fetcher' = next
  /\ UNCHANGED <<serverVars, mode, life, ctxVars, guardedVars, workerVars>>
  /\ UNCHANGED caller

Fetching(next) == FetcherGoes(next) /\ UNCHANGED lost

(* It has been given version v without a document: what it passes on has no
   payload, which handleUpdates cannot tell from a 304 answer. *)
FetchesNothing(next, v, e) ==
  /\ v \in Lossy
  /\ FetcherGoes(next)
  /\ found' = Snapshot(0, e)
  /\ lost' = lost \cup {v}

FetcherStops ==
  /\ fetcher \in {"select", "connect", "fetch"} /\ fctxDone
  /\ Fetching("done")
  /\ asked' = NoEtag
  /\ UNCHANGED <<found, chanVars, streamVars>>

PollTick ==
  /\ mode = "polling" /\ fetcher = "select" /\ ~fctxDone
  /\ CanRLock
  /\ Fetching("fetch")
  /\ asked' = etag
  /\ UNCHANGED <<found, chanVars, streamVars>>

(* fetch: 304 repeats the ETag the request carried; 200 brings a new one,
   and a body that may be empty. *)
PollAnswered ==
  /\ fetcher = "fetch" /\ up
  /\ \/ asked = srv /\ Fetching("sendSnapshot") /\ found' = Snapshot(0, asked)
     \/ asked # srv /\ Fetching("sendSnapshot") /\ found' = Snapshot(srv, srv)
     \/ asked # srv /\ FetchesNothing("sendSnapshot", srv, srv)
  /\ asked' = NoEtag
  /\ UNCHANGED <<chanVars, streamVars>>

PollFails ==
  /\ fetcher = "fetch" /\ ~up
  /\ Fetching("sendErr")
  /\ asked' = NoEtag
  /\ UNCHANGED <<found, chanVars, streamVars>>

SendError ==
  /\ fetcher = "sendErr" /\ errChan < ChanCapacity
  /\ Fetching("select")
  /\ errChan' = errChan + 1
  /\ UNCHANGED <<asked, found, snapshotChan, streamVars>>

(* Mutant: the channel has no bound. *)
SendSnapshotUnbounded ==
  /\ fetcher = "sendSnapshot"
  /\ Fetching("select")
  /\ snapshotChan' = Append(snapshotChan, found)
  /\ found' = NoSnapshot
  /\ UNCHANGED <<asked, errChan, streamVars>>

SendSnapshot ==
  /\ fetcher = "sendSnapshot" /\ Len(snapshotChan) < ChanCapacity
  /\ Fetching("select")
  /\ snapshotChan' = Append(snapshotChan, found)
  /\ found' = NoSnapshot
  /\ UNCHANGED <<asked, errChan, streamVars>>

-----------------------------------------------------------------------------
(* startStreaming, initiateStream and handleStream.  A connection attempt
   that fails is retried for ever and reported to nobody. *)

Connect ==
  /\ mode = "streaming" /\ fetcher = "select" /\ ~fctxDone
  /\ Fetching("connect")
  /\ UNCHANGED <<asked, found, chanVars, streamVars>>

Connected ==
  /\ fetcher = "connect" /\ up
  /\ Fetching("stream")
  /\ conn' = "open"
  /\ UNCHANGED <<asked, found, chanVars, wire, pushed, readCh, eof>>

LeaveStream ==
  /\ conn' = "none" /\ wire' = <<>> /\ pushed' = 0
  /\ readCh' = <<>> /\ eof' = FALSE

StreamCancelled ==
  /\ fetcher \in {"stream", "garbled", "sendFrame", "drain"} /\ fctxDone
  /\ Fetching("done")
  /\ LeaveStream
  /\ found' = NoSnapshot
  /\ UNCHANGED <<asked, chanVars>>

(* The reader's error: the end of the stream, or one that is reported.  A
   chunk that is in readCh at the same time may be left behind. *)
StreamEnds ==
  /\ fetcher \in {"stream", "garbled"} /\ eof
  /\ \/ Fetching("select")
     \/ ~fctxDone /\ Fetching("sendErr")
  /\ LeaveStream
  /\ UNCHANGED <<asked, found, chanVars>>

(* A chunk, with a result or without; or a frame that is no JSON: it stays in
   the buffer, and so does all that comes after it; or one that is no chunk,
   or too much for the buffer: handleStream is going to return. *)
StreamReads ==
  /\ fetcher \in {"stream", "garbled"} /\ readCh # <<>>
  /\ readCh' = Tail(readCh)
  /\ \/ /\ fetcher = "stream" /\ Fetching("sendFrame")
        /\ found' = Snapshot(Head(readCh), NoEtag)
     \/ fetcher = "stream" /\ FetchesNothing("sendFrame", Head(readCh), NoEtag)
     \/ FrameFaults /\ Fetching("garbled") /\ UNCHANGED found
     \/ FrameFaults /\ Fetching("drain") /\ UNCHANGED found
  /\ UNCHANGED <<asked, chanVars, conn, wire, pushed, eof>>

(* Mutant: a frame is dropped when the channel is full. *)
SendFrameOrDrop ==
  /\ fetcher = "sendFrame"
  /\ Fetching("stream")
  /\ snapshotChan' = IF snapshotChan = <<>> THEN <<found>> ELSE snapshotChan
  /\ found' = NoSnapshot
  /\ UNCHANGED <<asked, errChan, streamVars>>

SendFrame ==
  /\ fetcher = "sendFrame" /\ Len(snapshotChan) < ChanCapacity
  /\ Fetching("stream")
  /\ snapshotChan' = Append(snapshotChan, found)
  /\ found' = NoSnapshot
  /\ UNCHANGED <<asked, errChan, streamVars>>

(* After a bad frame handleStream waits for the reader before it returns. *)
Drained ==
  /\ fetcher = "drain" /\ eof
  /\ Fetching(IF fctxDone THEN "select" ELSE "sendErr")
  /\ LeaveStream
  /\ UNCHANGED <<asked, found, chanVars>>

(* The goroutine that reads the stream line by line. *)
Reading ==
  /\ conn # "none" /\ ~eof
  /\ UNCHANGED <<serverVars, mode, lost, life, ctxVars, guardedVars, chanVars>>
  /\ UNCHANGED <<workerVars, fetchVars, caller, conn, pushed>>

ReadChunk ==
  /\ Reading
  /\ wire # <<>> /\ readCh = <<>>
  /\ readCh' = <<Head(wire)>>
  /\ wire' = Tail(wire)
  /\ UNCHANGED eof

ReadEnd ==
  /\ Reading
  /\ wire = <<>> /\ conn = "closed"
  /\ eof' = TRUE
  /\ UNCHANGED <<wire, readCh>>

-----------------------------------------------------------------------------
(* The other side of the stream.  Frames of a stream come in order; changes
   that come close together may share a frame. *)

ServerPushes ==
  /\ up /\ conn = "open" /\ pushed # srv
  /\ Len(wire) < WireBound
  /\ pushed' = srv
  /\ wire' = Append(wire, srv)
  /\ UNCHANGED <<serverVars, mode, lost, life, ctxVars, guardedVars, chanVars>>
  /\ UNCHANGED <<workerVars, fetchVars, caller, conn, readCh, eof>>

StreamDrops ==
  /\ conn = "open"
  /\ conn' = "closed"
  /\ IF up THEN /\ outages < MaxOutages
                /\ outages' = outages + 1
                /\ UNCHANGED <<srv, up, cred>>
           ELSE UNCHANGED serverVars
  /\ UNCHANGED <<mode, lost, life, ctxVars, guardedVars, chanVars>>
  /\ UNCHANGED <<workerVars, fetchVars, caller, wire, pushed, readCh, eof>>

-----------------------------------------------------------------------------
(* Calls.  A call that finds an error under the strategy "fail" is refused
   and changes nothing. *)

Refusing == err /\ Strategy = "fail"

Calling(c, from, to) ==
  /\ life = "open"
  /\ caller[c] = from
  /\ caller' = [caller EXCEPT ![c] = to]
  /\ UNCHANGED <<serverVars, mode, lost, life, ctxVars, guardedVars, chanVars>>
  /\ UNCHANGED <<workerVars, fetchVars, streamVars>>

(* evaluateWASM looks at the error, lets go of the lock and takes it again. *)
CheckError(c) ==
  /\ CanRLock /\ ~Refusing
  /\ Calling(c, "idle", "checked")

EnterCall(c) ==
  /\ CanLock
  /\ \/ Calling(c, "checked", "engine")
     \/ Calling(c, "idle", "engine")      \* GetSnapshot: no look at the error

ListFlags(c) ==
  /\ CanRLock /\ ~Refusing
  /\ Calling(c, "idle", "list")

Return(c) == Calling(c, "engine", "idle") \/ Calling(c, "list", "idle")

-----------------------------------------------------------------------------
(* The end: the caller's context is cancelled, or Close. *)

UserCancels ==
  /\ life = "open" /\ ~ctxDone
  /\ ctxDone' = TRUE
  /\ UNCHANGED <<serverVars, mode, lost, life, fctxDone, guardedVars, chanVars>>
  /\ UNCHANGED <<workerVars, fetchVars, streamVars, caller>>

CloseBegins ==
  /\ life = "open"
  /\ \A c \in Callers : caller[c] = "idle"
  /\ life' = "closing"
  /\ ctxDone' = TRUE
  /\ UNCHANGED <<serverVars, mode, lost, fctxDone, guardedVars, chanVars>>
  /\ UNCHANGED <<workerVars, fetchVars, streamVars, caller>>

(* Mutant: Close waits for nobody. *)
CloseDoesNotWait ==
  /\ life = "closing"
  /\ life' = "closed"
  /\ UNCHANGED <<serverVars, mode, lost, ctxVars, guardedVars, chanVars>>
  /\ UNCHANGED <<workerVars, fetchVars, streamVars, caller>>

(* Mutant: the goroutine of the fetcher is not in c.wg. *)
CloseForgetsFetcher ==
  /\ life = "closing"
  /\ recorder = "done" /\ updater = "done" /\ fctxDone
  /\ life' = "closed"
  /\ UNCHANGED <<serverVars, mode, lost, ctxVars, guardedVars, chanVars>>
  /\ UNCHANGED <<workerVars, fetchVars, streamVars, caller>>

(* c.wg.Wait is over when all four goroutines are. *)
CloseEnds ==
  /\ life = "closing"
  /\ recorder = "done" /\ updater = "done" /\ fctxDone /\ fetcher = "done"
  /\ life' = "closed"
  /\ UNCHANGED <<serverVars, mode, lost, ctxVars, guardedVars, chanVars>>
  /\ UNCHANGED <<workerVars, fetchVars, streamVars, caller>>

-----------------------------------------------------------------------------
NewClient == StartFetched \/ StartUnreachable \/ StartRefused
Recorder == RecorderStops \/ RecorderTakes \/ RecordError
HandleUpdates ==
  \/ UpdaterStops \/ UpdaterTakes \/ StoreEtag
  \/ EnterEngine \/ ApplySnapshot \/ ReportEnd
Fetcher ==
  \/ FetcherStops \/ PollTick \/ PollFails \/ SendError \/ SendSnapshot
  \/ Connect \/ StreamCancelled \/ StreamEnds \/ StreamReads
  \/ SendFrame \/ Drained
Answered == PollAnswered \/ Connected
Reader == ReadChunk \/ ReadEnd
Server == ServerNext /\ UNCHANGED clientVars

Next ==
  \/ NewClient \/ Recorder \/ HandleUpdates \/ CancelRequests
  \/ Fetcher \/ Answered \/ Reader \/ ServerPushes \/ StreamDrops
  \/ \E c \in Callers : 
       CheckError(c) \/ EnterCall(c) \/ ListFlags(c) \/ Return(c)
  \/ UserCancels \/ CloseBegins \/ CloseEnds
  \/ Server

Spec == Init /\ [][Next]_vars

(***************************************************************************)
(* Fairness.  The Go runtime runs every goroutine that can run, and        *)
(* sync.RWMutex lets nobody wait for ever: strong fairness where the       *)
(* client's own goroutines wait for c.mu.  Calls return.  The server       *)
(* answers, pushes what it owes, and a stream to a server that is down is  *)
(* noticed to be lost.                                                     *)
(***************************************************************************)
Fairness ==
  /\ WF_vars(NewClient) /\ WF_vars(CancelRequests) /\ WF_vars(CloseEnds)
  /\ SF_vars(Recorder) /\ SF_vars(HandleUpdates) /\ SF_vars(Fetcher)
  /\ WF_vars(Reader)
  /\ \A c \in Callers : WF_vars(Return(c))
  /\ WF_vars(Answered) /\ WF_vars(ServerPushes) /\ WF_vars(~up /\ StreamDrops)

FairSpec == Spec /\ Fairness
=============================================================================
