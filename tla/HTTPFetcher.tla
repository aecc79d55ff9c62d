---------------------------- MODULE HTTPFetcher ----------------------------
(***************************************************************************)
(* The HTTPFetcher of the FFI engine (flipt-engine-ffi/src/http.rs): the   *)
(* initial fetch, the task that polls or streams, the bounded channel it   *)
(* sends results on, and the two ways it is told to stop: the atomic       *)
(* stop_signal and the Notify stop_notify.  Every await of the source is a *)
(* boundary between two actions.                                           *)
(***************************************************************************)
EXTENDS FliptServer, FetchResults, Sequences

CONSTANTS
  Mode,            \* "polling" or "streaming"
  RequestTimeout,  \* whether request_timeout is configured
  MaxRetries,      \* retries of one request; 3 in the source
  Interval,        \* update_interval, in periods of 500 ms
  Capacity,        \* of the results channel; 100 in the source
  WireBound,       \* unread stream frames (bounds the model)
  BodyFaults,      \* whether a 200 answer or a frame may fail to decode
  EtagOptional     \* whether a 200 answer may come without an ETag

ASSUME FetcherAssumption ==
  /\ Mode \in {"polling", "streaming"}
  /\ RequestTimeout \in BOOLEAN
  /\ MaxRetries \in Nat
  /\ Interval \in Nat \ {0}
  /\ Capacity \in Nat \ {0}
  /\ WireBound \in Nat \ {0}
  /\ BodyFaults \in BOOLEAN
  /\ EtagOptional \in BOOLEAN

VARIABLES
  pc,       \* where the fetcher is
  etag,     \* the stored ETag, NoEtag when there is none
  auth,     \* the credential in the watch channel
  req,      \* the headers of the request in flight
  tries,    \* failed attempts at that request
  reply,    \* its answer
  res,      \* the result waiting to be sent
  elapsed,  \* periods of the polling pause that are over
  conn,     \* the stream: "none", "open" or "closed" by the other side
  wire,     \* frames received and not read yet
  pushed,   \* the version the server pushed last on this stream
  chan,     \* the mpsc channel
  stop,     \* stop_signal
  woken     \* whether the Notified future in use, if any, has been notified

fetcherVars == <<pc, etag, auth, req, tries, reply, res, elapsed, conn, wire,
                 pushed, chan, stop, woken>>
requestVars == <<req, tries, reply>>
streamVars == <<conn, wire, pushed>>
stopVars == <<stop, woken>>

NoEtag == 0
PC == {"start", "initial", "check", "polling", "pause", "pauseArm",
       "pauseWait", "connecting", "streamCheck", "streamArm", "streamWait",
       "send", "done"}
InFlight == pc \in {"initial", "polling", "connecting"}

Answer(kind, v) == [kind |-> kind, ver |-> v]
NoAnswer == Answer("none", 0)
NoRequest == [etag |-> NoEtag, auth |-> 0]
AnswerKind == {"none", "doc", "broken", "notModified", "stream", "error"}

FetcherInit ==
  /\ pc = "start"
  /\ etag = NoEtag
  /\ auth = 0
  /\ req = NoRequest
  /\ tries = 0
  /\ reply = NoAnswer
  /\ res = Err
  /\ elapsed = 0
  /\ conn = "none"
  /\ wire = <<>>
  /\ pushed = 0
  /\ chan = <<>>
  /\ stop = FALSE
  /\ woken = FALSE

RequestTypeOK ==
  /\ req \in [etag : 0..MaxVersion, auth : Cred]
  /\ tries \in 0..MaxRetries
  /\ reply \in [kind : AnswerKind, ver : 0..MaxVersion]

StreamTypeOK ==
  /\ conn \in {"none", "open", "closed"}
  /\ wire \in Seq(Result)
  /\ pushed \in 0..MaxVersion

FetcherTypeOK ==
  /\ pc \in PC
  /\ etag \in 0..MaxVersion
  /\ auth \in Cred
  /\ res \in Result
  /\ elapsed \in 0..Interval
  /\ chan \in Seq(Result) /\ Len(chan) <= Capacity
  /\ stop \in BOOLEAN /\ woken \in BOOLEAN
  /\ RequestTypeOK
  /\ StreamTypeOK

-----------------------------------------------------------------------------
(* One request.  The headers are built once (build_headers): a retry of the
   middleware repeats them even when the credential has changed since. *)

(* Mutant: the authentication is read once, when the fetcher is built. *)
SendRequestOldAuth(next) ==
  /\ pc' = next
  /\ req' = [etag |-> etag, auth |-> 0]
  /\ tries' = 0
  /\ reply' = NoAnswer

SendRequest(next) ==
  /\ pc' = next
  /\ req' = [etag |-> etag, auth |-> auth]
  /\ tries' = 0
  /\ reply' = NoAnswer

RequestOver == req' = NoRequest /\ tries' = 0 /\ reply' = NoAnswer

Unanswered == InFlight /\ reply.kind = "none"

(* Mutant: the request timeout is never given to the client. *)
NeverTimesOut == FALSE

(* The client has a timeout only when it polls. *)
TimesOut == RequestTimeout /\ Mode = "polling"

(* An attempt fails; after MaxRetries retries the request has failed. *)
AttemptFails ==
  /\ Unanswered
  /\ ~up \/ TimesOut
  /\ IF tries < MaxRetries
     THEN tries' = tries + 1 /\ UNCHANGED reply
     ELSE reply' = Answer("error", 0) /\ UNCHANGED tries
  /\ UNCHANGED <<pc, etag, auth, req, res, elapsed, chan>>
  /\ UNCHANGED streamVars /\ UNCHANGED stopVars

(* What the server makes of a request: a refused credential, the start of a
   stream, 304 for the ETag it still serves, or the document; its body may
   turn out broken when it is read. *)
PossibleAnswers ==
  IF req.auth # cred THEN {Answer("error", 0)}
  ELSE IF pc = "connecting" THEN {Answer("stream", 0)}
  ELSE IF req.etag = srv THEN {Answer("notModified", 0)}
  ELSE {Answer(k, srv) : k \in {"doc"} \cup (IF BodyFaults THEN {"broken"} ELSE {})}

ServerAnswers ==
  /\ Unanswered
  /\ up
  /\ reply' \in PossibleAnswers
  /\ UNCHANGED <<pc, etag, auth, req, tries, res, elapsed, chan>>
  /\ UNCHANGED streamVars /\ UNCHANGED stopVars

(* Mutant: an error keeps the ETag. *)
FetchEtagKept ==
  \/ reply.kind \in {"doc", "broken"} /\ etag' = reply.ver
  \/ reply.kind \in {"error", "notModified"} /\ etag' = etag

(* fetch: a 200 answer stores its ETag before anybody reads the body, an
   error forgets the ETag, 304 leaves it. *)
FetchEtag ==
  \/ /\ reply.kind \in {"doc", "broken"}
     /\ etag' = reply.ver \/ (EtagOptional /\ etag' = etag)
  \/ reply.kind = "error" /\ etag' = NoEtag
  \/ reply.kind = "notModified" /\ etag' = etag

(* What the caller of fetch gets out of a 200 answer or an error. *)
FetchResult == IF reply.kind = "doc" THEN Ok(reply.ver) ELSE Err

(* initial_fetch sends its request; no ETag is known yet. *)
InitialFetch ==
  /\ pc = "start"
  /\ SendRequest("initial")
  /\ UNCHANGED <<etag, auth, res, elapsed, chan>>
  /\ UNCHANGED streamVars /\ UNCHANGED stopVars

(* The first step of the task's loop: stop, or send the next request. *)
LoopCheck ==
  /\ pc = "check"
  /\ IF stop
     THEN pc' = "done" /\ UNCHANGED requestVars
     ELSE SendRequest(IF Mode = "polling" THEN "polling" ELSE "connecting")
  /\ UNCHANGED <<etag, auth, res, elapsed, chan>>
  /\ UNCHANGED streamVars /\ UNCHANGED stopVars

-----------------------------------------------------------------------------
(* Polling. *)

(* handle_polling: 304 sends nothing, everything else sends a result. *)
HandlePolling ==
  /\ pc = "polling"
  /\ reply.kind # "none"
  /\ FetchEtag
  /\ IF reply.kind = "notModified"
     THEN pc' = "pause" /\ elapsed' = 0 /\ UNCHANGED res
     ELSE pc' = "send" /\ res' = FetchResult /\ UNCHANGED elapsed
  /\ RequestOver
  /\ UNCHANGED <<auth, chan>>
  /\ UNCHANGED streamVars /\ UNCHANGED stopVars

(* Mutant: the channel has no bound. *)
SendResultUnbounded ==
  /\ pc = "send"
  /\ chan' = Append(chan, res)
  /\ pc' = IF Mode = "polling" THEN "pause"
           ELSE IF conn = "none" THEN "check" ELSE "streamCheck"
  /\ res' = Err
  /\ elapsed' = 0
  /\ UNCHANGED <<etag, auth>>
  /\ UNCHANGED requestVars /\ UNCHANGED streamVars /\ UNCHANGED stopVars

(* Mutant: try_send, which drops the result when the channel is full. *)
SendResultOrDrop ==
  /\ pc = "send"
  /\ chan' = IF Len(chan) < Capacity THEN Append(chan, res) ELSE chan
  /\ pc' = IF Mode = "polling" THEN "pause"
           ELSE IF conn = "none" THEN "check" ELSE "streamCheck"
  /\ res' = Err
  /\ elapsed' = 0
  /\ UNCHANGED <<etag, auth>>
  /\ UNCHANGED requestVars /\ UNCHANGED streamVars /\ UNCHANGED stopVars

(* sender.send(result).await: waits for room in the channel. *)
SendResult ==
  /\ pc = "send"
  /\ Len(chan) < Capacity
  /\ chan' = Append(chan, res)
  /\ pc' = IF Mode = "polling" THEN "pause"
           ELSE IF conn = "none" THEN "check" ELSE "streamCheck"
  /\ res' = Err
  /\ elapsed' = 0
  /\ UNCHANGED <<etag, auth>>
  /\ UNCHANGED requestVars /\ UNCHANGED streamVars /\ UNCHANGED stopVars

PauseCheck ==
  /\ pc = "pause"
  /\ pc' = IF elapsed >= Interval THEN "check"
           ELSE IF stop THEN "done" ELSE "pauseArm"
  /\ elapsed' = IF pc' = "check" THEN 0 ELSE elapsed
  /\ UNCHANGED <<etag, auth, res, chan>>
  /\ UNCHANGED requestVars /\ UNCHANGED streamVars /\ UNCHANGED stopVars

(* stop_notify.notified(): only a Notified future that exists is woken by
   notify_waiters, and it lives until its select! is over. *)
ArmNotified ==
  /\ \/ pc = "pauseArm" /\ pc' = "pauseWait"
     \/ pc = "streamArm" /\ pc' = "streamWait"
  /\ UNCHANGED <<etag, auth, res, elapsed, chan>>
  /\ UNCHANGED requestVars /\ UNCHANGED streamVars /\ UNCHANGED stopVars

DropNotified == woken' = FALSE /\ UNCHANGED stop

PauseTick ==
  /\ pc = "pauseWait"
  /\ elapsed' = elapsed + 1
  /\ pc' = "pause"
  /\ UNCHANGED <<etag, auth, res, chan>>
  /\ DropNotified
  /\ UNCHANGED requestVars /\ UNCHANGED streamVars

PauseNotified ==
  /\ pc = "pauseWait"
  /\ woken
  /\ pc' = "done"
  /\ UNCHANGED <<etag, auth, res, elapsed, chan>>
  /\ DropNotified
  /\ UNCHANGED requestVars /\ UNCHANGED streamVars

-----------------------------------------------------------------------------
(* Streaming. *)

(* fetch_stream's answer; it never touches the ETag. *)
HandleConnect ==
  /\ pc = "connecting"
  /\ reply.kind # "none"
  /\ IF reply.kind = "stream"
     THEN /\ pc' = "streamCheck"
          /\ conn' = "open" /\ wire' = <<>> /\ pushed' = 0
          /\ UNCHANGED res
     ELSE pc' = "send" /\ res' = Err /\ UNCHANGED streamVars
  /\ RequestOver
  /\ UNCHANGED <<etag, auth, elapsed, chan>>
  /\ UNCHANGED stopVars

(* The server pushes its snapshot when the stream starts and after changes;
   changes that come close together may share a frame. *)
ServerPushes ==
  /\ up /\ conn = "open"
  /\ pushed # srv
  /\ Len(wire) < WireBound
  /\ pushed' = srv
  /\ \/ wire' = Append(wire, Ok(srv))
     \/ BodyFaults /\ wire' = Append(wire, Err)
  /\ UNCHANGED <<pc, etag, auth, res, elapsed, chan, conn>>
  /\ UNCHANGED requestVars /\ UNCHANGED stopVars

(* The stream ends, cleanly or in a read error behind what was received. *)
StreamDrops ==
  /\ conn = "open"
  /\ conn' = "closed"
  /\ wire' \in {wire, Append(wire, Err)}
  /\ UNCHANGED <<pc, etag, auth, res, elapsed, chan, pushed>>
  /\ UNCHANGED requestVars /\ UNCHANGED stopVars

(* Mutant: the frames of an abandoned stream are kept. *)
LeaveStreamKeepsFrames ==
  /\ conn' = "none" /\ pushed' = 0 /\ UNCHANGED wire

LeaveStream ==
  /\ conn' = "none" /\ wire' = <<>> /\ pushed' = 0

StreamCheck ==
  /\ pc = "streamCheck"
  /\ IF stop
     THEN pc' = "check" /\ LeaveStream
     ELSE pc' = "streamArm" /\ UNCHANGED streamVars
  /\ UNCHANGED <<etag, auth, res, elapsed, chan>>
  /\ UNCHANGED requestVars /\ UNCHANGED stopVars

StreamNext ==
  /\ pc = "streamWait"
  /\ wire # <<>>
  /\ res' = Head(wire)
  /\ wire' = Tail(wire)
  /\ pc' = "send"
  /\ UNCHANGED <<etag, auth, elapsed, chan, conn, pushed>>
  /\ DropNotified
  /\ UNCHANGED requestVars

(* Mutant: the select! of the stream has no branch for stop_notify. *)
StreamEndIgnoresNotify ==
  /\ pc = "streamWait"
  /\ wire = <<>> /\ conn = "closed"
  /\ pc' = "check"
  /\ LeaveStream
  /\ UNCHANGED <<etag, auth, res, elapsed, chan>>
  /\ DropNotified
  /\ UNCHANGED requestVars

StreamEnd ==
  /\ pc = "streamWait"
  /\ \/ wire = <<>> /\ conn = "closed"
     \/ woken
  /\ pc' = "check"
  /\ LeaveStream
  /\ UNCHANGED <<etag, auth, res, elapsed, chan>>
  /\ DropNotified
  /\ UNCHANGED requestVars

-----------------------------------------------------------------------------
(* The two halves of telling the fetcher to stop. *)

SetStopSignal ==
  /\ stop' = TRUE
  /\ UNCHANGED <<pc, etag, auth, res, elapsed, chan, woken>>
  /\ UNCHANGED requestVars /\ UNCHANGED streamVars

NotifyWaiters ==
  /\ woken' = (pc \in {"pauseWait", "streamWait"})
  /\ UNCHANGED <<pc, etag, auth, res, elapsed, chan, stop>>
  /\ UNCHANGED requestVars /\ UNCHANGED streamVars

(* The sender half of the watch channel. *)
SendAuth(a) ==
  /\ auth' = a
  /\ UNCHANGED <<pc, etag, res, elapsed, chan>>
  /\ UNCHANGED requestVars /\ UNCHANGED streamVars /\ UNCHANGED stopVars
=============================================================================
