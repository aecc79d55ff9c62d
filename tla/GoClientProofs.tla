---------------------------- MODULE GoClientProofs ----------------------------
(***************************************************************************)
(* Proofs, for every value of the constants, of the safety properties of   *)
(* GoClientProperties.  GoInv is shown to be inductive one part at a time. *)
(***************************************************************************)
EXTENDS GoClientProperties, SequenceTheorems, TLAPS

-----------------------------------------------------------------------------
(* The inductive invariant. *)

(* Before NewClient has fetched nothing has moved, after Close nothing moves;
   a goroutine holds a snapshot only where it is dealing with one. *)
Stages ==
  /\ life = "new" =>
       /\ store = 0 /\ ~err /\ updater = "select" /\ snapshotChan = <<>>
       /\ found = NoSnapshot /\ asked = NoEtag /\ fetcher = "select"
       /\ recorder = "select"
  /\ life \in {"closing", "closed"} => \A c \in Callers : caller[c] = "idle"
  /\ life = "closed" => /\ recorder = "done" /\ updater = "done"
                        /\ fetcher = "done" /\ fctxDone
  /\ updater \in {"select", "report", "done"} => taken = NoSnapshot
  /\ updater \in {"apply", "engine"} => taken.ver # 0

(* A stream is there while its handler is. *)
Streams ==
  /\ fetcher \in {"stream", "garbled", "sendFrame", "drain"} <=> conn # "none"
  /\ conn = "none" => wire = <<>> /\ readCh = <<>>

(* Wherever a version is between server and engine, it is older than none
   that is nearer to the engine.  Version 0 stands for no snapshot, or for
   one without a payload. *)
Newest(v, floor) == v = 0 \/ (floor <= v /\ v <= srv)

InLine ==
  /\ store <= srv
  /\ Newest(taken.ver, store)
  /\ \A i \in DOMAIN snapshotChan :
       Newest(snapshotChan[i].ver, store) /\ Newest(snapshotChan[i].ver, taken.ver)
  /\ Newest(found.ver, store) /\ Newest(found.ver, taken.ver)
  /\ \A i \in DOMAIN snapshotChan : Newest(found.ver, snapshotChan[i].ver)

FramesInLine ==
  /\ \A j \in DOMAIN readCh :
       /\ Newest(readCh[j], store) /\ Newest(readCh[j], taken.ver)
       /\ \A i \in DOMAIN snapshotChan : Newest(readCh[j], snapshotChan[i].ver)
       /\ Newest(readCh[j], found.ver)
  /\ \A k \in DOMAIN wire :
       /\ Newest(wire[k], store) /\ Newest(wire[k], taken.ver)
       /\ \A i \in DOMAIN snapshotChan : Newest(wire[k], snapshotChan[i].ver)
       /\ Newest(wire[k], found.ver)
       /\ \A j \in DOMAIN readCh : Newest(wire[k], readCh[j])
       /\ \A j \in DOMAIN wire : j < k => Newest(wire[k], wire[j])

(* The ETag e is that of a document the engine has or is being given, or of
   a version that was lost on the way. *)
Arrived(e) ==
  \/ e <= store
  \/ updater \in {"apply", "engine"} /\ e = taken.etag
  \/ e \in lost

(* A snapshot without a payload carries such an ETag; one with a payload
   carries its own, or none when it came on a stream. *)
Own(s) == s.etag = NoEtag \/ s.etag = s.ver

Carried(s) == IF NotModified(s) THEN Arrived(s.etag) ELSE Own(s)

EtagsArrive ==
  /\ Arrived(etag) /\ Arrived(asked) /\ Carried(found)
  /\ \A i \in DOMAIN snapshotChan : Carried(snapshotChan[i])
  /\ updater = "etag" => Carried(taken)
  /\ updater \in {"apply", "engine"} => Own(taken)

GoInv ==
  /\ TypeOK /\ EngineIsExclusive
  /\ Stages /\ Streams /\ InLine /\ FramesInLine /\ EtagsArrive
-----------------------------------------------------------------------------
(* What a full or empty channel looks like. *)

(* The bounds, and the snapshot that stands for none. *)
LEMMA Constants ==
  /\ MaxVersion \in Nat \ {0} /\ WireBound \in Nat \ {0}
  /\ MaxOutages \in Nat /\ MaxCred \in Nat
  /\ Lossy \subseteq Version /\ FetchModes \subseteq {"polling", "streaming"}
  /\ NoSnapshot \in Snapshots /\ NoSnapshot.ver = 0 /\ NoSnapshot.etag = 0
BY ServerAssumption, GoClientAssumption DEF NoSnapshot, Snapshot, Snapshots, NoEtag

LEMMA SnapshotFacts ==
  \A v, e \in 0..MaxVersion : /\ Snapshot(v, e) \in Snapshots
                              /\ Snapshot(v, e).ver = v /\ Snapshot(v, e).etag = e
BY DEF Snapshot, Snapshots

LEMMA Numbers ==
  ASSUME TypeOK
  PROVE  /\ srv \in Nat \ {0} /\ srv <= MaxVersion /\ store \in Nat /\ etag \in Nat
         /\ asked \in Nat
         /\ taken.ver \in Nat /\ taken.etag \in Nat /\ found.ver \in Nat /\ found.etag \in Nat
         /\ \A i \in DOMAIN snapshotChan : /\ snapshotChan[i] \in Snapshots
                                           /\ snapshotChan[i].ver \in Nat
                                           /\ snapshotChan[i].etag \in Nat
         /\ \A j \in DOMAIN readCh : readCh[j] \in Nat
         /\ \A k \in DOMAIN wire : wire[k] \in Nat
<1>1. /\ srv \in 1..MaxVersion /\ store \in 0..MaxVersion /\ etag \in 0..MaxVersion
      /\ asked \in 0..MaxVersion /\ MaxVersion \in Nat
  BY ServerAssumption DEF TypeOK, ServerTypeOK, Version
<1>2. /\ taken \in Snapshots /\ found \in Snapshots /\ snapshotChan \in Seq(Snapshots)
      /\ readCh \in Seq(Version) /\ wire \in Seq(Version)
  BY DEF TypeOK
<1>3. \A s \in Snapshots : s.ver \in Nat /\ s.etag \in Nat
  BY <1>1 DEF Snapshots
<1>4. \A i \in DOMAIN snapshotChan : snapshotChan[i] \in Snapshots
  BY <1>2, LenProperties, ElementOfSeq
<1>5. \A j \in DOMAIN readCh : readCh[j] \in Version
  BY <1>2, LenProperties, ElementOfSeq
<1>6. \A k \in DOMAIN wire : wire[k] \in Version
  BY <1>2, LenProperties, ElementOfSeq
<1>. QED
  BY <1>1, <1>2, <1>3, <1>4, <1>5, <1>6 DEF Version

(* A channel of capacity one. *)
LEMMA OneElement ==
  ASSUME NEW S, NEW s \in Seq(S), Len(s) <= 1, s # <<>>
  PROVE  /\ DOMAIN s = {1} /\ Head(s) = s[1] /\ s[1] \in S
         /\ Tail(s) = <<>>
<1>1. Len(s) = 1
  <2>1. Len(s) \in Nat \ {0}
    BY EmptySeq
  <2>. QED
    BY <2>1
<1>2. DOMAIN s = {1} /\ s[1] \in S
  <2>1. DOMAIN s = 1..1
    BY <1>1, LenProperties
  <2>. QED
    BY <2>1, <1>1, ElementOfSeq
<1>3. Tail(s) = <<>>
  <2>1. Tail(s) \in Seq(S) /\ Len(Tail(s)) = Len(s) - 1
    BY HeadTailProperties
  <2>2. Len(Tail(s)) = 0
    BY <2>1, <1>1
  <2>. QED
    BY <2>1, <2>2, EmptySeq
<1>4. Head(s) = s[1]
  BY <1>1, SMT
<1>. QED
  BY <1>2, <1>3, <1>4

LEMMA Single ==
  ASSUME NEW S, NEW x \in S
  PROVE  <<x>> \in Seq(S) /\ Len(<<x>>) = 1 /\ DOMAIN <<x>> = {1} /\ <<x>>[1] = x
OBVIOUS

LEMMA Nothing ==
  ASSUME NEW S
  PROVE  <<>> \in Seq(S) /\ Len(<<>>) = 0 /\ DOMAIN <<>> = {}
OBVIOUS

LEMMA NoElement ==
  ASSUME NEW S, NEW s \in Seq(S), Len(s) < 1
  PROVE  s = <<>>
BY EmptySeq, LenProperties

LEMMA Taking ==
  ASSUME TypeOK, UpdaterTakes
  PROVE  /\ DOMAIN snapshotChan = {1} /\ taken' = snapshotChan[1] /\ taken' \in Snapshots
         /\ snapshotChan' = <<>> /\ updater = "select" /\ updater' = "etag"
         /\ UNCHANGED <<srv, store, etag, found, asked, readCh, wire, life, recorder,
                        fetcher, fctxDone, caller, conn>>
<1>1. snapshotChan \in Seq(Snapshots) /\ Len(snapshotChan) <= 1
  BY DEF TypeOK, ChanCapacity
<1>. QED
  BY <1>1, OneElement DEF UpdaterTakes, serverVars, ctxVars, guardedVars, fetchVars, streamVars

LEMMA Sending ==
  ASSUME TypeOK, SendSnapshot \/ SendFrame
  PROVE  /\ snapshotChan = <<>> /\ snapshotChan' = <<found>> /\ found' = NoSnapshot
         /\ UNCHANGED <<srv, store, etag, taken, updater, asked, readCh, wire, life, recorder,
                        fctxDone, caller, conn>>
         /\ Started
<1>1. snapshotChan \in Seq(Snapshots) /\ Len(snapshotChan) < 1
  BY DEF TypeOK, ChanCapacity, SendSnapshot, SendFrame
<1>2. snapshotChan = <<>>
  BY <1>1, NoElement
<1>3. snapshotChan' = Append(snapshotChan, found)
  BY DEF SendSnapshot, SendFrame
<1>4. snapshotChan' = <<found>>
  BY <1>2, <1>3
<1>. QED
  BY <1>2, <1>4 DEF SendSnapshot, SendFrame, Fetching, FetcherGoes, FetchesNothing, serverVars, ctxVars, guardedVars,
     workerVars, streamVars

LEMMA FrameTaken ==
  ASSUME TypeOK, StreamReads
  PROVE  /\ DOMAIN readCh = {1} /\ readCh[1] \in Version /\ readCh' = <<>>
         /\ \/ found' = found /\ fetcher' \in {"garbled", "drain"}
            \/ /\ found' \in {Snapshot(readCh[1], NoEtag), Snapshot(0, NoEtag)}
               /\ fetcher' = "sendFrame"
         /\ fetcher \in {"stream", "garbled"} /\ Started
         /\ UNCHANGED <<srv, store, etag, taken, updater, snapshotChan, asked, wire, life,
                        recorder, fctxDone, caller, conn>>
<1>1. readCh \in Seq(Version) /\ Len(readCh) <= 1 /\ readCh # <<>>
  BY DEF TypeOK, StreamReads
<1>2. DOMAIN readCh = {1} /\ Head(readCh) = readCh[1] /\ readCh[1] \in Version
      /\ Tail(readCh) = <<>>
  BY <1>1, OneElement
<1>3. readCh' = <<>>
  BY <1>2 DEF StreamReads
<1>4. \/ found' = found /\ fetcher' \in {"garbled", "drain"}
      \/ /\ found' \in {Snapshot(Head(readCh), NoEtag), Snapshot(0, NoEtag)}
         /\ fetcher' = "sendFrame"
  BY DEF StreamReads, Fetching, FetcherGoes, FetchesNothing
<1>. QED
  BY <1>2, <1>3, <1>4 DEF StreamReads, Fetching, FetcherGoes, FetchesNothing, serverVars,
     ctxVars, guardedVars, workerVars, chanVars

LEMMA FrameRead ==
  ASSUME TypeOK, ReadChunk
  PROVE  /\ readCh = <<>> /\ readCh' = <<wire[1]>> /\ wire[1] \in Version
         /\ wire' \in Seq(Version) /\ Len(wire') <= WireBound
         /\ 1 \in DOMAIN wire
         /\ \A k \in DOMAIN wire' : k + 1 \in DOMAIN wire /\ wire'[k] = wire[k + 1] /\ k \in Nat \ {0}
         /\ conn # "none"
         /\ UNCHANGED <<srv, store, etag, taken, updater, snapshotChan, found, asked, life,
                        recorder, fetcher, fctxDone, caller, conn>>
<1>1. wire \in Seq(Version) /\ Len(wire) <= WireBound /\ wire # <<>>
  BY DEF TypeOK, ReadChunk
<1>2. Len(wire) \in Nat \ {0} /\ DOMAIN wire = 1..Len(wire)
  BY <1>1, EmptySeq, LenProperties
<1>3. wire[1] \in Version /\ Head(wire) = wire[1]
  <2>1. 1 \in 1..Len(wire)
    BY <1>2
  <2>2. wire[1] \in Version
    BY <2>1, <1>1, ElementOfSeq
  <2>. QED
    BY <2>2, <1>1
<1>4. /\ Tail(wire) \in Seq(Version) /\ Len(Tail(wire)) = Len(wire) - 1
      /\ \A k \in 1..Len(Tail(wire)) : Tail(wire)[k] = wire[k + 1]
  BY <1>1, HeadTailProperties
<1>5. DOMAIN Tail(wire) = 1..Len(wire) - 1
  BY <1>4, LenProperties
<1>6. readCh = <<>> /\ readCh' = <<Head(wire)>> /\ wire' = Tail(wire) /\ conn # "none"
      /\ UNCHANGED <<srv, store, etag, taken, updater, snapshotChan, found, asked, life,
                     recorder, fetcher, fctxDone, caller, conn>>
  BY DEF ReadChunk, Reading, serverVars, ctxVars, guardedVars, workerVars, chanVars, fetchVars
<1>7. Len(wire') <= WireBound
  BY <1>1, <1>2, <1>4, <1>6, Constants
<1>8. \A k \in DOMAIN wire' : k + 1 \in DOMAIN wire /\ wire'[k] = wire[k + 1] /\ k \in Nat \ {0}
  BY <1>2, <1>4, <1>5, <1>6
<1>. QED
  BY <1>2, <1>3, <1>4, <1>6, <1>7, <1>8

LEMMA FramePushed ==
  ASSUME TypeOK, ServerPushes
  PROVE  /\ wire' \in Seq(Version) /\ Len(wire') <= WireBound
         /\ \A k \in DOMAIN wire' :
              \/ k \in DOMAIN wire /\ wire'[k] = wire[k]
              \/ k = Len(wire) + 1 /\ wire'[k] = srv
         /\ \A k \in DOMAIN wire : k < Len(wire) + 1
         /\ conn = "open" /\ pushed' = srv
         /\ UNCHANGED <<srv, store, etag, taken, updater, snapshotChan, found, asked, life,
                        recorder, fetcher, fctxDone, caller, conn, readCh>>
<1>1. wire \in Seq(Version) /\ Len(wire) < WireBound /\ Len(wire) \in Nat
      /\ DOMAIN wire = 1..Len(wire)
  BY LenProperties DEF TypeOK, ServerPushes
<1>2. wire' = Append(wire, srv)
  BY DEF ServerPushes
<1>3. srv \in Version
  BY DEF TypeOK, ServerTypeOK
<1>4. /\ wire' \in Seq(Version) /\ Len(wire') = Len(wire) + 1
      /\ \A k \in 1..Len(wire) + 1 : wire'[k] = IF k <= Len(wire) THEN wire[k] ELSE srv
  BY <1>1, <1>2, <1>3
<1>5. DOMAIN wire' = 1..Len(wire) + 1
  BY <1>4, LenProperties
<1>6. \A k \in DOMAIN wire' :
        \/ k \in DOMAIN wire /\ wire'[k] = wire[k]
        \/ k = Len(wire) + 1 /\ wire'[k] = srv
  BY <1>1, <1>4, <1>5
<1>7. /\ conn = "open" /\ pushed' = srv
      /\ UNCHANGED <<srv, store, etag, taken, updater, snapshotChan, found, asked, life,
                     recorder, fetcher, fctxDone, caller, conn, readCh>>
  BY DEF ServerPushes, serverVars, ctxVars, guardedVars, workerVars, chanVars, fetchVars
<1>. QED
  BY <1>1, <1>2, <1>4, <1>6, <1>7, Constants

-----------------------------------------------------------------------------
(* Which steps change what. *)
LEMMA Changes ==
  ASSUME [Next]_vars
  PROVE  /\ mode' = mode
         /\ life' # life => StartFetched \/ StartUnreachable \/ StartRefused \/
                            CloseBegins \/ CloseEnds
         /\ ctxDone' # ctxDone => UserCancels \/ CloseBegins
         /\ fctxDone' # fctxDone => CancelRequests
         /\ store' # store => StartFetched \/ ApplySnapshot
         /\ err' # err => StartUnreachable \/ RecordError \/ ApplySnapshot
         /\ etag' # etag => StartFetched \/ StoreEtag
         /\ errChan' # errChan => RecorderTakes \/ ReportEnd \/ SendError
         /\ snapshotChan' # snapshotChan => UpdaterTakes \/ SendSnapshot \/
                                            SendFrame
         /\ recorder' # recorder => RecorderStops \/ RecorderTakes \/
                                    RecordError
         /\ updater' # updater => UpdaterStops \/ UpdaterTakes \/ StoreEtag \/
                                  EnterEngine \/ ApplySnapshot \/ ReportEnd
         /\ taken' # taken => UpdaterTakes \/ StoreEtag \/ ApplySnapshot
         /\ fetcher' # fetcher => FetcherStops \/ PollTick \/ PollAnswered \/
                                  PollFails \/ SendError \/ SendSnapshot \/
                                  Connect \/ Connected \/ StreamCancelled \/
                                  StreamEnds \/ StreamReads \/ SendFrame \/
                                  Drained
         /\ asked' # asked => FetcherStops \/ PollTick \/ PollAnswered \/
                              PollFails
         /\ found' # found => PollAnswered \/ SendSnapshot \/ StreamCancelled \/
                              StreamReads \/ SendFrame
         /\ conn' # conn => Connected \/ StreamCancelled \/ StreamEnds \/ Drained
                            \/ StreamDrops
         /\ wire' # wire => StreamCancelled \/ StreamEnds \/ Drained \/ ReadChunk
                            \/ ServerPushes
         /\ pushed' # pushed => StreamCancelled \/ StreamEnds \/ Drained \/
                                ServerPushes
         /\ readCh' # readCh => StreamCancelled \/ StreamEnds \/ Drained \/
                                StreamReads \/ ReadChunk
         /\ eof' # eof => StreamCancelled \/ StreamEnds \/ Drained \/ ReadEnd
         /\ caller' # caller =>
              \E c \in Callers : CheckError(c) \/ EnterCall(c) \/ ListFlags(c) \/ Return(c)
         /\ UNCHANGED serverVars \/ StreamDrops \/ Server
         /\ lost \subseteq lost' /\ lost' \subseteq lost \cup Lossy
<1>. USE DEF Next, NewClient, Recorder, HandleUpdates, Fetcher, Answered,
             Reader, vars, clientVars, ctxVars, guardedVars, chanVars,
             workerVars, fetchVars, streamVars, Fetching, FetcherGoes, FetchesNothing, Calling,
             LeaveStream, Reading, CheckError, EnterCall, ListFlags, Return,
             StartFetched, StartUnreachable, StartRefused, RecorderStops, RecorderTakes,
             RecordError, UpdaterStops, UpdaterTakes, StoreEtag,
             EnterEngine, ApplySnapshot, ReportEnd, CancelRequests,
             FetcherStops, PollTick, PollAnswered, PollFails, SendError,
             SendSnapshot, Connect, Connected, StreamCancelled, StreamEnds,
             StreamReads, SendFrame, Drained, ReadChunk, ReadEnd,
             ServerPushes, StreamDrops, UserCancels, CloseBegins, CloseEnds,
             Server
<1>1. mode' = mode
  OBVIOUS
<1>2. life' # life => StartFetched \/ StartUnreachable \/ StartRefused \/
                      CloseBegins \/ CloseEnds
  OBVIOUS
<1>3. ctxDone' # ctxDone => UserCancels \/ CloseBegins
  OBVIOUS
<1>4. fctxDone' # fctxDone => CancelRequests
  OBVIOUS
<1>5. store' # store => StartFetched \/ ApplySnapshot
  OBVIOUS
<1>6. err' # err => StartUnreachable \/ RecordError \/ ApplySnapshot
  OBVIOUS
<1>7. etag' # etag => StartFetched \/ StoreEtag
  OBVIOUS
<1>8. errChan' # errChan => RecorderTakes \/ ReportEnd \/ SendError
  OBVIOUS
<1>9. snapshotChan' # snapshotChan => UpdaterTakes \/ SendSnapshot \/ SendFrame
  OBVIOUS
<1>10. recorder' # recorder => RecorderStops \/ RecorderTakes \/ RecordError
  OBVIOUS
<1>11. updater' # updater => UpdaterStops \/ UpdaterTakes \/ StoreEtag \/
                             EnterEngine \/ ApplySnapshot \/ ReportEnd
  OBVIOUS
<1>12. taken' # taken => UpdaterTakes \/ StoreEtag \/ ApplySnapshot
  OBVIOUS
<1>13. fetcher' # fetcher => FetcherStops \/ PollTick \/ PollAnswered \/
                             PollFails \/ SendError \/ SendSnapshot \/ Connect \/
                             Connected \/ StreamCancelled \/ StreamEnds \/
                             StreamReads \/ SendFrame \/ Drained
  OBVIOUS
<1>14. asked' # asked => FetcherStops \/ PollTick \/ PollAnswered \/ PollFails
  OBVIOUS
<1>15. found' # found => PollAnswered \/ SendSnapshot \/ StreamCancelled \/
                         StreamReads \/ SendFrame
  OBVIOUS
<1>16. conn' # conn => Connected \/ StreamCancelled \/ StreamEnds \/ Drained \/
                       StreamDrops
  OBVIOUS
<1>17. wire' # wire => StreamCancelled \/ StreamEnds \/ Drained \/ ReadChunk \/
                       ServerPushes
  OBVIOUS
<1>18. pushed' # pushed => StreamCancelled \/ StreamEnds \/ Drained \/
                           ServerPushes
  OBVIOUS
<1>19. readCh' # readCh => StreamCancelled \/ StreamEnds \/ Drained \/
                           StreamReads \/ ReadChunk
  OBVIOUS
<1>20. eof' # eof => StreamCancelled \/ StreamEnds \/ Drained \/ ReadEnd
  OBVIOUS
<1>21. caller' # caller =>
        \E c \in Callers : CheckError(c) \/ EnterCall(c) \/ ListFlags(c) \/ Return(c)
  OBVIOUS
<1>22. UNCHANGED serverVars \/ StreamDrops \/ Server
  OBVIOUS
<1>23. lost \subseteq lost' /\ lost' \subseteq lost \cup Lossy
  <2>1. CASE ApplySnapshot \/ PollAnswered \/ StreamReads
    BY <2>1
  <2>2. CASE ~ApplySnapshot /\ ~PollAnswered /\ ~StreamReads
    <3>1. lost' = lost
      BY <2>2
    <3>. QED
      BY <3>1
  <2>. QED
    BY <2>1, <2>2
<1>. HIDE DEF Next, NewClient, Recorder, HandleUpdates, Fetcher, Answered,
              Reader, vars, clientVars, ctxVars, guardedVars, chanVars,
              workerVars, fetchVars, streamVars, Fetching, FetcherGoes, FetchesNothing, Calling,
              LeaveStream, Reading, CheckError, EnterCall, ListFlags,
              Return, StartFetched, StartUnreachable, StartRefused, RecorderStops,
              RecorderTakes, RecordError, UpdaterStops, UpdaterTakes,
              StoreEtag, EnterEngine, ApplySnapshot, ReportEnd,
              CancelRequests, FetcherStops, PollTick, PollAnswered,
              PollFails, SendError, SendSnapshot, Connect, Connected,
              StreamCancelled, StreamEnds, StreamReads, SendFrame, Drained,
              ReadChunk, ReadEnd, ServerPushes, StreamDrops, UserCancels,
              CloseBegins, CloseEnds, Server
<1>. QED
  BY <1>1, <1>2, <1>3, <1>4, <1>5, <1>6, <1>7, <1>8, <1>9, <1>10, <1>11,
     <1>12, <1>13, <1>14, <1>15, <1>16, <1>17, <1>18, <1>19, <1>20, <1>21,
     <1>22, <1>23

-----------------------------------------------------------------------------
(* Types. *)

LEMMA StepServerType == ASSUME TypeOK, [Next]_vars PROVE ServerTypeOK'
<1>1. /\ srv \in 1..MaxVersion /\ up \in BOOLEAN /\ cred \in 0..MaxCred
      /\ outages \in 0..MaxOutages
  BY DEF TypeOK, ServerTypeOK, Version, Cred
<1>2. \/ UNCHANGED serverVars
      \/ Publish \/ GoDown \/ ComeUp \/ RotateCredential
      \/ outages < MaxOutages /\ outages' = outages + 1 /\ UNCHANGED <<srv, up, cred>>
  BY Changes DEF Server, ServerNext, StreamDrops
<1>3. srv' \in 1..MaxVersion
  BY <1>1, <1>2, Constants DEF serverVars, Publish, GoDown, ComeUp, RotateCredential
<1>4. up' \in BOOLEAN
  BY <1>1, <1>2 DEF serverVars, Publish, GoDown, ComeUp, RotateCredential
<1>5. cred' \in 0..MaxCred
  BY <1>1, <1>2, Constants DEF serverVars, Publish, GoDown, ComeUp, RotateCredential
<1>6. outages' \in 0..MaxOutages
  BY <1>1, <1>2, Constants DEF serverVars, Publish, GoDown, ComeUp, RotateCredential
<1>. QED
  BY <1>3, <1>4, <1>5, <1>6 DEF ServerTypeOK, Version, Cred

(* Where the goroutines are. *)
LEMMA StepPlaces ==
  ASSUME TypeOK, [Next]_vars
  PROVE  /\ mode' \in FetchModes
         /\ life' \in {"new", "open", "closing", "closed", "failed"}
         /\ ctxDone' \in BOOLEAN /\ fctxDone' \in BOOLEAN /\ err' \in BOOLEAN
         /\ recorder' \in {"select", "record", "done"}
         /\ updater' \in {"select", "etag", "apply", "engine", "report", "done"}
         /\ fetcher' \in {"select", "fetch", "sendErr", "sendSnapshot", "connect",
                          "stream", "garbled", "sendFrame", "drain", "done"}
         /\ conn' \in {"none", "open", "closed"} /\ eof' \in BOOLEAN
         /\ caller' \in [Callers -> {"idle", "checked", "engine", "list"}]
<1>1. mode' \in FetchModes
  BY Changes DEF TypeOK
<1>2. life' \in {"new", "open", "closing", "closed", "failed"}
  BY Changes DEF TypeOK, StartFetched, StartUnreachable, StartRefused, CloseBegins, CloseEnds
<1>3. ctxDone' \in BOOLEAN /\ fctxDone' \in BOOLEAN
  BY Changes DEF TypeOK, UserCancels, CloseBegins, CancelRequests
<1>4. err' \in BOOLEAN
  BY Changes DEF TypeOK, StartUnreachable, RecordError, ApplySnapshot
<1>5. recorder' \in {"select", "record", "done"}
  BY Changes DEF TypeOK, RecorderStops, RecorderTakes, RecordError
<1>6. updater' \in {"select", "etag", "apply", "engine", "report", "done"}
  BY Changes DEF TypeOK, UpdaterStops, UpdaterTakes, StoreEtag, EnterEngine, ApplySnapshot,
     ReportEnd
<1>7. fetcher' \in {"select", "fetch", "sendErr", "sendSnapshot", "connect",
                    "stream", "garbled", "sendFrame", "drain", "done"}
  BY Changes DEF TypeOK, Fetching, FetcherGoes, FetchesNothing, FetcherStops, PollTick, PollAnswered, PollFails, SendError,
     SendSnapshot, Connect, Connected, StreamCancelled, StreamEnds, StreamReads, SendFrame,
     Drained
<1>8. conn' \in {"none", "open", "closed"}
  BY Changes DEF TypeOK, Connected, StreamCancelled, StreamEnds, Drained, StreamDrops,
     LeaveStream
<1>9. eof' \in BOOLEAN
  BY Changes DEF TypeOK, StreamCancelled, StreamEnds, Drained, ReadEnd, LeaveStream
<1>10. caller' \in [Callers -> {"idle", "checked", "engine", "list"}]
  BY Changes DEF TypeOK, CheckError, EnterCall, ListFlags, Return, Calling
<1>. QED
  BY <1>1, <1>2, <1>3, <1>4, <1>5, <1>6, <1>7, <1>8, <1>9, <1>10

(* Versions, ETags, snapshots and channels. *)
LEMMA StepContents ==
  ASSUME TypeOK, [Next]_vars
  PROVE  /\ store' \in 0..MaxVersion /\ etag' \in 0..MaxVersion
         /\ asked' \in 0..MaxVersion /\ pushed' \in 0..MaxVersion
         /\ errChan' \in 0..ChanCapacity
         /\ taken' \in Snapshots /\ found' \in Snapshots
         /\ snapshotChan' \in Seq(Snapshots) /\ Len(snapshotChan') <= ChanCapacity
<1>1. /\ srv \in 0..MaxVersion /\ store \in 0..MaxVersion /\ etag \in 0..MaxVersion
      /\ asked \in 0..MaxVersion /\ pushed \in 0..MaxVersion
      /\ taken.ver \in 0..MaxVersion /\ taken.etag \in 0..MaxVersion /\ 0 \in 0..MaxVersion
      /\ taken \in Snapshots /\ found \in Snapshots
      /\ snapshotChan \in Seq(Snapshots) /\ Len(snapshotChan) <= 1
      /\ errChan \in 0..1 /\ Version \subseteq 0..MaxVersion
  BY Numbers, Constants DEF TypeOK, Snapshots, ChanCapacity, Version
<1>2. store' \in 0..MaxVersion
  BY <1>1, Changes DEF StartFetched, ApplySnapshot
<1>3. etag' \in 0..MaxVersion
  BY <1>1, Changes DEF StartFetched, StoreEtag
<1>4. asked' \in 0..MaxVersion
  BY <1>1, Changes DEF FetcherStops, PollTick, PollAnswered, PollFails, NoEtag
<1>5. pushed' \in 0..MaxVersion
  BY <1>1, Changes DEF StreamCancelled, StreamEnds, Drained, ServerPushes, LeaveStream
<1>6. errChan' \in 0..1
  <2>1. \/ errChan' = errChan
        \/ errChan > 0 /\ errChan' = errChan - 1
        \/ errChan < 1 /\ errChan' = errChan + 1
    BY Changes DEF RecorderTakes, ReportEnd, SendError, ChanCapacity
  <2>. QED
    BY <1>1, <2>1
<1>7. taken' \in Snapshots
  BY <1>1, Changes, Taking, Constants DEF StoreEtag, ApplySnapshot
<1>8. found' \in Snapshots
  <2>1. CASE PollAnswered
    <3>1. found' \in {Snapshot(0, asked), Snapshot(srv, srv), Snapshot(0, srv)}
      BY <2>1 DEF PollAnswered, FetchesNothing
    <3>. QED
      BY <3>1, <1>1, SnapshotFacts
  <2>2. CASE StreamReads
    <3>1. /\ found' \in {found, Snapshot(readCh[1], 0), Snapshot(0, 0)}
          /\ readCh[1] \in 0..MaxVersion
      BY <2>2, <1>1, FrameTaken DEF NoEtag
    <3>2. Snapshot(readCh[1], 0) \in Snapshots /\ Snapshot(0, 0) \in Snapshots
      BY <3>1, <1>1, SnapshotFacts
    <3>. QED
      BY <3>1, <3>2, <1>1
  <2>. QED
    BY <1>1, <2>1, <2>2, Changes, Constants DEF SendSnapshot, SendFrame, StreamCancelled
<1>9. snapshotChan' \in Seq(Snapshots) /\ Len(snapshotChan') <= 1
  <2>1. CASE UpdaterTakes
    BY <2>1, Taking, EmptySeq
  <2>2. CASE SendSnapshot \/ SendFrame
    <3>1. snapshotChan' = <<found>>
      BY <2>2, Sending
    <3>. QED
      BY <3>1, <1>1, Single
  <2>. QED
    BY <1>1, <2>1, <2>2, Changes
<1>. QED
  BY <1>2, <1>3, <1>4, <1>5, <1>6, <1>7, <1>8, <1>9 DEF ChanCapacity

LEMMA StepFrames ==
  ASSUME TypeOK, [Next]_vars
  PROVE  /\ wire' \in Seq(Version) /\ Len(wire') <= WireBound
         /\ readCh' \in Seq(Version) /\ Len(readCh') <= 1
<1>1. /\ wire \in Seq(Version) /\ Len(wire) <= WireBound
      /\ readCh \in Seq(Version) /\ Len(readCh) <= 1
  BY DEF TypeOK
<1>2. CASE LeaveStream
  BY <1>2, EmptySeq, Constants DEF LeaveStream
<1>3. CASE ReadChunk
  <2>1. readCh' = <<wire[1]>> /\ wire[1] \in Version
        /\ wire' \in Seq(Version) /\ Len(wire') <= WireBound
    BY <1>3, FrameRead
  <2>. QED
    BY <2>1, Single
<1>4. CASE StreamReads
  BY <1>1, <1>4, FrameTaken, EmptySeq DEF StreamReads, Fetching, FetcherGoes, FetchesNothing
<1>5. CASE ServerPushes
  BY <1>1, <1>5, FramePushed
<1>. QED
  BY <1>1, <1>2, <1>3, <1>4, <1>5, Changes DEF StreamCancelled, StreamEnds, Drained

LEMMA StepTypeOK == ASSUME TypeOK, [Next]_vars PROVE TypeOK'
<1>1. lost' \subseteq Lossy
  BY Changes DEF TypeOK
<1>. QED
  BY <1>1, StepServerType, StepPlaces, StepContents, StepFrames DEF TypeOK

LEMMA InitTypeOK == ASSUME Init PROVE TypeOK
<1>1. ServerTypeOK
  BY Constants DEF Init, ServerInit, ServerTypeOK, Version, Cred
<1>2. caller \in [Callers -> {"idle", "checked", "engine", "list"}]
  BY DEF Init
<1>3. /\ mode \in FetchModes /\ life = "new" /\ lost = {}
      /\ ctxDone = FALSE /\ fctxDone = FALSE
      /\ store = 0 /\ err = FALSE /\ etag = 0
      /\ errChan = 0 /\ snapshotChan = <<>>
      /\ recorder = "select" /\ updater = "select" /\ taken = NoSnapshot
      /\ fetcher = "select" /\ asked = 0 /\ found = NoSnapshot
      /\ conn = "none" /\ wire = <<>> /\ pushed = 0 /\ readCh = <<>> /\ eof = FALSE
  BY DEF Init, NoEtag
<1>4. /\ snapshotChan \in Seq(Snapshots) /\ Len(snapshotChan) <= ChanCapacity
      /\ wire \in Seq(Version) /\ Len(wire) <= WireBound
      /\ readCh \in Seq(Version) /\ Len(readCh) <= 1
  BY <1>3, Nothing, Constants DEF ChanCapacity
<1>5. /\ store \in 0..MaxVersion /\ etag \in 0..MaxVersion /\ errChan \in 0..ChanCapacity
      /\ asked \in 0..MaxVersion /\ pushed \in 0..MaxVersion
  BY <1>3, Constants DEF ChanCapacity
<1>6. /\ taken \in Snapshots /\ found \in Snapshots /\ err \in BOOLEAN
      /\ ctxDone \in BOOLEAN /\ fctxDone \in BOOLEAN /\ eof \in BOOLEAN
  BY <1>3, Constants
<1>7. /\ life \in {"new", "open", "closing", "closed", "failed"}
      /\ recorder \in {"select", "record", "done"}
      /\ updater \in {"select", "etag", "apply", "engine", "report", "done"}
      /\ fetcher \in {"select", "fetch", "sendErr", "sendSnapshot", "connect",
                      "stream", "garbled", "sendFrame", "drain", "done"}
      /\ conn \in {"none", "open", "closed"}
  BY <1>3
<1>. QED
  BY <1>1, <1>2, <1>3, <1>4, <1>5, <1>6, <1>7 DEF TypeOK

-----------------------------------------------------------------------------
(* Exclusion, and the stages of goroutines and of streams. *)

LEMMA StepExclusive == ASSUME TypeOK, EngineIsExclusive, [Next]_vars PROVE EngineIsExclusive'
<1>1. caller \in [Callers -> {"idle", "checked", "engine", "list"}]
  BY DEF TypeOK
<1>2. CASE caller' = caller
  <2>1. updater' = "engine" => updater = "engine" \/ CanLock
    BY Changes DEF UpdaterStops, UpdaterTakes, StoreEtag, EnterEngine, ApplySnapshot, ReportEnd
  <2>. QED
    BY <1>1, <1>2, <2>1 DEF EngineIsExclusive, InEngine, CanLock, WriterInside
<1>3. ASSUME NEW c \in Callers,
             CheckError(c) \/ EnterCall(c) \/ ListFlags(c) \/ Return(c)
      PROVE  EngineIsExclusive'
  <2>1. /\ updater' = updater
        /\ \A d \in Callers : d # c => caller'[d] = caller[d]
        /\ caller'[c] = "engine" => CanLock
        /\ caller'[c] = "list" => CanRLock
    BY <1>1, <1>3 DEF CheckError, EnterCall, ListFlags, Return, Calling, workerVars
  <2>. QED
    BY <1>1, <2>1 DEF EngineIsExclusive, InEngine, CanLock, CanRLock, WriterInside
<1>. QED
  BY <1>2, <1>3, Changes

LEMMA StepStreams == ASSUME Streams, [Next]_vars PROVE Streams'
<1>1. \/ UNCHANGED <<conn, fetcher>>
      \/ conn = "none" /\ conn' = "none" /\ fetcher \notin {"stream", "garbled", "sendFrame", "drain"}
           /\ fetcher' \notin {"stream", "garbled", "sendFrame", "drain"}
      \/ conn # "none" /\ conn' # "none" /\ fetcher \in {"stream", "garbled", "sendFrame", "drain"}
           /\ fetcher' \in {"stream", "garbled", "sendFrame", "drain"}
      \/ Connected
      \/ LeaveStream /\ fetcher' \notin {"stream", "garbled", "sendFrame", "drain"}
  BY Changes DEF Streams, Fetching, FetcherGoes, FetchesNothing, FetcherStops, PollTick, PollAnswered, PollFails, SendError,
     SendSnapshot, Connect, StreamCancelled, StreamEnds, StreamReads, SendFrame, Drained,
     StreamDrops, streamVars
<1>2. \/ UNCHANGED <<wire, readCh>>
      \/ LeaveStream
      \/ conn # "none" /\ (ReadChunk \/ StreamReads \/ ServerPushes)
  BY Changes DEF Streams, StreamCancelled, StreamEnds, StreamReads, Drained, ReadChunk,
     ServerPushes, Reading
<1>. QED
  BY <1>1, <1>2 DEF Streams, LeaveStream, Connected, Fetching, FetcherGoes, FetchesNothing, ReadChunk, StreamReads, ServerPushes,
     Reading

LEMMA StepStages == ASSUME TypeOK, Stages, Streams, [Next]_vars PROVE Stages'
<1>1. /\ updater' \in {"select", "report", "done"} => taken' = NoSnapshot
      /\ updater' \in {"apply", "engine"} => taken'.ver # 0
  BY Changes DEF Stages, UpdaterStops, UpdaterTakes, StoreEtag, EnterEngine, ApplySnapshot,
     ReportEnd, NotModified
<1>2. ASSUME life' = "new"
      PROVE  /\ store' = 0 /\ ~err' /\ updater' = "select" /\ snapshotChan' = <<>>
             /\ found' = NoSnapshot /\ asked' = NoEtag /\ fetcher' = "select"
             /\ recorder' = "select"
  <2>1. life = "new"
    BY <1>2, Changes DEF StartFetched, StartUnreachable, StartRefused, CloseBegins, CloseEnds
  <2>2. /\ store = 0 /\ ~err /\ updater = "select" /\ snapshotChan = <<>>
        /\ found = NoSnapshot /\ asked = NoEtag /\ fetcher = "select" /\ recorder = "select"
        /\ ~Started
    BY <2>1 DEF Stages, Started
  <2>3. store' = 0 /\ ~err'
    BY <1>2, <2>2, Changes DEF StartFetched, StartUnreachable, ApplySnapshot, RecordError
  <2>4. updater' = "select" /\ recorder' = "select"
    BY <2>2, Changes DEF UpdaterStops, UpdaterTakes, StoreEtag, EnterEngine, ApplySnapshot,
       ReportEnd, RecorderStops, RecorderTakes, RecordError
  <2>5. fetcher' = "select" /\ asked' = NoEtag
    BY <2>2, Changes DEF Fetching, FetcherGoes, FetchesNothing, FetcherStops, PollTick, PollAnswered, PollFails, SendError,
       SendSnapshot, Connect, Connected, StreamCancelled, StreamEnds, StreamReads, SendFrame,
       Drained
  <2>6. snapshotChan' = <<>> /\ found' = NoSnapshot
    BY <2>2, Changes DEF Fetching, FetcherGoes, FetchesNothing, UpdaterTakes, SendSnapshot, SendFrame, PollAnswered,
       StreamCancelled, StreamReads
  <2>. QED
    BY <2>3, <2>4, <2>5, <2>6
<1>3. ASSUME life' \in {"closing", "closed"}
      PROVE  \A c \in Callers : caller'[c] = "idle"
  <2>1. life \in {"closing", "closed"} \/ CloseBegins
    BY <1>3, Changes DEF StartFetched, StartUnreachable, StartRefused, CloseEnds
  <2>2. caller' = caller
    BY <1>3, <2>1, Changes DEF CheckError, EnterCall, ListFlags, Return, Calling, CloseBegins
  <2>. QED
    BY <2>1, <2>2 DEF Stages, CloseBegins
<1>4. ASSUME life' = "closed"
      PROVE  recorder' = "done" /\ updater' = "done" /\ fetcher' = "done" /\ fctxDone'
  <2>1. recorder = "done" /\ updater = "done" /\ fetcher = "done" /\ fctxDone
    BY <1>4, Changes DEF StartFetched, StartUnreachable, StartRefused, CloseBegins, CloseEnds, Stages
  <2>2. updater' = "done" /\ recorder' = "done" /\ fctxDone'
    BY <2>1, Changes DEF UpdaterStops, UpdaterTakes, StoreEtag, EnterEngine, ApplySnapshot,
       ReportEnd, RecorderStops, RecorderTakes, RecordError, CancelRequests
  <2>3. fetcher' = "done"
    BY <2>1, Changes DEF FetcherStops, PollTick, PollAnswered, PollFails, SendError,
       SendSnapshot, Connect, Connected, StreamCancelled, StreamEnds, StreamReads, SendFrame,
       Drained
  <2>. QED
    BY <2>2, <2>3
<1>. QED
  BY <1>1, <1>2, <1>3, <1>4 DEF Stages

-----------------------------------------------------------------------------
(* The line of versions from the server to the engine.  What a step does to it. *)
LEMMA LineSteps ==
  ASSUME TypeOK, Stages, Streams, [Next]_vars
  PROVE  \/ UNCHANGED <<srv, store, taken, snapshotChan, found, readCh, wire>>
         \/ srv' = srv + 1 /\ UNCHANGED <<store, taken, snapshotChan, found, readCh, wire>>
         \/ /\ StartFetched /\ store' = srv /\ store = 0
            /\ taken' = NoSnapshot /\ found' = NoSnapshot /\ snapshotChan' = <<>>
            /\ readCh' = <<>> /\ wire' = <<>> /\ srv' = srv
         \/ UpdaterTakes
         \/ /\ StoreEtag \/ ApplySnapshot
            /\ taken' \in {taken, NoSnapshot}
            /\ UNCHANGED <<srv, store, snapshotChan, found, readCh, wire>>
         \/ /\ ApplySnapshot /\ store' = taken.ver /\ taken.ver # 0 /\ taken' = NoSnapshot
            /\ UNCHANGED <<srv, snapshotChan, found, readCh, wire>>
         \/ /\ PollAnswered
            /\ found' \in {Snapshot(0, asked), Snapshot(srv, srv), Snapshot(0, srv)}
            /\ readCh' = <<>> /\ wire' = <<>>
            /\ UNCHANGED <<srv, store, taken, snapshotChan>>
         \/ SendSnapshot \/ SendFrame
         \/ StreamReads
         \/ /\ readCh' = <<>> /\ wire' = <<>> /\ found' \in {found, NoSnapshot}
            /\ UNCHANGED <<srv, store, taken, snapshotChan>>
         \/ ReadChunk
         \/ ServerPushes
<1>1. CASE Server
  BY <1>1 DEF Server, ServerNext, Publish, GoDown, ComeUp, RotateCredential, clientVars,
     guardedVars, chanVars, workerVars, fetchVars, streamVars
<1>2. CASE StartFetched
  <2>1. taken = NoSnapshot /\ found = NoSnapshot /\ snapshotChan = <<>> /\ store = 0
        /\ fetcher = "select"
    BY <1>2 DEF Stages, StartFetched
  <2>2. readCh = <<>> /\ wire = <<>>
    BY <2>1 DEF Streams
  <2>3. /\ store' = srv
        /\ UNCHANGED <<srv, taken, found, snapshotChan, readCh, wire>>
    BY <1>2 DEF StartFetched, serverVars, chanVars, workerVars, fetchVars, streamVars
  <2>. QED
    BY <1>2, <2>1, <2>2, <2>3
<1>3. CASE StoreEtag
  BY <1>3 DEF StoreEtag, serverVars, guardedVars, chanVars, fetchVars, streamVars
<1>4. CASE ApplySnapshot
  BY <1>4 DEF ApplySnapshot, Stages, serverVars, guardedVars, chanVars, fetchVars, streamVars
<1>5. CASE PollAnswered
  <2>1. readCh = <<>> /\ wire = <<>>
    BY <1>5 DEF PollAnswered, Streams
  <2>. QED
    BY <1>5, <2>1 DEF PollAnswered, Fetching, FetcherGoes, FetchesNothing, serverVars, guardedVars, chanVars, workerVars,
       streamVars
<1>6. CASE StreamCancelled \/ StreamEnds \/ Drained
  BY <1>6 DEF StreamCancelled, StreamEnds, Drained, LeaveStream, Fetching, FetcherGoes, FetchesNothing, serverVars,
     guardedVars, chanVars, workerVars, fetchVars
<1>7. CASE StreamDrops
  BY <1>7 DEF StreamDrops, serverVars, guardedVars, chanVars, workerVars, fetchVars
<1>. QED
  <2>1. ASSUME ~Server, ~StartFetched, ~UpdaterTakes, ~StoreEtag, ~ApplySnapshot,
               ~PollAnswered, ~SendSnapshot, ~SendFrame, ~StreamReads, ~StreamCancelled,
               ~StreamEnds, ~Drained, ~ReadChunk, ~ServerPushes, ~StreamDrops
        PROVE  UNCHANGED <<srv, store, taken, snapshotChan, found, readCh, wire>>
    BY <2>1, Changes DEF serverVars
  <2>. QED
    BY <1>1, <1>2, <1>3, <1>4, <1>5, <1>6, <1>7, <2>1

LEMMA StepInLine ==
  ASSUME TypeOK, Stages, Streams, InLine, FramesInLine, [Next]_vars
  PROVE  InLine'
<1>. USE Numbers, Constants DEF InLine, Newest
<1>1. CASE UNCHANGED <<srv, store, taken, snapshotChan, found, readCh, wire>>
  BY <1>1
<1>2. CASE srv' = srv + 1 /\ UNCHANGED <<store, taken, snapshotChan, found, readCh, wire>>
  BY <1>2
<1>3. CASE /\ StartFetched /\ store' = srv
           /\ taken' = NoSnapshot /\ found' = NoSnapshot /\ snapshotChan' = <<>> /\ srv' = srv
  BY <1>3
<1>4. CASE UpdaterTakes
  <2>1. /\ taken' = snapshotChan[1] /\ 1 \in DOMAIN snapshotChan /\ snapshotChan' = <<>>
        /\ UNCHANGED <<srv, store, found>>
    BY <1>4, Taking
  <2>. QED
    BY <2>1
<1>5. CASE taken' \in {taken, NoSnapshot} /\ UNCHANGED <<srv, store, snapshotChan, found>>
  BY <1>5
<1>6. CASE /\ store' = taken.ver /\ taken.ver # 0 /\ taken' = NoSnapshot
           /\ UNCHANGED <<srv, snapshotChan, found>>
  BY <1>6
<1>7. CASE /\ found' \in {Snapshot(0, asked), Snapshot(srv, srv), Snapshot(0, srv)}
           /\ UNCHANGED <<srv, store, taken, snapshotChan>>
  <2>1. found'.ver \in {0, srv}
    BY <1>7 DEF Snapshot
  <2>. QED
    BY <1>7, <2>1
<1>8. CASE SendSnapshot \/ SendFrame
  <2>1. /\ snapshotChan' = <<found>> /\ found' = NoSnapshot /\ UNCHANGED <<srv, store, taken>>
    BY <1>8, Sending
  <2>2. DOMAIN snapshotChan' = {1} /\ snapshotChan'[1] = found
    BY <2>1, Single
  <2>. QED
    BY <2>1, <2>2
<1>9. CASE StreamReads
  <2>1. /\ 1 \in DOMAIN readCh /\ UNCHANGED <<srv, store, taken, snapshotChan>>
        /\ found' \in {found, Snapshot(readCh[1], NoEtag), Snapshot(0, NoEtag)}
    BY <1>9, FrameTaken
  <2>2. found'.ver \in {found.ver, readCh[1], 0}
    BY <2>1 DEF Snapshot
  <2>. QED
    BY <2>1, <2>2 DEF FramesInLine
<1>10. CASE found' \in {found, NoSnapshot} /\ UNCHANGED <<srv, store, taken, snapshotChan>>
  BY <1>10
<1>11. CASE ReadChunk \/ ServerPushes
  <2>1. UNCHANGED <<srv, store, taken, snapshotChan, found>>
    BY <1>11, FrameRead, FramePushed
  <2>. QED
    BY <2>1
<1>. HIDE DEF InLine, Newest
<1>. QED
  BY <1>1, <1>2, <1>3, <1>4, <1>5, <1>6, <1>7, <1>8, <1>9, <1>10, <1>11, LineSteps

LEMMA StepFramesInLine ==
  ASSUME TypeOK, Stages, Streams, InLine, FramesInLine, [Next]_vars
  PROVE  FramesInLine'
<1>. USE Numbers, Constants DEF InLine, FramesInLine, Newest
<1>1. CASE UNCHANGED <<srv, store, taken, snapshotChan, found, readCh, wire>>
  BY <1>1
<1>2. CASE srv' = srv + 1 /\ UNCHANGED <<store, taken, snapshotChan, found, readCh, wire>>
  BY <1>2
<1>3. CASE readCh' = <<>> /\ wire' = <<>>
  BY <1>3, Nothing
<1>4. CASE UpdaterTakes
  <2>1. /\ taken' = snapshotChan[1] /\ 1 \in DOMAIN snapshotChan /\ snapshotChan' = <<>>
        /\ UNCHANGED <<srv, store, found, readCh, wire>>
    BY <1>4, Taking
  <2>. QED
    BY <2>1, Nothing
<1>5. CASE taken' \in {taken, NoSnapshot} /\ UNCHANGED <<srv, store, snapshotChan, found, readCh, wire>>
  BY <1>5
<1>6. CASE /\ store' = taken.ver /\ taken.ver # 0 /\ taken' = NoSnapshot
           /\ UNCHANGED <<srv, snapshotChan, found, readCh, wire>>
  BY <1>6
<1>8. CASE SendSnapshot \/ SendFrame
  <2>1. /\ snapshotChan' = <<found>> /\ found' = NoSnapshot
        /\ UNCHANGED <<srv, store, taken, readCh, wire>>
    BY <1>8, Sending
  <2>2. DOMAIN snapshotChan' = {1} /\ snapshotChan'[1] = found
    BY <2>1, Single
  <2>. QED
    BY <2>1, <2>2
<1>9. CASE StreamReads
  <2>1. /\ 1 \in DOMAIN readCh /\ UNCHANGED <<srv, store, taken, snapshotChan, wire>>
        /\ readCh' = <<>>
        /\ found' \in {found, Snapshot(readCh[1], NoEtag), Snapshot(0, NoEtag)}
    BY <1>9, FrameTaken
  <2>2. found'.ver \in {found.ver, readCh[1], 0}
    BY <2>1 DEF Snapshot
  <2>. QED
    BY <2>1, <2>2, Nothing
<1>11. CASE ReadChunk
  <2>1. /\ readCh' = <<wire[1]>> /\ 1 \in DOMAIN wire
        /\ \A k \in DOMAIN wire' : k + 1 \in DOMAIN wire /\ wire'[k] = wire[k + 1] /\ k \in Nat \ {0}
        /\ UNCHANGED <<srv, store, taken, snapshotChan, found>>
    BY <1>11, FrameRead
  <2>2. DOMAIN readCh' = {1} /\ readCh'[1] = wire[1]
    BY <2>1, Single
  <2>3. \A k \in DOMAIN wire' : Newest(wire'[k], wire[1])
    BY <2>1
  <2>4. \A k \in DOMAIN wire' : \A j \in DOMAIN wire' : j < k => Newest(wire'[k], wire'[j])
    <3>1. \A k, j \in DOMAIN wire' : j < k => j + 1 < k + 1
      BY <2>1
    <3>. QED
      BY <2>1, <3>1
  <2>. QED
    BY <2>1, <2>2, <2>3, <2>4
<1>12. CASE ServerPushes
  <2>1. \A k \in DOMAIN wire' :
          \/ k \in DOMAIN wire /\ wire'[k] = wire[k]
          \/ k = Len(wire) + 1 /\ wire'[k] = srv
    BY <1>12, FramePushed
  <2>2. /\ \A k \in DOMAIN wire : k < Len(wire) + 1 /\ k \in Nat
        /\ Len(wire) \in Nat
        /\ UNCHANGED <<srv, store, taken, snapshotChan, found, readCh>>
    <3>1. wire \in Seq(Version)
      BY DEF TypeOK
    <3>2. Len(wire) \in Nat /\ DOMAIN wire = 1..Len(wire)
      BY <3>1, LenProperties
    <3>. QED
      BY <1>12, FramePushed, <3>2
  <2>3. \A k \in DOMAIN wire' : \A j \in DOMAIN wire' : j < k => Newest(wire'[k], wire'[j])
    <3>. SUFFICES ASSUME NEW k \in DOMAIN wire', NEW j \in DOMAIN wire', j < k
                  PROVE  Newest(wire'[k], wire'[j])
      OBVIOUS
    <3>1. j \in DOMAIN wire /\ wire'[j] = wire[j]
      BY <2>1, <2>2
    <3>. QED
      BY <2>1, <2>2, <3>1
  <2>. QED
    BY <2>1, <2>2, <2>3
<1>. HIDE DEF InLine, FramesInLine, Newest
<1>. QED
  BY <1>1, <1>2, <1>3, <1>4, <1>5, <1>6, <1>8, <1>9, <1>11, <1>12, LineSteps

-----------------------------------------------------------------------------
(* ETags. *)

(* An ETag that has arrived stays so: when the engine installs the document
   it is there, when the engine refuses it the version is lost. *)
LEMMA ArrivedStays ==
  ASSUME TypeOK, Stages, InLine, EtagsArrive, [Next]_vars, NEW e \in Nat, Arrived(e)
  PROVE  \/ e <= store'
         \/ updater' \in {"apply", "engine"} /\ e = taken'.etag
         \/ e \in lost'
<1>1. CASE e \in lost
  BY <1>1, Changes
<1>2. CASE e <= store
  <2>1. CASE StartFetched
    BY <1>2, <2>1, Numbers DEF StartFetched, Stages
  <2>2. CASE ApplySnapshot
    <3>1. store' \in {store, taken.ver} /\ store <= taken.ver
      BY <2>2, Numbers DEF ApplySnapshot, Stages, InLine, Newest
    <3>. QED
      BY <1>2, <3>1, Numbers
  <2>3. CASE store' = store
    BY <1>2, <2>3
  <2>. QED
    BY <2>1, <2>2, <2>3, Changes
<1>3. CASE updater \in {"apply", "engine"} /\ e = taken.etag
  <2>1. CASE ApplySnapshot
    <3>1. e = 0 \/ e = taken.ver
      BY <1>3 DEF EtagsArrive, Own, NoEtag
    <3>2. store' = taken.ver \/ lost' = lost \cup {taken.ver}
      BY <2>1 DEF ApplySnapshot
    <3>3. store' \in Nat
      BY StepContents, Constants
    <3>. QED
      BY <3>1, <3>2, <3>3
  <2>2. CASE ~ApplySnapshot
    <3>1. updater' \in {"apply", "engine"}
      BY <1>3, <2>2, Changes DEF UpdaterStops, UpdaterTakes, StoreEtag, EnterEngine, ReportEnd
    <3>2. taken' = taken
      BY <1>3, <2>2, Changes DEF UpdaterTakes, StoreEtag
    <3>. QED
      BY <1>3, <3>1, <3>2
  <2>. QED
    BY <2>1, <2>2
<1>. QED
  BY <1>1, <1>2, <1>3 DEF Arrived

LEMMA StepEtags ==
  ASSUME TypeOK, Stages, InLine, EtagsArrive, [Next]_vars
  PROVE  EtagsArrive'
<1>. DEFINE Next_(e) == \/ e <= store'
                        \/ updater' \in {"apply", "engine"} /\ e = taken'.etag
                        \/ e \in lost'
            Brought(s) == IF s.ver = 0 THEN Next_(s.etag) ELSE s.etag = 0 \/ s.etag = s.ver
<1>1. \A e \in Nat : Arrived(e) => Next_(e)
  BY ArrivedStays
<1>2. \A s \in Snapshots : Carried(s) => Brought(s)
  BY <1>1, Constants DEF Carried, NotModified, Snapshots, Own, NoEtag
<1>3. store' \in Nat
  BY StepContents, Constants
<1>4. Next_(0) /\ Brought(NoSnapshot)
  BY <1>3, Constants
<1>5. Next_(etag')
  <2>1. CASE StartFetched
    BY <2>1, <1>3 DEF StartFetched
  <2>2. CASE StoreEtag
    <3>1. etag' = taken.etag /\ Carried(taken) /\ taken \in Snapshots
          /\ (taken.ver # 0 => updater' = "apply" /\ taken' = taken)
      BY <2>2 DEF StoreEtag, NotModified, EtagsArrive, TypeOK
    <3>2. Brought(taken)
      BY <3>1, <1>2
    <3>. QED
      BY <3>1, <3>2
  <2>3. CASE etag' = etag
    BY <2>3, <1>1, Numbers DEF EtagsArrive
  <2>. QED
    BY <2>1, <2>2, <2>3, Changes
<1>6. Next_(asked')
  <2>1. CASE PollTick
    BY <2>1, <1>1, Numbers DEF PollTick, EtagsArrive
  <2>2. CASE asked' = NoEtag
    BY <2>2, <1>4 DEF NoEtag
  <2>3. CASE asked' = asked
    BY <2>3, <1>1, Numbers DEF EtagsArrive
  <2>. QED
    BY <2>1, <2>2, <2>3, Changes DEF FetcherStops, PollAnswered, PollFails
<1>7. Brought(found')
  <2>1. CASE PollAnswered
    <3>1. CASE found' = Snapshot(0, asked)
      <4>1. found'.ver = 0 /\ found'.etag = asked
        BY <3>1 DEF Snapshot
      <4>. QED
        BY <4>1, <1>1, Numbers DEF EtagsArrive
    <3>2. CASE found' = Snapshot(srv, srv)
      <4>1. found'.ver = srv /\ found'.etag = srv
        BY <3>2 DEF Snapshot
      <4>. QED
        BY <4>1, Numbers
    <3>3. CASE found' = Snapshot(0, srv) /\ srv \in lost'
      <4>1. found'.ver = 0 /\ found'.etag = srv
        BY <3>3 DEF Snapshot
      <4>. QED
        BY <4>1, <3>3
    <3>. QED
      BY <2>1, <3>1, <3>2, <3>3 DEF PollAnswered, FetchesNothing
  <2>2. CASE StreamReads /\ found' # found
    <3>1. found' \in {Snapshot(readCh[1], NoEtag), Snapshot(0, NoEtag)}
      BY <2>2, FrameTaken
    <3>2. found'.etag = 0
      BY <3>1 DEF Snapshot, NoEtag
    <3>. QED
      BY <3>2, <1>4
  <2>3. CASE found' = NoSnapshot
    BY <2>3, <1>4
  <2>4. CASE found' = found
    BY <2>4, <1>2 DEF EtagsArrive, TypeOK
  <2>. QED
    BY <2>1, <2>2, <2>3, <2>4, Changes DEF SendSnapshot, SendFrame, StreamCancelled
<1>8. \A i \in DOMAIN snapshotChan' : Brought(snapshotChan'[i])
  <2>1. CASE UpdaterTakes
    BY <2>1, Taking, Nothing
  <2>2. CASE SendSnapshot \/ SendFrame
    <3>1. DOMAIN snapshotChan' = {1} /\ snapshotChan'[1] = found
      BY <2>2, Sending, Single
    <3>. QED
      BY <3>1, <1>2 DEF EtagsArrive, TypeOK
  <2>3. CASE snapshotChan' = snapshotChan
    BY <2>3, <1>2, Numbers DEF EtagsArrive
  <2>. QED
    BY <2>1, <2>2, <2>3, Changes
<1>9. updater' = "etag" => Brought(taken')
  <2>1. CASE UpdaterTakes
    <3>1. taken' = snapshotChan[1] /\ 1 \in DOMAIN snapshotChan /\ taken' \in Snapshots
      BY <2>1, Taking
    <3>. QED
      BY <3>1, <1>2, Numbers DEF EtagsArrive
  <2>2. CASE ~UpdaterTakes
    <3>. SUFFICES ASSUME updater' = "etag" PROVE Brought(taken')
      OBVIOUS
    <3>1. updater = "etag" /\ taken' = taken
      BY <2>2, Changes DEF UpdaterStops, StoreEtag, EnterEngine, ApplySnapshot, ReportEnd
    <3>. QED
      BY <3>1, <1>2 DEF EtagsArrive, TypeOK
  <2>. QED
    BY <2>1, <2>2
<1>10. updater' \in {"apply", "engine"} => taken'.etag = 0 \/ taken'.etag = taken'.ver
  <2>. SUFFICES ASSUME updater' \in {"apply", "engine"}
                PROVE  taken'.etag = 0 \/ taken'.etag = taken'.ver
    OBVIOUS
  <2>1. taken' = taken /\ (updater \in {"apply", "engine"} \/ (StoreEtag /\ ~NotModified(taken)))
    BY Changes DEF UpdaterStops, UpdaterTakes, StoreEtag, EnterEngine, ApplySnapshot, ReportEnd
  <2>. QED
    BY <2>1 DEF EtagsArrive, StoreEtag, Carried, Own, NoEtag
<1>. QED
  BY <1>5, <1>6, <1>7, <1>8, <1>9, <1>10 DEF EtagsArrive, Arrived, Carried, NotModified, Own,
     NoEtag

-----------------------------------------------------------------------------
(* The invariant holds. *)

LEMMA InitGoInv == Init => GoInv
<1>. SUFFICES ASSUME Init PROVE GoInv
  OBVIOUS
<1>1. TypeOK
  BY InitTypeOK
<1>2. /\ srv = 1 /\ life = "new" /\ store = 0 /\ err = FALSE /\ etag = 0 /\ asked = 0
      /\ taken = NoSnapshot /\ found = NoSnapshot /\ snapshotChan = <<>>
      /\ updater = "select" /\ fetcher = "select" /\ recorder = "select"
      /\ readCh = <<>> /\ wire = <<>> /\ conn = "none"
      /\ \A c \in Callers : caller[c] = "idle"
  BY DEF Init, ServerInit, NoEtag
<1>3. EngineIsExclusive
  BY <1>2 DEF EngineIsExclusive, InEngine
<1>4. Stages /\ Streams
  BY <1>2 DEF Stages, Streams, NoEtag
<1>5. InLine /\ FramesInLine
  BY <1>2, Nothing, Constants DEF InLine, FramesInLine, Newest
<1>6. EtagsArrive
  BY <1>2, Nothing, Constants DEF EtagsArrive, Arrived, Carried, NotModified
<1>. QED
  BY <1>1, <1>3, <1>4, <1>5, <1>6 DEF GoInv

LEMMA StepGoInv == GoInv /\ [Next]_vars => GoInv'
BY StepTypeOK, StepExclusive, StepStages, StepStreams, StepInLine, StepFramesInLine, StepEtags
DEF GoInv

-----------------------------------------------------------------------------
(* The theorems. *)

(* GoInv is an invariant: versions stay in order on their way from the server
   over the stream and the channel to the engine, and an ETag that is ahead
   of the engine and not on its way to it is that of a lost version
   (client.go:598-693, 785-903). *)
THEOREM GoInvariance == Spec => []GoInv
BY InitGoInv, StepGoInv, PTL DEF Spec

(* The types of the client's state, and its channels never hold more than
   their capacity (client.go:163-164). *)
THEOREM GoTypeCorrect == Spec => []TypeOK
<1>1. GoInv => TypeOK
  BY DEF GoInv
<1>. QED
  BY <1>1, GoInvariance, PTL

(* c.etag is that of a document the engine has or is being given, or of a
   version that came as something that is no document: ApplySnapshot may be
   refused (client.go:617-623, 646-659, 679-693). *)
THEOREM GoEtagSound == Spec => []EtagIsTaken
<1>1. GoInv => EtagIsTaken
  BY DEF GoInv, EtagsArrive, Arrived, EtagIsTaken
<1>. QED
  BY <1>1, GoInvariance, PTL

(* c.mu keeps the goroutines apart inside the WASM module, however many call
   (client.go:478, 631, 939). *)
THEOREM GoExclusion == Spec => []EngineIsExclusive
<1>1. GoInv => EngineIsExclusive
  BY DEF GoInv
<1>. QED
  BY <1>1, GoInvariance, PTL

(* After Close nothing of the client moves (client.go:541-555). *)
THEOREM GoQuiescence == Spec => QuietAfterClose
<1>1. GoInv /\ [Next]_vars => [life = "closed" => UNCHANGED clientVars]_vars
  <2>. SUFFICES ASSUME GoInv, Next, life = "closed"
                PROVE  UNCHANGED clientVars
    BY DEF vars
  <2>1. /\ recorder = "done" /\ updater = "done" /\ fetcher = "done" /\ fctxDone
        /\ conn = "none"
    BY DEF GoInv, Stages, Streams
  <2>2. ~NewClient /\ ~Recorder /\ ~HandleUpdates /\ ~CancelRequests
    BY <2>1 DEF NewClient, StartFetched, StartUnreachable, StartRefused, Recorder, RecorderStops,
       RecorderTakes, RecordError, HandleUpdates, UpdaterStops, UpdaterTakes, StoreEtag,
       EnterEngine, ApplySnapshot, ReportEnd, CancelRequests
  <2>3. ~Fetcher /\ ~Answered
    BY <2>1 DEF Fetcher, Answered, Fetching, FetcherGoes, FetchesNothing, FetcherStops, PollTick, PollAnswered, PollFails,
       SendError, SendSnapshot, Connect, Connected, StreamCancelled, StreamEnds, StreamReads,
       SendFrame, Drained
  <2>4. ~Reader /\ ~ServerPushes /\ ~StreamDrops
    BY <2>1 DEF Reader, ReadChunk, ReadEnd, Reading, ServerPushes, StreamDrops
  <2>5. \A c \in Callers : ~CheckError(c) /\ ~EnterCall(c) /\ ~ListFlags(c) /\ ~Return(c)
    BY DEF CheckError, EnterCall, ListFlags, Return, Calling
  <2>6. ~UserCancels /\ ~CloseBegins /\ ~CloseEnds
    BY DEF UserCancels, CloseBegins, CloseEnds
  <2>. QED
    BY <2>2, <2>3, <2>4, <2>5, <2>6 DEF Next, Server
<1>. QED
  BY <1>1, GoInvariance, PTL DEF QuietAfterClose, Spec

(* The client is an implementation of the view that every client promises
   (client.go:78-263). *)
THEOREM GoImplementation == Spec => ImplementsView
<1>1. Init => View!ViewInit
  BY DEF Init, ServerInit, View!ViewInit, Refusing
<1>2. GoInv /\ [Next]_vars => [View!ViewNext]_View!viewVars
  <2>. SUFFICES ASSUME GoInv, [Next]_vars
                PROVE  View!ViewNext \/ UNCHANGED View!viewVars
    OBVIOUS
  <2>. USE DEF View!ViewNext, View!viewVars
  <2>0. TypeOK /\ Stages /\ InLine
    BY DEF GoInv
  <2>1. CASE StartFetched
    <3>1. /\ store = 0 /\ store' = srv /\ srv' = srv /\ life # "closed" /\ life' # "closed"
          /\ ~Refusing'
      BY <2>0, <2>1 DEF Stages, StartFetched, Refusing, serverVars
    <3>. QED
      BY <3>1, <2>0, Numbers DEF View!Advance
  <2>2. CASE ApplySnapshot
    <3>1. /\ store' \in {store, taken.ver} /\ taken.ver # 0 /\ srv' = srv /\ life # "closed"
          /\ life' = life /\ ~Refusing'
      BY <2>0, <2>2 DEF Stages, ApplySnapshot, Refusing, serverVars
    <3>2. store' \in store..srv
      BY <3>1, <2>0, Numbers DEF InLine, Newest
    <3>. QED
      BY <3>1, <3>2 DEF View!Advance
  <2>3. CASE RecordError
    <3>1. /\ UNCHANGED <<srv, store, life>> /\ life # "closed"
          /\ Refusing' = (Strategy = "fail")
      BY <2>0, <2>3 DEF Stages, RecordError, Refusing, serverVars
    <3>2. Refusing => Strategy = "fail"
      BY DEF Refusing
    <3>. QED
      BY <3>1, <3>2 DEF View!StartFailing, Refusing
  <2>4. CASE StartUnreachable
    <3>1. /\ UNCHANGED <<srv, store>> /\ life # "closed" /\ life' # "closed"
          /\ ~Refusing /\ ~Refusing'
      BY <2>0, <2>4 DEF Stages, StartUnreachable, Refusing, serverVars
    <3>2. Refusing' = Refusing /\ (life' = "closed") = (life = "closed")
      BY <3>1 DEF Refusing
    <3>. QED
      BY <3>1, <3>2
  <2>5. CASE ~StartFetched /\ ~ApplySnapshot /\ ~RecordError /\ ~StartUnreachable
    <3>1. UNCHANGED <<store, err>>
      BY <2>5, Changes
    <3>2. Refusing' = Refusing
      BY <3>1 DEF Refusing
    <3>3. CASE CloseEnds
      BY <3>1, <3>2, <3>3 DEF CloseEnds, View!Close, serverVars
    <3>4. CASE ~CloseEnds
      <4>1. (life' = "closed") = (life = "closed")
        BY <2>5, <3>4, Changes DEF CloseBegins, StartRefused
      <4>2. srv' = srv \/ srv' = srv + 1
        BY Changes DEF Server, ServerNext, Publish, GoDown, ComeUp, RotateCredential,
           StreamDrops, serverVars
      <4>. QED
        BY <3>1, <3>2, <4>1, <4>2 DEF View!PublishVersion
    <3>. QED
      BY <3>3, <3>4
  <2>. QED
    BY <2>1, <2>2, <2>3, <2>4, <2>5
<1>. QED
  BY <1>1, <1>2, GoInvariance, PTL DEF Spec, ImplementsView, View!ViewSpec
==============================================================================
