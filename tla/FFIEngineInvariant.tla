------------------------- MODULE FFIEngineInvariant -------------------------
(***************************************************************************)
(* The inductive invariant from which the safety properties of FFIEngine   *)
(* follow: InOrder, which says that documents do not overtake each other,  *)
(* with what the program counters say about the state of the tasks and     *)
(* what the read lock says about the calls in progress.                    *)
(***************************************************************************)
EXTENDS FFIEngineProperties

(* Where a result, a stream or a request can exist. *)
FetcherControl ==
  /\ reply.kind # "none" => InFlight
  /\ reply.kind = "broken" => BodyFaults
  /\ pc # "send" => res = Err
  /\ conn = "none" => wire = <<>>
  /\ conn # "none" =>
       Mode = "streaming" /\ pc \in {"streamCheck", "streamArm", "streamWait", "send"}
  /\ pc \in {"polling", "pause", "pauseArm", "pauseWait"} => Mode = "polling"
  /\ pc = "connecting" => Mode = "streaming"
  /\ pc \in {"pauseArm", "pauseWait"} => elapsed < Interval

(* The life of the engine and of its tasks. *)
EngineControl ==
  /\ life = "new" <=> pc \in {"start", "initial"}
  /\ life = "new" => chan = <<>> /\ updater = "recv"
  /\ updater # "apply" => held = Err
  /\ updater = "done" => pc = "done" /\ chan = <<>>
  /\ life = "gone" => updater = "done"
  /\ life # "live" => WriteLockFree

(* What the read lock guarantees to a call in progress. *)
Reads ==
  \A c \in Callers :
    /\ seen[c] \subseteq {store}
    /\ Idle(c) => seen[c] = {}
    /\ got[c].ver <= store

IInv ==
  /\ TypeOK
  /\ FetcherControl
  /\ EngineControl
  /\ Reads
  /\ InOrder
=============================================================================
