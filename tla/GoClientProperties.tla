------------------------- MODULE GoClientProperties -------------------------
(***************************************************************************)
(* What the Go client has to guarantee, and what its documentation says.   *)
(***************************************************************************)
EXTENDS GoClient

(* The client implements the view every client promises: whatever the order
   in which fetches, errors, streams and cancellations happen, the engine's
   snapshot only moves forward, calls are refused only under the strategy
   "fail", and nothing moves once Close has returned (client.go:78-263). *)
View == INSTANCE FlagView WITH
  published <- srv, view <- store, failing <- Refusing,
  closed <- (life = "closed")

ImplementsView == View!ViewSpec

(* c.etag is that of a document the engine has, or of the one handleUpdates
   is giving it just now: were it not, 304 answers would keep the engine
   behind for ever.  There is one way in which it gets ahead for good: the
   client was given something that is no document, the ETag is stored before
   the engine sees it, and nobody reads what the engine says of it
   (client.go:617-623, 646-659, 679-693).  Nothing else may do that: no
   queue, no 304 answer on its way, no restart of a stream. *)
EtagIsTaken ==
  \/ etag <= store
  \/ updater \in {"apply", "engine"} /\ etag = taken.etag
  \/ etag \in lost

(* No goroutine is inside the WASM module while another one is, except that
   calls of ListFlags, which hold c.mu for reading only, may be
   (client.go:478, 631, 939). *)
InEngine(c) == caller[c] \in {"engine", "list"}

EngineIsExclusive ==
  /\ \A c, d \in Callers :
       c # d /\ InEngine(c) /\ InEngine(d) => caller[c] = "list" /\ caller[d] = "list"
  /\ updater = "engine" => \A c \in Callers : ~InEngine(c)

(* After Close has returned no goroutine of the client is left to send on a
   channel that is closed, or to use the engine that is destroyed
   (client.go:541-555). *)
QuietAfterClose == [][life = "closed" => UNCHANGED clientVars]_vars

(* Close returns, unless a goroutine is blocked for ever on a channel whose
   receiver has gone already: on errChan when the recorder has seen the
   cancelled context first, on snapshotChan when handleUpdates has
   (client.go:219-220, 235, 610-611, 689, 693). *)
SendBlocked ==
  \/ recorder = "done" /\ errChan = ChanCapacity
       /\ (updater = "report" \/ fetcher = "sendErr")
  \/ updater \in {"report", "done"} /\ fetcher = "sendSnapshot"
       /\ Len(snapshotChan) = ChanCapacity

CloseReturnsUnlessBlocked == life = "closing" ~> life = "closed" \/ SendBlocked

(* What Close is for (client.go:535-542): it waits for all goroutines to
   finish and then returns. *)
CloseReturns == life = "closing" ~> life = "closed"

Reachable == up /\ life = "open" /\ ~ctxDone

(* The stream is open and of no use: handleStream waits for its reader after
   a bad frame (client.go:871, 895), or its buffer holds what will never be
   JSON (client.go:894-898). *)
Stuck == fetcher \in {"garbled", "drain"}

(* When the server stays reachable and stops changing, the engine gets the
   last version in either mode, whatever was lost before, and although a
   stream that ends may take its last chunk with it (client.go:873-892).
   Two things are set aside: a stream that stays stuck, and a last version
   that came as something that is no document: 304 answers, or a stream with
   nothing to say, keep the engine behind it (client.go:617, 646-659). *)
EventuallyServed ==
  <>[](Reachable /\ ~Stuck) => <>[](store = srv \/ srv \in lost)

(* What the documentation says of the strategy "fail" (README.md:290): calls
   are refused if the flag state cannot be fetched. *)
ErrorsClear == <>[]Reachable => <>[]~Refusing
=============================================================================
