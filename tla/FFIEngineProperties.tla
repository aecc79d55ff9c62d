------------------------- MODULE FFIEngineProperties -------------------------
(***************************************************************************)
(* What the FFI engine has to guarantee.                                   *)
(***************************************************************************)
EXTENDS FFIEngine

(* The engine implements the view every client promises: its snapshot only
   moves forward whatever the order in which fetches, frames, errors and
   credentials happen, an error shows only under the strategy "fail", and
   nothing moves once destroy_engine has returned (lib.rs:161-236). *)
View == INSTANCE FlagView WITH
  published <- srv, view <- store, failing <- error, closed <- (life = "gone")

ImplementsView == View!ViewSpec

(* The ETag the fetcher presents is that of a document the engine has, or
   that is still on its way to it through the channel.  Were it not, the
   server would answer 304 for data the engine has never seen, and the
   engine would keep its old data for ever (http.rs:462-464, 507-526). *)
Holds(r, v) == r.ok /\ r.ver >= v

EtagIsDelivered ==
  \/ etag = NoEtag
  \/ store >= etag
  \/ Holds(held, etag)
  \/ \E i \in DOMAIN chan : Holds(chan[i], etag)
  \/ Holds(res, etag)

(* Documents do not overtake each other on their way into the engine: what
   is stored, held by the updater, queued in the channel, being sent,
   answered or received on the stream is in the order in which the server
   published it, although errors, retries and reconnections may come between
   (http.rs:339-381: one request or stream at a time, one channel). *)
AtLeast(r, v) == r.ok => r.ver >= v
NotBefore(v) ==
  /\ v >= store
  /\ held.ok => v >= held.ver
  /\ \A i \in DOMAIN chan : chan[i].ok => v >= chan[i].ver

Sorted(s) ==
  \A i, j \in DOMAIN s : i < j /\ s[i].ok /\ s[j].ok => s[i].ver <= s[j].ver

InOrder ==
  /\ NotBefore(srv)
  /\ AtLeast(held, store)
  /\ \A i \in DOMAIN chan : AtLeast(chan[i], store)
  /\ held.ok => \A i \in DOMAIN chan : AtLeast(chan[i], held.ver)
  /\ Sorted(chan) /\ Sorted(wire)
  /\ res.ok => NotBefore(res.ver) /\ res.ver <= srv
  /\ reply.kind = "doc" => NotBefore(reply.ver) /\ reply.ver <= srv
  /\ \A i \in DOMAIN wire :
        wire[i].ok => /\ NotBefore(wire[i].ver) /\ wire[i].ver <= srv
                      /\ res.ok => res.ver <= wire[i].ver

(* A caller never gets an answer from an older snapshot than the one its
   last answer came from, however its calls interleave with updates and
   with refused calls (lib.rs:239-248, evaluator.rs:33-44). *)
AnswersNeverGoBack ==
  [][\A c \in Callers : got'[c].ver >= got[c].ver]_vars

(* Under the strategy "fallback" no call is ever refused, not even when the
   initial fetch fails or a result in the channel is an error
   (lib.rs:194-201, 217-224). *)
FallbackNeverRefuses ==
  Strategy = "fallback" => \A c \in Callers : got[c].ok

(* Once destroy_engine has returned no task of the engine is left: nothing
   of it changes any more and no result is left behind unprocessed
   (lib.rs:929-944). *)
QuietAfterDestroy ==
  [][life = "gone" => UNCHANGED <<fetcherVars, evaluatorVars, engineVars>>]_vars

(* destroy_engine returns (lib.rs:937-941 waits for the updater, which ends
   when the fetcher has ended and the channel is empty). *)
DestroyReturns == life = "stopping" ~> life = "gone"

(* When notify_waiters finds the fetcher waiting, destroy_engine returns
   whatever the server does (http.rs:360, 582). *)
DestroyReturnsWhenArmed == (life = "notified" /\ woken) ~> life = "gone"

(* When the server stays reachable, accepts the credential and stops
   changing, the engine ends up with the last version and no error: neither
   errors nor 304 answers leave it behind (http.rs:434-526). *)
Healthy == up /\ auth = cred
Current == store = srv /\ ~error

EventuallyCurrent == <>[](Healthy /\ life = "live") => <>[]Current

(* What the client READMEs say of an engine that starts from a given
   snapshot: once the server stays reachable the engine replaces it (lib.rs:
   179-203; flipt-client-python/README.md:257-258).  It does not when the
   body of one 200 answer is lost (http.rs:462-464, 512-517): the ETag is
   stored already and every later request is answered 304. *)
SeedIsReplaced == <>[](Healthy /\ life = "live") => <>(store > 0)
=============================================================================
