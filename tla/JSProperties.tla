----------------------------- MODULE JSProperties -----------------------------
(***************************************************************************)
(* What the JavaScript client and the React store promise.                 *)
(***************************************************************************)
EXTENDS ReactStore

(* Types; a request in flight has asked for nothing newer than the server
   has, and only the owner on the tree waits for a client. *)
TypeOK ==
  /\ ServerTypeOK
  /\ clients \in [Clients -> [options : Options, etag : 0..MaxVersion,
                              document : 0..MaxVersion, torn : BOOLEAN]]
  /\ requests \in Seq([client : Clients, kind : {"init", "refresh"},
                       stage : {"sent", "answered", "body"}, etag : 0..srv,
                       status : {0, 200, 304}, version : 0..srv])
  /\ Len(requests) <= MaxRequests
  /\ starting \in Clients \cup {NoClient} /\ held \in Clients \cup {NoClient}
  /\ host = "react" /\ ~mounted => starting = NoClient /\ ~pause
  /\ timer \in BOOLEAN /\ timer => host = "node" /\ held # NoClient
  /\ error \in {"none", "init", "refresh"} /\ attempt \in Nat

(* A client whose ETag the server answers with "not modified" has the
   document of that ETag, unless a body was lost once its ETag was stored, or
   of two refreshes at once both had stored theirs, or one was answered "not
   modified" for an ETag the other has replaced (base.ts:66-68). *)
NotModifiedIsCurrent ==
  \A c \in Clients :
    InUse(c) /\ ~clients[c].torn /\ Pending(c) = {} /\ clients[c].etag = srv =>
      clients[c].document = srv

(* A store on the tree is what its hooks have last read, whoever replaced,
   failed or refreshed a client meanwhile; it is loading only while it has no
   client; and it polls only on the tree, and a client. *)
StoreIsShown ==
  host = "react" =>
    /\ mounted => shown = Selected(held, isLoading, error, clients)
    /\ isLoading => held = NoClient
    /\ polling => mounted /\ held # NoClient

(* A store never installs a client that was started for options of an earlier
   render, however late its init ends, nor any client off the tree. *)
NewestOptionsWin ==
  [][host = "react" /\ held' # held =>
       mounted /\ clients'[held'].options = options']_vars

-----------------------------------------------------------------------------
(* Fairness: the server comes back, requests are dealt with (the oldest is
   never overtaken for ever), timers fire.  Whether options change, a
   provider leaves the tree or a program closes its client is not forced. *)

LiveSpec ==
  /\ Spec
  /\ WF_vars(ComeUp /\ UNCHANGED <<clientVars, storeVars>>)
  /\ WF_vars(requests # <<>> /\ RequestStep(1))
  /\ WF_vars(Mounts)
  /\ WF_vars(Retries)
  /\ WF_vars(PollTick)
  /\ WF_vars(timer /\ NodeRefreshes /\ UNCHANGED <<serverVars, storeVars>>)

GaveUp == attempt = options.maxRetryAttempts

(* Whether a client is to be refreshed at an interval.  A store whose effect
   has given up may hold a client of an earlier one, and need not poll it:
   attach looks at the interval of the first render. *)
Follows ==
  /\ held # NoClient
  /\ IF host = "node" THEN clients[held].options.updateInterval > 0
     ELSE /\ mounted /\ starting = NoClient /\ ~pause /\ ~GaveUp
          /\ options.updateInterval > 0

(* A client that is to be refreshed comes to have the last document of the
   server, through outages, refreshes that overlap and options that change,
   unless its ETag and its document were torn apart. *)
EventuallyCurrent ==
  []<>(Follows /\ ~clients[held].torn => clients[held].document = srv)

(* A store that may try at all stops loading: it has a client, or has given
   up. *)
LoadingEnds ==
  (mounted /\ options.maxRetryAttempts # 0)
    ~> (~isLoading \/ ~mounted \/ options.maxRetryAttempts = 0)
=============================================================================
