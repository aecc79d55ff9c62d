------------------------------- MODULE JSClient -------------------------------
(***************************************************************************)
(* The JavaScript clients (flipt-client-js): init, which seeds the engine  *)
(* and fetches a first document, and refresh, which their owner or a timer *)
(* starts, whether or not another is under way.  Every await of a request  *)
(* (the answer of the fetcher, the body) is a boundary between actions.    *)
(*                                                                         *)
(* An owner is a program on Node, which holds one client at a time and     *)
(* whose client has a timer of its own, or the store of flipt-client-react *)
(* (module ReactStore).                                                    *)
(***************************************************************************)
EXTENDS FliptServer, Integers, Sequences, SequencesExt

CONSTANTS
  Options,       \* [snapshot, errorStrategy, updateInterval, maxRetryAttempts]:
                 \* whether a seed is given, the interval 1 or 0, the attempts
                 \* perhaps Infinite
  MaxRequests    \* how many requests are in flight at once (bounds the model)

ASSUME JSClientAssumption == MaxRequests \in Nat \ {0}

VARIABLES
  clients,     \* Clients -> [options, etag, document, torn]
  requests,    \* in flight: [client, kind, stage, etag, status, version]
  starting,    \* the client whose init the owner waits for
  held,        \* the client the owner uses
  timer        \* whether the timer of a client on Node is set

clientVars == <<clients, requests, starting, held, timer>>

(* One is held and every request may belong to another. *)
Clients == 1..MaxRequests + 1
NoClient == 0
NoEtag == 0
Infinite == -1

(* Document 0 is the seed, or the empty one of a new engine.  torn records
   that an ETag has been stored and its document may not have been. *)
NewClient(options) ==
  [options |-> options, etag |-> NoEtag, document |-> 0, torn |-> FALSE]

Request(client, kind, etag) ==
  [client |-> client, kind |-> kind, stage |-> "sent", etag |-> etag,
   status |-> 0, version |-> 0]

InUse(client) ==
  client \in {starting, held} \/ \E i \in DOMAIN requests : requests[i].client = client

ClientInit ==
  /\ clients = [c \in Clients |-> NewClient(CHOOSE o \in Options : TRUE)]
  /\ requests = <<>> /\ starting = NoClient /\ held = NoClient
  /\ timer = FALSE

-----------------------------------------------------------------------------
(* FliptClient.init and initializeSnapshot *)

InitBegins(options) ==
  /\ Len(requests) < MaxRequests
  /\ \E c \in Clients :
       /\ ~InUse(c) /\ \A d \in Clients : d < c => InUse(d)
       /\ clients' = [clients EXCEPT ![c] = NewClient(options)]
       /\ requests' = Append(requests, Request(c, "init", NoEtag))
       /\ starting' = c

RefreshBegins(c) ==
  /\ Len(requests) < MaxRequests
  /\ requests' = Append(requests, Request(c, "refresh", clients[c].etag))
  /\ UNCHANGED <<clients, starting, held, timer>>

(* The fetcher: an answer that is neither a success nor 304 is a failure. *)
Answered(i) ==
  /\ requests[i].stage = "sent" /\ up
  /\ requests' = [requests EXCEPT
       ![i].stage = "answered", ![i].version = srv,
       ![i].status = IF requests[i].etag = srv THEN 304 ELSE 200]
  /\ UNCHANGED <<clients, starting, held, timer>>

(* The refreshes of a client that have stored an ETag and read no body yet. *)
Pending(c) ==
  {i \in DOMAIN requests : /\ requests[i].client = c /\ requests[i].stage = "body"
                           /\ requests[i].kind = "refresh"}

(* The answer is of the document the client has. *)
NotModified(i) ==
  LET c == requests[i].client IN
  /\ requests[i].stage = "answered" /\ requests[i].kind = "refresh"
  /\ clients[c].etag # NoEtag /\ clients[c].etag = requests[i].version
  /\ requests' = RemoveAt(requests, i)
  /\ UNCHANGED <<clients, starting, held, timer>>

(* Mutant: init stores the ETag as refresh does. *)
HeadersReadEarly(i) ==
  LET c == requests[i].client IN
  /\ requests[i].stage = "answered"
  /\ clients[c].etag = NoEtag \/ clients[c].etag # requests[i].version
  /\ clients' = [clients EXCEPT
       ![c].etag = requests[i].version,
       ![c].torn = @ \/ Pending(c) # {}]
  /\ requests' = [requests EXCEPT ![i].stage = "body"]
  /\ UNCHANGED <<starting, held, timer>>

(* storeEtag: refresh stores the ETag before it reads the body, init after. *)
HeadersRead(i) ==
  LET c == requests[i].client IN
  /\ requests[i].stage = "answered"
  /\ IF requests[i].kind = "refresh"
     THEN /\ clients[c].etag = NoEtag \/ clients[c].etag # requests[i].version
          /\ clients' = [clients EXCEPT
               ![c].etag = requests[i].version,
               ![c].torn = @ \/ Pending(c) # {}]
     ELSE UNCHANGED clients
  /\ requests' = [requests EXCEPT ![i].stage = "body"]
  /\ UNCHANGED <<starting, held, timer>>

(* The body reaches the engine. *)
BodyRead(i) ==
  LET c == requests[i].client
      version == requests[i].version
      etag == IF requests[i].kind = "init" THEN version ELSE clients[c].etag
  IN /\ requests[i].stage = "body" /\ requests[i].status = 200
     /\ clients' = [clients EXCEPT ![c].document = version, ![c].etag = etag,
                                   ![c].torn = @ /\ ~(etag = version /\ Pending(c) \subseteq {i})]
     /\ requests' = RemoveAt(requests, i)

(* No connection, a body that is lost on its way, or a 304, which has none:
   it comes here when a refresh that overlapped has replaced the ETag. *)
Fails(i) ==
  LET c == requests[i].client
      stage == requests[i].stage
  IN /\ \/ stage = "sent" /\ ~up /\ UNCHANGED serverVars
        \/ stage = "body" /\ requests[i].status = 304 /\ UNCHANGED serverVars
        \/ /\ stage = "body" /\ requests[i].status = 200
           /\ outages < MaxOutages /\ outages' = outages + 1
           /\ UNCHANGED <<srv, up, cred>>
     /\ clients' = [clients EXCEPT ![c].torn =
                      @ \/ (stage = "body" /\ requests[i].kind = "refresh")]
     /\ requests' = RemoveAt(requests, i)

(* initializeSnapshot swallows a failure when there is a seed to fall back
   on, refresh swallows one unless it is to report it. *)
Swallowed(i) ==
  LET options == clients[requests[i].client].options IN
  IF requests[i].kind = "init"
  THEN options.snapshot /\ options.errorStrategy = "fallback"
  ELSE options.errorStrategy # "fail"

-----------------------------------------------------------------------------
(* A program on Node. *)

NodeInits(options) ==
  /\ starting = NoClient /\ held = NoClient
  /\ InitBegins(options)
  /\ UNCHANGED <<held, timer>>

NodeInitEnds(i, ok) ==
  /\ requests[i].kind = "init"
  /\ starting' = NoClient
  /\ held' = IF ok THEN starting ELSE NoClient
  /\ timer' = (ok /\ clients[starting].options.updateInterval > 0)

(* setInterval does not wait for the refresh it has started, and swallows
   its failure; the program may call refresh as well. *)
NodeRefreshes ==
  /\ held # NoClient
  /\ RefreshBegins(held)

NodeCloses ==
  /\ held # NoClient
  /\ held' = NoClient /\ timer' = FALSE
  /\ UNCHANGED <<clients, requests, starting>>

NodeRefreshEnds(i) ==
  requests[i].kind = "refresh" /\ UNCHANGED <<starting, held, timer>>
=============================================================================
