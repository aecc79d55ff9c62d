------------------------------ MODULE JSProofs ------------------------------
(***************************************************************************)
(* Proofs, for every value of the constants, of what JSProperties says of  *)
(* a state or a step of the JavaScript client and the React store.         *)
(***************************************************************************)
EXTENDS JSProperties, SequenceTheorems, TLAPS

(* What a sequence is once an element has been taken out of it. *)
LEMMA RemoveAtFacts ==
  ASSUME NEW S, NEW s \in Seq(S), NEW i \in 1..Len(s)
  PROVE  /\ RemoveAt(s, i) \in Seq(S)
         /\ Len(RemoveAt(s, i)) = Len(s) - 1
         /\ \A j \in 1..Len(s) - 1 :
              RemoveAt(s, i)[j] = s[IF j < i THEN j ELSE j + 1]
<1>. DEFINE front == SubSeq(s, 1, i-1)  rest == SubSeq(s, i+1, Len(s))
<1>1. Len(s) \in Nat /\ \A k \in 1..Len(s) : s[k] \in S
  BY LenProperties, ElementOfSeq
<1>2. /\ front \in Seq(S) /\ Len(front) = i - 1
      /\ \A k \in 1..i-1 : front[k] = s[k]
  <2>1. i-1 \in Int /\ 1 \in Int /\ \A k \in 1..i-1 : s[k] \in S
    BY <1>1
  <2>2. /\ front \in Seq(S) /\ Len(front) = IF 1 <= i-1 THEN i-1-1+1 ELSE 0
        /\ \A k \in 1..(i-1)-1+1 : front[k] = s[1+k-1]
    BY <2>1, SubSeqProperties
  <2>. HIDE DEF front
  <2>. QED
    BY <2>2, <1>1
<1>3. /\ rest \in Seq(S) /\ Len(rest) = Len(s) - i
      /\ \A k \in 1..Len(s)-i : rest[k] = s[i+k]
  <2>1. i+1 \in Int /\ Len(s) \in Int /\ \A k \in i+1..Len(s) : s[k] \in S
    BY <1>1
  <2>2. /\ rest \in Seq(S)
        /\ Len(rest) = IF i+1 <= Len(s) THEN Len(s)-(i+1)+1 ELSE 0
        /\ \A k \in 1..Len(s)-(i+1)+1 : rest[k] = s[(i+1)+k-1]
    BY <2>1, SubSeqProperties
  <2>. HIDE DEF rest
  <2>. QED
    BY <2>2, <1>1
<1>4. RemoveAt(s, i) = front \o rest
  BY DEF RemoveAt
<1>. HIDE DEF front, rest
<1>5. /\ front \o rest \in Seq(S) /\ Len(front \o rest) = Len(front) + Len(rest)
      /\ \A j \in 1..Len(front) + Len(rest) :
           (front \o rest)[j] = IF j <= Len(front) THEN front[j] ELSE rest[j - Len(front)]
  BY <1>2, <1>3, ConcatProperties
<1>6. Len(front \o rest) = Len(s) - 1
  BY <1>1, <1>2, <1>3, <1>5
<1>7. ASSUME NEW j \in 1..Len(s) - 1
      PROVE (front \o rest)[j] = s[IF j < i THEN j ELSE j + 1]
  <2>1. (front \o rest)[j] = IF j <= i-1 THEN front[j] ELSE rest[j - (i-1)]
    BY <1>1, <1>2, <1>3, <1>5
  <2>2. CASE j < i
    BY <2>1, <2>2, <1>1, <1>2
  <2>3. CASE j >= i
    <3>1. j - (i-1) \in 1..Len(s)-i /\ i + (j - (i-1)) = j + 1
      BY <2>3, <1>1
    <3>2. rest[j - (i-1)] = s[j + 1]
      BY <3>1, <1>3
    <3>3. ~(j < i) /\ ~(j <= i-1)
      BY <2>3, <1>1
    <3>. QED
      BY <3>2, <3>3, <2>1
  <2>4. j < i \/ j >= i
    BY <1>1
  <2>. QED
    BY <2>2, <2>3, <2>4, Zenon
<1>. QED
  BY <1>4, <1>5, <1>6, <1>7
-----------------------------------------------------------------------------
(* The inductive invariant. *)

ClientRecords ==
  [options : Options, etag : 0..srv, document : 0..srv, torn : BOOLEAN]

RequestRecords ==
  [client : Clients, kind : {"init", "refresh"}, stage : {"sent", "answered", "body"},
   etag : 0..srv, status : {0, 200, 304}, version : 0..srv]

ClientTypes ==
  /\ ServerTypeOK
  /\ clients \in [Clients -> ClientRecords]
  /\ requests \in Seq(RequestRecords) /\ Len(requests) <= MaxRequests
  /\ starting \in Clients \cup {NoClient} /\ held \in Clients \cup {NoClient}

StoreTypes ==
  /\ host \in {"node", "react"} /\ options \in Options
  /\ mounted \in BOOLEAN /\ pause \in BOOLEAN /\ polling \in BOOLEAN
  /\ isLoading \in BOOLEAN /\ timer \in BOOLEAN
  /\ error \in {"none", "init", "refresh"} /\ attempt \in Nat

(* A client that is being initialised is not in use yet: its init is its only
   request.  A program waits for each client it starts. *)
Inits ==
  \A i \in DOMAIN requests : requests[i].kind = "init" =>
    /\ requests[i].client # held
    /\ host = "node" => requests[i].client = starting
    /\ \A j \in DOMAIN requests : requests[j].client = requests[i].client => j = i

(* Unless torn says so, at most one ETag is ahead of its document: that of
   the last refresh to have read its headers. *)
Whole ==
  \A c \in Clients : ~clients[c].torn =>
    /\ \A i, j \in Pending(c) : i = j
    /\ \A i \in Pending(c) : requests[i].version = clients[c].etag
    /\ Pending(c) = {} => clients[c].etag \in {NoEtag, clients[c].document}

(* Only a store on the tree waits for a client, and for one of its present
   options. *)
Owners ==
  /\ host = "node" => /\ ~mounted /\ ~polling /\ ~pause
                      /\ starting # NoClient => held = NoClient
  /\ host = "react" /\ ~mounted => starting = NoClient /\ ~pause
  /\ host = "react" /\ starting # NoClient => clients[starting].options = options
  /\ starting # NoClient => starting # held
  /\ timer => host = "node" /\ held # NoClient

ClientInv == ClientTypes /\ Inits /\ Whole

StoreInv == StoreTypes /\ Owners /\ StoreIsShown

JSInv == ClientInv /\ StoreInv

-----------------------------------------------------------------------------
(* The requests, one of them gone: the one now at j was at Old(i, j). *)
Old(i, j) == IF j < i THEN j ELSE j + 1

LEMMA Removal ==
  ASSUME ClientTypes, NEW i \in DOMAIN requests, requests' = RemoveAt(requests, i)
  PROVE  /\ requests' \in Seq(RequestRecords) /\ Len(requests') = Len(requests) - 1
         /\ \A j \in DOMAIN requests' :
              /\ Old(i, j) \in DOMAIN requests /\ Old(i, j) # i
              /\ requests'[j] = requests[Old(i, j)]
         /\ \A j, k \in DOMAIN requests' : Old(i, j) = Old(i, k) => j = k
         /\ \A k \in DOMAIN requests : k # i =>
              \E j \in DOMAIN requests' : Old(i, j) = k
<1>1. requests \in Seq(RequestRecords) /\ Len(requests) \in Nat /\ i \in 1..Len(requests)
      /\ DOMAIN requests = 1..Len(requests)
  BY LenProperties DEF ClientTypes
<1>2. /\ requests' \in Seq(RequestRecords) /\ Len(requests') = Len(requests) - 1
      /\ \A j \in 1..Len(requests) - 1 : requests'[j] = requests[Old(i, j)]
  BY <1>1, RemoveAtFacts DEF Old
<1>3. DOMAIN requests' = 1..Len(requests) - 1
  BY <1>2, LenProperties
<1>4. \A j \in 1..Len(requests) - 1 : Old(i, j) \in 1..Len(requests) /\ Old(i, j) # i
  BY <1>1 DEF Old
<1>5. \A j, k \in 1..Len(requests) - 1 : Old(i, j) = Old(i, k) => j = k
  BY <1>1 DEF Old
<1>6. ASSUME NEW k \in 1..Len(requests), k # i
      PROVE \E j \in 1..Len(requests) - 1 : Old(i, j) = k
  <2>. DEFINE j == IF k < i THEN k ELSE k - 1
  <2>1. j \in 1..Len(requests) - 1 /\ Old(i, j) = k
    BY <1>1, <1>6 DEF Old
  <2>. QED
    BY <2>1
<1>. QED
  BY <1>1, <1>2, <1>3, <1>4, <1>5, <1>6

(* A request gone: the pending requests of its client, and of others. *)
LEMMA PendingRemoval ==
  ASSUME ClientTypes, NEW i \in DOMAIN requests, requests' = RemoveAt(requests, i),
         NEW c
  PROVE  /\ \A j \in Pending(c)' : Old(i, j) \in Pending(c) \ {i}
                                 /\ requests'[j] = requests[Old(i, j)]
         /\ \A j, k \in Pending(c)' : Old(i, j) = Old(i, k) => j = k
         /\ Pending(c)' = {} => Pending(c) \subseteq {i}
<1>1. \A j \in DOMAIN requests' : j \in Pending(c)' <=> Old(i, j) \in Pending(c)
  BY Removal DEF Pending
<1>. QED
  BY <1>1, Removal DEF Pending

LEMMA Shapes ==
  ASSUME ClientTypes
  PROVE  /\ DOMAIN requests = 1..Len(requests) /\ Len(requests) \in Nat
         /\ \A i \in DOMAIN requests : requests[i] \in RequestRecords
         /\ \A c \in Clients : clients[c] \in ClientRecords
         /\ srv \in Nat \ {0} /\ NoClient \notin Clients
         /\ MaxRequests \in Nat \ {0} /\ MaxVersion \in Nat \ {0}
BY LenProperties, ElementOfSeq, JSClientAssumption, ServerAssumption
   DEF ClientTypes, ServerTypeOK, Version, NoClient, Clients


(* Init gives each client an ETag and a document of no version, and is in
   nobody's way. *)
LEMMA InitHolds == ASSUME Init PROVE JSInv
<1>1. /\ requests = <<>> /\ starting = NoClient /\ held = NoClient
      /\ ServerTypeOK
  BY ServerAssumption DEF Init, ClientInit, ServerInit, ServerTypeOK, Version, Cred
<1>2. clients \in [Clients -> ClientRecords]
  <2>1. Options # {} /\ srv = 1
    BY DEF Init, ServerInit
  <2>2. (CHOOSE o \in Options : TRUE) \in Options
    BY <2>1
  <2>3. NewClient(CHOOSE o \in Options : TRUE) \in ClientRecords
    BY <2>1, <2>2 DEF NewClient, ClientRecords, NoEtag
  <2>. QED
    BY <2>3, Zenon DEF Init, ClientInit
<1>3. \A c \in Clients : clients[c].etag = NoEtag
  BY DEF Init, ClientInit, NewClient
<1>4. requests \in Seq(RequestRecords) /\ Len(requests) <= MaxRequests /\ DOMAIN requests = {}
  BY <1>1, EmptySeq, JSClientAssumption
<1>5. ClientTypes
  BY <1>1, <1>2, <1>4 DEF ClientTypes
<1>6. Inits /\ Whole
  BY <1>3, <1>4 DEF Inits, Whole, Pending
<1>7. /\ host \in {"node", "react"} /\ options \in Options /\ mounted = FALSE
      /\ pause = FALSE /\ polling = FALSE /\ isLoading = TRUE /\ timer = FALSE
      /\ error = "none" /\ attempt = 0
  BY DEF Init, ClientInit
<1>. QED
  BY <1>1, <1>5, <1>6, <1>7 DEF JSInv, ClientInv, StoreInv, StoreTypes, Owners, StoreIsShown

-----------------------------------------------------------------------------
(* What the operations of a client keep of ClientInv. *)

(* A request more. *)
LEMMA Appended ==
  ASSUME ClientTypes, Len(requests) < MaxRequests, NEW r \in RequestRecords,
         requests' = Append(requests, r)
  PROVE  /\ requests' \in Seq(RequestRecords) /\ Len(requests') <= MaxRequests
         /\ DOMAIN requests' = DOMAIN requests \cup {Len(requests) + 1}
         /\ Len(requests) + 1 \notin DOMAIN requests
         /\ \A i \in DOMAIN requests : requests'[i] = requests[i]
         /\ requests'[Len(requests) + 1] = r
<1>1. requests \in Seq(RequestRecords) /\ Len(requests) \in Nat /\ DOMAIN requests = 1..Len(requests)
  BY Shapes DEF ClientTypes
<1>2. requests' \in Seq(RequestRecords) /\ Len(requests') = Len(requests) + 1
  BY <1>1
<1>. HIDE DEF ClientTypes
<1>3. DOMAIN requests' = 1..Len(requests) + 1
  BY <1>2, LenProperties
<1>. QED
  BY <1>1, <1>2, <1>3, JSClientAssumption

LEMMA BeginKeepsClients ==
  ASSUME ClientInv, NEW o \in Options, InitBegins(o), UNCHANGED <<held, host, serverVars>>,
         host = "node" => starting = NoClient
  PROVE  /\ ClientInv'
         /\ \E c \in Clients : /\ c # starting /\ c # held /\ starting' = c
                               /\ clients' = [clients EXCEPT ![c] = NewClient(o)]
<1>1. PICK c \in Clients :
        /\ ~InUse(c)
        /\ clients' = [clients EXCEPT ![c] = NewClient(o)]
        /\ requests' = Append(requests, Request(c, "init", NoEtag))
        /\ starting' = c
  BY DEF InitBegins
<1>2. /\ c # starting /\ c # held
      /\ \A i \in DOMAIN requests : requests[i].client # c
  BY <1>1 DEF InUse
<1>. DEFINE r == Request(c, "init", NoEtag)
<1>3. ClientTypes /\ Inits /\ Whole /\ srv \in Nat /\ srv' = srv
  BY Shapes DEF ClientInv, serverVars
<1>4. /\ r \in RequestRecords /\ r.client = c /\ r.kind = "init" /\ r.stage = "sent"
  BY <1>3 DEF Request, RequestRecords, NoEtag
<1>5. /\ requests' \in Seq(RequestRecords) /\ Len(requests') <= MaxRequests
      /\ DOMAIN requests' = DOMAIN requests \cup {Len(requests) + 1}
      /\ Len(requests) + 1 \notin DOMAIN requests
      /\ \A i \in DOMAIN requests : requests'[i] = requests[i]
      /\ requests'[Len(requests) + 1] = r
  <2>1. Len(requests) < MaxRequests
    BY DEF InitBegins
  <2>. QED
    BY <1>1, <1>3, <1>4, <2>1, Appended
<1>. HIDE DEF r
<1>6. ClientTypes'
  <2>1. NewClient(o) \in ClientRecords
    BY <1>3 DEF NewClient, ClientRecords, NoEtag
  <2>2. clients' \in [Clients -> ClientRecords]
    BY <1>1, <1>3, <2>1 DEF ClientTypes
  <2>3. ServerTypeOK' /\ ClientRecords' = ClientRecords /\ RequestRecords' = RequestRecords
    BY <1>3 DEF ClientTypes, ServerTypeOK, serverVars, ClientRecords, RequestRecords
  <2>4. starting' \in Clients /\ held' \in Clients \cup {NoClient}
    BY <1>1, <1>3 DEF ClientTypes
  <2>. QED
    BY <1>5, <2>2, <2>3, <2>4 DEF ClientTypes
<1>7. Inits'
  <2>1. \A i \in DOMAIN requests : host = "node" => requests[i].kind # "init"
    BY <1>3, Shapes DEF Inits, RequestRecords
  <2>2. ASSUME NEW i \in DOMAIN requests', requests'[i].kind = "init"
        PROVE  /\ requests'[i].client # held'
               /\ host' = "node" => requests'[i].client = starting'
               /\ \A j \in DOMAIN requests' :
                    requests'[j].client = requests'[i].client => j = i
    <3>1. CASE i \in DOMAIN requests
      BY <3>1, <2>1, <2>2, <1>2, <1>3, <1>4, <1>5 DEF Inits
    <3>2. CASE i = Len(requests) + 1
      BY <3>2, <1>1, <1>2, <1>4, <1>5
    <3>. QED
      BY <3>1, <3>2, <1>5
  <2>. QED
    BY <2>2 DEF Inits
<1>8. Whole'
  <2>1. \A d : Pending(d)' = Pending(d)
    BY <1>4, <1>5 DEF Pending
  <2>2. \A d \in Clients : d # c => clients'[d] = clients[d]
    BY <1>1, <1>3 DEF ClientTypes
  <2>3. clients'[c].etag = NoEtag /\ Pending(c) = {}
    BY <1>1, <1>2, <1>3 DEF ClientTypes, NewClient, Pending
  <2>4. \A d : \A i \in Pending(d) : requests'[i] = requests[i]
    BY <1>5 DEF Pending
  <2>5. ASSUME NEW d \in Clients, ~clients'[d].torn
        PROVE  /\ \A i, j \in Pending(d) : i = j
               /\ \A i \in Pending(d) : requests[i].version = clients'[d].etag
               /\ Pending(d) = {} => clients'[d].etag \in {NoEtag, clients'[d].document}
    <3>1. CASE d = c
      BY <3>1, <2>3
    <3>2. CASE d # c
      BY <3>2, <2>2, <2>5, <1>3 DEF Whole
    <3>. QED
      BY <3>1, <3>2
  <2>. QED
    BY <2>1, <2>4, <2>5 DEF Whole
<1>. QED
  BY <1>1, <1>2, <1>6, <1>7, <1>8 DEF ClientInv

LEMMA RefreshKeepsClients ==
  ASSUME ClientInv, held # NoClient, RefreshBegins(held), UNCHANGED <<host, serverVars>>
  PROVE  ClientInv'
<1>. DEFINE r == Request(held, "refresh", clients[held].etag)
<1>1. ClientTypes /\ Inits /\ Whole /\ srv' = srv /\ held \in Clients
  BY DEF ClientInv, serverVars, ClientTypes
<1>2. /\ r \in RequestRecords /\ r.client = held /\ r.kind = "refresh" /\ r.stage = "sent"
  <2>1. clients[held].etag \in 0..srv /\ srv \in Nat
    BY <1>1, Shapes DEF ClientRecords
  <2>. QED
    BY <1>1, <2>1 DEF Request, RequestRecords
<1>3. /\ requests' \in Seq(RequestRecords) /\ Len(requests') <= MaxRequests
      /\ DOMAIN requests' = DOMAIN requests \cup {Len(requests) + 1}
      /\ Len(requests) + 1 \notin DOMAIN requests
      /\ \A i \in DOMAIN requests : requests'[i] = requests[i]
      /\ requests'[Len(requests) + 1] = r
  <2>1. Len(requests) < MaxRequests /\ requests' = Append(requests, r)
    BY DEF RefreshBegins
  <2>. QED
    BY <1>1, <1>2, <2>1, Appended
<1>. HIDE DEF r
<1>4. clients' = clients /\ held' = held /\ starting' = starting
  BY DEF RefreshBegins
<1>5. ClientTypes'
  <2>1. ServerTypeOK' /\ ClientRecords' = ClientRecords /\ RequestRecords' = RequestRecords
    BY <1>1 DEF ClientTypes, ServerTypeOK, serverVars, ClientRecords, RequestRecords
  <2>. QED
    BY <1>1, <1>3, <1>4, <2>1 DEF ClientTypes
<1>6. Inits'
  BY <1>1, <1>2, <1>3, <1>4 DEF Inits
<1>7. Whole'
  <2>1. \A d : Pending(d)' = Pending(d)
    BY <1>2, <1>3 DEF Pending
  <2>2. \A d : \A i \in Pending(d) : requests'[i] = requests[i]
    BY <1>3 DEF Pending
  <2>. QED
    BY <1>1, <1>4, <2>1, <2>2 DEF Whole
<1>. QED
  BY <1>5, <1>6, <1>7 DEF ClientInv

LEMMA AnsweredKeepsClients ==
  ASSUME ClientInv, NEW i \in DOMAIN requests, Answered(i), UNCHANGED <<host, serverVars>>
  PROVE  ClientInv'
<1>1. ClientTypes /\ Inits /\ Whole /\ srv' = srv /\ srv \in Nat \ {0}
  BY Shapes DEF ClientInv, serverVars
<1>. DEFINE status == IF requests[i].etag = srv THEN 304 ELSE 200
            r == [requests[i] EXCEPT
                    !.stage = "answered", !.version = srv, !.status = status]
<1>2. /\ r \in RequestRecords
      /\ r.stage = "answered" /\ r.kind = requests[i].kind /\ r.client = requests[i].client
  <2>1. requests[i] \in RequestRecords
    BY <1>1, Shapes
  <2>2. status \in {0, 200, 304} /\ srv \in 0..srv
    BY <1>1
  <2>. HIDE DEF status
  <2>. QED
    BY <2>1, <2>2 DEF RequestRecords
<1>3. /\ requests' = [requests EXCEPT ![i] = r]
      /\ requests[i].stage = "sent"
      /\ clients' = clients /\ held' = held /\ starting' = starting
  BY DEF Answered
<1>. HIDE DEF r
<1>4. /\ requests' \in Seq(RequestRecords) /\ Len(requests') = Len(requests)
      /\ DOMAIN requests' = DOMAIN requests
      /\ \A j \in DOMAIN requests : requests'[j] = IF j = i THEN r ELSE requests[j]
  BY <1>1, <1>2, <1>3, Shapes, ExceptSeq, LenProperties DEF ClientTypes
<1>5. ClientTypes'
  <2>1. ServerTypeOK' /\ ClientRecords' = ClientRecords /\ RequestRecords' = RequestRecords
    BY <1>1 DEF ClientTypes, ServerTypeOK, serverVars, ClientRecords, RequestRecords
  <2>. QED
    BY <1>1, <1>3, <1>4, <2>1 DEF ClientTypes
<1>6. Inits'
  BY <1>1, <1>2, <1>3, <1>4 DEF Inits
<1>7. Whole'
  <2>1. \A d : Pending(d)' = Pending(d) /\ i \notin Pending(d)
    BY <1>2, <1>3, <1>4 DEF Pending
  <2>2. \A d : \A j \in Pending(d) : requests'[j] = requests[j]
    BY <1>3, <1>4, <2>1 DEF Pending
  <2>. QED
    BY <1>1, <1>3, <2>1, <2>2 DEF Whole
<1>. QED
  BY <1>5, <1>6, <1>7 DEF ClientInv

LEMMA NotModifiedKeepsClients ==
  ASSUME ClientInv, NEW i \in DOMAIN requests, NotModified(i), UNCHANGED <<host, serverVars>>
  PROVE  ClientInv'
<1>1. ClientTypes /\ Inits /\ Whole /\ srv' = srv
  BY DEF ClientInv, serverVars
<1>2. /\ requests' = RemoveAt(requests, i) /\ requests[i].stage = "answered"
      /\ clients' = clients /\ held' = held /\ starting' = starting
  BY DEF NotModified
<1>3. ClientTypes'
  <2>1. ServerTypeOK' /\ ClientRecords' = ClientRecords /\ RequestRecords' = RequestRecords
    BY <1>1 DEF ClientTypes, ServerTypeOK, serverVars, ClientRecords, RequestRecords
  <2>2. requests' \in Seq(RequestRecords) /\ Len(requests') <= MaxRequests
    BY <1>1, <1>2, Removal, Shapes DEF ClientTypes
  <2>. QED
    BY <1>1, <1>2, <2>1, <2>2 DEF ClientTypes
<1>4. Inits'
  <2>1. /\ \A j \in DOMAIN requests' : /\ Old(i, j) \in DOMAIN requests
                                       /\ requests'[j] = requests[Old(i, j)]
        /\ \A j, k \in DOMAIN requests' : Old(i, j) = Old(i, k) => j = k
    BY <1>1, <1>2, Removal
  <2>. QED
    BY <1>1, <1>2, <2>1 DEF Inits
<1>5. Whole'
  <2>1. \A d : i \notin Pending(d)
    BY <1>2 DEF Pending
  <2>2. \A d : /\ \A j \in Pending(d)' : /\ Old(i, j) \in Pending(d)
                                         /\ requests'[j] = requests[Old(i, j)]
               /\ \A j, k \in Pending(d)' : Old(i, j) = Old(i, k) => j = k
               /\ Pending(d)' = {} => Pending(d) = {}
    BY <1>1, <1>2, <2>1, PendingRemoval
  <2>. QED
    BY <1>1, <1>2, <2>2 DEF Whole
<1>. QED
  BY <1>3, <1>4, <1>5 DEF ClientInv

LEMMA HeadersKeepClients ==
  ASSUME ClientInv, NEW i \in DOMAIN requests, HeadersRead(i), UNCHANGED <<host, serverVars>>
  PROVE  /\ ClientInv'
         /\ \A d \in Clients : /\ clients'[d].document = clients[d].document
                               /\ clients'[d].options = clients[d].options
<1>. DEFINE c == requests[i].client
            r == [requests[i] EXCEPT !.stage = "body"]
<1>1. ClientTypes /\ Inits /\ Whole /\ srv' = srv /\ srv \in Nat \ {0}
      /\ c \in Clients /\ clients[c] \in ClientRecords /\ requests[i] \in RequestRecords
      /\ DOMAIN clients = Clients
  BY Shapes DEF ClientInv, serverVars, RequestRecords, ClientTypes
<1>2. /\ r \in RequestRecords
      /\ r.stage = "body" /\ r.kind = requests[i].kind /\ r.client = c
      /\ r.version = requests[i].version /\ requests[i].version \in 0..srv
  BY <1>1 DEF RequestRecords
<1>3. /\ requests' = [requests EXCEPT ![i] = r]
      /\ requests[i].stage = "answered"
      /\ held' = held /\ starting' = starting
  BY DEF HeadersRead
<1>. HIDE DEF r
<1>4. /\ requests' \in Seq(RequestRecords) /\ Len(requests') = Len(requests)
      /\ DOMAIN requests' = DOMAIN requests
      /\ \A j \in DOMAIN requests : requests'[j] = IF j = i THEN r ELSE requests[j]
  BY <1>1, <1>2, <1>3, Shapes, ExceptSeq, LenProperties DEF ClientTypes
<1>5. /\ clients' \in [Clients -> ClientRecords]
      /\ \A d \in Clients : /\ clients'[d].document = clients[d].document
                            /\ clients'[d].options = clients[d].options
                            /\ d # c => clients'[d] = clients[d]
      /\ requests[i].kind # "refresh" => clients' = clients
      /\ requests[i].kind = "refresh" =>
           /\ clients'[c].etag = requests[i].version
           /\ ~clients'[c].torn => Pending(c) = {}
  <2>1. CASE requests[i].kind = "refresh"
    <3>. DEFINE n == [clients[c] EXCEPT !.etag = requests[i].version,
                                        !.torn = @ \/ Pending(c) # {}]
    <3>1. clients' = [clients EXCEPT ![c] = n]
      BY <2>1 DEF HeadersRead
    <3>2. /\ n \in ClientRecords /\ n.etag = requests[i].version
          /\ n.document = clients[c].document /\ n.options = clients[c].options
          /\ ~n.torn => Pending(c) = {}
      BY <1>1, <1>2 DEF ClientRecords
    <3>. HIDE DEF n
    <3>. QED
      BY <1>1, <2>1, <3>1, <3>2 DEF ClientTypes
  <2>2. CASE requests[i].kind # "refresh"
    BY <1>1, <2>2 DEF HeadersRead, ClientTypes
  <2>. QED
    BY <2>1, <2>2
<1>6. ClientTypes'
  <2>1. ServerTypeOK' /\ ClientRecords' = ClientRecords /\ RequestRecords' = RequestRecords
    BY <1>1 DEF ClientTypes, ServerTypeOK, serverVars, ClientRecords, RequestRecords
  <2>. QED
    BY <1>1, <1>3, <1>4, <1>5, <2>1 DEF ClientTypes
<1>7. Inits'
  BY <1>1, <1>2, <1>3, <1>4 DEF Inits
<1>8. Whole'
  <2>1. ASSUME NEW d \in Clients, ~clients'[d].torn
        PROVE  /\ \A j, k \in Pending(d)' : j = k
               /\ \A j \in Pending(d)' : requests'[j].version = clients'[d].etag
               /\ Pending(d)' = {} => clients'[d].etag \in {NoEtag, clients'[d].document}
    <3>1. CASE requests[i].kind = "refresh" /\ d = c
      <4>1. Pending(d)' = {i}
        BY <2>1, <3>1, <1>2, <1>4, <1>5 DEF Pending
      <4>. QED
        BY <4>1, <3>1, <1>2, <1>4, <1>5
    <3>2. CASE ~(requests[i].kind = "refresh" /\ d = c)
      <4>1. Pending(d)' = Pending(d) /\ i \notin Pending(d)
        BY <3>2, <1>2, <1>3, <1>4 DEF Pending
      <4>2. \A j \in Pending(d) : requests'[j] = requests[j]
        BY <4>1, <1>4 DEF Pending
      <4>3. clients'[d] = clients[d]
        BY <3>2, <1>5
      <4>. QED
        BY <4>1, <4>2, <4>3, <2>1, <1>1 DEF Whole
    <3>. QED
      BY <3>1, <3>2
  <2>. QED
    BY <2>1 DEF Whole
<1>. QED
  BY <1>5, <1>6, <1>7, <1>8 DEF ClientInv

(* What the owner may do with the client of a request that has ended. *)
Settles(i) ==
  /\ host' = host
  /\ starting' \in {starting, NoClient}
  /\ held' \in {held, NoClient, requests[i].client}
  /\ requests[i].kind = "refresh" => starting' = starting /\ held' = held

LEMMA SettledKeepsInits ==
  ASSUME ClientInv, NEW i \in DOMAIN requests, requests' = RemoveAt(requests, i), Settles(i),
         clients' \in [Clients -> ClientRecords], ServerTypeOK', srv' = srv
  PROVE  ClientTypes' /\ Inits'
<1>1. ClientTypes /\ Inits
  BY DEF ClientInv
<1>2. ClientTypes'
  <2>1. ClientRecords' = ClientRecords /\ RequestRecords' = RequestRecords
    BY DEF ClientRecords, RequestRecords
  <2>2. requests' \in Seq(RequestRecords) /\ Len(requests') <= MaxRequests
    BY <1>1, Removal, Shapes DEF ClientTypes
  <2>3. requests[i].client \in Clients
    BY <1>1, Shapes DEF RequestRecords
  <2>4. starting' \in Clients \cup {NoClient} /\ held' \in Clients \cup {NoClient}
    BY <1>1, <2>3 DEF ClientTypes, Settles
  <2>. QED
    BY <2>1, <2>2, <2>4 DEF ClientTypes
<1>3. Inits'
  <2>1. /\ \A j \in DOMAIN requests' : /\ Old(i, j) \in DOMAIN requests /\ Old(i, j) # i
                                       /\ requests'[j] = requests[Old(i, j)]
        /\ \A j, k \in DOMAIN requests' : Old(i, j) = Old(i, k) => j = k
    BY <1>1, Removal
  <2>2. requests[i].kind \in {"init", "refresh"} /\ requests[i].client \in Clients
        /\ NoClient \notin Clients
        /\ \A j \in DOMAIN requests : requests[j].client \in Clients
    BY <1>1, Shapes DEF RequestRecords
  <2>3. ASSUME NEW k \in DOMAIN requests, k # i, requests[k].kind = "init"
        PROVE  /\ requests[k].client # held'
               /\ host' = "node" => requests[k].client = starting'
    <3>1. /\ requests[k].client # held /\ requests[k].client # requests[i].client
          /\ host = "node" => requests[k].client = starting
      BY <1>1, <2>3 DEF Inits
    <3>2. CASE requests[i].kind = "refresh"
      BY <3>1, <3>2 DEF Settles
    <3>3. CASE requests[i].kind = "init"
      <4>1. host = "node" => requests[i].client = starting
        BY <1>1, <3>3 DEF Inits
      <4>. QED
        BY <3>1, <4>1, <2>2 DEF Settles
    <3>. QED
      BY <3>2, <3>3, <2>2
  <2>. QED
    BY <1>1, <2>1, <2>3 DEF Inits
<1>. QED
  BY <1>2, <1>3

LEMMA BodyKeepsClients ==
  ASSUME ClientInv, NEW i \in DOMAIN requests, BodyRead(i), Settles(i), UNCHANGED serverVars
  PROVE  /\ ClientInv'
         /\ \A d \in Clients : /\ clients'[d].options = clients[d].options
                               /\ d # requests[i].client => clients'[d] = clients[d]
<1>0. PICK c : c = requests[i].client
  OBVIOUS
<1>. DEFINE version == requests[i].version
            etag == IF requests[i].kind = "init" THEN version ELSE clients[c].etag
            torn == clients[c].torn /\ ~(etag = version /\ Pending(c) \subseteq {i})
            n == [clients[c] EXCEPT !.document = version, !.etag = etag, !.torn = torn]
<1>1. ClientTypes /\ Inits /\ Whole /\ srv' = srv /\ ServerTypeOK'
      /\ c \in Clients /\ clients[c] \in ClientRecords /\ requests[i] \in RequestRecords
      /\ DOMAIN clients = Clients
  BY <1>0, Shapes DEF ClientInv, serverVars, RequestRecords, ClientTypes, ServerTypeOK
<1>2. /\ version \in 0..srv /\ clients[c].etag \in 0..srv
      /\ requests[i].kind \in {"init", "refresh"}
  BY <1>1 DEF RequestRecords, ClientRecords
<1>3. /\ requests[i].kind = "init" => etag = version
      /\ requests[i].kind = "refresh" => etag = clients[c].etag
  BY <1>2
<1>4. torn \in BOOLEAN /\ torn = (clients[c].torn /\ ~(etag = version /\ Pending(c) \subseteq {i}))
  OBVIOUS
<1>5. clients' = [clients EXCEPT ![c] = n] /\ requests' = RemoveAt(requests, i)
      /\ requests[i].stage = "body"
  <2>1. /\ clients' = [clients EXCEPT ![c].document = version, ![c].etag = etag, ![c].torn = torn]
        /\ requests' = RemoveAt(requests, i) /\ requests[i].stage = "body"
    BY <1>0 DEF BodyRead
  <2>. HIDE DEF version, etag, torn
  <2>. QED
    BY <2>1, <1>1 DEF ClientTypes
<1>6. /\ n \in ClientRecords /\ n.document = version /\ n.etag = etag /\ n.torn = torn
      /\ n.options = clients[c].options
  <2>. HIDE DEF torn, etag, version
  <2>1. etag \in 0..srv
    BY <1>2, <1>3
  <2>. QED
    BY <2>1, <1>1, <1>2, <1>4 DEF ClientRecords
<1>. HIDE DEF n, torn, etag, version
<1>7. /\ clients' \in [Clients -> ClientRecords]
      /\ clients'[c] = n
      /\ \A d \in Clients : /\ clients'[d].options = clients[d].options
                            /\ d # c => clients'[d] = clients[d]
  BY <1>1, <1>5, <1>6 DEF ClientTypes
<1>8. ClientTypes' /\ Inits'
  BY <1>1, <1>5, <1>7, SettledKeepsInits
<1>9. Whole'
  <2>1. \A d : /\ \A j \in Pending(d)' : /\ Old(i, j) \in Pending(d) \ {i}
                                         /\ requests'[j] = requests[Old(i, j)]
               /\ \A j, k \in Pending(d)' : Old(i, j) = Old(i, k) => j = k
               /\ Pending(d)' = {} => Pending(d) \subseteq {i}
    BY <1>1, <1>5, PendingRemoval
  <2>2. \A d : i \in Pending(d) <=> d = c /\ requests[i].kind = "refresh"
    BY <1>0, <1>5 DEF Pending
  <2>3. ASSUME NEW d \in Clients, d # c, ~clients'[d].torn
        PROVE  /\ \A j, k \in Pending(d)' : j = k
               /\ \A j \in Pending(d)' : requests'[j].version = clients'[d].etag
               /\ Pending(d)' = {} => clients'[d].etag \in {NoEtag, clients'[d].document}
    BY <2>1, <2>2, <2>3, <1>1, <1>7 DEF Whole
  <2>4. ASSUME ~n.torn
        PROVE  Pending(c)' = {} /\ n.etag = n.document
    <3>1. CASE clients[c].torn
      <4>1. etag = version /\ Pending(c) \subseteq {i}
        BY <3>1, <2>4, <1>6, <1>4
      <4>. QED
        BY <4>1, <2>1, <1>6
    <3>2. CASE ~clients[c].torn /\ requests[i].kind = "refresh"
      <4>1. i \in Pending(c) /\ \A j \in Pending(c) : j = i
        BY <3>2, <2>2, <1>1 DEF Whole
      <4>2. etag = version
        BY <4>1, <3>2, <1>1, <1>3 DEF Whole, version
      <4>. QED
        BY <4>1, <4>2, <2>1, <1>6
    <3>3. CASE requests[i].kind = "init"
      <4>1. \A j \in DOMAIN requests : requests[j].client = c => j = i
        BY <3>3, <1>0, <1>1 DEF Inits
      <4>2. Pending(c) = {}
        BY <4>1, <3>3 DEF Pending
      <4>. QED
        BY <4>2, <3>3, <2>1, <1>6, <1>3
    <3>. QED
      BY <3>1, <3>2, <3>3, <1>2
  <2>. QED
    BY <2>3, <2>4, <1>7 DEF Whole
<1>. QED
  BY <1>0, <1>7, <1>8, <1>9 DEF ClientInv

LEMMA FailKeepsClients ==
  ASSUME ClientInv, NEW i \in DOMAIN requests, Fails(i), Settles(i)
  PROVE  /\ ClientInv'
         /\ \A d \in Clients : /\ clients'[d].options = clients[d].options
                               /\ clients'[d].document = clients[d].document
<1>0. PICK c : c = requests[i].client
  OBVIOUS
<1>. DEFINE torn == clients[c].torn \/ (requests[i].stage = "body" /\ requests[i].kind = "refresh")
            n == [clients[c] EXCEPT !.torn = torn]
<1>1. ClientTypes /\ Inits /\ Whole
      /\ c \in Clients /\ clients[c] \in ClientRecords /\ requests[i] \in RequestRecords
      /\ DOMAIN clients = Clients
  BY <1>0, Shapes DEF ClientInv, RequestRecords, ClientTypes
<1>2. srv' = srv /\ ServerTypeOK'
  BY <1>1, ServerAssumption DEF Fails, serverVars, ClientTypes, ServerTypeOK
<1>3. clients' = [clients EXCEPT ![c] = n] /\ requests' = RemoveAt(requests, i)
  BY <1>0 DEF Fails
<1>4. /\ n \in ClientRecords /\ n.document = clients[c].document /\ n.etag = clients[c].etag
      /\ n.torn = torn /\ n.options = clients[c].options
  BY <1>1 DEF ClientRecords
<1>. HIDE DEF n
<1>5. /\ clients' \in [Clients -> ClientRecords]
      /\ clients'[c] = n
      /\ \A d \in Clients : /\ clients'[d].options = clients[d].options
                            /\ clients'[d].document = clients[d].document
                            /\ d # c => clients'[d] = clients[d]
  BY <1>1, <1>3, <1>4 DEF ClientTypes
<1>6. ClientTypes' /\ Inits'
  BY <1>1, <1>2, <1>3, <1>5, SettledKeepsInits
<1>7. Whole'
  <2>1. \A d : /\ \A j \in Pending(d)' : /\ Old(i, j) \in Pending(d) \ {i}
                                         /\ requests'[j] = requests[Old(i, j)]
               /\ \A j, k \in Pending(d)' : Old(i, j) = Old(i, k) => j = k
               /\ Pending(d)' = {} => Pending(d) \subseteq {i}
    BY <1>1, <1>3, PendingRemoval
  <2>2. ASSUME NEW d \in Clients, ~clients'[d].torn
        PROVE  /\ ~clients[d].torn /\ i \notin Pending(d)
               /\ clients'[d].etag = clients[d].etag
               /\ clients'[d].document = clients[d].document
    BY <2>2, <1>0, <1>1, <1>4, <1>5 DEF Pending
  <2>. QED
    BY <2>1, <2>2, <1>1 DEF Whole
<1>. QED
  BY <1>5, <1>6, <1>7 DEF ClientInv

-----------------------------------------------------------------------------
(* What a request that ends does to its owner. *)

ClientsKept(i) ==
  \A d \in Clients : /\ clients'[d].options = clients[d].options
                     /\ d # requests[i].client => clients'[d].document = clients[d].document

LEMMA InstalledKeepsStore ==
  ASSUME JSInv, NEW i \in DOMAIN requests, requests[i].kind = "init", host = "react",
         Installed(i), UNCHANGED renderVars, ClientsKept(i)
  PROVE  StoreInv'
<1>1. /\ StoreTypes /\ Owners /\ StoreIsShown /\ NoClient \notin Clients
      /\ requests[i].client \in Clients /\ requests[i].client # held
      /\ held \in Clients \cup {NoClient}
  BY Shapes DEF JSInv, ClientInv, StoreInv, Inits, RequestRecords, ClientTypes
<1>2. UNCHANGED <<host, options, mounted>>
  BY DEF renderVars
<1>3. CASE requests[i].client = starting
  <2>1. /\ starting' = NoClient /\ held' = starting /\ isLoading' = FALSE
        /\ error' = "none" /\ UNCHANGED <<pause, attempt, timer>>
        /\ shown' = Selected(held', isLoading', error', clients')
        /\ polling' = Polls(options.updateInterval, held', mounted)
    BY <1>3 DEF Installed, effectVars, Notify
  <2>2. mounted /\ starting # NoClient
    BY <1>1, <1>3 DEF Owners
  <2>3. StoreTypes'
    BY <1>1, <1>2, <2>1 DEF StoreTypes, Polls
  <2>4. Owners'
    BY <1>1, <1>2, <2>1, <2>2 DEF Owners
  <2>5. StoreIsShown'
    BY <1>1, <1>2, <2>1, <2>2 DEF StoreIsShown, Selected
  <2>. QED
    BY <2>3, <2>4, <2>5 DEF StoreInv
<1>4. CASE requests[i].client # starting
  <2>1. UNCHANGED <<starting, held, timer, pause, attempt, isLoading, error, polling, shown>>
    BY <1>4 DEF Installed, effectVars
  <2>2. StoreTypes'
    BY <1>1, <1>2, <2>1 DEF StoreTypes
  <2>3. starting # NoClient => starting \in Clients
    BY DEF JSInv, ClientInv, ClientTypes
  <2>4. Owners'
    BY <1>1, <1>2, <2>1, <2>3 DEF Owners, ClientsKept
  <2>5. held # NoClient => clients'[held].document = clients[held].document
    BY <1>1 DEF ClientsKept
  <2>6. StoreIsShown'
    BY <1>1, <1>2, <2>1, <2>5 DEF StoreIsShown, Selected
  <2>. QED
    BY <2>2, <2>4, <2>6 DEF StoreInv
<1>. QED
  BY <1>3, <1>4

LEMMA NotInstalledKeepsStore ==
  ASSUME JSInv, NEW i \in DOMAIN requests, requests[i].kind = "init", host = "react",
         NotInstalled(i), UNCHANGED renderVars, ClientsKept(i)
  PROVE  StoreInv'
<1>1. /\ StoreTypes /\ Owners /\ StoreIsShown /\ NoClient \notin Clients
      /\ requests[i].client \in Clients /\ requests[i].client # held
      /\ held \in Clients \cup {NoClient}
  BY Shapes DEF JSInv, ClientInv, StoreInv, Inits, RequestRecords, ClientTypes
<1>2. UNCHANGED <<host, options, mounted>>
  BY DEF renderVars
<1>3. CASE requests[i].client = starting
  <2>1. /\ starting' = NoClient /\ UNCHANGED <<held, timer, polling>>
        /\ error' = "init" /\ isLoading' = (isLoading /\ pause')
        /\ shown' = Selected(held', isLoading', error', clients')
        /\ attempt' = IF options.maxRetryAttempts > 0 THEN attempt + 1 ELSE 0
        /\ pause' \in BOOLEAN
    BY <1>3 DEF NotInstalled, Notify
  <2>2. mounted
    BY <1>1, <1>3 DEF Owners
  <2>3. StoreTypes'
    <3>1. attempt' \in Nat
      BY <1>1, <2>1 DEF StoreTypes
    <3>. QED
      BY <1>1, <1>2, <2>1, <3>1 DEF StoreTypes
  <2>4. Owners'
    BY <1>1, <1>2, <2>1, <2>2 DEF Owners
  <2>5. StoreIsShown'
    BY <1>1, <1>2, <2>1, <2>2 DEF StoreIsShown, Selected
  <2>. QED
    BY <2>3, <2>4, <2>5 DEF StoreInv
<1>4. CASE requests[i].client # starting
  <2>1. UNCHANGED <<starting, held, timer, pause, attempt, isLoading, error, polling, shown>>
    BY <1>4 DEF NotInstalled, effectVars
  <2>2. StoreTypes'
    BY <1>1, <1>2, <2>1 DEF StoreTypes
  <2>3. starting # NoClient => starting \in Clients
    BY DEF JSInv, ClientInv, ClientTypes
  <2>4. Owners'
    BY <1>1, <1>2, <2>1, <2>3 DEF Owners, ClientsKept
  <2>5. held # NoClient => clients'[held].document = clients[held].document
    BY <1>1 DEF ClientsKept
  <2>6. StoreIsShown'
    BY <1>1, <1>2, <2>1, <2>5 DEF StoreIsShown, Selected
  <2>. QED
    BY <2>2, <2>4, <2>6 DEF StoreInv
<1>. QED
  BY <1>3, <1>4

LEMMA NodeInitKeepsStore ==
  ASSUME JSInv, NEW i \in DOMAIN requests, host = "node", NEW ok \in BOOLEAN,
         NodeInitEnds(i, ok), Unattended, UNCHANGED renderVars
  PROVE  StoreInv'
<1>1. /\ StoreTypes /\ Owners /\ NoClient \notin Clients
      /\ starting = requests[i].client /\ requests[i].client \in Clients
  BY Shapes DEF JSInv, ClientInv, StoreInv, Inits, RequestRecords, NodeInitEnds
<1>2. /\ UNCHANGED <<host, options, mounted, pause, attempt, isLoading, error, polling>>
      /\ starting' = NoClient
      /\ timer' = (ok /\ clients[starting].options.updateInterval > 0)
      /\ ok => held' = starting
  BY DEF renderVars, Unattended, effectVars, NodeInitEnds
<1>3. StoreTypes'
  BY <1>1, <1>2 DEF StoreTypes
<1>4. Owners' /\ StoreIsShown'
  BY <1>1, <1>2 DEF Owners, StoreIsShown
<1>. QED
  BY <1>3, <1>4 DEF StoreInv

(* A refresh: on React the hooks are told, unless a failure is swallowed. *)
LEMMA RefreshEndKeepsStore ==
  ASSUME JSInv, NEW i \in DOMAIN requests, ClientsKept(i), UNCHANGED renderVars,
         UNCHANGED <<starting, held, timer, pause, attempt, isLoading, polling>>,
         error' \in {error, "refresh"},
         \/ Notify
         \/ host = "node"
         \/ UNCHANGED <<error, shown>> /\ \A d \in Clients :
              clients'[d].document = clients[d].document
  PROVE  StoreInv'
<1>1. /\ StoreTypes /\ Owners /\ StoreIsShown
      /\ held \in Clients \cup {NoClient} /\ starting \in Clients \cup {NoClient}
  BY DEF JSInv, ClientInv, StoreInv, ClientTypes
<1>2. UNCHANGED <<host, options, mounted>>
  BY DEF renderVars
<1>3. StoreTypes'
  BY <1>1, <1>2 DEF StoreTypes
<1>4. Owners'
  BY <1>1, <1>2 DEF Owners, ClientsKept
<1>5. StoreIsShown'
  <2>1. CASE Notify
    BY <2>1, <1>1, <1>2 DEF StoreIsShown, Notify, Selected
  <2>2. CASE host = "node"
    BY <2>2, <1>2 DEF StoreIsShown
  <2>3. CASE UNCHANGED <<error, shown>> /\ \A d \in Clients :
               clients'[d].document = clients[d].document
    BY <2>3, <1>1, <1>2 DEF StoreIsShown, Selected
  <2>. QED
    BY <2>1, <2>2, <2>3
<1>. QED
  BY <1>3, <1>4, <1>5 DEF StoreInv

LEMMA SettledInit ==
  ASSUME JSInv, NEW i \in DOMAIN requests, requests[i].kind = "init", UNCHANGED renderVars,
         \/ host = "react" /\ (Installed(i) \/ NotInstalled(i))
         \/ host = "node" /\ \E ok \in BOOLEAN : NodeInitEnds(i, ok)
  PROVE  Settles(i)
<1>1. host' = host
  BY DEF renderVars
<1>2. host = "node" => requests[i].client = starting
  BY DEF JSInv, ClientInv, Inits
<1>. QED
  BY <1>1, <1>2 DEF Settles, Installed, NotInstalled, NodeInitEnds

LEMMA RequestKinds ==
  ASSUME JSInv, NEW i \in DOMAIN requests
  PROVE  requests[i].kind \in {"init", "refresh"} /\ host \in {"node", "react"}
BY Shapes DEF JSInv, ClientInv, StoreInv, StoreTypes, RequestRecords

LEMMA SucceedsKeepsInv ==
  ASSUME JSInv, NEW i \in DOMAIN requests, Succeeds(i)
  PROVE  JSInv'
<1>1. BodyRead(i) /\ UNCHANGED renderVars /\ UNCHANGED serverVars /\ host' = host
  BY DEF Succeeds, renderVars
<1>2. CASE requests[i].kind = "init"
  <2>1. \/ host = "react" /\ Installed(i)
        \/ host = "node" /\ NodeInitEnds(i, TRUE) /\ Unattended
    BY <1>2, RequestKinds DEF Succeeds
  <2>2. Settles(i)
    BY <1>1, <1>2, <2>1, SettledInit
  <2>3. ClientInv' /\ ClientsKept(i)
    BY <1>1, <2>2, BodyKeepsClients DEF JSInv, ClientsKept
  <2>4. StoreInv'
    BY <1>1, <1>2, <2>1, <2>3, InstalledKeepsStore, NodeInitKeepsStore
  <2>. QED
    BY <2>3, <2>4 DEF JSInv
<1>3. CASE requests[i].kind = "refresh"
  <2>1. \/ host = "react" /\ Updated
        \/ host = "node" /\ NodeRefreshEnds(i) /\ Unattended
    BY <1>3, RequestKinds DEF Succeeds
  <2>2. /\ UNCHANGED <<starting, held, timer, pause, attempt, isLoading, error, polling>>
        /\ Notify \/ host = "node"
    BY <2>1 DEF Updated, NodeRefreshEnds, Unattended, effectVars
  <2>3. Settles(i)
    BY <1>1, <2>2 DEF Settles
  <2>4. ClientInv' /\ ClientsKept(i)
    BY <1>1, <2>3, BodyKeepsClients DEF JSInv, ClientsKept
  <2>5. StoreInv'
    BY <1>1, <2>2, <2>4, RefreshEndKeepsStore
  <2>. QED
    BY <2>4, <2>5 DEF JSInv
<1>. QED
  BY <1>2, <1>3, RequestKinds

LEMMA SwallowedKeepsInv ==
  ASSUME JSInv, NEW i \in DOMAIN requests, FailureSwallowed(i)
  PROVE  JSInv'
<1>1. Fails(i) /\ UNCHANGED renderVars /\ host' = host
  BY DEF FailureSwallowed, renderVars
<1>2. CASE requests[i].kind = "init"
  <2>1. \/ host = "react" /\ Installed(i)
        \/ host = "node" /\ NodeInitEnds(i, TRUE) /\ Unattended
    BY <1>2, RequestKinds DEF FailureSwallowed
  <2>2. Settles(i)
    BY <1>1, <1>2, <2>1, SettledInit
  <2>3. ClientInv' /\ ClientsKept(i)
    BY <1>1, <2>2, FailKeepsClients DEF JSInv, ClientsKept
  <2>4. StoreInv'
    BY <1>1, <1>2, <2>1, <2>3, InstalledKeepsStore, NodeInitKeepsStore
  <2>. QED
    BY <2>3, <2>4 DEF JSInv
<1>3. CASE requests[i].kind = "refresh"
  <2>1. UNCHANGED <<starting, held, timer, pause, attempt, isLoading, error, polling, shown>>
    BY <1>3 DEF FailureSwallowed, Unattended, effectVars
  <2>2. Settles(i)
    BY <1>1, <2>1 DEF Settles
  <2>3. ClientInv' /\ ClientsKept(i)
        /\ \A d \in Clients : clients'[d].document = clients[d].document
    BY <1>1, <2>2, FailKeepsClients DEF JSInv, ClientsKept
  <2>4. StoreInv'
    BY <1>1, <2>1, <2>3, RefreshEndKeepsStore
  <2>. QED
    BY <2>3, <2>4 DEF JSInv
<1>. QED
  BY <1>2, <1>3, RequestKinds

LEMMA ThrownKeepsInv ==
  ASSUME JSInv, NEW i \in DOMAIN requests, FailureThrown(i)
  PROVE  JSInv'
<1>1. Fails(i) /\ UNCHANGED renderVars /\ host' = host
  BY DEF FailureThrown, renderVars
<1>2. CASE requests[i].kind = "init"
  <2>1. \/ host = "react" /\ NotInstalled(i)
        \/ host = "node" /\ NodeInitEnds(i, FALSE) /\ Unattended
    BY <1>2, RequestKinds DEF FailureThrown
  <2>2. Settles(i)
    BY <1>1, <1>2, <2>1, SettledInit
  <2>3. ClientInv' /\ ClientsKept(i)
    BY <1>1, <2>2, FailKeepsClients DEF JSInv, ClientsKept
  <2>4. StoreInv'
    BY <1>1, <1>2, <2>1, <2>3, NotInstalledKeepsStore, NodeInitKeepsStore
  <2>. QED
    BY <2>3, <2>4 DEF JSInv
<1>3. CASE requests[i].kind = "refresh"
  <2>1. \/ host = "react" /\ RefreshThrows
        \/ host = "node" /\ NodeRefreshEnds(i) /\ Unattended
    BY <1>3, RequestKinds DEF FailureThrown
  <2>2. /\ UNCHANGED <<starting, held, timer, pause, attempt, isLoading, polling>>
        /\ error' \in {error, "refresh"}
        /\ Notify \/ host = "node"
    BY <2>1 DEF RefreshThrows, NodeRefreshEnds, Unattended, effectVars
  <2>3. Settles(i)
    BY <1>1, <2>2 DEF Settles
  <2>4. ClientInv' /\ ClientsKept(i)
    BY <1>1, <2>3, FailKeepsClients DEF JSInv, ClientsKept
  <2>5. StoreInv'
    BY <1>1, <2>2, <2>4, RefreshEndKeepsStore
  <2>. QED
    BY <2>4, <2>5 DEF JSInv
<1>. QED
  BY <1>2, <1>3, RequestKinds

-----------------------------------------------------------------------------
(* Steps that change no document of a client in use: all that is shown stays
   true if it is read again or nothing it is read from changes. *)
LEMMA ShownStays ==
  ASSUME JSInv, UNCHANGED <<host, mounted, held, isLoading, error, polling, shown>>,
         \A c \in Clients : c = held => clients'[c].document = clients[c].document
  PROVE  StoreIsShown'
<1>1. StoreIsShown /\ held \in Clients \cup {NoClient}
  BY DEF JSInv, ClientInv, StoreInv, ClientTypes
<1>. QED
  BY <1>1 DEF StoreIsShown, Selected

LEMMA ServerKeepsInv ==
  ASSUME JSInv, ServerStep
  PROVE  JSInv'
<1>1. UNCHANGED <<clientVars, storeVars>> /\ ClientTypes /\ srv' \in {srv, srv + 1} /\ ServerTypeOK'
  <2>1. /\ UNCHANGED <<clientVars, storeVars>> /\ ClientTypes /\ ServerTypeOK
        /\ Publish \/ GoDown \/ ComeUp \/ RotateCredential
    BY DEF ServerStep, ServerNext, JSInv, ClientInv, ClientTypes
  <2>2. /\ srv \in 1..MaxVersion /\ up \in BOOLEAN /\ cred \in 0..MaxCred
        /\ outages \in 0..MaxOutages
    BY <2>1 DEF ServerTypeOK, Version, Cred
  <2>3. srv' \in {srv, srv + 1} /\ srv' \in 1..MaxVersion
    BY <2>1, <2>2, ServerAssumption DEF Publish, GoDown, ComeUp, RotateCredential
  <2>4. up' \in BOOLEAN
    BY <2>1, <2>2 DEF Publish, GoDown, ComeUp, RotateCredential
  <2>5. cred' \in 0..MaxCred
    BY <2>1, <2>2, ServerAssumption DEF Publish, GoDown, ComeUp, RotateCredential
  <2>6. outages' \in 0..MaxOutages
    BY <2>1, <2>2, ServerAssumption DEF Publish, GoDown, ComeUp, RotateCredential
  <2>. QED
    BY <2>1, <2>3, <2>4, <2>5, <2>6 DEF ServerTypeOK, Version, Cred
<1>2. UNCHANGED <<clients, requests, starting, held, timer, host, options, mounted, pause,
                  attempt, isLoading, error, polling, shown>>
  BY <1>1 DEF clientVars, storeVars
<1>3. ClientRecords \subseteq ClientRecords' /\ RequestRecords \subseteq RequestRecords'
  <2>1. 0..srv \subseteq 0..srv'
    BY <1>1, Shapes
  <2>. QED
    BY <2>1 DEF ClientRecords, RequestRecords
<1>4. clients \in [Clients -> ClientRecords'] /\ requests \in Seq(RequestRecords')
  BY <1>1, <1>3, SeqMonotonic DEF ClientTypes
<1>5. ClientTypes'
  BY <1>1, <1>2, <1>4 DEF ClientTypes
<1>6. Inits' /\ Whole'
  <2>1. Inits /\ Whole /\ \A c : Pending(c)' = Pending(c)
    BY <1>2 DEF JSInv, ClientInv, Pending
  <2>. QED
    BY <1>2, <2>1 DEF Inits, Whole
<1>7. StoreTypes' /\ Owners' /\ StoreIsShown'
  <2>1. StoreTypes /\ Owners
    BY DEF JSInv, StoreInv
  <2>2. StoreTypes'
    BY <1>2, <2>1 DEF StoreTypes
  <2>3. Owners'
    BY <1>2, <2>1 DEF Owners
  <2>4. StoreIsShown'
    BY <1>2, ShownStays
  <2>. QED
    BY <2>2, <2>3, <2>4
<1>. QED
  BY <1>5, <1>6, <1>7 DEF JSInv, ClientInv, StoreInv

LEMMA NodeKeepsInv ==
  ASSUME JSInv, NodeStep
  PROVE  JSInv'
<1>1. /\ host = "node" /\ UNCHANGED serverVars /\ host' = host
      /\ UNCHANGED <<options, mounted, pause, attempt, isLoading, error, polling, shown>>
  BY DEF NodeStep, storeVars
<1>2. StoreIsShown'
  BY <1>1 DEF StoreIsShown
<1>3. ClientTypes /\ StoreTypes /\ Owners
  BY DEF JSInv, ClientInv, StoreInv
<1>4. ASSUME NEW o \in Options, NodeInits(o)
      PROVE  JSInv'
  <2>1. InitBegins(o) /\ starting = NoClient /\ held = NoClient /\ UNCHANGED <<held, timer>>
    BY <1>4 DEF NodeInits
  <2>2. ClientInv'
    BY <1>1, <2>1, BeginKeepsClients DEF JSInv
  <2>3. StoreTypes' /\ Owners'
    BY <1>1, <1>3, <2>1 DEF StoreTypes, Owners
  <2>. QED
    BY <1>2, <2>2, <2>3 DEF JSInv, StoreInv
<1>5. CASE NodeRefreshes
  <2>1. held # NoClient /\ RefreshBegins(held)
    BY <1>5 DEF NodeRefreshes
  <2>2. ClientInv'
    BY <1>1, <2>1, RefreshKeepsClients DEF JSInv
  <2>3. UNCHANGED <<clients, starting, held, timer>>
    BY <2>1 DEF RefreshBegins
  <2>4. StoreTypes' /\ Owners'
    BY <1>1, <1>3, <2>3 DEF StoreTypes, Owners
  <2>. QED
    BY <1>2, <2>2, <2>4 DEF JSInv, StoreInv
<1>6. CASE NodeCloses
  <2>1. UNCHANGED <<clients, requests, starting>> /\ held' = NoClient /\ timer' = FALSE
    BY <1>6 DEF NodeCloses
  <2>2. ClientTypes'
    BY <1>1, <1>3, <2>1
       DEF ClientTypes, ServerTypeOK, serverVars, ClientRecords, RequestRecords
  <2>3. \A i \in DOMAIN requests : requests[i].client # NoClient
    BY <1>3, Shapes DEF RequestRecords
  <2>4. Inits'
    <3>1. Inits
      BY DEF JSInv, ClientInv
    <3>. QED
      BY <1>1, <2>1, <2>3, <3>1 DEF Inits
  <2>5. Whole'
    <3>1. Whole /\ \A c : Pending(c)' = Pending(c)
      BY <2>1 DEF JSInv, ClientInv, Pending
    <3>. QED
      BY <2>1, <3>1 DEF Whole
  <2>6. StoreTypes' /\ Owners'
    BY <1>1, <1>3, <2>1 DEF StoreTypes, Owners
  <2>. QED
    BY <1>2, <2>2, <2>4, <2>5, <2>6 DEF JSInv, ClientInv, StoreInv
<1>. QED
  BY <1>4, <1>5, <1>6 DEF NodeStep

(* A step that starts no client: the requests and their clients stay. *)
LEMMA ClientsStay ==
  ASSUME JSInv, UNCHANGED <<clients, requests, held, host, serverVars>>,
         starting' = NoClient \/ starting' = starting, host = "react"
  PROVE  ClientInv'
<1>1. ClientTypes /\ Inits /\ Whole /\ \A c : Pending(c)' = Pending(c)
  BY DEF JSInv, ClientInv, Pending
<1>2. ClientTypes'
  BY <1>1 DEF ClientTypes, ServerTypeOK, serverVars, ClientRecords, RequestRecords
<1>3. Inits'
  BY <1>1 DEF Inits
<1>4. Whole'
  BY <1>1 DEF Whole
<1>. QED
  BY <1>2, <1>3, <1>4 DEF ClientInv

(* The effect of a render: what it leaves of the clients, and the client it
   waits for. *)
LEMMA EffectKeepsClients ==
  ASSUME JSInv, NEW o \in Options, InitEffect(o), UNCHANGED <<host, serverVars>>,
         host = "react"
  PROVE  /\ ClientInv'
         /\ held' = held /\ timer' = timer /\ attempt' = 0 /\ pause' = FALSE
         /\ \A c \in Clients : c = held => clients'[c].document = clients[c].document
         /\ starting' # NoClient =>
              starting' # held /\ clients'[starting'].options = o
<1>1. /\ held' = held /\ timer' = timer /\ attempt' = 0 /\ pause' = FALSE
      /\ \/ starting' = NoClient /\ UNCHANGED <<clients, requests>>
         \/ InitBegins(o)
  BY DEF InitEffect
<1>2. CASE starting' = NoClient /\ UNCHANGED <<clients, requests>>
  BY <1>1, <1>2, ClientsStay
<1>3. CASE InitBegins(o)
  <2>1. /\ ClientInv'
        /\ \E c \in Clients : /\ c # starting /\ c # held /\ starting' = c
                              /\ clients' = [clients EXCEPT ![c] = NewClient(o)]
    BY <1>1, <1>3, BeginKeepsClients DEF JSInv
  <2>2. clients \in [Clients -> ClientRecords]
    BY DEF JSInv, ClientInv, ClientTypes
  <2>. QED
    BY <1>1, <2>1, <2>2 DEF NewClient
<1>. QED
  BY <1>1, <1>2, <1>3

LEMMA MountsKeepsInv ==
  ASSUME JSInv, Mounts
  PROVE  JSInv'
<1>1. /\ host = "react" /\ ~mounted /\ mounted' = TRUE /\ InitEffect(options)
      /\ UNCHANGED <<isLoading, error, host, options, serverVars>>
      /\ polling' = Polls(first, held, TRUE)
      /\ shown' = Selected(held', isLoading', error', clients')
  BY DEF Mounts, Notify
<1>2. StoreTypes /\ Owners /\ StoreIsShown /\ options \in Options
  BY DEF JSInv, StoreInv, StoreTypes
<1>3. /\ ClientInv'
      /\ held' = held /\ timer' = timer /\ attempt' = 0 /\ pause' = FALSE
      /\ starting' # NoClient =>
              starting' # held /\ clients'[starting'].options = options
  BY <1>1, <1>2, EffectKeepsClients
<1>4. polling' \in BOOLEAN /\ (polling' => polling \/ held # NoClient)
  BY <1>1, <1>2 DEF StoreTypes, Polls
<1>5. StoreTypes'
  BY <1>1, <1>2, <1>3, <1>4 DEF StoreTypes
<1>6. Owners'
  BY <1>1, <1>2, <1>3 DEF Owners
<1>7. StoreIsShown'
  BY <1>1, <1>2, <1>3, <1>4 DEF StoreIsShown, Selected
<1>. QED
  BY <1>3, <1>5, <1>6, <1>7 DEF JSInv, StoreInv

LEMMA UnmountsKeepsInv ==
  ASSUME JSInv, Unmounts
  PROVE  JSInv'
<1>1. /\ mounted /\ mounted' = FALSE /\ polling' = FALSE /\ starting' = NoClient
      /\ pause' = FALSE
      /\ UNCHANGED <<host, options, attempt, isLoading, error, shown, clients, requests,
                     held, timer, serverVars>>
  BY DEF Unmounts
<1>2. StoreTypes /\ Owners /\ StoreIsShown
  BY DEF JSInv, StoreInv
<1>3. host = "react"
  BY <1>1, <1>2 DEF StoreTypes, Owners
<1>4. ClientInv'
  BY <1>1, <1>3, ClientsStay
<1>5. StoreTypes'
  BY <1>1, <1>2 DEF StoreTypes
<1>6. Owners'
  BY <1>1, <1>2 DEF Owners
<1>7. StoreIsShown'
  BY <1>1, <1>2 DEF StoreIsShown
<1>. QED
  BY <1>4, <1>5, <1>6, <1>7 DEF JSInv, StoreInv

LEMMA OptionsKeepInv ==
  ASSUME JSInv, NEW o \in Options, OptionsChange(o)
  PROVE  JSInv'
<1>1. /\ mounted /\ options' = o /\ InitEffect(o)
      /\ UNCHANGED <<host, mounted, isLoading, error, polling, shown, serverVars>>
  BY DEF OptionsChange
<1>2. StoreTypes /\ Owners
  BY DEF JSInv, StoreInv
<1>3. host = "react"
  BY <1>1, <1>2 DEF StoreTypes, Owners
<1>4. /\ ClientInv'
      /\ held' = held /\ timer' = timer /\ attempt' = 0 /\ pause' = FALSE
      /\ \A c \in Clients : c = held => clients'[c].document = clients[c].document
      /\ starting' # NoClient =>
              starting' # held /\ clients'[starting'].options = o
  BY <1>1, <1>3, EffectKeepsClients
<1>5. StoreTypes'
  BY <1>1, <1>2, <1>4 DEF StoreTypes
<1>6. Owners'
  BY <1>1, <1>2, <1>3, <1>4 DEF Owners
<1>7. StoreIsShown'
  BY <1>1, <1>4, ShownStays
<1>. QED
  BY <1>4, <1>5, <1>6, <1>7 DEF JSInv, StoreInv

LEMMA RetriesKeepsInv ==
  ASSUME JSInv, Retries
  PROVE  JSInv'
<1>1. /\ pause /\ pause' = FALSE /\ InitBegins(options)
      /\ UNCHANGED <<attempt, held, timer, host, options, mounted, isLoading, error, polling,
                     shown, serverVars>>
  BY DEF Retries, renderVars
<1>2. StoreTypes /\ Owners /\ options \in Options
  BY DEF JSInv, StoreInv, StoreTypes
<1>3. host = "react" /\ mounted
  BY <1>1, <1>2 DEF StoreTypes, Owners
<1>4. /\ ClientInv'
      /\ \E c \in Clients : /\ c # starting /\ c # held /\ starting' = c
                            /\ clients' = [clients EXCEPT ![c] = NewClient(options)]
  BY <1>1, <1>2, <1>3, BeginKeepsClients DEF JSInv
<1>5. clients \in [Clients -> ClientRecords]
  BY DEF JSInv, ClientInv, ClientTypes
<1>6. /\ starting' # held /\ clients'[starting'].options = options
      /\ \A c \in Clients : c = held => clients'[c].document = clients[c].document
  BY <1>4, <1>5 DEF NewClient
<1>7. StoreTypes'
  BY <1>1, <1>2 DEF StoreTypes
<1>8. Owners'
  BY <1>1, <1>2, <1>3, <1>6 DEF Owners
<1>9. StoreIsShown'
  BY <1>1, <1>6, ShownStays
<1>. QED
  BY <1>4, <1>7, <1>8, <1>9 DEF JSInv, StoreInv

LEMMA PollKeepsInv ==
  ASSUME JSInv, PollTick
  PROVE  JSInv'
<1>1. held # NoClient /\ RefreshBegins(held) /\ UNCHANGED <<storeVars, serverVars>>
  BY DEF PollTick
<1>2. /\ UNCHANGED <<clients, starting, held, timer>>
      /\ UNCHANGED <<host, options, mounted, pause, attempt, isLoading, error, polling, shown>>
  BY <1>1 DEF RefreshBegins, storeVars
<1>3. ClientInv'
  BY <1>1, <1>2, RefreshKeepsClients DEF JSInv
<1>4. StoreTypes /\ Owners
  BY DEF JSInv, StoreInv
<1>5. StoreTypes'
  BY <1>2, <1>4 DEF StoreTypes
<1>6. Owners'
  BY <1>2, <1>4 DEF Owners
<1>7. StoreIsShown'
  BY <1>2, ShownStays
<1>. QED
  BY <1>3, <1>5, <1>6, <1>7 DEF JSInv, StoreInv

LEMMA RequestKeepsInv ==
  ASSUME JSInv, NEW i \in DOMAIN requests, RequestStep(i)
  PROVE  JSInv'
<1>1. CASE (Answered(i) \/ NotModified(i) \/ HeadersRead(i)) /\ UNCHANGED <<serverVars, storeVars>>
  <2>1. /\ UNCHANGED <<starting, held, timer, serverVars>>
        /\ UNCHANGED <<host, options, mounted, pause, attempt, isLoading, error, polling, shown>>
    BY <1>1 DEF Answered, NotModified, HeadersRead, storeVars
  <2>2. ClientInv' /\ \A d \in Clients : /\ clients'[d].document = clients[d].document
                                         /\ clients'[d].options = clients[d].options
    <3>1. CASE Answered(i)
      BY <2>1, <3>1, AnsweredKeepsClients DEF JSInv, Answered
    <3>2. CASE NotModified(i)
      BY <2>1, <3>2, NotModifiedKeepsClients DEF JSInv, NotModified
    <3>3. CASE HeadersRead(i)
      BY <2>1, <3>3, HeadersKeepClients DEF JSInv
    <3>. QED
      BY <1>1, <3>1, <3>2, <3>3
  <2>3. StoreTypes /\ Owners /\ starting \in Clients \cup {NoClient}
    BY DEF JSInv, ClientInv, ClientTypes, StoreInv
  <2>4. StoreTypes'
    BY <2>1, <2>3 DEF StoreTypes
  <2>5. Owners'
    BY <2>1, <2>2, <2>3 DEF Owners
  <2>6. StoreIsShown'
    BY <2>1, <2>2, ShownStays
  <2>. QED
    BY <2>2, <2>4, <2>5, <2>6 DEF JSInv, StoreInv
<1>. QED
  BY <1>1, SucceedsKeepsInv, SwallowedKeepsInv, ThrownKeepsInv DEF RequestStep

LEMMA StutterKeepsInv ==
  ASSUME JSInv, UNCHANGED vars
  PROVE  JSInv'
<1>1. /\ UNCHANGED <<clients, requests, starting, held, timer, serverVars>>
      /\ UNCHANGED <<host, options, mounted, pause, attempt, isLoading, error, polling, shown>>
  BY DEF vars, clientVars, storeVars
<1>2. ClientTypes /\ Inits /\ Whole /\ StoreTypes /\ Owners /\ \A c : Pending(c)' = Pending(c)
  BY <1>1 DEF JSInv, ClientInv, StoreInv, Pending
<1>3. ClientTypes'
  BY <1>1, <1>2 DEF ClientTypes, ServerTypeOK, serverVars, ClientRecords, RequestRecords
<1>4. Inits' /\ Whole'
  BY <1>1, <1>2 DEF Inits, Whole
<1>5. StoreTypes'
  BY <1>1, <1>2 DEF StoreTypes
<1>6. Owners'
  BY <1>1, <1>2 DEF Owners
<1>7. StoreIsShown'
  BY <1>1, ShownStays
<1>. QED
  BY <1>3, <1>4, <1>5, <1>6, <1>7 DEF JSInv, ClientInv, StoreInv

LEMMA NextKeepsInv ==
  ASSUME JSInv, [Next]_vars
  PROVE  JSInv'
BY ServerKeepsInv, NodeKeepsInv, RequestKeepsInv, MountsKeepsInv, UnmountsKeepsInv,
   RetriesKeepsInv, PollKeepsInv, OptionsKeepInv, StutterKeepsInv DEF Next

-----------------------------------------------------------------------------
(* The inductive invariant of clients, requests and the store always holds. *)
THEOREM JSInvariance == Spec => []JSInv
<1>1. Init => JSInv
  BY InitHolds
<1>2. JSInv /\ [Next]_vars => JSInv'
  BY NextKeepsInv
<1>. QED
  BY <1>1, <1>2, PTL DEF Spec

(* Every variable keeps its type, and only an owner on the tree waits for a
   client or has a timer set. *)
THEOREM JSTypeCorrect == Spec => []TypeOK
<1>1. ASSUME JSInv PROVE TypeOK
  <2>1. ClientTypes /\ StoreTypes /\ Owners
    BY <1>1 DEF JSInv, ClientInv, StoreInv
  <2>2. 0..srv \subseteq 0..MaxVersion
    BY <2>1, Shapes DEF ClientTypes, ServerTypeOK, Version
  <2>3. clients \in [Clients -> [options : Options, etag : 0..MaxVersion,
                                document : 0..MaxVersion, torn : BOOLEAN]]
    BY <2>1, <2>2 DEF ClientTypes, ClientRecords
  <2>4. requests \in Seq([client : Clients, kind : {"init", "refresh"},
                         stage : {"sent", "answered", "body"}, etag : 0..srv,
                         status : {0, 200, 304}, version : 0..srv])
    BY <2>1 DEF ClientTypes, RequestRecords
  <2>5. /\ ServerTypeOK /\ Len(requests) <= MaxRequests
        /\ starting \in Clients \cup {NoClient} /\ held \in Clients \cup {NoClient}
    BY <2>1 DEF ClientTypes
  <2>6. /\ host = "react" /\ ~mounted => starting = NoClient /\ ~pause
        /\ timer => host = "node" /\ held # NoClient
    BY <2>1 DEF Owners
  <2>7. timer \in BOOLEAN /\ error \in {"none", "init", "refresh"} /\ attempt \in Nat
    BY <2>1 DEF StoreTypes
  <2>. QED
    BY <2>3, <2>4, <2>5, <2>6, <2>7 DEF TypeOK
<1>. QED
  BY <1>1, JSInvariance, PTL

(* "Not modified" is the truth of a client whose ETag and document were not
   torn apart (base.ts:66-68), for any number of refreshes at once. *)
THEOREM EtagsAreTrue == Spec => []NotModifiedIsCurrent
<1>1. JSInv => NotModifiedIsCurrent
  <2>1. ASSUME JSInv PROVE srv # NoEtag
    BY <2>1, Shapes DEF JSInv, ClientInv, NoEtag
  <2>. QED
    BY <2>1 DEF JSInv, ClientInv, Whole, NotModifiedIsCurrent
<1>. QED
  BY <1>1, JSInvariance, PTL

(* The hooks show the store, for any options and renders
   (useFliptClient.ts:89-231). *)
THEOREM HooksShowStore == Spec => []StoreIsShown
<1>1. JSInv => StoreIsShown
  BY DEF JSInv, StoreInv
<1>. QED
  BY <1>1, JSInvariance, PTL

(* No client of an earlier render is ever installed (useFliptClient.ts:89-155). *)
THEOREM NewestIsInstalled == Spec => NewestOptionsWin
<1>1. ASSUME JSInv, [Next]_vars, host = "react", held' # held
      PROVE  mounted /\ clients'[held'].options = options'
  <2>1. /\ StoreTypes /\ Owners /\ NoClient \notin Clients
        /\ \A i \in DOMAIN requests : requests[i].client \in Clients
    BY <1>1, Shapes DEF JSInv, ClientInv, StoreInv, RequestRecords
  <2>2. PICK i \in DOMAIN requests :
          /\ Installed(i) /\ UNCHANGED renderVars
          /\ requests[i].kind = "init" /\ ((BodyRead(i) /\ UNCHANGED serverVars) \/ Fails(i))
    <3>1. \/ NodeStep \/ ServerStep \/ Mounts \/ Unmounts \/ Retries \/ PollTick
          \/ \E o \in Options : OptionsChange(o)
          \/ UNCHANGED vars
          \/ \E i \in DOMAIN requests : RequestStep(i)
      BY <1>1, Zenon DEF Next
    <3>2. ~(NodeStep \/ ServerStep \/ UNCHANGED vars)
      BY <1>1 DEF NodeStep, ServerStep, vars, clientVars
    <3>3. ~(Mounts \/ Unmounts \/ Retries \/ PollTick \/ \E o \in Options : OptionsChange(o))
      BY <1>1 DEF Mounts, Unmounts, Retries, PollTick, OptionsChange, InitEffect, RefreshBegins
    <3>4. PICK i \in DOMAIN requests : RequestStep(i)
      BY <3>1, <3>2, <3>3
    <3>5. ~(Answered(i) \/ NotModified(i) \/ HeadersRead(i))
      BY <1>1 DEF Answered, NotModified, HeadersRead
    <3>6. Succeeds(i) \/ FailureSwallowed(i) \/ FailureThrown(i)
      BY <3>4, <3>5 DEF RequestStep
    <3>. QED
      BY <1>1, <3>6 DEF Succeeds, FailureSwallowed, FailureThrown, Updated, RefreshThrows,
         NotInstalled
  <2>3. requests[i].client = starting /\ held' = starting
    BY <1>1, <2>2 DEF Installed
  <2>4. mounted /\ clients[starting].options = options /\ starting \in Clients
    BY <1>1, <2>1, <2>3 DEF Owners
  <2>5. Settles(i)
    BY <1>1, <2>2, SettledInit
  <2>6. clients'[starting].options = clients[starting].options
    BY <1>1, <2>2, <2>4, <2>5, BodyKeepsClients, FailKeepsClients DEF JSInv
  <2>. QED
    BY <2>2, <2>3, <2>4, <2>6 DEF renderVars
<1>2. JSInv /\ [Next]_vars => [host = "react" /\ held' # held =>
                                 mounted /\ clients'[held'].options = options']_vars
  BY <1>1
<1>. QED
  BY <1>2, JSInvariance, PTL DEF Spec, NewestOptionsWin
=============================================================================
