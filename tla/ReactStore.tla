------------------------------ MODULE ReactStore ------------------------------
(***************************************************************************)
(* The store of flipt-client-react (useFliptClient.ts) under its provider: *)
(* an effect that initialises a client for the options of the last render, *)
(* retrying what fails, a poll of the client it holds, and hooks that read *)
(* the store when they are told to.  React may run the effects again, with *)
(* new options or after it has taken the provider off the tree.            *)
(***************************************************************************)
EXTENDS JSClient

CONSTANT MaxChanges   \* renders with new options, and unmounts (bounds the
                      \* model)

ASSUME StoreAssumption == MaxChanges \in Nat

VARIABLES
  host,       \* "node" or "react"
  first,      \* the interval of the first render, which attach has kept
  options,    \* the options of the last render
  changes,    \* renders with new options, and unmounts, so far
  mounted,    \* mountedRef
  pause,      \* whether the effect waits before it tries again
  attempt,    \* its attempts so far, if they are limited
  isLoading,  \* dataRef.current.isLoading
  error,      \* dataRef.current.error: "none", "init" or "refresh"
  polling,    \* whether intervalIdRef.current is set
  shown       \* what the hooks have last read

storeVars == <<host, first, options, changes, mounted, pause, attempt,
               isLoading, error, polling, shown>>
effectVars == <<pause, attempt>>
renderVars == <<host, first, options, changes, mounted>>
vars == <<serverVars, clientVars, storeVars>>

Fallback == 0

(* useFliptBoolean and useFliptVariant: the client and its document, or the
   fallback of the caller. *)
Selected(client, loading, e, all) ==
  IF client # NoClient /\ ~loading /\ e = "none"
  THEN <<client, all[client].document>> ELSE <<Fallback, Fallback>>

Notify == shown' = Selected(held', isLoading', error', clients')

Polls(interval, client, on) == polling \/ (interval > 0 /\ on /\ client # NoClient)

Init ==
  /\ ServerInit /\ ClientInit
  /\ host \in {"node", "react"}
  /\ options \in Options /\ first = options.updateInterval
  /\ changes = 0 /\ mounted = FALSE /\ pause = FALSE /\ attempt = 0
  /\ isLoading = TRUE /\ error = "none" /\ polling = FALSE
  /\ shown = <<Fallback, Fallback>>

-----------------------------------------------------------------------------
(* The effects.  A client the effect before waited for is not waited for any
   more: that is its isMounted. *)

InitEffect(o) ==
  /\ attempt' = 0 /\ pause' = FALSE
  /\ IF o.maxRetryAttempts = 0
     THEN starting' = NoClient /\ UNCHANGED <<clients, requests>>
     ELSE InitBegins(o)
  /\ UNCHANGED <<held, timer>>

(* attach keeps the setupPolling of the first render. *)
Mounts ==
  /\ host = "react" /\ ~mounted
  /\ mounted' = TRUE
  /\ InitEffect(options)
  /\ polling' = Polls(first, held, TRUE)
  /\ UNCHANGED <<isLoading, error>> /\ Notify
  /\ UNCHANGED <<host, first, options, changes, serverVars>>

(* Mutant: the effect does not learn that its provider is gone. *)
UnmountsWaiting ==
  /\ mounted /\ changes < MaxChanges
  /\ changes' = changes + 1
  /\ mounted' = FALSE /\ polling' = FALSE /\ pause' = FALSE
  /\ UNCHANGED <<host, first, options, attempt, isLoading, error, shown, clientVars,
                 serverVars>>

Unmounts ==
  /\ mounted /\ changes < MaxChanges
  /\ changes' = changes + 1
  /\ mounted' = FALSE /\ polling' = FALSE
  /\ starting' = NoClient /\ pause' = FALSE
  /\ UNCHANGED <<host, first, options, attempt, isLoading, error, shown, clients,
                 requests, held, timer, serverVars>>

(* A render whose options are another object, with new or with the same
   contents: the effect runs again.  The poll goes on as it was set up. *)
OptionsChange(o) ==
  /\ mounted /\ changes < MaxChanges
  /\ changes' = changes + 1
  /\ options' = o
  /\ InitEffect(o)
  /\ UNCHANGED <<host, first, mounted, isLoading, error, polling, shown, serverVars>>

Retries ==
  /\ pause
  /\ pause' = FALSE
  /\ InitBegins(options)
  /\ UNCHANGED <<attempt, held, timer, renderVars, isLoading, error, polling, shown,
                 serverVars>>

(* Mutant: what an effect that is over has started is installed as well. *)
InstalledUnmounted(i) ==
  /\ starting' = IF requests[i].client = starting THEN NoClient ELSE starting
  /\ held' = requests[i].client /\ isLoading' = FALSE /\ error' = "none"
  /\ polling' = Polls(options.updateInterval, held', mounted)
  /\ Notify
  /\ UNCHANGED <<effectVars, timer>>

(* Mutant: the poll is left to attach. *)
InstalledUnpolled(i) ==
  IF requests[i].client = starting
  THEN /\ starting' = NoClient
       /\ held' = starting /\ isLoading' = FALSE /\ error' = "none"
       /\ Notify
       /\ UNCHANGED <<effectVars, timer, polling>>
  ELSE UNCHANGED <<starting, held, timer, effectVars, isLoading, error, polling, shown>>

Installed(i) ==
  IF requests[i].client = starting
  THEN /\ starting' = NoClient
       /\ held' = starting /\ isLoading' = FALSE /\ error' = "none"
       /\ polling' = Polls(options.updateInterval, held', mounted)
       /\ Notify
       /\ UNCHANGED <<effectVars, timer>>
  ELSE UNCHANGED <<starting, held, timer, effectVars, isLoading, error, polling, shown>>

(* Mutant: an effect that gives up leaves the store loading. *)
NotInstalledLoading(i) ==
  IF requests[i].client = starting
  THEN /\ starting' = NoClient
       /\ error' = "init"
       /\ attempt' = IF options.maxRetryAttempts > 0 THEN attempt + 1 ELSE 0
       /\ pause' = ~(options.maxRetryAttempts > 0 /\ attempt' >= options.maxRetryAttempts)
       /\ UNCHANGED <<held, timer, polling, isLoading>>
       /\ Notify
  ELSE UNCHANGED <<starting, held, timer, effectVars, isLoading, error, polling, shown>>

(* maxRetryAttempts is Infinite unless it is set. *)
NotInstalled(i) ==
  IF requests[i].client = starting
  THEN /\ starting' = NoClient
       /\ error' = "init"
       /\ attempt' = IF options.maxRetryAttempts > 0 THEN attempt + 1 ELSE 0
       /\ pause' = ~(options.maxRetryAttempts > 0 /\ attempt' >= options.maxRetryAttempts)
       /\ isLoading' = (isLoading /\ pause')
       /\ UNCHANGED <<held, timer, polling>>
       /\ Notify
  ELSE UNCHANGED <<starting, held, timer, effectVars, isLoading, error, polling, shown>>

-----------------------------------------------------------------------------
(* The poll. *)

PollTick ==
  /\ polling /\ held # NoClient
  /\ RefreshBegins(held)
  /\ UNCHANGED <<storeVars, serverVars>>

(* Mutant: nobody is told of a new document. *)
UpdatedSilently ==
  UNCHANGED <<starting, held, timer, effectVars, isLoading, error, polling, shown>>

Updated ==
  /\ UNCHANGED <<starting, held, timer, effectVars, isLoading, error, polling>>
  /\ Notify

(* The failure of any refresh, of a client replaced meanwhile as well, is
   the error of the store until a client is next installed. *)
RefreshThrows ==
  /\ error' = "refresh"
  /\ UNCHANGED <<starting, held, timer, effectVars, isLoading, polling>>
  /\ Notify

-----------------------------------------------------------------------------
Unattended == UNCHANGED <<effectVars, isLoading, error, polling, shown>>

Succeeds(i) ==
  /\ BodyRead(i)
  /\ IF requests[i].kind = "init"
     THEN IF host = "react" THEN Installed(i) ELSE NodeInitEnds(i, TRUE) /\ Unattended
     ELSE IF host = "react" THEN Updated ELSE NodeRefreshEnds(i) /\ Unattended
  /\ UNCHANGED <<renderVars, serverVars>>

FailureSwallowed(i) ==
  /\ Swallowed(i) /\ Fails(i)
  /\ IF requests[i].kind = "init"
     THEN IF host = "react" THEN Installed(i) ELSE NodeInitEnds(i, TRUE) /\ Unattended
     ELSE UNCHANGED <<starting, held, timer>> /\ Unattended
  /\ UNCHANGED renderVars

FailureThrown(i) ==
  /\ ~Swallowed(i) /\ Fails(i)
  /\ IF requests[i].kind = "init"
     THEN IF host = "react" THEN NotInstalled(i) ELSE NodeInitEnds(i, FALSE) /\ Unattended
     ELSE IF host = "react" THEN RefreshThrows ELSE NodeRefreshEnds(i) /\ Unattended
  /\ UNCHANGED renderVars

NodeStep ==
  /\ host = "node"
  /\ (\E o \in Options : NodeInits(o)) \/ NodeRefreshes \/ NodeCloses
  /\ UNCHANGED <<serverVars, storeVars>>

ServerStep == ServerNext /\ UNCHANGED <<clientVars, storeVars>>

RequestStep(i) ==
  \/ (Answered(i) \/ NotModified(i) \/ HeadersRead(i)) /\ UNCHANGED <<serverVars, storeVars>>
  \/ Succeeds(i)
  \/ FailureSwallowed(i)
  \/ FailureThrown(i)

Next ==
  \/ ServerStep
  \/ NodeStep
  \/ \E i \in DOMAIN requests : RequestStep(i)
  \/ Mounts \/ Unmounts \/ Retries \/ PollTick
  \/ \E o \in Options : OptionsChange(o)

Spec == Init /\ [][Next]_vars
=============================================================================
