------------------------------ MODULE FlagView ------------------------------
(***************************************************************************)
(* What every Flipt client promises its caller, whatever it is made of:    *)
(* calls are answered from one view of the namespace; the view only moves  *)
(* forward and only to what the server has published; calls fail only when *)
(* the error strategy is "fail"; after the client is closed the view is    *)
(* frozen.  Clients implement this module by a refinement mapping.         *)
(***************************************************************************)
EXTENDS Naturals

CONSTANT Strategy     \* "fail" or "fallback"

VARIABLES
  published,   \* the newest version the server has published
  view,        \* the version calls are answered from
  failing,     \* whether calls are answered with an error instead
  closed       \* whether the client has been closed

viewVars == <<published, view, failing, closed>>

ViewInit ==
  /\ published \in Nat
  /\ view = 0
  /\ failing = FALSE
  /\ closed = FALSE

PublishVersion ==
  /\ published' = published + 1
  /\ UNCHANGED <<view, failing, closed>>

Advance ==
  /\ ~closed
  /\ view' \in view..published
  /\ failing' = FALSE
  /\ UNCHANGED <<published, closed>>

StartFailing ==
  /\ ~closed
  /\ Strategy = "fail"
  /\ failing' = TRUE
  /\ UNCHANGED <<published, view, closed>>

Close ==
  /\ ~closed
  /\ closed' = TRUE
  /\ UNCHANGED <<published, view, failing>>

ViewNext == PublishVersion \/ Advance \/ StartFailing \/ Close

ViewSpec == ViewInit /\ [][ViewNext]_viewVars
=============================================================================
