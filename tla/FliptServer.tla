---------------------------- MODULE FliptServer ----------------------------
(***************************************************************************)
(* The Flipt server as its clients see it.  It is not part of this         *)
(* repository: the module says what the code under src/ relies on.  A      *)
(* namespace snapshot is abstracted to a version number; the ETag of       *)
(* version v is v.  An outage stands for every way in which one attempt    *)
(* fails without an answer that the client treats as final (a refused or   *)
(* reset connection, a 5xx answer).                                        *)
(***************************************************************************)
EXTENDS Naturals

CONSTANTS
  MaxVersion,   \* how many versions are ever published (bounds the model)
  MaxOutages,   \* how many outages and dropped streams occur (bounds the model)
  MaxCred       \* how often the accepted credential changes (bounds the model)

ASSUME ServerAssumption ==
  /\ MaxVersion \in Nat \ {0}
  /\ MaxOutages \in Nat
  /\ MaxCred \in Nat

VARIABLES
  srv,      \* the version of the namespace the server holds
  up,       \* whether the server can be reached
  cred,     \* the credential it accepts
  outages   \* outages and dropped streams so far

serverVars == <<srv, up, cred, outages>>

Version == 1..MaxVersion
Cred == 0..MaxCred

ServerInit ==
  /\ srv = 1
  /\ up \in BOOLEAN
  /\ cred = 0
  /\ outages = 0

(* Somebody changes a flag. *)
Publish ==
  /\ srv < MaxVersion
  /\ srv' = srv + 1
  /\ UNCHANGED <<up, cred, outages>>

GoDown ==
  /\ up
  /\ outages < MaxOutages
  /\ up' = FALSE
  /\ outages' = outages + 1
  /\ UNCHANGED <<srv, cred>>

ComeUp ==
  /\ ~up
  /\ up' = TRUE
  /\ UNCHANGED <<srv, cred, outages>>

(* The credential in use expires: requests that carry it are refused. *)
RotateCredential ==
  /\ cred < MaxCred
  /\ cred' = cred + 1
  /\ UNCHANGED <<srv, up, outages>>

ServerNext == Publish \/ GoDown \/ ComeUp \/ RotateCredential

ServerTypeOK ==
  /\ srv \in Version
  /\ up \in BOOLEAN
  /\ cred \in Cred
  /\ outages \in 0..MaxOutages
=============================================================================
