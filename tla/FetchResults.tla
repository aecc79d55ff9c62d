---------------------------- MODULE FetchResults ----------------------------
(***************************************************************************)
(* What a fetcher hands to the engine: a document of some version of the   *)
(* namespace, or an error (the type FetchResult of http.rs).               *)
(***************************************************************************)
EXTENDS Naturals

Result == [ok : BOOLEAN, ver : Nat]
Ok(v) == [ok |-> TRUE, ver |-> v]
Err == [ok |-> FALSE, ver |-> 0]
=============================================================================
