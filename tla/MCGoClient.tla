----------------------------- MODULE MCGoClient -----------------------------
(***************************************************************************)
(* Instances of GoClient for TLC: the callers are model values.            *)
(***************************************************************************)
EXTENDS GoClientProperties

CONSTANTS c1, c2
=============================================================================
