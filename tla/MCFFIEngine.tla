---------------------------- MODULE MCFFIEngine ----------------------------
(***************************************************************************)
(* Instances of FFIEngine for TLC: the callers are model values.           *)
(***************************************************************************)
EXTENDS FFIEngineInvariant

CONSTANTS c1, c2
=============================================================================
