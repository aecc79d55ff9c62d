----------------------------- MODULE MCJavaScript -----------------------------
(***************************************************************************)
(* Instances of ReactStore for TLC.                                        *)
(***************************************************************************)
EXTENDS JSProperties

Asked(snapshot, errorStrategy, updateInterval, maxRetryAttempts) ==
  [snapshot |-> snapshot, errorStrategy |-> errorStrategy,
   updateInterval |-> updateInterval, maxRetryAttempts |-> maxRetryAttempts]

MCOptions ==
  {Asked(FALSE, "fail", 1, 2), Asked(TRUE, "fallback", 0, 2),
   Asked(FALSE, "unset", 1, Infinite)}
=============================================================================
