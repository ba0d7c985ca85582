----------------------------- MODULE MCRegistry -----------------------------
(* TLC instances of Registry.  Symmetry is left out: it is not sound for   *)
(* the liveness properties.                                                *)
EXTENDS Registry
=============================================================================
