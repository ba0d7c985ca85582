--------------------------- MODULE MCAuthService ---------------------------
(* TLC instances of AuthService. *)
EXTENDS AuthService, TLC

Symmetry == Permutations(Requests) \cup Permutations(Secrets)
=============================================================================
