----------------------------- MODULE MCSessions -----------------------------
(***************************************************************************)
(* A finite instance of Sessions: three requests of any kinds.             *)
(***************************************************************************)
EXTENDS Sessions, TLC

Symmetry == Permutations(Requests) \cup Permutations(Passwords) \cup Permutations(Codes)

=============================================================================
