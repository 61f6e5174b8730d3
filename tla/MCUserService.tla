--------------------------- MODULE MCUserService ---------------------------
(* Model-checking values for UserService. *)
EXTENDS UserService, TLC

Symmetry == Permutations(Procs) \cup Permutations(Ids) \cup Permutations(Emails)
============================================================================
