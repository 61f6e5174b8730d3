--------------------------- MODULE MCRateLimiter ---------------------------
(* Model-checking values for RateLimiter. *)
EXTENDS RateLimiter, TLC

Symmetry == Permutations(Keys)
============================================================================
