---------------------------- MODULE MCMigrations ----------------------------
(* Model-checking values for Migrations. *)
EXTENDS Migrations, TLC

Symmetry == Permutations(Instances)
=============================================================================
