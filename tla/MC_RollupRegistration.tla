----------------------- MODULE MC_RollupRegistration -----------------------
(* Model-checking instance of RollupRegistration. *)
EXTENDS RollupRegistration, TLC

Symmetry == Permutations(Namespaces) \cup Permutations(Addresses)
=============================================================================
