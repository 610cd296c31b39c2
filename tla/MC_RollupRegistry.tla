------------------------- MODULE MC_RollupRegistry -------------------------
(* Model-checking instance of RollupRegistry. *)
EXTENDS RollupRegistry, TLC

Symmetry == Permutations(Namespaces) \cup Permutations(Addresses)
=============================================================================
