----------------------------- MODULE MC_Ledger -----------------------------
(* Model-checking instance of Ledger. *)
EXTENDS Ledger, TLC

CONSTANTS fund, builder1, builder2, user

Symmetry == Permutations(Builders)
=============================================================================
