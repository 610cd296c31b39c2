-------------------------- MODULE MC_RollupReaders --------------------------
(* Model-checking instance of RollupReaders. *)
EXTENDS RollupReaders, TLC

Symmetry == Permutations(Namespaces) \cup Permutations(Addresses)

(* The contents of blockRegs and txRegs are written and never read here:   *)
(* states that differ in nothing else behave alike.                        *)
View == <<hght, accepted, phase, blockDB, Len(blockRegs), actor, txDB, Len(txRegs), readerVars>>
=============================================================================
