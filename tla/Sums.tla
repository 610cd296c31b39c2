-------------------------------- MODULE Sums --------------------------------
(***************************************************************************)
(* Sums of a function to the naturals, counted rather than added up one by *)
(* one: if every x has f[x] coins, the sum is the number of coins.         *)
(***************************************************************************)
EXTENDS Naturals, FiniteSets

Coins(f) == UNION {{x} \X (1..f[x]) : x \in DOMAIN f}
SumOf(f) == Cardinality(Coins(f))
=============================================================================
