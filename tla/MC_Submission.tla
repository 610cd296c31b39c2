--------------------------- MODULE MC_Submission ---------------------------
(* Model-checking instance of Submission: 64 bits are 6, so that an estimate *)
(* of 64 and more, with the priority fee of 40, wraps around.                *)
EXTENDS Submission

CONSTANTS n1, n2

MCNsUnits == [n \in Namespaces |-> IF n = n1 THEN 1 ELSE 2]

P(u, x, y) == [unit |-> u, ns |-> [n \in Namespaces |-> IF n = n1 THEN x ELSE y]]

(* The second is a fifth above the first, and the fee at the third a little  *)
(* more than that; a unit price of 32 overflows.                             *)
MCPrices == {P(5, 5, 5), P(6, 6, 6), P(5, 1, 10), P(32, 5, 5)}
=============================================================================
