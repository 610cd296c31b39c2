----------------------------- MODULE MC_TxIndex -----------------------------
(* Model-checking instance of TxIndex. *)
EXTENDS TxIndex
=============================================================================
