-------------------------- MODULE MC_BatchVerifier --------------------------
(* Model-checking instance of BatchVerifier. *)
EXTENDS BatchVerifier
=============================================================================
