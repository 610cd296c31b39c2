------------------------ MODULE MC_HeaderCommitment ------------------------
(* Model-checking instance of HeaderCommitment: eleven bytes, of which 0, 1  *)
(* and 2 stand for no string; numbers of two bytes, digests of two.          *)
EXTENDS HeaderCommitment

MCRoots == {<<0>>, <<0, 0>>}
MCDigests == {<<0, 0>>, <<0, 1>>, <<1, 1>>, <<10, 1>>}
=============================================================================
