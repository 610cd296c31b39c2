------------------------------- MODULE Epochs -------------------------------
(***************************************************************************)
(* Epoch arithmetic (actions/utils.go).  Block heights and epochs are      *)
(* uint64 in the code; the heights a chain reaches are so far below 2^64   *)
(* that no sum formed from them wraps, so they are naturals.               *)
(***************************************************************************)
EXTENDS Naturals

CONSTANT EpochLength    \* SEQ blocks per epoch (genesis default: 6)

ASSUME EpochLengthAssumption == EpochLength \in Nat \ {0}

(* The epoch a block height falls in. *)
Epoch(h) == h \div EpochLength
=============================================================================
