---------------------------- MODULE BatchVerifier ----------------------------
(***************************************************************************)
(* ED25519Batch (auth/ed25519.go): signatures are added to a batch; a full *)
(* batch is handed to hypersdk's workers, which verify it concurrently,    *)
(* and Done hands over the batch that is left.  hypersdk announces how     *)
(* many signatures it will add, adds at most as many, one after the other, *)
(* calls Done once, and takes the block or the gossip as verified when     *)
(* every job it was handed succeeded.                                      *)
(*                                                                         *)
(* A job verifies the batch as it is when a worker gets to it, so what is  *)
(* added to a batch after it was handed over may be missed.                *)
(***************************************************************************)
EXTENDS Integers, Sequences

CONSTANTS
    MinBatchSize,    \* ed25519.MinBatchSize
    MaxCores,        \* bound: workers of the job
    MaxCount         \* bound: signatures announced

ASSUME BatchAssumption ==
    /\ MinBatchSize \in Nat \ {0}
    /\ MaxCores \in Nat \ {0}
    /\ MaxCount \in Nat

VARIABLES
    phase,       \* "new", "adding", "done" (Done was called)
    batchSize,   \* ED25519Batch.batchSize
    total,       \* ED25519Batch.total
    counter,     \* ED25519Batch.counter
    batch,       \* ED25519Batch.batch by number; 0: nil
    sigs,        \* the signatures added (totalCounter of them): the batch each
                 \* went to and whether it is valid
    jobs,        \* batches handed over and not verified yet, by the call
    failed       \* whether a job failed

vars == <<phase, batchSize, total, counter, batch, sigs, jobs, failed>>

Signature == [batch : Nat, valid : BOOLEAN]
Job == [batch : Nat, from : {"Add", "Done"}]

totalCounter == Len(sigs)

Init ==
    /\ phase = "new"
    /\ batchSize = 0
    /\ total = 0
    /\ counter = 0
    /\ batch = 0
    /\ sigs = << >>
    /\ jobs = {}
    /\ failed = FALSE

-----------------------------------------------------------------------------
(* The size of the batches for count signatures and a number of workers. *)
BatchSize(count, cores) ==
    IF count \div cores > MinBatchSize THEN count \div cores ELSE MinBatchSize

(* ED25519AuthEngine.GetBatchVerifier *)
GetBatchVerifier(cores, count) ==
    /\ phase = "new"
    /\ phase' = "adding"
    /\ batchSize' = BatchSize(count, cores)
    /\ total' = count
    /\ UNCHANGED <<counter, batch, sigs, jobs, failed>>

(* The batch that Add puts its signature in: a new one the first time. *)
CurrentBatch == IF batch = 0 THEN 1 ELSE batch

MutantAfterFull(n) == IF n < total - 1 THEN CurrentBatch + 1 ELSE CurrentBatch

(* A full batch of the first n signatures is replaced if more are to come. *)
AfterFull(n) == IF n < total THEN CurrentBatch + 1 ELSE CurrentBatch

Add(valid) ==
    /\ phase = "adding"
    /\ totalCounter < total
    /\ sigs' = Append(sigs, [batch |-> CurrentBatch, valid |-> valid])
    /\ IF counter + 1 = batchSize
       THEN /\ counter' = 0
            /\ batch' = AfterFull(totalCounter + 1)
            /\ jobs' = jobs \cup {[batch |-> CurrentBatch, from |-> "Add"]}
       ELSE /\ counter' = counter + 1
            /\ batch' = CurrentBatch
            /\ UNCHANGED jobs
    /\ UNCHANGED <<phase, batchSize, total, failed>>

MutantDone ==
    /\ phase = "adding"
    /\ phase' = "done"
    /\ jobs' = IF totalCounter < total THEN jobs
               ELSE jobs \cup {[batch |-> batch, from |-> "Done"]}
    /\ UNCHANGED <<batchSize, total, counter, batch, sigs, failed>>

(* ED25519Batch.Done *)
Done ==
    /\ phase = "adding"
    /\ phase' = "done"
    /\ jobs' = IF batch = 0 THEN jobs
               ELSE jobs \cup {[batch |-> batch, from |-> "Done"]}
    /\ UNCHANGED <<batchSize, total, counter, batch, sigs, failed>>

-----------------------------------------------------------------------------
InBatch(b) == {k \in 1..totalCounter : sigs[k].batch = b}

(* A worker verifies a batch as it is (ed25519.Batch.VerifyAsync). *)
Verify(j) ==
    /\ j \in jobs
    /\ jobs' = jobs \ {j}
    /\ failed' = (failed \/ \E k \in InBatch(j.batch) : ~sigs[k].valid)
    /\ UNCHANGED <<phase, batchSize, total, counter, batch, sigs>>

Next ==
    \/ \E cores \in 1..MaxCores, count \in 0..MaxCount : GetBatchVerifier(cores, count)
    \/ \E valid \in BOOLEAN : Add(valid)
    \/ Done
    \/ \E j \in jobs : Verify(j)

Spec == Init /\ [][Next]_vars

-----------------------------------------------------------------------------
(* Properties *)

(* The type invariant. *)
TypeOK ==
    /\ phase \in {"new", "adding", "done"}
    /\ batchSize \in Nat
    /\ total \in Nat
    /\ counter \in Nat
    /\ batch \in Nat
    /\ sigs \in Seq(Signature)
    /\ jobs \subseteq Job
    /\ failed \in BOOLEAN
    /\ phase # "new" => counter < batchSize

(* What is accepted is verified: when Done was called and every job ended  *)
(* without an error, each of the added signatures is valid, whatever their *)
(* number, the size of the batches, and the moments the workers ran.       *)
AllVerified ==
    phase = "done" /\ jobs = {} /\ ~failed =>
        \A k \in 1..totalCounter : sigs[k].valid

(* Nothing is added to a batch that a worker may be verifying, as long as  *)
(* not all the announced signatures are there: the next Add goes to a      *)
(* batch that was not handed over.                                         *)
NoAddAfterHandOver ==
    phase = "adding" /\ totalCounter < total =>
        \A j \in jobs : j.batch # CurrentBatch
=============================================================================
