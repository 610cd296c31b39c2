------------------------ MODULE BatchVerifierProofs ------------------------
(***************************************************************************)
(* Proofs about ED25519Batch, for any number of signatures and any batch   *)
(* size: no invalid signature slips through.                               *)
(***************************************************************************)
EXTENDS BatchVerifier, TLAPS

(* Batches are numbered 1, 2, ... and only the last one can still grow. *)
Numbered ==
    /\ phase = "new" => sigs = << >> /\ counter = 0 /\ batch = 0 /\ jobs = {}
    /\ \A k \in 1..Len(sigs) : 1 <= sigs[k].batch /\ sigs[k].batch <= batch
    /\ \A j \in jobs : j.batch <= batch
    /\ phase = "adding" /\ Len(sigs) < total => \A j \in jobs : j.batch < CurrentBatch

(* An invalid signature was found, or is in a batch that waits for a       *)
(* worker, or in the one that Done will hand over.                         *)
InvalidAccounted ==
    \A k \in 1..Len(sigs) :
        \/ sigs[k].valid
        \/ failed
        \/ \E j \in jobs : j.batch = sigs[k].batch
        \/ phase = "adding" /\ sigs[k].batch = batch

BatchInv == TypeOK /\ Numbered /\ InvalidAccounted

(* The batch size is positive, whatever the number of workers. *)
LEMMA BatchSizePositive ==
    ASSUME NEW count \in Nat, NEW cores \in Nat \ {0}
    PROVE  BatchSize(count, cores) \in Nat \ {0}
<1>1. count \div cores \in Int
  OBVIOUS
<1>2. MinBatchSize \in Nat \ {0}
  BY BatchAssumption
<1> QED
  BY <1>1, <1>2 DEF BatchSize

(* The initial state satisfies the invariant. *)
LEMMA BatchInvInit == Init => BatchInv
<1> SUFFICES ASSUME Init PROVE BatchInv
  OBVIOUS
<1>1. TypeOK
  <2>1. failed \in BOOLEAN /\ jobs \subseteq Job
    BY DEF Init
  <2>2. /\ phase = "new" /\ batchSize = 0 /\ total = 0 /\ counter = 0 /\ batch = 0
        /\ sigs \in Seq(Signature)
    BY DEF Init
  <2> QED
    BY <2>1, <2>2 DEF TypeOK
<1>2. Numbered /\ InvalidAccounted
  BY DEF Init, Numbered, InvalidAccounted
<1> QED
  BY <1>1, <1>2 DEF BatchInv

(* A verifier is made. *)
LEMMA NewKeepsInv ==
    ASSUME BatchInv, NEW cores \in 1..MaxCores, NEW count \in 0..MaxCount,
           GetBatchVerifier(cores, count)
    PROVE  BatchInv'
<1>1. count \in Nat /\ cores \in Nat \ {0}
  BY BatchAssumption
<1>2. batchSize' \in Nat \ {0}
  BY <1>1, BatchSizePositive DEF GetBatchVerifier
<1>3. TypeOK'
  BY <1>1, <1>2 DEF GetBatchVerifier, BatchInv, TypeOK, Numbered
<1>4. Numbered' /\ InvalidAccounted'
  BY DEF GetBatchVerifier, BatchInv, Numbered, InvalidAccounted
<1> QED
  BY <1>3, <1>4 DEF BatchInv

(* A signature is added. *)
LEMMA AddKeepsInv ==
    ASSUME BatchInv, NEW valid \in BOOLEAN, Add(valid)
    PROVE  BatchInv'
<1> DEFINE cur == CurrentBatch
           s == [batch |-> cur, valid |-> valid]
           n == Len(sigs)
<1>1. /\ batch \in Nat /\ counter \in Nat /\ batchSize \in Nat /\ counter < batchSize
      /\ total \in Nat /\ sigs \in Seq(Signature) /\ jobs \subseteq Job
      /\ n \in Nat /\ n < total /\ phase = "adding"
  BY DEF BatchInv, TypeOK, Add, totalCounter
<1>2. cur \in Nat /\ cur >= 1 /\ batch <= cur /\ s \in Signature
  BY <1>1 DEF CurrentBatch, Signature
<1>3. \A k \in 1..n : sigs[k] \in Signature /\ sigs[k].batch \in Nat /\ sigs[k].batch >= 1
  <2>1. \A k \in 1..n : sigs[k] \in Signature
    BY <1>1
  <2> QED
    BY <2>1 DEF Signature, BatchInv, Numbered
<1>4. \A k \in 1..n : sigs[k].batch <= batch /\ sigs[k].batch <= cur
  <2>1. \A k \in 1..n : sigs[k].batch <= batch
    BY DEF BatchInv, Numbered
  <2> QED
    BY <1>1, <1>2, <1>3, <2>1
<1>5. \A j \in jobs : j.batch \in Nat /\ j.batch < cur
  BY <1>1 DEF BatchInv, Numbered, Job
<1>6. n > 0 => cur = batch
  <2>1. n > 0 => batch # 0
    BY <1>1, <1>3, <1>4
  <2> QED
    BY <2>1 DEF CurrentBatch
<1>7. sigs' = Append(sigs, s) /\ UNCHANGED <<phase, batchSize, total, failed>>
  BY DEF Add
<1> HIDE DEF cur, s
<1>8. /\ sigs' \in Seq(Signature) /\ Len(sigs') = n + 1 /\ sigs'[n + 1] = s
      /\ \A k \in 1..n : sigs'[k] = sigs[k]
  BY <1>1, <1>2, <1>7
<1>9. s.batch = cur /\ s.valid = valid
  BY DEF s
<1>10. CASE counter + 1 = batchSize
  <2> DEFINE job == [batch |-> cur, from |-> "Add"]
  <2>1. counter' = 0 /\ batch' = AfterFull(n + 1) /\ jobs' = jobs \cup {job}
    BY <1>10 DEF Add, totalCounter, cur
  <2>2. job \in Job /\ job.batch = cur
    BY <1>2 DEF Job
  <2> HIDE DEF job
  <2>3. batch' \in {cur, cur + 1} /\ (n + 1 < total => batch' = cur + 1)
    BY <2>1 DEF AfterFull, cur
  <2>4. TypeOK'
    BY <1>1, <1>2, <1>7, <1>8, <1>10, <2>1, <2>2, <2>3 DEF BatchInv, TypeOK
  <2>5. \A j \in jobs' : j.batch <= cur
    BY <1>2, <1>5, <2>1, <2>2
  <2>6. \A k \in 1..Len(sigs') : 1 <= sigs'[k].batch /\ sigs'[k].batch <= cur
    <3> SUFFICES ASSUME NEW k \in 1..(n + 1)
                 PROVE  1 <= sigs'[k].batch /\ sigs'[k].batch <= cur
      BY <1>8
    <3>1. CASE k = n + 1
      BY <1>2, <1>8, <1>9, <3>1
    <3>2. CASE k # n + 1
      <4>1. k \in 1..n
        BY <1>1, <3>2
      <4> QED
        BY <1>3, <1>4, <1>8, <4>1
    <3> QED
      BY <3>1, <3>2
  <2>7. Numbered'
    <3>1. \A k \in 1..Len(sigs') : sigs'[k].batch \in Nat
      <4>1. \A k \in 1..Len(sigs') : sigs'[k] \in Signature
        BY <1>8
      <4> QED
        BY <4>1 DEF Signature
    <3>2. \A j \in jobs' : j.batch \in Nat
      BY <2>4 DEF TypeOK, Job
    <3>3. \A k \in 1..Len(sigs') : 1 <= sigs'[k].batch /\ sigs'[k].batch <= batch'
      BY <1>2, <2>3, <2>6, <3>1
    <3>4. \A j \in jobs' : j.batch <= batch'
      BY <1>2, <2>3, <2>5, <3>2
    <3>5. Len(sigs') < total' => \A j \in jobs' : j.batch < CurrentBatch'
      BY <1>2, <1>7, <1>8, <2>3, <2>5, <3>2 DEF CurrentBatch
    <3>6. phase' = "adding"
      BY <1>1, <1>7
    <3> QED
      BY <3>3, <3>4, <3>5, <3>6 DEF Numbered
  <2>8. InvalidAccounted'
    <3> SUFFICES ASSUME NEW k \in 1..(n + 1)
                 PROVE  \/ sigs'[k].valid
                        \/ failed
                        \/ \E j \in jobs' : j.batch = sigs'[k].batch
      BY <1>7, <1>8 DEF InvalidAccounted
    <3>1. CASE k = n + 1
      BY <1>8, <1>9, <2>1, <2>2, <3>1
    <3>2. CASE k # n + 1
      <4>1. k \in 1..n /\ cur = batch
        BY <1>1, <1>6, <3>2
      <4>2. CASE sigs[k].batch = batch
        BY <1>8, <2>1, <2>2, <4>1, <4>2
      <4>3. CASE sigs[k].batch # batch
        BY <1>8, <2>1, <4>1, <4>3 DEF BatchInv, InvalidAccounted
      <4> QED
        BY <4>2, <4>3
    <3> QED
      BY <3>1, <3>2
  <2> QED
    BY <2>4, <2>7, <2>8 DEF BatchInv
<1>11. CASE counter + 1 # batchSize
  <2>1. counter' = counter + 1 /\ batch' = cur /\ jobs' = jobs
    BY <1>11 DEF Add, cur
  <2>2. TypeOK'
    BY <1>1, <1>2, <1>7, <1>8, <1>11, <2>1 DEF BatchInv, TypeOK
  <2>3. \A k \in 1..Len(sigs') :
            /\ 1 <= sigs'[k].batch /\ sigs'[k].batch <= cur
            /\ \/ sigs'[k].valid
               \/ failed
               \/ \E j \in jobs : j.batch = sigs'[k].batch
               \/ sigs'[k].batch = cur
    <3> SUFFICES ASSUME NEW k \in 1..(n + 1)
                 PROVE  /\ 1 <= sigs'[k].batch /\ sigs'[k].batch <= cur
                        /\ \/ sigs'[k].valid
                           \/ failed
                           \/ \E j \in jobs : j.batch = sigs'[k].batch
                           \/ sigs'[k].batch = cur
      BY <1>8
    <3>1. CASE k = n + 1
      BY <1>2, <1>8, <1>9, <3>1
    <3>2. CASE k # n + 1
      <4>1. k \in 1..n /\ cur = batch
        BY <1>1, <1>6, <3>2
      <4>2. \/ sigs[k].valid
            \/ failed
            \/ \E j \in jobs : j.batch = sigs[k].batch
            \/ sigs[k].batch = batch
        BY <4>1 DEF BatchInv, InvalidAccounted
      <4> QED
        BY <1>3, <1>4, <1>8, <4>1, <4>2
    <3> QED
      BY <3>1, <3>2
  <2>4. phase' = "adding" /\ cur # 0
    BY <1>1, <1>2, <1>7
  <2>5. \A j \in jobs' : j.batch <= batch' /\ j.batch < CurrentBatch'
    BY <1>2, <1>5, <2>1, <2>4 DEF CurrentBatch
  <2>6. Numbered'
    BY <2>1, <2>3, <2>4, <2>5 DEF Numbered
  <2>7. InvalidAccounted'
    BY <1>7, <2>1, <2>3, <2>4 DEF InvalidAccounted
  <2> QED
    BY <2>2, <2>6, <2>7 DEF BatchInv
<1> QED
  BY <1>10, <1>11

(* Done hands over the batch that is left. *)
LEMMA DoneKeepsInv ==
    ASSUME BatchInv, Done
    PROVE  BatchInv'
<1> DEFINE job == [batch |-> batch, from |-> "Done"]
<1>1. phase' = "done" /\ UNCHANGED <<batchSize, total, counter, batch, sigs, failed>>
  BY DEF Done
<1>2. jobs' = IF batch = 0 THEN jobs ELSE jobs \cup {job}
  BY DEF Done
<1>3. batch \in Nat /\ jobs \subseteq Job /\ phase = "adding"
  BY DEF BatchInv, TypeOK, Done
<1>4. job \in Job /\ job.batch = batch
  BY <1>3 DEF Job
<1> HIDE DEF job
<1>5. TypeOK'
  BY <1>1, <1>2, <1>3, <1>4 DEF BatchInv, TypeOK
<1>6. Numbered'
  BY <1>1, <1>2, <1>3, <1>4 DEF BatchInv, Numbered
<1>7. InvalidAccounted'
  <2> SUFFICES ASSUME NEW k \in 1..Len(sigs)
               PROVE  \/ sigs[k].valid
                      \/ failed
                      \/ \E j \in jobs' : j.batch = sigs[k].batch
    BY <1>1 DEF InvalidAccounted
  <2>1. batch # 0
    <3>1. 1 <= sigs[k].batch /\ sigs[k].batch <= batch
      BY DEF BatchInv, Numbered
    <3>2. sigs[k] \in Signature
      BY DEF BatchInv, TypeOK
    <3>3. sigs[k].batch \in Nat
      BY <3>2 DEF Signature
    <3> QED
      BY <1>3, <3>1, <3>3
  <2> QED
    BY <1>2, <1>4, <2>1 DEF BatchInv, InvalidAccounted
<1> QED
  BY <1>5, <1>6, <1>7 DEF BatchInv

(* A worker verifies a batch. *)
LEMMA VerifyKeepsInv ==
    ASSUME BatchInv, NEW j \in jobs, Verify(j)
    PROVE  BatchInv'
<1>1. /\ jobs' = jobs \ {j} /\ UNCHANGED <<phase, batchSize, total, counter, batch, sigs>>
      /\ failed' = (failed \/ \E k \in InBatch(j.batch) : ~sigs[k].valid)
  BY DEF Verify
<1>2. TypeOK'
  BY <1>1 DEF BatchInv, TypeOK
<1>3. Numbered'
  BY <1>1 DEF BatchInv, Numbered, CurrentBatch
<1>4. InvalidAccounted'
  <2> SUFFICES ASSUME NEW k \in 1..Len(sigs), ~sigs[k].valid
               PROVE  \/ failed'
                      \/ \E i \in jobs' : i.batch = sigs[k].batch
                      \/ phase = "adding" /\ sigs[k].batch = batch
    BY <1>1 DEF InvalidAccounted
  <2>1. CASE sigs[k].batch = j.batch
    BY <1>1, <2>1 DEF InBatch, totalCounter
  <2>2. CASE sigs[k].batch # j.batch
    BY <1>1, <2>2 DEF BatchInv, InvalidAccounted
  <2> QED
    BY <2>1, <2>2
<1> QED
  BY <1>2, <1>3, <1>4 DEF BatchInv

(* The invariant holds along every behaviour. *)
THEOREM BatchInvariant == Spec => []BatchInv
<1>1. ASSUME BatchInv, UNCHANGED vars
      PROVE  BatchInv'
  BY <1>1 DEF vars, BatchInv, TypeOK, Numbered, InvalidAccounted, CurrentBatch
<1>2. BatchInv /\ [Next]_vars => BatchInv'
  BY <1>1, NewKeepsInv, AddKeepsInv, DoneKeepsInv, VerifyKeepsInv DEF Next
<1> QED
  BY <1>2, BatchInvInit, PTL DEF Spec

(* Type correctness of ED25519Batch; its counter stays below the batch     *)
(* size, so no batch outgrows the buffer it was made with.                 *)
THEOREM BatchTypeCorrect == Spec => []TypeOK
<1>1. BatchInv => TypeOK
  BY DEF BatchInv
<1> QED
  BY <1>1, BatchInvariant, PTL

(* When Done was called and all jobs ended well, every signature is valid. *)
THEOREM NoInvalidSignatureAccepted == Spec => []AllVerified
<1>1. BatchInv => AllVerified
  BY DEF BatchInv, InvalidAccounted, AllVerified, totalCounter
<1> QED
  BY <1>1, BatchInvariant, PTL

(* A batch that a worker may be verifying is not added to. *)
THEOREM HandedOverBatchesStay == Spec => []NoAddAfterHandOver
<1>1. BatchInv => NoAddAfterHandOver
  <2> SUFFICES ASSUME BatchInv, phase = "adding", Len(sigs) < total, NEW j \in jobs
               PROVE  j.batch # CurrentBatch
    BY DEF NoAddAfterHandOver, totalCounter
  <2>1. j.batch < CurrentBatch
    BY DEF BatchInv, Numbered
  <2>2. j.batch \in Nat /\ CurrentBatch \in Nat
    BY DEF BatchInv, TypeOK, Job, CurrentBatch
  <2> QED
    BY <2>1, <2>2
<1> QED
  BY <1>1, BatchInvariant, PTL
=============================================================================
