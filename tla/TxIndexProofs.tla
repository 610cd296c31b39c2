--------------------------- MODULE TxIndexProofs ---------------------------
(***************************************************************************)
(* Proofs about the index of transactions, for any number of transactions, *)
(* blocks, clients and restarts.                                           *)
(***************************************************************************)
EXTENDS TxIndex, TLAPS

(* A transaction is in at most one block. *)
OnceOnly ==
    \A m, n \in 1..Len(chain), tx \in Txs :
        chain[m][tx] # None /\ chain[n][tx] # None => m = n

(* What Accepted works with is what its block says. *)
BatchMatches ==
    pc # "idle" =>
        /\ batch = IF storing THEN BatchOf(chain[blk], blk) ELSE NoEntries
        /\ rollups = RollupsOf(chain[blk])

(* Every record of the index is that of an accepted transaction. *)
EntriesTrue ==
    \A tx \in Txs : Indexed(tx) =>
        \E n \in 1..Len(chain) :
            chain[n][tx] # None /\ metaDB[tx] = StoreTransaction(n, chain[n][tx])

(* The batch is about to be written only after the registry was updated. *)
UpdatedBeforeWrite == pc = "write" => rollups \subseteq registry

(* A call that waits does so for a transaction. *)
AsksForTx == \A c \in Clients : client[c].state = "waiting" => client[c].tx \in Txs

IndexInv ==
    /\ TypeOK
    /\ OnceOnly
    /\ BatchMatches
    /\ EntriesTrue
    /\ UpdatedBeforeWrite
    /\ AsksForTx
    /\ IndexComplete
    /\ AnswerTruthful
    /\ IndexedIsRegistered

-----------------------------------------------------------------------------
(* A stored result is a record and is read back as it was. *)
LEMMA StoredResult ==
    ASSUME NEW t \in Nat, NEW r \in Result
    PROVE  /\ StoreTransaction(t, r) \in Entry
           /\ StoreTransaction(t, r) # None
           /\ StoreTransaction(t, r).byte = successByte <=> r.success
           /\ GetTransaction(StoreTransaction(t, r)) = r
<1>1. StoreTransaction(t, r) \in Entry
  BY DEF StoreTransaction, Entry, Result, successByte, failureByte
<1>2. StoreTransaction(t, r) # None
  BY <1>1, IndexAssumption
<1>3. StoreTransaction(t, r).byte = successByte <=> r.success
  BY DEF StoreTransaction, Result, successByte, failureByte
<1>4. GetTransaction(StoreTransaction(t, r)).success = r.success
  BY DEF GetTransaction, StoreTransaction, Result, successByte, failureByte
<1>5. GetTransaction(StoreTransaction(t, r)) = r
  BY <1>4 DEF GetTransaction, StoreTransaction, Result
<1> QED
  BY <1>1, <1>2, <1>3, <1>5

(* The batch of a block has a record for exactly its transactions. *)
LEMMA BatchOfBlock ==
    ASSUME NEW b \in Block, NEW t \in Nat
    PROVE  /\ BatchOf(b, t) \in [Txs -> Entry \cup {None}]
           /\ \A tx \in Txs : BatchOf(b, t)[tx] # None <=> b[tx] # None
           /\ \A tx \in Txs : b[tx] # None =>
                  BatchOf(b, t)[tx] = StoreTransaction(t, b[tx])
<1>1. \A tx \in Txs : b[tx] # None => b[tx] \in Result
  BY DEF Block
<1>2. \A tx \in Txs : b[tx] # None =>
         StoreTransaction(t, b[tx]) \in Entry /\ StoreTransaction(t, b[tx]) # None
  BY <1>1, StoredResult
<1> QED
  BY <1>2 DEF BatchOf

(* The initial state satisfies the invariant. *)
LEMMA IndexInvInit == Init => IndexInv
<1> SUFFICES ASSUME Init PROVE IndexInv
  OBVIOUS
<1>1. TypeOK
  <2>1. client \in [Clients -> Call]
    BY DEF Init, Call
  <2>2. storing \in BOOLEAN
    BY DEF Init
  <2>3. batch \in [Txs -> Entry \cup {None}] /\ metaDB \in [Txs -> Entry \cup {None}]
    BY DEF Init, NoEntries
  <2>4. /\ chain \in Seq(Block) /\ blk \in 1..(Len(chain) + 1)
        /\ unindexed \subseteq 1..Len(chain)
        /\ restarts \in Nat /\ pc = "idle" /\ batch = NoEntries /\ rollups = {}
        /\ registry = {} /\ carried = {}
    BY DEF Init
  <2> QED
    BY <2>1, <2>2, <2>3, <2>4 DEF TypeOK
<1>2. /\ OnceOnly /\ IndexComplete /\ AnswerTruthful /\ BatchMatches
      /\ UpdatedBeforeWrite /\ AsksForTx
  BY DEF Init, OnceOnly, IndexComplete, AnswerTruthful, BatchMatches,
         UpdatedBeforeWrite, AsksForTx
<1>3. EntriesTrue /\ IndexedIsRegistered
  BY IndexAssumption DEF Init, EntriesTrue, IndexedIsRegistered, Indexed, NoEntries
<1> QED
  BY <1>1, <1>2, <1>3 DEF IndexInv

(* A new block: its transactions were never accepted, so none is indexed.  *)
LEMMA AcceptBlockKeepsInv ==
    ASSUME IndexInv, NEW b \in Block, AcceptBlock(b)
    PROVE  IndexInv'
<1> DEFINE N == Len(chain)
<1>1. /\ chain \in Seq(Block)
      /\ chain' = Append(chain, b)
      /\ UNCHANGED <<nodeVars, client>>
      /\ \A n \in 1..N, tx \in Txs : b[tx] = None \/ chain[n][tx] = None
  BY DEF IndexInv, TypeOK, AcceptBlock
<1>2. /\ N \in Nat /\ Len(chain') = N + 1 /\ chain' \in Seq(Block)
      /\ chain'[N + 1] = b
      /\ \A n \in 1..N : chain'[n] = chain[n]
  BY <1>1
<1>3. blk \in 1..(N + 1) /\ (pc # "idle" => blk \in 1..N)
  BY <1>2 DEF IndexInv, TypeOK
<1>4. TypeOK'
  BY <1>1, <1>2, <1>3 DEF IndexInv, TypeOK, nodeVars
<1>5. OnceOnly'
  BY <1>1, <1>2 DEF IndexInv, OnceOnly
<1>6. BatchMatches'
  BY <1>1, <1>2, <1>3 DEF IndexInv, BatchMatches, nodeVars
<1>7. EntriesTrue'
  BY <1>1, <1>2 DEF IndexInv, EntriesTrue, Indexed, nodeVars
<1>8. UpdatedBeforeWrite' /\ IndexedIsRegistered'
  BY <1>1 DEF IndexInv, UpdatedBeforeWrite, IndexedIsRegistered, Indexed, nodeVars
<1>9. IndexComplete'
  <2>1. \A tx \in Txs : b[tx] # None => ~Indexed(tx)
    BY <1>1 DEF IndexInv, EntriesTrue
  <2> SUFFICES ASSUME NEW n \in 1..(N + 1)
               PROVE  /\ \/ \A tx \in Txs : chain'[n][tx] # None => Indexed(tx)
                         \/ \A tx \in Txs : chain'[n][tx] # None => ~Indexed(tx)
                      /\ n < blk /\ n \notin unindexed =>
                            \A tx \in Txs : chain'[n][tx] # None => Indexed(tx)
    BY <1>1, <1>2 DEF IndexComplete, Indexed, nodeVars
  <2>2. CASE n \in 1..N
    BY <2>2, <1>2 DEF IndexInv, IndexComplete
  <2>3. CASE n = N + 1
    BY <2>1, <2>3, <1>2, <1>3
  <2> QED
    BY <2>2, <2>3, <1>2
<1>10. AnswerTruthful' /\ AsksForTx'
  BY <1>1, <1>2 DEF IndexInv, AnswerTruthful, AsksForTx
<1> QED
  BY <1>4, <1>5, <1>6, <1>7, <1>8, <1>9, <1>10 DEF IndexInv

(* Accepted fills its batch. *)
LEMMA AcceptedKeepsInv ==
    ASSUME IndexInv, Accepted
    PROVE  IndexInv'
<1>1. /\ chain \in Seq(Block) /\ blk \in 1..Len(chain) /\ chain[blk] \in Block
      /\ blk \in Nat
  BY DEF IndexInv, TypeOK, Accepted
<1>2. batch' \in [Txs -> Entry \cup {None}] /\ rollups' \subseteq Registering
  BY <1>1, BatchOfBlock DEF Accepted, NoEntries, RollupsOf
<1>3. TypeOK'
  BY <1>1, <1>2 DEF IndexInv, TypeOK, Accepted
<1>4. OnceOnly' /\ EntriesTrue' /\ IndexComplete' /\ AnswerTruthful' /\ IndexedIsRegistered'
  BY DEF IndexInv, Accepted, OnceOnly, EntriesTrue, IndexComplete, AnswerTruthful,
         IndexedIsRegistered, Indexed
<1>5. BatchMatches' /\ UpdatedBeforeWrite' /\ AsksForTx'
  BY DEF IndexInv, Accepted, BatchMatches, UpdatedBeforeWrite, AsksForTx
<1> QED
  BY <1>3, <1>4, <1>5 DEF IndexInv

(* The registry is updated. *)
LEMMA UpdateKeepsInv ==
    ASSUME IndexInv, UpdateRegistry
    PROVE  IndexInv'
<1>1. TypeOK'
  BY DEF IndexInv, TypeOK, UpdateRegistry
<1>2. OnceOnly' /\ EntriesTrue' /\ IndexComplete' /\ AnswerTruthful'
  BY DEF IndexInv, UpdateRegistry, OnceOnly, EntriesTrue, IndexComplete,
         AnswerTruthful, Indexed
<1>3. IndexedIsRegistered' /\ UpdatedBeforeWrite' /\ BatchMatches' /\ AsksForTx'
  BY DEF IndexInv, UpdateRegistry, IndexedIsRegistered, UpdatedBeforeWrite,
         BatchMatches, AsksForTx, Indexed
<1> QED
  BY <1>1, <1>2, <1>3 DEF IndexInv

(* The batch is written: the transactions of one block are indexed, and    *)
(* those of no other.                                                      *)
LEMMA WriteKeepsInv ==
    ASSUME IndexInv, WriteBatch
    PROVE  IndexInv'
<1>1. /\ chain \in Seq(Block) /\ Len(chain) \in Nat
      /\ blk \in 1..Len(chain) /\ chain[blk] \in Block /\ blk \in Nat
      /\ metaDB \in [Txs -> Entry \cup {None}]
  BY DEF IndexInv, TypeOK, WriteBatch
<1>2. /\ UNCHANGED <<chain, client, storing, registry, restarts, carried>>
      /\ pc = "write" /\ pc' = "idle" /\ blk' = blk + 1
      /\ batch' = NoEntries /\ rollups' = {}
      /\ unindexed' = IF storing THEN unindexed ELSE unindexed \cup {blk}
  BY DEF WriteBatch, Return
<1>3. \A tx \in Txs : metaDB'[tx] = IF batch[tx] # None THEN batch[tx] ELSE metaDB[tx]
  BY DEF WriteBatch
<1>4. CASE ~storing
  <2>1. metaDB' = metaDB
    <3>1. \A tx \in Txs : batch[tx] = None
      BY <1>2, <1>4 DEF IndexInv, BatchMatches, NoEntries
    <3> QED
      BY <3>1, <1>1 DEF WriteBatch
  <2>2. unindexed' = unindexed \cup {blk}
    BY <1>2, <1>4
  <2>3. TypeOK'
    BY <1>1, <1>2, <2>1, <2>2, IndexAssumption DEF IndexInv, TypeOK, NoEntries
  <2>4. OnceOnly' /\ EntriesTrue' /\ AnswerTruthful' /\ IndexedIsRegistered'
    BY <1>2, <2>1 DEF IndexInv, OnceOnly, EntriesTrue, AnswerTruthful,
       IndexedIsRegistered, Indexed
  <2>5. BatchMatches' /\ UpdatedBeforeWrite' /\ AsksForTx'
    BY <1>2 DEF IndexInv, BatchMatches, UpdatedBeforeWrite, AsksForTx
  <2>6. IndexComplete'
    BY <1>1, <1>2, <2>1, <2>2 DEF IndexInv, IndexComplete, Indexed
  <2> QED
    BY <2>3, <2>4, <2>5, <2>6 DEF IndexInv
<1>5. CASE storing
  <2>1. batch = BatchOf(chain[blk], blk) /\ rollups = RollupsOf(chain[blk])
    BY <1>2, <1>5 DEF IndexInv, BatchMatches
  <2>2. /\ \A tx \in Txs : batch[tx] # None <=> chain[blk][tx] # None
        /\ \A tx \in Txs : chain[blk][tx] # None =>
               batch[tx] = StoreTransaction(blk, chain[blk][tx])
        /\ batch \in [Txs -> Entry \cup {None}]
    BY <1>1, <2>1, BatchOfBlock
  <2>3. /\ \A tx \in Txs : chain[blk][tx] # None =>
               /\ metaDB'[tx] = StoreTransaction(blk, chain[blk][tx])
               /\ metaDB'[tx] # None
        /\ \A tx \in Txs : chain[blk][tx] = None => metaDB'[tx] = metaDB[tx]
    BY <1>3, <2>2
  <2>4. unindexed' = unindexed
    BY <1>2, <1>5
  <2>5. TypeOK'
    <3>1. metaDB' \in [Txs -> Entry \cup {None}]
      BY <1>1, <2>2 DEF WriteBatch
    <3> QED
      BY <1>1, <1>2, <2>4, <3>1 DEF IndexInv, TypeOK, NoEntries
  <2>6. OnceOnly' /\ AnswerTruthful'
    BY <1>2 DEF IndexInv, OnceOnly, AnswerTruthful
  <2>7. EntriesTrue'
    BY <1>1, <1>2, <2>3 DEF IndexInv, EntriesTrue, Indexed
  <2>8. BatchMatches' /\ UpdatedBeforeWrite' /\ AsksForTx'
    BY <1>2 DEF IndexInv, BatchMatches, UpdatedBeforeWrite, AsksForTx
  <2>9. IndexComplete'
    <3> SUFFICES ASSUME NEW n \in 1..Len(chain)
                 PROVE  /\ \/ \A tx \in Txs : chain[n][tx] # None => metaDB'[tx] # None
                           \/ \A tx \in Txs : chain[n][tx] # None => metaDB'[tx] = None
                        /\ n < blk + 1 /\ n \notin unindexed =>
                              \A tx \in Txs : chain[n][tx] # None => metaDB'[tx] # None
      BY <1>2, <2>4 DEF IndexComplete, Indexed
    <3>1. CASE n = blk
      BY <2>3, <3>1
    <3>2. CASE n # blk
      <4>1. \A tx \in Txs : chain[n][tx] # None => metaDB'[tx] = metaDB[tx]
        BY <1>1, <2>3, <3>2 DEF IndexInv, OnceOnly
      <4>2. n < blk + 1 => n < blk
        BY <1>1, <3>2
      <4> QED
        BY <4>1, <4>2 DEF IndexInv, IndexComplete, Indexed
    <3> QED
      BY <3>1, <3>2
  <2>10. IndexedIsRegistered'
    <3> SUFFICES ASSUME NEW tx \in Registering, metaDB'[tx] # None,
                        metaDB'[tx].byte = successByte
                 PROVE  tx \in registry \cup carried
      BY <1>2 DEF IndexedIsRegistered, Indexed
    <3>1. tx \in Txs
      BY IndexAssumption
    <3>2. CASE chain[blk][tx] # None
      <4>1. chain[blk][tx] \in Result
        BY <1>1, <3>1, <3>2 DEF Block
      <4>2. chain[blk][tx].success
        BY <1>1, <2>3, <3>1, <3>2, <4>1, StoredResult
      <4>3. tx \in rollups
        BY <2>1, <3>2, <4>2 DEF RollupsOf
      <4> QED
        BY <4>3, <1>2 DEF IndexInv, UpdatedBeforeWrite
    <3>3. CASE chain[blk][tx] = None
      BY <2>3, <3>1, <3>3 DEF IndexInv, IndexedIsRegistered, Indexed
    <3> QED
      BY <3>2, <3>3
  <2> QED
    BY <2>5, <2>6, <2>7, <2>8, <2>9, <2>10 DEF IndexInv
<1>6. storing \in BOOLEAN
  BY DEF IndexInv, TypeOK
<1> QED
  BY <1>4, <1>5, <1>6

(* The blocks from a up to b, without b. *)
LEMMA PassedOver ==
    ASSUME NEW N \in Nat, NEW a \in 1..(N + 1), NEW b \in 1..(N + 1)
    PROVE  /\ \A n \in a..(b - 1) : n \in 1..N
           /\ \A n \in 1..N : n < b /\ n \notin a..(b - 1) => n < a
OBVIOUS

(* A restart keeps the index; what it passes over is noted. *)
LEMMA RestartKeepsInv ==
    ASSUME IndexInv, Restart
    PROVE  IndexInv'
<1>1. /\ Len(chain) \in Nat /\ blk \in 1..(Len(chain) + 1)
      /\ blk' \in {blk - 1, blk, Len(chain) + 1} /\ blk' >= 1
      /\ UNCHANGED <<chain, client, metaDB>>
      /\ unindexed' = unindexed \cup (blk..(blk' - 1))
      /\ pc' = "idle" /\ batch' = NoEntries /\ rollups' = {} /\ registry' = {}
      /\ carried' = {tx \in Txs : Indexed(tx)}
  BY DEF IndexInv, TypeOK, Restart
<1>2. TypeOK'
  <2>1. storing' \in BOOLEAN /\ restarts' \in Nat
    BY DEF Restart, IndexInv, TypeOK
  <2>2. blk' \in 1..(Len(chain) + 1)
    BY <1>1
  <2>3. unindexed' \subseteq 1..Len(chain)
    <3>1. \A n \in blk..(blk' - 1) : n \in 1..Len(chain)
      BY <1>1, <2>2, PassedOver
    <3> QED
      BY <1>1, <3>1 DEF IndexInv, TypeOK
  <2> QED
    BY <1>1, <2>1, <2>2, <2>3 DEF IndexInv, TypeOK, NoEntries
<1>3. OnceOnly' /\ EntriesTrue' /\ AnswerTruthful'
  BY <1>1 DEF IndexInv, OnceOnly, EntriesTrue, AnswerTruthful, Indexed
<1>4. BatchMatches' /\ UpdatedBeforeWrite' /\ AsksForTx'
  BY <1>1 DEF IndexInv, BatchMatches, UpdatedBeforeWrite, AsksForTx
<1>5. IndexComplete'
  <2>1. \A n \in 1..Len(chain) : n < blk' /\ n \notin unindexed' =>
            n < blk /\ n \notin unindexed
    <3> SUFFICES ASSUME NEW n \in 1..Len(chain), n < blk', n \notin unindexed'
                 PROVE  n < blk /\ n \notin unindexed
      OBVIOUS
    <3>1. blk' \in 1..(Len(chain) + 1)
      BY <1>1
    <3>2. n \notin blk..(blk' - 1) /\ n \notin unindexed
      BY <1>1
    <3> QED
      BY <1>1, <3>1, <3>2, PassedOver
  <2> QED
    BY <1>1, <2>1 DEF IndexInv, IndexComplete, Indexed
<1>6. IndexedIsRegistered'
  BY <1>1, IndexAssumption DEF IndexedIsRegistered, Indexed
<1> QED
  BY <1>2, <1>3, <1>4, <1>5, <1>6 DEF IndexInv

(* A step of a client changes nothing but its call. *)
LEMMA ClientKeepsInv ==
    ASSUME IndexInv, UNCHANGED <<chain, nodeVars>>, client' \in [Clients -> Call],
           AnswerTruthful', AsksForTx'
    PROVE  IndexInv'
<1>1. TypeOK'
  BY DEF IndexInv, TypeOK, nodeVars
<1>2. OnceOnly' /\ EntriesTrue' /\ IndexComplete' /\ IndexedIsRegistered'
  BY DEF IndexInv, OnceOnly, EntriesTrue, IndexComplete, IndexedIsRegistered,
         Indexed, nodeVars
<1>3. BatchMatches' /\ UpdatedBeforeWrite'
  BY DEF IndexInv, BatchMatches, UpdatedBeforeWrite, nodeVars
<1> QED
  BY <1>1, <1>2, <1>3 DEF IndexInv

(* A call of WaitForTransaction begins or fails. *)
LEMMA BeginOrFailKeepsInv ==
    ASSUME IndexInv, NEW c \in Clients,
           (\E tx \in Txs : WaitForTransaction(c, tx)) \/ TxFails(c)
    PROVE  IndexInv'
<1>1. UNCHANGED <<chain, nodeVars>>
  BY DEF WaitForTransaction, TxFails
<1>2. client \in [Clients -> Call]
  BY DEF IndexInv, TypeOK
<1>3. client' \in [Clients -> Call]
  BY <1>2 DEF WaitForTransaction, TxFails, Call
<1>4. \A d \in Clients : client'[d].state = "done" => client'[d] = client[d]
  BY <1>2 DEF WaitForTransaction, TxFails, Call
<1>5. AnswerTruthful'
  BY <1>1, <1>4 DEF IndexInv, AnswerTruthful
<1>6. AsksForTx'
  BY <1>2 DEF IndexInv, AsksForTx, WaitForTransaction, TxFails, Call
<1> QED
  BY <1>1, <1>3, <1>5, <1>6, ClientKeepsInv

(* A call finds its transaction. *)
LEMMA TxKeepsInv ==
    ASSUME IndexInv, NEW c \in Clients, Tx(c)
    PROVE  IndexInv'
<1> DEFINE tx == client[c].tx
           r == GetTransaction(metaDB[tx])
<1>1. UNCHANGED <<chain, nodeVars>>
  BY DEF Tx
<1>2. client \in [Clients -> Call] /\ metaDB \in [Txs -> Entry \cup {None}]
  BY DEF IndexInv, TypeOK
<1>3. tx \in Txs
  BY DEF Tx, IndexInv, AsksForTx
<1>4. PICK n \in 1..Len(chain) :
         chain[n][tx] # None /\ metaDB[tx] = StoreTransaction(n, chain[n][tx])
  BY <1>3 DEF IndexInv, EntriesTrue, Tx
<1>5. chain[n][tx] \in Result /\ n \in Nat
  BY <1>3, <1>4 DEF IndexInv, TypeOK, Block
<1>6. r = chain[n][tx]
  BY <1>4, <1>5, StoredResult
<1>7. client' = [client EXCEPT ![c] = [state |-> "done", tx |-> tx,
                                       success |-> r.success, fee |-> r.fee]]
  BY DEF Tx
<1>8. /\ client'[c].tx = tx /\ client'[c].success = r.success /\ client'[c].fee = r.fee
      /\ \A d \in Clients \ {c} : client'[d] = client[d]
      /\ client' \in [Clients -> Call]
  <2>1. r.success \in BOOLEAN /\ r.fee \in Fees
    BY <1>5, <1>6 DEF Result
  <2>2. [state |-> "done", tx |-> tx, success |-> r.success, fee |-> r.fee] \in Call
    BY <1>3, <2>1 DEF Call
  <2> QED
    BY <1>2, <1>7, <2>2
<1>9. chain[n][tx] = [success |-> client'[c].success, fee |-> client'[c].fee]
  BY <1>5, <1>6, <1>8 DEF Result
<1>10. AnswerTruthful'
  BY <1>1, <1>8, <1>9 DEF IndexInv, AnswerTruthful
<1>11. AsksForTx'
  BY <1>3, <1>8 DEF IndexInv, AsksForTx
<1> QED
  BY <1>1, <1>8, <1>10, <1>11, ClientKeepsInv

(* The invariant of the index holds along every behaviour: whatever blocks *)
(* are accepted, whenever the node stops, whoever asks.                    *)
THEOREM IndexInvariant == Spec => []IndexInv
<1>1. Init => IndexInv
  BY IndexInvInit
<1>2. IndexInv /\ [Next]_vars => IndexInv'
  <2> SUFFICES ASSUME IndexInv, [Next]_vars PROVE IndexInv'
    OBVIOUS
  <2>1. CASE \E b \in Block : AcceptBlock(b)
    BY <2>1, AcceptBlockKeepsInv
  <2>2. CASE AcceptedStep
    BY <2>2, AcceptedKeepsInv, UpdateKeepsInv, WriteKeepsInv DEF AcceptedStep
  <2>3. CASE Restart
    BY <2>3, RestartKeepsInv
  <2>4. CASE \E c \in Clients : (\E tx \in Txs : WaitForTransaction(c, tx)) \/ TxFails(c)
    BY <2>4, BeginOrFailKeepsInv
  <2>5. CASE \E c \in Clients : Tx(c)
    BY <2>5, TxKeepsInv
  <2>6. CASE UNCHANGED vars
    <3>1. UNCHANGED <<chain, nodeVars>> /\ client' = client
      BY <2>6 DEF vars, nodeVars
    <3>2. client' \in [Clients -> Call] /\ AnswerTruthful' /\ AsksForTx'
      BY <3>1 DEF IndexInv, TypeOK, AnswerTruthful, AsksForTx
    <3> QED
      BY <3>1, <3>2, ClientKeepsInv
  <2> QED
    BY <2>1, <2>2, <2>3, <2>4, <2>5, <2>6 DEF Next, Done
<1> QED
  BY <1>1, <1>2, PTL DEF Spec

(* Type correctness of the index, its clients and Accepted's position.     *)
THEOREM IndexTypeCorrect == Spec => []TypeOK
BY IndexInvariant, PTL DEF IndexInv

(* No crash leaves a block indexed in part, and a handled block is indexed *)
(* unless a restart lost it or the index was off (Controller.Accepted).    *)
THEOREM IndexAlwaysComplete == Spec => []IndexComplete
BY IndexInvariant, PTL DEF IndexInv

(* WaitForTransaction returns the result the transaction has on the chain. *)
THEOREM AnswersAlwaysTruthful == Spec => []AnswerTruthful
BY IndexInvariant, PTL DEF IndexInv

(* A registration reported as successful is known to the in-memory         *)
(* registry, unless the node restarted since it was indexed.               *)
THEOREM IndexedIsAlwaysRegistered == Spec => []IndexedIsRegistered
BY IndexInvariant, PTL DEF IndexInv
-----------------------------------------------------------------------------
(* The refinement *)

Known == {tx \in Txs : Indexed(tx)}
Answers == [c \in Clients |-> Answer(c)]

(* The variables of the log are not touched. *)
LogStutters == UNCHANGED <<chain, Known, Answers>>

(* A step that keeps the chain, the database and the clients is invisible. *)
LEMMA InvisibleStep ==
    ASSUME UNCHANGED <<chain, metaDB, client>>
    PROVE  LogStutters
BY DEF LogStutters, Known, Answers, Answer, Indexed

(* A new block extends the log. *)
LEMMA AcceptBlockExtends ==
    ASSUME NEW b \in Block, AcceptBlock(b)
    PROVE  Log!Extend(b)
<1>1. UNCHANGED <<Known, Answers>>
  BY DEF AcceptBlock, nodeVars, Known, Answers, Answer, Indexed
<1>2. \A n \in 1..Len(chain) : Log!TxsOf(chain[n]) \cap Log!TxsOf(b) = {}
  BY DEF AcceptBlock, Log!TxsOf
<1> QED
  BY <1>1, <1>2 DEF AcceptBlock, Log!Extend, Known, Answers

(* Writing the batch publishes the block, or nothing if the index is off.  *)
LEMMA WriteBatchPublishes ==
    ASSUME IndexInv, WriteBatch
    PROVE  (\E n \in 1..Len(chain) : Log!Publish(n)) \/ LogStutters
<1>1. /\ blk \in 1..Len(chain) /\ chain[blk] \in Block /\ blk \in Nat
      /\ metaDB \in [Txs -> Entry \cup {None}]
  BY DEF IndexInv, TypeOK, WriteBatch
<1>2. UNCHANGED <<chain, client>>
  BY DEF WriteBatch
<1>3. UNCHANGED Answers
  BY <1>2 DEF Answers, Answer
<1>4. \A tx \in Txs : metaDB'[tx] = IF batch[tx] # None THEN batch[tx] ELSE metaDB[tx]
  BY DEF WriteBatch
<1>5. CASE storing
  <2>1. batch = BatchOf(chain[blk], blk)
    BY <1>5 DEF IndexInv, BatchMatches, WriteBatch
  <2>2. \A tx \in Txs : batch[tx] # None <=> chain[blk][tx] # None
    BY <1>1, <2>1, BatchOfBlock
  <2>3. Known' = Known \cup Log!TxsOf(chain[blk])
    BY <1>4, <2>2 DEF Known, Indexed, Log!TxsOf
  <2>4. Log!Publish(blk)
    BY <1>2, <1>3, <2>3 DEF Log!Publish, Known, Answers
  <2> QED
    BY <1>1, <2>4
<1>6. CASE ~storing
  <2>1. \A tx \in Txs : batch[tx] = None
    BY <1>6 DEF IndexInv, BatchMatches, WriteBatch, NoEntries
  <2>2. Known' = Known
    BY <1>4, <2>1 DEF Known, Indexed
  <2> QED
    BY <1>2, <1>3, <2>2 DEF LogStutters
<1> QED
  BY <1>5, <1>6

(* A call that begins or fails tells its client nothing. *)
LEMMA BeginOrFailInvisible ==
    ASSUME IndexInv, NEW c \in Clients,
           (\E tx \in Txs : WaitForTransaction(c, tx)) \/ TxFails(c)
    PROVE  LogStutters
<1>1. UNCHANGED <<chain, nodeVars>>
  BY DEF WaitForTransaction, TxFails
<1>2. client \in [Clients -> Call]
  BY DEF IndexInv, TypeOK
<1>3. \A d \in Clients : \/ client'[d] = client[d]
                         \/ client[d].state # "done" /\ client'[d].state # "done"
  BY <1>2 DEF WaitForTransaction, TxFails, Call
<1>4. Answers' = Answers
  BY <1>3 DEF Answers, Answer
<1>5. Known' = Known
  BY <1>1 DEF Known, Indexed, nodeVars
<1> QED
  BY <1>1, <1>4, <1>5 DEF LogStutters

(* A call that finds its transaction is told its result. *)
LEMMA TxTells ==
    ASSUME IndexInv, NEW c \in Clients, Tx(c)
    PROVE  \E tx \in Txs : Log!Tell(c, tx)
<1> DEFINE tx == client[c].tx
           r == GetTransaction(metaDB[tx])
<1>1. /\ UNCHANGED <<chain, nodeVars>>
      /\ client[c].state = "waiting" /\ Indexed(tx)
      /\ client' = [client EXCEPT ![c] = [state |-> "done", tx |-> tx,
                                          success |-> r.success, fee |-> r.fee]]
  BY DEF Tx
<1>2. client \in [Clients -> Call]
  BY DEF IndexInv, TypeOK
<1>3. tx \in Txs
  BY <1>1 DEF IndexInv, AsksForTx
<1>4. PICK n \in 1..Len(chain) :
         chain[n][tx] # None /\ metaDB[tx] = StoreTransaction(n, chain[n][tx])
  BY <1>1, <1>3 DEF IndexInv, EntriesTrue
<1>5. chain[n][tx] \in Result /\ n \in Nat
  BY <1>3, <1>4 DEF IndexInv, TypeOK, Block
<1>6. r = chain[n][tx]
  BY <1>4, <1>5, StoredResult
<1>7. Answers[c] = None /\ tx \in Known /\ Known' = Known
  BY <1>1, <1>3 DEF Answers, Answer, Known, Indexed, nodeVars
<1>8. Answers' = [Answers EXCEPT ![c] = [tx |-> tx, result |-> chain[n][tx]]]
  <2>1. \A d \in Clients \ {c} : Answer(d)' = Answer(d)
    BY <1>1, <1>2 DEF Answer
  <2>2. [success |-> r.success, fee |-> r.fee] = chain[n][tx]
    BY <1>5, <1>6 DEF Result
  <2>3. Answer(c)' = [tx |-> tx, result |-> chain[n][tx]]
    BY <1>1, <1>2, <2>2 DEF Answer
  <2> QED
    BY <2>1, <2>3 DEF Answers
<1>9. Log!Tell(c, tx)
  BY <1>1, <1>4, <1>7, <1>8 DEF Log!Tell, Known, Answers
<1> QED
  BY <1>3, <1>9

(* Controller.Accepted with its batch, its restarts and its repeated       *)
(* blocks, and the polling clients, implement the log of whole blocks: a   *)
(* crash is invisible to whoever reads the index, but for what it delays   *)
(* or loses.                                                               *)
THEOREM IndexImplementsLog == Spec => ImplementsLog
<1>1. Init => Log!Init
  <2> SUFFICES ASSUME Init PROVE Log!Init
    OBVIOUS
  <2>1. Known = {}
    BY DEF Init, Known, Indexed, NoEntries
  <2>2. Answers = [c \in Clients |-> None]
    BY DEF Init, Answers, Answer
  <2> QED
    BY <2>1, <2>2 DEF Init, Log!Init, Known, Answers
<1>2. IndexInv /\ [Next]_vars => [Log!Next]_Log!vars
  <2> SUFFICES ASSUME IndexInv, [Next]_vars PROVE Log!Next \/ LogStutters
    BY DEF LogStutters, Log!vars, Known, Answers
  <2>1. CASE \E b \in Block : AcceptBlock(b)
    BY <2>1, AcceptBlockExtends DEF Log!Next, Block
  <2>2. CASE Accepted \/ UpdateRegistry \/ Restart \/ UNCHANGED vars
    BY <2>2, InvisibleStep DEF Accepted, UpdateRegistry, Restart, vars
  <2>3. CASE WriteBatch
    BY <2>3, WriteBatchPublishes DEF Log!Next
  <2>4. CASE \E c \in Clients : (\E tx \in Txs : WaitForTransaction(c, tx)) \/ TxFails(c)
    BY <2>4, BeginOrFailInvisible
  <2>5. CASE \E c \in Clients : Tx(c)
    BY <2>5, TxTells DEF Log!Next
  <2> QED
    BY <2>1, <2>2, <2>3, <2>4, <2>5 DEF Next, AcceptedStep, Done
<1> QED
  BY <1>1, <1>2, IndexInvariant, PTL DEF Spec, ImplementsLog, Log!Spec
=============================================================================
