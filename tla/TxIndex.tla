------------------------------ MODULE TxIndex ------------------------------
(***************************************************************************)
(* The index of transactions that Controller.Accepted keeps in metaDB, and *)
(* the clients that wait for a transaction by asking for it there.         *)
(*                                                                         *)
(* Accepted handles the accepted blocks in order.  For each it collects,   *)
(* in a batch that nobody else sees, one record per transaction, and the   *)
(* registrations of the successful ones; hands these to the in-memory      *)
(* registry; and then writes the batch.  The node may stop between any two *)
(* of these steps: batch and registry are lost, the database stays, and    *)
(* hypersdk hands over again the block it was at, or the one before it, or *)
(* none of those accepted before the restart.                              *)
(***************************************************************************)
EXTENDS Integers, Sequences

CONSTANTS
    Txs,           \* transaction identifiers
    Registering,   \* those with a RollupRegistration among their actions
    Clients,       \* calls of JSONRPCClient.WaitForTransaction
    Fees,          \* fees a transaction may be charged
    None,          \* no result, no record, no transaction
    MaxBlocks,     \* bound: accepted blocks
    MaxRestarts    \* bound: restarts of the node

failureByte == 0
successByte == 1

Result == [success : BOOLEAN, fee : Fees]
Entry == [t : Nat, byte : {failureByte, successByte}, fee : Fees]

(* The accepted transactions of a block with their results. *)
Block == [Txs -> Result \cup {None}]

ASSUME IndexAssumption ==
    /\ Registering \subseteq Txs
    /\ Fees \subseteq Nat
    /\ MaxBlocks \in Nat
    /\ MaxRestarts \in Nat
    /\ None \notin Txs \cup Result \cup Entry

VARIABLES
    chain,       \* the accepted blocks, a block's timestamp being its number
    blk,         \* the block Controller.Accepted handles or waits for
    pc,          \* where Accepted is: "idle", "update", "write"
    batch,       \* its batch, by transaction
    rollups,     \* the transactions whose registrations it collected
    storing,     \* config.StoreTransactions
    metaDB,      \* the index
    registry,    \* transactions whose registrations RollupRegistry.Update got
    client,      \* per call of WaitForTransaction: where it is and its result
    restarts,    \* restarts so far
    unindexed,   \* history: blocks passed over, lost to Accepted in a restart
                 \* or handled with the index switched off
    carried      \* history: transactions indexed at the last restart

nodeVars == <<blk, pc, batch, rollups, storing, metaDB, registry, restarts,
              unindexed, carried>>
vars == <<chain, client, blk, pc, batch, rollups, storing, metaDB, registry,
          restarts, unindexed, carried>>

Call == [state : {"new", "waiting", "done", "failed"}, tx : Txs \cup {None},
         success : BOOLEAN, fee : Fees \cup {0}]

NoEntries == [tx \in Txs |-> None]

Indexed(tx) == metaDB[tx] # None

Init ==
    /\ chain = << >>
    /\ blk = 1
    /\ pc = "idle"
    /\ batch = NoEntries
    /\ rollups = {}
    /\ storing \in BOOLEAN
    /\ metaDB = NoEntries
    /\ registry = {}
    /\ client = [c \in Clients |->
                    [state |-> "new", tx |-> None, success |-> FALSE, fee |-> 0]]
    /\ restarts = 0
    /\ unindexed = {}
    /\ carried = {}

-----------------------------------------------------------------------------
(* hypersdk accepts a block; it never includes a transaction twice. *)
AcceptBlock(b) ==
    /\ Len(chain) < MaxBlocks
    /\ \A n \in 1..Len(chain), tx \in Txs : b[tx] = None \/ chain[n][tx] = None
    /\ chain' = Append(chain, b)
    /\ UNCHANGED <<nodeVars, client>>

MutantStoreTransaction(t, r) ==
    [t |-> t, byte |-> successByte, fee |-> r.fee]

(* StoreTransaction: the record of a transaction. *)
StoreTransaction(t, r) ==
    [t |-> t, byte |-> IF r.success THEN successByte ELSE failureByte, fee |-> r.fee]

MutantBatchOf(b, t) ==
    [tx \in Txs |-> IF b[tx] # None /\ b[tx].success
                    THEN StoreTransaction(t, b[tx]) ELSE None]

(* The batch for a block: a record for every transaction, failed or not. *)
BatchOf(b, t) ==
    [tx \in Txs |-> IF b[tx] # None THEN StoreTransaction(t, b[tx]) ELSE None]

(* The registrations of a block that succeeded. *)
RollupsOf(b) == {tx \in Registering : b[tx] # None /\ b[tx].success}

(* Controller.Accepted: the loop over the transactions of the block. *)
Accepted ==
    /\ pc = "idle"
    /\ blk <= Len(chain)
    /\ batch' = IF storing THEN BatchOf(chain[blk], blk) ELSE NoEntries
    /\ rollups' = RollupsOf(chain[blk])
    /\ pc' = "update"
    /\ UNCHANGED <<chain, client, blk, storing, metaDB, registry, restarts,
                   unindexed, carried>>

(* ... the registry is updated ... *)
UpdateRegistry ==
    /\ pc = "update"
    /\ registry' = registry \cup rollups
    /\ pc' = "write"
    /\ UNCHANGED <<chain, client, blk, batch, rollups, storing, metaDB, restarts,
                   unindexed, carried>>

(* The end of Accepted: the deferred Reset, and the block is handled. *)
Return ==
    /\ batch' = NoEntries
    /\ rollups' = {}
    /\ pc' = "idle"
    /\ blk' = blk + 1
    /\ unindexed' = IF storing THEN unindexed ELSE unindexed \cup {blk}

MutantWriteBatch ==
    /\ pc = "write"
    /\ Return
    /\ UNCHANGED <<chain, client, storing, metaDB, registry, restarts, carried>>

MutantWriteBatchEarly ==
    /\ pc \in {"update", "write"}
    /\ metaDB' = [tx \in Txs |-> IF batch[tx] # None THEN batch[tx] ELSE metaDB[tx]]
    /\ Return
    /\ UNCHANGED <<chain, client, storing, registry, restarts, carried>>

(* ... and the batch is written.  An error of Write stops the node: the    *)
(* index is as it was and the next step is Restart.                        *)
WriteBatch ==
    /\ pc = "write"
    /\ metaDB' = [tx \in Txs |-> IF batch[tx] # None THEN batch[tx] ELSE metaDB[tx]]
    /\ Return
    /\ UNCHANGED <<chain, client, storing, registry, restarts, carried>>

(* The node stops and Initialize runs again, perhaps with another          *)
(* configuration.                                                          *)
Restart ==
    /\ restarts < MaxRestarts
    /\ blk' \in {n \in {blk - 1, blk, Len(chain) + 1} : n >= 1}
    /\ pc' = "idle"
    /\ batch' = NoEntries
    /\ rollups' = {}
    /\ storing' \in BOOLEAN
    /\ registry' = {}
    /\ restarts' = restarts + 1
    /\ unindexed' = unindexed \cup (blk..(blk' - 1))
    /\ carried' = {tx \in Txs : Indexed(tx)}
    /\ UNCHANGED <<chain, client, metaDB>>

-----------------------------------------------------------------------------
(* GetTransaction: how a record is read back. *)
GetTransaction(e) == [success |-> e.byte # failureByte, fee |-> e.fee]

(* JSONRPCClient.WaitForTransaction: the call begins. *)
WaitForTransaction(c, tx) ==
    /\ client[c].state = "new"
    /\ client' = [client EXCEPT ![c].state = "waiting", ![c].tx = tx]
    /\ UNCHANGED <<chain, nodeVars>>

MutantTx(c) ==
    /\ client[c].state = "waiting"
    /\ \E e \in {metaDB[client[c].tx], batch[client[c].tx]} \ {None} :
          client' = [client EXCEPT ![c] = [state |-> "done", tx |-> client[c].tx,
                                           success |-> GetTransaction(e).success,
                                           fee |-> GetTransaction(e).fee]]
    /\ UNCHANGED <<chain, nodeVars>>

(* JSONRPCClient.Tx and JSONRPCServer.Tx: the transaction is found and the *)
(* wait is over.  When it is not, the poll leaves success and fee at false *)
(* and 0 and changes nothing.                                              *)
Tx(c) ==
    /\ client[c].state = "waiting"
    /\ Indexed(client[c].tx)
    /\ LET r == GetTransaction(metaDB[client[c].tx])
       IN  client' = [client EXCEPT ![c] = [state |-> "done", tx |-> client[c].tx,
                                            success |-> r.success, fee |-> r.fee]]
    /\ UNCHANGED <<chain, nodeVars>>

(* The request fails, or the context of the call ends. *)
TxFails(c) ==
    /\ client[c].state = "waiting"
    /\ client' = [client EXCEPT ![c].state = "failed"]
    /\ UNCHANGED <<chain, nodeVars>>

(* The bounds are reached and nothing is left to do. *)
Done ==
    /\ pc = "idle"
    /\ blk > Len(chain)
    /\ UNCHANGED vars

AcceptedStep == Accepted \/ UpdateRegistry \/ WriteBatch

Next ==
    \/ \E b \in Block : AcceptBlock(b)
    \/ AcceptedStep
    \/ Restart
    \/ \E c \in Clients :
          \/ \E tx \in Txs : WaitForTransaction(c, tx)
          \/ Tx(c)
          \/ TxFails(c)
    \/ Done

Spec == Init /\ [][Next]_vars

(* The goroutine that calls Accepted keeps running and a waiting client    *)
(* keeps asking.                                                           *)
FairSpec ==
    /\ Spec
    /\ WF_vars(AcceptedStep)
    /\ \A c \in Clients : WF_vars(Tx(c))

-----------------------------------------------------------------------------
(* Properties *)

(* The type invariant; Accepted is in a step only while it has a block.    *)
TypeOK ==
    /\ chain \in Seq(Block)
    /\ blk \in 1..(Len(chain) + 1)
    /\ pc \in {"idle", "update", "write"}
    /\ batch \in [Txs -> Entry \cup {None}]
    /\ rollups \subseteq Registering
    /\ storing \in BOOLEAN
    /\ metaDB \in [Txs -> Entry \cup {None}]
    /\ registry \subseteq Registering
    /\ client \in [Clients -> Call]
    /\ restarts \in Nat
    /\ unindexed \subseteq 1..Len(chain)
    /\ carried \subseteq Txs
    /\ pc # "idle" => blk <= Len(chain)
    /\ pc = "idle" => batch = NoEntries /\ rollups = {}

(* A crash at any point leaves the transactions of a block indexed all     *)
(* together or not at all, and a block that was handled is indexed unless  *)
(* it was lost in a restart or the index was off.                          *)
IndexComplete ==
    \A n \in 1..Len(chain) :
        /\ \/ \A tx \in Txs : chain[n][tx] # None => Indexed(tx)
           \/ \A tx \in Txs : chain[n][tx] # None => ~Indexed(tx)
        /\ n < blk /\ n \notin unindexed =>
              \A tx \in Txs : chain[n][tx] # None => Indexed(tx)

(* What a call of WaitForTransaction returns is the result the transaction *)
(* has on the chain, whatever restarts and repeated writes there were.     *)
AnswerTruthful ==
    \A c \in Clients :
        client[c].state = "done" =>
            \E n \in 1..Len(chain) :
                chain[n][client[c].tx] = [success |-> client[c].success,
                                          fee |-> client[c].fee]

(* A client told that its registration succeeded finds it in the in-memory *)
(* registry, since Accepted updates the registry before it writes the      *)
(* index; only a restart since then takes it away.  (`registry' has what   *)
(* Update was given; that an exit epoch drops a record is in               *)
(* RollupRegistry.)                                                        *)
IndexedIsRegistered ==
    \A tx \in Registering :
        Indexed(tx) /\ metaDB[tx].byte = successByte => tx \in registry \cup carried

(* The index as its clients see it: what was found stays found, and each   *)
(* client is answered once.                                                *)
Answer(c) ==
    IF client[c].state = "done"
    THEN [tx |-> client[c].tx,
          result |-> [success |-> client[c].success, fee |-> client[c].fee]]
    ELSE None

Log == INSTANCE TxLog WITH
    Results <- Result,
    known <- {tx \in Txs : Indexed(tx)},
    answer <- [c \in Clients |-> Answer(c)]

(* Controller.Accepted, with its batch, its restarts and the blocks it is  *)
(* handed a second time, and the polling clients implement the log of      *)
(* TxLog: a block appears whole, nothing disappears, nobody is told what   *)
(* is not in the database yet.                                             *)
ImplementsLog == Log!Spec

(* A client that waits for an accepted transaction gets an answer in the   *)
(* end, unless the block was passed over.                                  *)
WaitEnds ==
    \A c \in Clients, tx \in Txs, n \in 1..MaxBlocks :
        (/\ client[c].state = "waiting"
         /\ client[c].tx = tx
         /\ n <= Len(chain)
         /\ chain[n][tx] # None)
        ~> (client[c].state # "waiting" \/ n \in unindexed)
=============================================================================
