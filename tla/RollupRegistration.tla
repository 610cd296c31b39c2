------------------------- MODULE RollupRegistration -------------------------
(***************************************************************************)
(* The on-chain side of Arcadia participation: the RollupRegistration and  *)
(* EpochExit actions, executed inside the transactions of a block.         *)
(*                                                                         *)
(* hypersdk executes a block against the state of its parent; the actions  *)
(* of a transaction run in order on a view of that block, and an error in  *)
(* any of them rolls the view back, leaving the transaction in the block   *)
(* with Success = FALSE.  The block is then accepted, which commits its    *)
(* view, or rejected, which drops it.                                      *)
(***************************************************************************)
EXTENDS Epochs, Sequences, FiniteSets

CONSTANTS
    Namespaces,      \* rollup namespaces of at most MaxNamespaceLen bytes
    Addresses,       \* SEQ addresses that sign transactions
    NoInfo,          \* no record under a key
    NoActor,         \* no transaction is executing
    MaxHeight,       \* bound: height of the last block
    MaxEpoch,        \* bound: largest epoch named by a transaction
    MaxBlockRegs,    \* bound: registrations executed in one block
    ExitEpochs       \* bound: epochs for which epoch exits are submitted

ASSUME BoundsAssumption ==
    /\ MaxHeight \in Nat
    /\ MaxEpoch \in Nat
    /\ MaxBlockRegs \in Nat
    \* an EpochExit of epoch 0 does not decode (UnpackUint64 with required)
    /\ ExitEpochs \subseteq Nat \ {0}

(***************************************************************************)
(* RollupInfo: the namespace, the address allowed to change the record,    *)
(* the first epoch of participation, and the first epoch of                *)
(* non-participation (0: no opt-out).  The fee recipient and the sequencer *)
(* key are copied through every operation untouched and are left out.      *)
(***************************************************************************)
RollupInfo == [namespace : Namespaces, authority : Addresses,
               start : Nat, exit : Nat]

(* RollupInfo.Exited: the opt-out has taken effect at epoch e. *)
Exited(i, e) == i.exit # 0 /\ i.exit <= e

(* RollupInfo.ValidAtEpoch: the rollup takes part in epoch e. *)
ValidAtEpoch(i, e) == i.start <= e /\ ~Exited(i, e)

ASSUME SentinelAssumption == NoInfo \notin RollupInfo /\ NoActor \notin Addresses

VARIABLES
    hght,        \* height of the last accepted block
    accepted,    \* state database after the last accepted block
    phase,       \* "idle", "block" (a block is processing), "tx" (a tx of it)
    blockDB,     \* view of the processing block, after its finished txs
    blockRegs,   \* RollupRegistration actions of the block's finished txs
    actor,       \* signer of the executing transaction
    txDB,        \* view of the executing transaction
    txRegs       \* registrations the executing transaction has performed

chainVars == <<hght, accepted, phase, blockDB, blockRegs, actor, txDB, txRegs>>

-----------------------------------------------------------------------------
(* The keys of the state database: the registry (list of namespaces), one  *)
(* RollupInfo per namespace, and the list of exits per epoch, where an     *)
(* absent key and an empty list are the same to every reader.              *)

StateDB == [registry : Seq(Namespaces),
            info     : [Namespaces -> RollupInfo \cup {NoInfo}],
            exits    : [ExitEpochs -> Seq(Namespaces)]]

EmptyDB == [registry |-> << >>,
            info     |-> [ns \in Namespaces |-> NoInfo],
            exits    |-> [e \in ExitEpochs |-> << >>]]

(* A RollupRegistration action in a block: the Info it carries after its   *)
(* execution (Execute rewrites it in place) and its transaction's result.  *)
RegAction == [info : RollupInfo, success : BOOLEAN]

(* The registrations a transaction may carry. *)
Registration == [namespace : Namespaces,
                 info : [namespace : Namespaces, authority : Addresses,
                         start : 0..MaxEpoch, exit : 0..MaxEpoch]]

contains(list, ns) == \E k \in 1..Len(list) : list[k] = ns

(* The epoch that transactions of the processing block see. *)
CurrentEpoch == Epoch(hght + 1)

-----------------------------------------------------------------------------
ChainInit ==
    /\ hght = 0
    /\ accepted = EmptyDB
    /\ phase = "idle"
    /\ blockDB = EmptyDB
    /\ blockRegs = << >>
    /\ actor = NoActor
    /\ txDB = EmptyDB
    /\ txRegs = << >>

(* hypersdk starts executing a block on top of the last accepted one. *)
BuildBlock ==
    /\ phase = "idle"
    /\ hght < MaxHeight
    /\ phase' = "block"
    /\ UNCHANGED <<hght, accepted, blockDB, blockRegs, actor, txDB, txRegs>>

(* hypersdk starts executing the next transaction of the block. *)
BeginTx(a) ==
    /\ phase = "block"
    /\ phase' = "tx"
    /\ actor' = a
    /\ UNCHANGED <<hght, accepted, blockDB, blockRegs, txDB, txRegs>>

-----------------------------------------------------------------------------
(* RollupRegistration.Execute *)

MutantAuthorizationChecks(db, ns, a) == contains(db.registry, ns)

(* Registered, and signed by the address the stored record names. *)
authorizationChecks(db, ns, a) ==
    /\ contains(db.registry, ns)
    /\ db.info[ns].authority = a

MutantValidCreateEpochs(start, exit) == start >= CurrentEpoch + 1 /\ exit = 0

(* An opt-in must leave two epochs of notice and carry no opt-out. *)
ValidCreateEpochs(start, exit) == start >= CurrentEpoch + 2 /\ exit = 0

MutantValidExitEpoch(start, exit) == exit >= CurrentEpoch + 2

(* An opt-out must leave two epochs of notice and not precede the opt-in. *)
ValidExitEpoch(start, exit) == exit >= start /\ exit >= CurrentEpoch + 2

(* The writes that end every successful registration: SetRollupInfo, then *)
(* SetRollupRegistry; the action keeps the Info it wrote.                 *)
SetRollup(reg, ns, i) ==
    /\ txDB' = [registry |-> reg,
                info     |-> [txDB.info EXCEPT ![ns] = i],
                exits    |-> txDB.exits]
    /\ txRegs' = Append(txRegs, [info |-> i, success |-> TRUE])
    /\ UNCHANGED <<hght, accepted, phase, blockDB, blockRegs, actor>>

(* The checks before the switch on the opcode. *)
RegistrationChecks(r) ==
    /\ phase = "tx"
    /\ Len(blockRegs) + Len(txRegs) < MaxBlockRegs
    /\ r.namespace = r.info.namespace

MutantRegistryWith(reg, ns) == Append(reg, ns)

(* The registry with ns appended unless it is there already. *)
RegistryWith(reg, ns) == IF contains(reg, ns) THEN reg ELSE Append(reg, ns)

CreateRollup(r) ==
    /\ RegistrationChecks(r)
    /\ contains(txDB.registry, r.namespace)
           => authorizationChecks(txDB, r.namespace, actor)
    /\ ValidCreateEpochs(r.info.start, r.info.exit)
    /\ SetRollup(RegistryWith(txDB.registry, r.namespace), r.namespace, r.info)

MutantUpdateRollup(r) ==
    /\ RegistrationChecks(r)
    /\ authorizationChecks(txDB, r.namespace, actor)
    /\ txDB' = [txDB EXCEPT !.info[r.namespace].authority = r.info.authority]
    /\ txRegs' = Append(txRegs, [info |-> r.info, success |-> TRUE])
    /\ UNCHANGED <<hght, accepted, phase, blockDB, blockRegs, actor>>

UpdateRollup(r) ==
    /\ RegistrationChecks(r)
    /\ authorizationChecks(txDB, r.namespace, actor)
    /\ LET old == txDB.info[r.namespace] IN
       SetRollup(txDB.registry, r.namespace,
                 [r.info EXCEPT !.start = old.start, !.exit = old.exit])

ExitRollup(r) ==
    /\ RegistrationChecks(r)
    /\ authorizationChecks(txDB, r.namespace, actor)
    /\ LET old == txDB.info[r.namespace] IN
       /\ ValidExitEpoch(old.start, r.info.exit)
       /\ SetRollup(txDB.registry, r.namespace,
                    [r.info EXCEPT !.start = old.start])

-----------------------------------------------------------------------------
(* EpochExit.Execute.  The current height is not among its inputs. *)

(* The indices at which ns is listed. *)
Indices(list, ns) == {k \in 1..Len(list) : list[k] = ns}

Without(list, k) == SubSeq(list, 1, k - 1) \o SubSeq(list, k + 1, Len(list))

EpochExitChecks(ns) == phase = "tx" /\ authorizationChecks(txDB, ns, actor)

SetEpochExits(e, list) ==
    /\ txDB' = [registry |-> txDB.registry,
                info     |-> txDB.info,
                exits    |-> [txDB.exits EXCEPT ![e] = list]]
    /\ UNCHANGED <<hght, accepted, phase, blockDB, blockRegs, actor, txRegs>>

MutantCreateExit(ns, e) ==
    /\ EpochExitChecks(ns)
    /\ Len(txDB.exits[e]) < 3
    /\ SetEpochExits(e, Append(txDB.exits[e], ns))

CreateExit(ns, e) ==
    /\ EpochExitChecks(ns)
    /\ Indices(txDB.exits[e], ns) = {}
    /\ SetEpochExits(e, Append(txDB.exits[e], ns))

DeleteExit(ns, e) ==
    /\ EpochExitChecks(ns)
    /\ \E k \in Indices(txDB.exits[e], ns) :
          /\ \A m \in Indices(txDB.exits[e], ns) : k <= m
          /\ SetEpochExits(e, Without(txDB.exits[e], k))

-----------------------------------------------------------------------------
(* hypersdk: the end of a transaction and of a block *)

(* Every action succeeded: the block keeps the transaction's view. *)
CommitTx ==
    /\ phase = "tx"
    /\ phase' = "block"
    /\ blockDB' = txDB
    /\ blockRegs' = blockRegs \o txRegs
    /\ actor' = NoActor
    /\ txRegs' = << >>
    /\ UNCHANGED <<hght, accepted, txDB>>

(* The registrations of a transaction that failed. *)
Failed(regs) ==
    [k \in 1..Len(regs) |-> [info |-> regs[k].info, success |-> FALSE]]

(* An action returned an error, which an action with an unsupported opcode *)
(* always does: the view is rolled back, the result records the failure.   *)
AbortTx ==
    /\ phase = "tx"
    /\ phase' = "block"
    /\ blockRegs' = blockRegs \o Failed(txRegs)
    /\ txDB' = blockDB
    /\ txRegs' = << >>
    /\ actor' = NoActor
    /\ UNCHANGED <<hght, accepted, blockDB>>

(* Consensus accepts the block: its view is committed. *)
AcceptBlock ==
    /\ phase = "block"
    /\ phase' = "idle"
    /\ hght' = hght + 1
    /\ accepted' = blockDB
    /\ blockRegs' = << >>
    /\ UNCHANGED <<blockDB, actor, txDB, txRegs>>

(* Consensus rejects the block: Controller.Rejected does nothing. *)
RejectBlock ==
    /\ phase = "block"
    /\ phase' = "idle"
    /\ blockDB' = accepted
    /\ txDB' = accepted
    /\ blockRegs' = << >>
    /\ UNCHANGED <<hght, accepted, actor, txRegs>>

ExecuteStep ==
    \/ \E r \in Registration : CreateRollup(r) \/ UpdateRollup(r) \/ ExitRollup(r)
    \/ \E ns \in Namespaces, e \in ExitEpochs : CreateExit(ns, e) \/ DeleteExit(ns, e)

TxStep ==
    \/ BuildBlock
    \/ \E a \in Addresses : BeginTx(a)
    \/ ExecuteStep
    \/ CommitTx
    \/ AbortTx
    \/ RejectBlock

(* All blocks up to the bound are accepted; the model stops here. *)
Finished == phase = "idle" /\ hght = MaxHeight /\ UNCHANGED chainVars

ChainNext == TxStep \/ AcceptBlock \/ Finished

ChainSpec == ChainInit /\ [][ChainNext]_chainVars

-----------------------------------------------------------------------------
(* Properties *)

(* The type invariant. *)
ChainTypeOK ==
    /\ hght \in Nat
    /\ accepted \in StateDB
    /\ phase \in {"idle", "block", "tx"}
    /\ blockDB \in StateDB
    /\ blockRegs \in Seq(RegAction)
    /\ actor \in Addresses \cup {NoActor}
    /\ (phase = "tx") = (actor \in Addresses)
    /\ txDB \in StateDB
    /\ txRegs \in Seq(RegAction)

Views == {accepted, blockDB, txDB}

RegistryMatches(db) ==
    /\ \A ns \in Namespaces :
           /\ contains(db.registry, ns) <=> db.info[ns] # NoInfo
           /\ db.info[ns] # NoInfo => db.info[ns].namespace = ns
    /\ \A j, k \in 1..Len(db.registry) :
           db.registry[j] = db.registry[k] => j = k

(* In every view of the state, the registry lists exactly the namespaces   *)
(* that have a RollupInfo, each once and filed under its own namespace, so *)
(* the unchecked dereferences after a registry lookup (EpochExit.Execute,  *)
(* authorizationChecks, the RPC server) never meet a missing record.       *)
RegistryMatchesInfo == \A db \in Views : RegistryMatches(db)

ExitsOnceAndRegistered(db) ==
    \A e \in ExitEpochs :
        /\ \A j, k \in 1..Len(db.exits[e]) :
               db.exits[e][j] = db.exits[e][k] => j = k
        /\ \A k \in 1..Len(db.exits[e]) : db.info[db.exits[e][k]] # NoInfo

(* No epoch lists an exit twice, nor one of an unregistered rollup: one    *)
(* DeleteExit, which removes the first match only, always undoes an exit.  *)
ExitsConsistent == \A db \in Views : ExitsOnceAndRegistered(db)

EpochsOrdered(db) ==
    \A ns \in Namespaces :
        db.info[ns] # NoInfo =>
            \/ db.info[ns].exit = 0
            \/ db.info[ns].start <= db.info[ns].exit

(* However creates, updates and exits follow one another, a recorded       *)
(* opt-out never precedes the opt-in.                                      *)
OptOutNotBeforeOptIn == \A db \in Views : EpochsOrdered(db)

(* Whatever sequence of actions a transaction runs, handing the authority  *)
(* over in the middle included, what it changes about a rollup registered  *)
(* before it belongs to its signer: nobody else moves its record or exits. *)
OnlyAuthority ==
    \A ns \in Namespaces :
        /\ blockDB.info[ns] # NoInfo
        /\ \/ txDB.info[ns] # blockDB.info[ns]
           \/ \E e \in ExitEpochs :
                 contains(txDB.exits[e], ns) # contains(blockDB.exits[e], ns)
        => actor = blockDB.info[ns].authority

(* Takes part in epoch e according to the state db. *)
Participates(db, ns, e) == db.info[ns] # NoInfo /\ ValidAtEpoch(db.info[ns], e)

(* Accepting a block of epoch E decides nothing about epochs up to E + 1   *)
(* for a rollup that registers or opts out in it for the first time,       *)
(* whatever else the block does to its record.                             *)
FirstChangeLeavesNotice ==
    [][accepted' # accepted =>
        \A ns \in Namespaces, e \in 0..(CurrentEpoch + 1) :
            \/ accepted.info[ns] = NoInfo
            \/ /\ accepted.info[ns].exit = 0
               /\ accepted'.info[ns].start = accepted.info[ns].start
            => Participates(accepted, ns, e) = Participates(accepted', ns, e)
      ]_chainVars

(* The same, and has not left epoch e by an EpochExit. *)
TakesPart(db, ns, e) ==
    /\ Participates(db, ns, e)
    /\ e \in ExitEpochs => ~contains(db.exits[e], ns)

(* arcadia.md: the list of participants of epoch K is final at the end of  *)
(* epoch K - 2.  An EpochExit, which never looks at the height, breaks it, *)
(* and so does a second Create or Exit of a registered rollup.             *)
ParticipantListFinal ==
    [][accepted' # accepted =>
        \A ns \in Namespaces, e \in 0..(CurrentEpoch + 1) :
            TakesPart(accepted, ns, e) = TakesPart(accepted', ns, e)
      ]_chainVars
=============================================================================
