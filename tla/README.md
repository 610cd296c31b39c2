# nodekit-seq in TLA+

SEQ (`nodekit-seq`) is a hypersdk virtual machine: a shared sequencer chain on
which rollups register for *Arcadia*, an ahead-of-time auction of the right to
build the blocks of all participating rollups in an epoch. This directory holds
TLA+ models of its own logic (hypersdk, consensus, the databases and the
cryptography are modelled from how this repository uses them), the TLC
configurations that check them, and TLAPS proofs.

## The system

| component | state | operations | talks to |
|---|---|---|---|
| rollup registration (`actions/rollup_register.go`, `storage/rollup_*.go`) | list of registered namespaces, one `RollupInfo` per namespace | Create, Update, Exit | run by hypersdk in a transaction; its effects are collected by `Controller.Accepted` |
| epoch exits (`actions/epoch_exit.go`, `storage/epoch_exit.go`) | list of exits per epoch | CreateExit, DeleteExit | reads the registration state |
| balances (`storage/balance.go`, `actions/transfer.go`, `controller/state_manager.go`, `genesis/genesis.go`) | balance per address, no record for 0 | genesis Load, CanDeduct/Deduct (fees), Transfer | every transaction pays a fee first |
| auction (`actions/auction.go`, `storage/arcadia.go`) | winning bid per epoch | Auction | moves the bid to the Arcadia fund |
| in-memory registry (`rollup_registry/registry.go`) | map of `RollupInfo`, behind a lock | Update, RollupsValidAtEpoch | fed by `Controller.Accepted`, read by the RPC server |
| archiver (`archiver/orm_archiver.go`) | SQL table of accepted blocks | InsertBlock, header / block / commitment queries | a goroutine per accepted block writes, RPC handlers read |
| controller (`controller/controller.go`) | the above, plus a transaction index in `metaDB` | Initialize, Accepted, Rejected | called by hypersdk |
| RPC server (`rpc/jsonrpc_server.go`) | none | reads of the state, of the registry and of the archive | clients |
| clients (`rpc/*_client.go`, `cmd/seq-cli/cmd/resolutions.go`) | the call under way | WaitForTransaction, SubmitMsgTx, GenerateAndSubmitTx, sendAndWait | RPC server, and through it the transaction index and the mempool |
| state keys (`StateKeys` of the actions, `controller/state_manager.go`) | none | declare which keys a transaction touches | hypersdk's executor runs transactions in parallel by them |
| commitments (`types/commit.go`, `types/types.go`) | none | Header.Commit, Uint256 and back, UnmarshalJSON | GetCommitmentBlocks publishes them, clients check headers against them |
| signature batches (`auth/ed25519.go`) | the current batch and two counters | GetBatchVerifier, Add, Done | hypersdk's workers verify the batches concurrently |
| BLS authentication (`auth/bls.go`), the rest of the CLI, configuration, contract bindings | - | - | - |

What is hard here:

* hypersdk runs the actions of a transaction on a view that is rolled back when
  one of them fails, blocks are built on views that are committed or dropped,
  and `Controller.Accepted` runs later, on another goroutine, from the *actions*
  of the block rather than from its state;
* everything is keyed to epochs (`height / EpochLength`), with deadlines such as
  "two epochs of notice" that hold or fail at the boundary;
* the in-memory registry is not persistent and is not rebuilt on start;
* archive inserts run concurrently, fail silently and are not retried, while a
  query reads the table up to four times without a transaction;
* the registry and the transaction index are updated one after the other, with a
  crash possible in between, while clients poll the index;
* RPC methods read the state database while blocks are accepted, one key at a
  time, and signature batches are verified while others are being filled;
* transactions of one block run in parallel wherever the keys they declare do not
  meet, so a wrong declaration shows only under some schedules and some states;
* a fee is estimated from prices that are read one after the other while blocks
  move them, in 64 bit arithmetic that may wrap around;
* a header's commitment goes through a hash, an integer and JSON, each with its
  own edge (padding, lengths, missing members).

`PROJECT.json` lists the hazards at their lines, with the properties that cover
them.

## Modules

    Sums                        sums over a set, counted
    Epochs                      epoch arithmetic
      RollupRegistration        registration and epoch exits on the chain
        RollupRegistry          the in-memory registry, composed with the chain
        RollupReaders           GetAllRollupInfo, composed with the chain
      Ledger                    genesis, fees, transfers, messages, auction (with Sums)
    Archiver                    the block archive and its queries
    BatchVerifier               batches of signatures and their workers
    TxLog                       abstract: a log of whole blocks and answered clients
      TxIndex                   the transaction index and the clients that wait on it; implements TxLog
    BlockExecution              state keys and the parallel execution of a block
    Submission                  estimating fees, submitting and waiting (with Sums)
    HeaderCommitment            commitments to headers and the clients that check them
    RollupProofs                theorems about RollupRegistration, RollupRegistry and RollupReaders
    BatchVerifierProofs         theorems about BatchVerifier
    TxIndexProofs               theorems about TxIndex
    LedgerProofs                theorems about Ledger
    ArchiverProofs              theorems about Archiver
    BlockExecutionProofs        theorems about BlockExecution
    SubmissionProofs            theorems about Submission
    HeaderCommitmentProofs      theorems about HeaderCommitment
    MC_*                        instances for TLC

### RollupRegistration

The state is that of hypersdk's execution: `accepted`, the state database after
the last accepted block; `blockDB`, the view of the block being processed;
`txDB`, the view of the executing transaction; each a record of the registry
list, the `RollupInfo` per namespace and the exit lists (`StateDB`). `phase`
says how deep in the nesting execution is. `blockRegs` and `txRegs` hold the
registrations performed with the `Info` they carry after execution
(`Execute` rewrites it in place) and the success of their transaction:
what `Controller.Accepted` will see.

`CreateRollup`, `UpdateRollup` and `ExitRollup` are the three opcodes of
`RollupRegistration.Execute`, `CreateExit` and `DeleteExit` those of
`EpochExit.Execute`. Each is the whole `Execute`: the checks before the switch,
the branch, and the writes that end it. A failed action is not a separate
action of the model: it writes nothing that survives, and `AbortTx` rolls the
transaction back at any point; an action with an unsupported opcode always
fails, so a rollback is possible in every state. `CommitTx`, `AcceptBlock` and
`RejectBlock` are hypersdk's. A namespace longer than `MaxNamespaceLen` fails
and is not a member of `Namespaces`. The fee recipient and the sequencer key of
a record are copied by every operation and left out.

### RollupRegistry

Adds the queue of accepted blocks that wait for `Controller.Accepted`, the map
`rollups` and the height processed last. `Accept` is hypersdk's acceptance
(commit, then enqueue), `Accepted` the handler: it takes the registrations of
successful transactions in order, puts them in the map (the last one of a
namespace stays, `Put`) and drops the records that have exited by the block's
epoch. `Restart` is `Initialize`: an empty map, unaccepted work gone, the queued
blocks replayed or lost. `forgotten` is a history variable: the rollups that
were registered at the last restart and that no processed block has mentioned
since. It is empty in a node that never restarts. `GetValidRollupsAtEpoch` and
`GetEpochExits` are the two answers of the RPC server about an epoch, one from
the map and one from the state.

### RollupReaders

`GetAllRollupInfo` is a reader with one step per read of the state database:
the registry, then the record of each namespace in it. Each read sees
`accepted` as it is then; the chain takes any steps in between. A nil record,
which the code would dereference, appears as `NoInfo` in the reply. `listed` and
`began` are history: the registry the call read, and the height it read it at.
A call that finds an empty registry ends at once and is left out.
The composition is `ReaderSpec`; its parts have names of their own because
`RollupProofs` extends it next to `RollupRegistry`.

### Ledger

A transaction begins by paying its fee (`CanDeduct`, `Deduct`), then executes
`SequencerMsg`, `Transfer` and `Auction` actions on its view and commits it or
falls back to the state after the fee. A balance is a number up to `MaxUint` or
`NoRecord`; `SubBalance` deletes the record of an account it empties, as the
code does. `Init` ranges over allocation lists of genesis, addresses repeated
included, and starts only if `Genesis.Load` succeeds. `burned` and `paid` are
history fields: fees taken, and what the auctions of an epoch took off the
balance of each builder (`Debit` compares the balances before and after, so it
is independent of the bid that is stored). The fund is not a builder: its
address has type byte 0 (`actions/utils.go:42`), a BLS address has another. A BLS
key is the address derived from it, and a signature is valid or not. Sums are
written as the number of coins (`Coins`, `SumOf` of `Sums`): one pair per account
and unit it holds, a form that needs no recursion and that finite-set theorems
apply to.

### Archiver

`Accepted` appends a block, its timestamp not before the last one, and starts
its goroutine (`MinBlockGap` may be 0, as in `cmd/seq-cli/cmd/genesis.go:57`, so
two blocks may share a timestamp);
`InsertBlock` and `InsertFails` end it; `Crash` loses the running ones and may
start some again for blocks archived already. A header query is a reader with
one step per database read: the starting height (given, looked up by
identifier, or that of an earliest row at a time: the query orders by timestamp
only, so any of those that share it, `Earliest`), `Prev`, the range (`RowsInRange`,
with the code's check that it is consecutive) and `Next`. An error of the
database fails the query (`ReadErrs`), except in the last read, where it is
answered as if there were no next block (`ReadNextErrs`). `GetBlock` (by identifier or height, for the
transactions of a block) and `GetCommitmentBlocks` read once; the latter takes
the rows of a range of heights up to a limit and does not look for holes. A block is represented by its height; height 0 is the zero `BlockInfo` of a missing row. `seen` and `lost` are history: the
rows when the query began, and the blocks whose insert failed or was cut short.

### BatchVerifier

`GetBatchVerifier`, `Add` and `Done` are the methods of `ED25519AuthEngine` and
`ED25519Batch`; a batch is a number, and `sigs` records which batch each
signature went to and whether it is valid. The jobs that `Add` and `Done` return
are run by hypersdk's workers at any later moment (`Verify`) on the batch as it
is then. hypersdk adds at most as many signatures as it announced. When it
announced a multiple of the batch size and added them all, the last batch is
handed over by `Add` and again by `Done`: verified twice, which costs time and
nothing else.

### TxIndex

`Controller.Accepted` in three steps, between which the node may stop: the loop
over the transactions (`Accepted`, which only fills the batch and the list of
rollups), the update of the registry (`UpdateRegistry`) and the write of the
batch (`WriteBatch`). The registry is the set of transactions whose
registrations it was given; `RollupRegistry` has the details. `Restart` loses
batch and registry, keeps `metaDB`, may change the configuration, and goes on
with the block Accepted was at, the one before it (handled already), or after
all those accepted. An error of the write stops the node and is a restart.
`WaitForTransaction`, `Tx` and `TxFails` are the client's call, a poll that
finds the transaction, and one that fails; a poll that finds nothing changes
nothing. `unindexed` and `carried` are history: the blocks passed over, and what
was indexed at the last restart.

`TxLog` is what the index promises its readers: blocks become known as a whole,
what is known stays, and a client that waits is answered from what is known. It
has no batch, no steps, no registry, no configuration and no restarts.
`TxIndex!ImplementsLog` maps `known` to the transactions with a record in
`metaDB` and `answer` to the answers of the clients that are done.

### BlockExecution

The keys of the state, what `StateKeys` of each action and `SponsorStateKeys`
declare of them (read, write, allocate), and what `Execute` of each action and
`Deduct` read and write, in their order, removing a key included. Values are
reduced to what flows between transactions: balances, the record of a rollup
with its epochs, the lists of registered rollups and of exits in their order, the
builder of an epoch. hypersdk's
part is external: a worker takes a transaction when the earlier ones that
conflict with it are done (`Begin`), runs the fee and the actions one at a time
on a view that refuses undeclared accesses (`Continue`), and commits what was
written (`Commit`); a failure undoes all but the fee. `busy` has the transactions
under way. `RunSerially` is the reference: the same block, one transaction at a
time, with access to everything; it ends before the first `Begin`, and `serial`
keeps all of it, the state before each transaction and each transaction's steps,
for the workers to be compared with.

### Submission

Three kinds of call: `SubmitMsgTx` of the server, `GenerateAndSubmitTx` of the
multi client, and `sendAndWait` of the command line (through which it sends
everything). `ReadUnitPrices` is the first read, with `fees.MulSum` and its
overflow error; `ReadNameSpacesPrice` the second, with the namespaces in any
order (the code iterates over a map) and the unchecked products, sums and margin
modulo `Modulus` (the additions of the loop wrap around one by one, which leaves
the sum modulo 2^64: `AddNamespaces`); `Submit` builds the transaction, its time rounded down to a
second, and hands it to the node. `NewBlock` is the chain (external): it includes
transactions that can pay the prices of the moment and have not expired, drops
others, and moves the prices anywhere. `sendAndWait` registers its transaction
with the node over a websocket connection that all calls of a process share, one
after the other (`spam.go` makes many; "sendAndWait may not be used
concurrently"). `Report` is the node (external), which puts a result or an expiry
on the connection once; `ListenTx` is the loop of the call, which takes the next
report, and `Heard` what it makes of it: the result of another transaction is
skipped, but an error of any transaction ends the call (`resolutions.go:44`
returns before the identifiers are compared). `CallFails` ends a call whose
request or context fails; the node goes on listening to the transaction, so its
report reaches a later call. `ResultIsOwn` says that a result is never mistaken;
no such thing holds of errors: a call may be told of the expiry of an earlier
call's transaction while its own is still going to be included.
A transaction is the record of its fields, and two that agree in all are one.

### HeaderCommitment

`RawCommitmentBuilder` as the bytes it writes, for the fields of `Header` and
`NmtRoot`; Keccak is an ideal hash that gives every new input a digest it has
not given before, any digest, those with leading zeros included.
`GetCommitmentBlocks` publishes the commitment as an integer, `Decode` is a
client that gets some JSON object for the header, members missing included, and
`Verify` compares the commitments. That client is external: `CommitmentFromUint256`
and `Equals` are exported for it, and no code of the repository calls them.
Strings are one byte each, outside the digits
of numbers; what separates the fields (a name, the invalid byte, fixed widths,
lengths) is as in the code. `Value` is the number a string of bytes stands for;
`BigEndian` gives the bytes of a number back, as many as asked for, `Bytes` those
of `big.Int` without the leading zeros, which `CommitmentFromUint256` restores.

## Runs

| run | checks | shows |
|---|---|---|
| `Registration` | `RegistryMatchesInfo`, `ExitsConsistent`, `OptOutNotBeforeOptIn`, `OnlyAuthority`, `FirstChangeLeavesNotice`, `ReplyComplete`, `SnapshotIfQuiet` | two rollups, two signers, two blocks of two registrations, every interleaving of opcodes, rollbacks and rejected blocks, with a `GetAllRollupInfo` call at any moment |
| `Registry` | `ServedIsCurrent`, `NoneMissing`, `ServedMatchesState`, `ExitedIsDropped` (liveness) | the in-memory registry up to two blocks behind, over three blocks that register a rollup, let it exit an epoch and opt it out, with restarts anywhere; an opt-out takes effect without further registrations |
| `BatchVerifier` | `AllVerified`, `NoAddAfterHandOver` | up to six signatures, one or two workers, batches of two and three |
| `TxIndex` | `IndexComplete`, `AnswerTruthful`, `IndexedIsRegistered`, `ImplementsLog` (refinement of `TxLog`), `WaitEnds` (liveness) | two blocks of up to two transactions, two restarts at any point, a client that waits |
| `Ledger` | `TypeOK`, `SupplyConserved`, `AddNeverOverflows`, `RecordedBuilderPaid`, `BuilderFixedOnceEpochBegins` | all genesis lists of up to three allocations, two transactions of two actions per block, three blocks over two epochs |
| `Archiver` | `HeadersConsecutive`, `ReplyOrdered`, `PrevAdjacentIfArchived`, `CommitmentsGapless`, `RequestedBlocksFound`, `EventuallyArchived` (liveness) | three blocks, failing inserts, crashes, one query at a time of every kind |
| `Execution` | `SerialOutcome`, `NeverOutOfScope` | every block of three transactions from a menu of fifteen, in every order the executor may run them, against running them one by one |
| `Submission` | `FeeCovered`, `NeverPaysMore`, `ResultIsOwn`, `CallEnds` (liveness) | two calls of any kind while blocks move the prices, with estimates that wrap around, calls that give up, and reports on the connection they leave behind |
| `Commitment` | `VerifiedIsGenuine`, `GenuineVerifies`, `DecodedIsComplete` | every header over three numbers and two roots, four digests, every JSON object a client may be sent |

The remaining runs exhibit disagreements between the code and what its
documentation, comments or tests say; each checks the documented statement and
is violated:

| run | statement | what the code does |
|---|---|---|
| `RegistrationListFinal` | the participants of epoch K are final at the end of K-2 (`arcadia.md:14`) | a registered rollup that repeats Create (or Exit) leaves, or stays in, the next epoch: Create stores both epochs of the action, against the comment at `rollup_register.go:76`; `EpochExit.Execute` ignores the height |
| `RegistryForgets` | an opted-in rollup stays listed until it opts out (`arcadia.md:8`) | a restarted node lists only what is registered afterwards |
| `RegistryIgnoresExits` | a rollup leaves the list for an epoch it opted out of with `epochExit` (`arcadia.md:8`, `:10`) | `GetValidRollupsAtEpoch` goes on listing it: the registry is told of registrations only; `GetEpochExits` has the exit |

`FirstChangeLeavesNotice`, `NoneMissing` and `ServedMatchesState` are what does
hold in place of the statements about registration and the registry: a list
served by a registry that has caught up has every rollup that takes part and
only records that cover the epoch, those with an epoch exit included. Of a header
reply
`ReplyOrdered`, `PrevAdjacentIfArchived` and `RequestedBlocksFound` hold, the last
for blocks archived when the query began. Three things do not: a query by time
that finds several blocks with the earliest timestamp may start from a higher one
and leave out those below it (`orm_archiver.go:323`; the property excepts exactly
these); a query by the identifier of a block
that is not archived yet starts from height 0 without an error, and `Next` need
not follow the last header while an earlier block is still being archived,
although `tests/e2e/e2e_test.go:822` and `:801` expect otherwise.

### Bounds

* `EpochLength` 1 or 2: with 1 every block is a boundary; `Registration` and
  `Ledger` use 2 to have blocks inside an epoch.
* `MaxHeight` 2 or 3, `MaxEpoch` up to two epochs above it, so that every epoch
  a transaction can validly name is named and both sides of each check occur.
  In `Registry` a rollup that opts in and out in the first block is dropped
  at the third, the first its exit may name.
* `MaxBlockRegs` 2: two registrations of one rollup in one transaction, in two
  transactions of a block, and of two rollups in one block all occur.
* `Registration`: states that differ only in the contents of `blockRegs` and
  `txRegs`, which nothing reads without the in-memory registry, count as one
  (`View`).
* `Registry`: one namespace and one signer, with exits from epoch 3: `Update`
  treats each namespace by itself, and the theorems are about any number of them;
  two would not leave room for epoch exits and restarts.
* `MaxQueue` 2: `Accepted` may lag behind by two blocks, enough for two queued
  blocks about the same rollup.
* `Ledger`: three allocations (`MaxAllocs`), amounts 1 and 2, fees 1, balances up to 7 stand for uint64; genesis
  reaches the limit exactly, and the overflow of `Load` is one beyond it.
* `Archiver`: three heights give a hole in the middle; three timestamps let blocks
  share one or be apart, and a range end before, at and after each of them;
  two commitments at most make the limit matter.
* `BatchVerifier`: six signatures fill three batches of two or two of three,
  exactly or not; the minimum batch size is 2 here.
* `TxIndex`: two blocks and two restarts allow a block to be lost, to be written
  twice, and to be handled with the index off and then on; two fees and both
  outcomes make a mixed-up record visible.
* `Execution`: three transactions are enough for one to wait on two and for a
  conflict that is not transitive. The menu has transfers (to oneself, of
  everything, to an account without record), bids for the right and the wrong
  epoch, creates, updates and exits of two rollups, epoch exits, messages and
  transactions of two actions, whose success depends on what came before; the
  block starts from a state without rollups and the second account, and from one
  with all of them.
* `Submission`: `Modulus` 64 stands for 2^64; the four vectors of prices
  differ by exactly a fifth, by a fee a little above that, in the order of the
  namespaces, and by a unit price that overflows; a priority fee of 40 makes
  the estimate wrap around. A validity window of two ticks and a second of two put
  the rounded expiry before, at and after the inclusion.
* `Commitment`: base 11, of which eight digits stand for strings, and numbers and
  digests of two digits: 0, a one-digit and a two-digit number, digests with and
  without leading zeros, and two roots of zeros that only their length tells
  apart.

Symmetry is used for namespaces, addresses and builders, which no definition
tells apart, and in no run that checks liveness.

### Fairness

`Registry` assumes weak fairness of `Accepted`: hypersdk's goroutine
that drains the queue of accepted blocks keeps running. `Archiver` assumes that
every insert goroutine ends, with success or with an error. `TxIndex` assumes
that the goroutine calling `Accepted` keeps running and that a waiting client
keeps polling, as the loop of `rpc.Wait` does. `Submission` assumes that
blocks go on, that the node reports a registered transaction which is in a block
or has expired, and that a waiting `sendAndWait` takes the next report. Nothing
else is assumed of clients, consensus, restarts or crashes.

Deadlock is not checked in `BatchVerifier`, `Execution` and `Submission`, where a
set of signatures, a block and the calls come to an end.

## Proofs

The theorems hold for every set of namespaces, addresses and accounts, every
block and state, and every value of the bounds. What they assume of the
constants is in the `ASSUME` of each module: `EpochLengthAssumption` (the epoch
length is positive), `BoundsAssumption` (bounds are naturals, epochs of exits
positive), `SentinelAssumption` (the sentinels are not records or addresses),
`BatchAssumption` (the minimum batch size is positive), `IndexAssumption` (the
sentinel is no record, registering transactions are transactions),
`LedgerAssumption` (finitely many accounts, among them the fund and the
builders, which are not the fund; fees and amounts are positive), `ArchiverAssumption` (bounds are
naturals, a reply has room for a block), `BlockAssumption` (blocks are lists
of what decodes as a transaction, a state has every key, the fee is a natural),
`SubmissionAssumption` (finitely many namespaces; prices, units and fees are
naturals; the sentinel is no transaction) and `CommitmentAssumption` (there are
bytes for the names, the number fields and the lengths of roots fit in a uint64,
digests have the length of a commitment).
The runs evaluate them.

**RollupProofs, registration.** `ChainInvariant` proves the conjunction `ChainInv`
inductive. Besides the properties themselves it needs `PhasesNest`: outside a
transaction `txDB = blockDB`, outside a block `blockDB = accepted`. Without it
nothing relates the view a transaction starts from to the one that is checked.
The properties are stated of all three views, so that committing, rolling back,
accepting and rejecting (which only move views, `MovingViewsKeepsInv`) keep
them. `RegistryMatchesInfo` is what makes the unchecked dereferences safe and is
needed by the proofs about authorisation. From it: `ChainTypeCorrect`,
`RegistryAlwaysMatchesInfo`, `ExitsAlwaysConsistent`, `OptOutNeverBeforeOptIn`,
`OnlyAuthorityEver`. `FirstChangeAlwaysLeavesNotice` compares the accepted state
before and after a block; the registrations of the block lie in between, so the
invariant it needs, `NoticeInv`, relates the views of a block under way to the
accepted state (`NoticeGiven`): a record is as it was, or its opt-in, or else
its opt-out, was moved two epochs ahead at least.

**RollupProofs, the registry.** `Controller.Accepted` never looks at the state, only
at the actions of a block, so the proof needs `RegsExplain`: the registrations
that succeeded *explain* the change of the stored records, namespace by
namespace: no registration and no change, or the last registration carries the
stored record. `ExplainsConcat` shows that explanations compose, which carries
them from a transaction to a block; a rolled back transaction explains no
change. `NodeInv` adds `TypeOK` (the queue holds the heights between `processed`
and `hght`), `ServedIsCurrent` and `NoneMissing`; `QueueAppend`, `QueueTail` and
`PutValue` say what a step does to the queue and to the map. From it:
`NodeTypeCorrect`, `ServedIsAlwaysCurrent`, `NoneEverMissing`, and
`ServedAlwaysMatchesState`: a registry that has caught up lists for current and
later epochs only stored records that cover them, and misses of the rollups that
take part at most those that a restart made it forget.

**RollupProofs, readers.** `ReplyComplete` rests on records never being deleted.
`NoneDeleted` says so of the views (what the accepted state has a record of, the
block's view has, and so the transaction's), which makes it true of accepting a
block; `CallInv` then keeps a record for every namespace the call has read from
the registry until its turn comes. From it: `ReplyAlwaysComplete`,
`QuietCallsSeeOneState`.

**BatchVerifierProofs.** `InvalidAccounted` follows every invalid signature: it
was found, or its batch waits for a worker, or it is in the batch that `Done`
will hand over. `Numbered` says that batches are numbered in order and only the
last can grow. From them: `NoInvalidSignatureAccepted`, `HandedOverBatchesStay`.

**TxIndexProofs.** `IndexInvariant` needs, besides the properties, that a
transaction is in at most one block (`OnceOnly`: otherwise writing one block
would index a part of another), that the batch is that of the block being
handled (`BatchMatches`), that every record comes from the chain (`EntriesTrue`)
and that the registry has what is about to be written (`UpdatedBeforeWrite`).
From it: `IndexTypeCorrect`, `IndexAlwaysComplete`, `AnswersAlwaysTruthful`,
`IndexedIsAlwaysRegistered`. `IndexImplementsLog`
proves the refinement of `TxLog` for any number of transactions, clients and
restarts: `WriteBatch` is the step that makes a block known (`BatchMatches` says
that it is a whole block), `Tx` the one that answers (`EntriesTrue`), and every
other step, restarts included, leaves the log as it is.

**LedgerProofs.** Conservation of the supply is about a sum over all accounts.
`SumOf` counts coins, and `SumSplit`, `SumUpdate` and `SumBound` say what one
changed balance does to it, from the theorems on cardinalities; a payment is two
such changes, of one account when it is to oneself. `LoadWithinSupply` shows
that the balances genesis loads add up to its allocations, repeated addresses
included, by an injection of the coins. `LedgerInv` has, besides the properties,
`ViewIsLedger` (outside a transaction there is one state), `SupplyFits` (the
supply is a uint64: what `Genesis.Load` checks) and `BegunBidsKept` (a
transaction leaves the bids of epochs that have begun alone). From it:
`LedgerTypeCorrect`, `SupplyAlwaysConserved`, `RecordedBuilderHasPaid`, the
action property `BegunBuilderFixed`, and `AddBalanceNeverOverflows`: whoever
receives an amount holds at most the rest of the supply.

**ArchiverProofs.** A query is up to four reads of a table that grows in
between, so each part of the invariant says what one read has established that
later inserts cannot undo: `StartSound` of the first height, `PrevSound`,
`BlocksSound` and `NextSound` of the three reads after it, `OtherSound` of the
queries that read once, `NotYetRead` of what is still to come. `Grows` collects
what all steps of the writers have in common. That `ORDER BY` and `LIMIT` give
the list one expects is proved once: `OrderedLists` (an ascending list of a
finite set is its enumeration by rank), `OrderedInterval` and
`ConsecutiveInterval`. From it: `RepliedHeadersConsecutive`, `RepliesOrdered`,
`PrevJoinsArchivedBlocks`, `CommitmentsWithoutGap`, `ArchivedBlocksReplied`.
`TimeGrows` (timestamps never fall along the chain) is why a query by time misses
only blocks with the very timestamp it starts from.

**BlockExecutionProofs.** The first half is about the declarations. One lemma
per action (`TransferDeclared`, `AuctionDeclared`, `RegistrationDeclared`,
`ExitDeclared`, `MsgDeclared`, `DeductCovered`) shows that `StateKeys` allows
every access of `Execute` and that `Execute` does the same on two states that
agree on the declared keys. A payment that empties an account and one that
creates it differ in the permission they need; `SubNeverAllocates` is why
`Read|Write` is enough for the payer. `StepLocal` lifts this to a step of a
transaction, on top of what it has written itself. The second half is about the
executor. `SerialInv` describes the reference: each state is the one before it
with what the transaction wrote, and a key keeps its value while no transaction
may write it (`Unwritten`). `WorkerInv` relates the workers to it: a transaction
under way has waited for the conflicting ones before it (`InOrder`), is at a
step of the reference (`OnPath`), and, the heart of it, `SameValues`: when the
transactions done are, of those that may write a key, exactly the ones before
transaction p, the key has the value it has before p in the reference.
`BusySeesReference` follows: to a transaction under way the shared state is, on
its keys, the reference's. From it: `ParallelIsSerial` and
`DeclarationsSuffice`.

**SubmissionProofs.** The client adds up prices along a list, the chain over a
set, and the client's additions wrap around. `SumInAnyOrder` (an enumeration of a
finite set moves the coins of a sum one to one) removes the order, `Reduced` the
wrapping: a reduced number is never larger, and a number that fits is itself.
With them `MaxFeeIs`: the maximum fee is at most the chain's fee at the prices
read plus a fifth, and equal to it when it fits. `FeeGrowsByAFifth` is the other
half: if no price has grown by more than a fifth, neither has the fee, from
`SumOfSums` and `SumMonotone`, and the rounding of the margin does not matter
(`WithinMargin`). The invariant keeps, for a call with an estimate, that its
maximum fee is that of the prices it read although blocks move the prices
(`CallsPriced`), that its transaction is the one it made (`CallsOwnTx`), that
no block charged a transaction more than it allowed (`PaidWithinMax`), and that
every result on the connection is of a transaction in a block (`ReportsTrue`).
From it: `FeeIsCovered`, `NobodyPaysMore`, `ResultsAreOwn`.

**HeaderCommitmentProofs.** `ValueIs` shows that the recursive function in
`Value` exists and is what its equations say; `DigitsUnique` goes down the digits
from the last (`LastDigit`: one quotient and one remainder), and with it
`RoundTrip`: a commitment of any length survives the integer, however many zeros
it starts with (`LeadingZeros`). Both are inductions written with the least
element of a set of numbers. `SamePieces` takes apart what the builder has put
together from pieces of known length; field by field it gives `HeaderBinds` and,
with the length written before a root, `NmtRootBinds`. `CommitmentBinds` adds the
ideal hash: commitments are equal exactly when the headers are. The invariant has
the hash one to one, the published root a commitment to the block's header that
the hash was asked for (`RootPublished`), and a decoded header complete. From it:
`OnlyGenuineVerifies`, `GenuineAlwaysVerifies`, `DecodesAllMembers`.

Type correctness (`ChainTypeCorrect`, `NodeTypeCorrect`, `ReaderTypeCorrect`,
`BatchTypeCorrect`, `IndexTypeCorrect`, `LedgerTypeCorrect`) is proved, so TLC
checks it only where it bounds a value (`Ledger`).

**Model-checked only.** The liveness properties `ExitedIsDropped`, `WaitEnds`,
`EventuallyArchived` and `CallEnds`: the proof system does not
handle fairness. Every invariant and every action property that the passing
runs check is also proved.

## Not modelled

* byte encodings and sizes: `Marshal`/`Unmarshal` of the actions, `Size`,
  `ComputeUnits`, `StateKeysMaxChunks`; nothing in the models depends on them but
  the units of a transaction, which are constants;
* the cryptography: BLS and ED25519 signatures are valid or not, Keccak is ideal;
* code that nothing calls: the archive's `GetBlock` and `DeleteBlock`,
  `OptionalField`, `Uint256Field` and `FixedSizeField` of the commitment builder,
  the JSON form of `U256`;
* RPC methods and client methods that pass a single read through, and
  `WaitForBalance`;
* the command line but for `sendAndWait`: prompts, flags and key files, without
  state of its own;
* the configuration, the rules and parameters of the chain, which are constants
  of the models, and the generated contract bindings (`sequencer/sequencer.go`);
* several nodes: consensus is taken to deliver the same blocks to each. The
  whitelist of `Auction` comes from the configuration of the node
  (`actions/utils.go:13`), so nodes with different files would disagree on a
  block; the models have one node and one whitelist.

## State of the project

Every component with control of its own has a module; the transaction index
implements its abstract specification; all invariants, action properties and the
refinement are proved for every value of the constants. What would extend it:

1. Several nodes with their own configuration files, which is where the
   whitelist of `Auction` (above) could be stated as a property.
2. `StateKeysMaxChunks` and the sizes of values, once the encodings are modelled.

An abstract specification of the in-memory registry was considered and left out:
what it would say, that the registry is the part of the state database a node
has heard of since it started, is `ServedAlwaysMatchesState` with
`NoneEverMissing`.
