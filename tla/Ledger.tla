------------------------------- MODULE Ledger -------------------------------
(***************************************************************************)
(* Balances and the Arcadia auction: genesis allocation, fees, the         *)
(* Transfer and Auction actions, and the multi-action transactions around  *)
(* them.  An action that fails takes the whole transaction back to the     *)
(* point after the fee was deducted.  A rejected block leaves its parent's *)
(* state, as if it had not been built, so only blocks that end up accepted *)
(* are followed here.                                                      *)
(***************************************************************************)
EXTENDS Epochs, Sequences, FiniteSets, Sums

CONSTANTS
    Accounts,       \* addresses
    ArcadiaFund,    \* ArcadiaFundAddress
    Builders,       \* addresses derived from the BLS keys of block builders
    Whitelisted,    \* addresses allowed to submit an Auction
    NoRecord,       \* no balance, or no bid, under a key
    NoActor,        \* no transaction is executing
    MaxUint,        \* largest uint64
    Fees,           \* bound: fees of transactions
    Prices,         \* bound: amounts transferred and bid
    MaxHeight,      \* bound: height of the last block
    MaxAllocs,      \* bound: allocations in the genesis file
    MaxActions,     \* bound: actions of a transaction
    MaxTxs          \* bound: transactions of a block

ASSUME LedgerAssumption ==
    /\ IsFiniteSet(Accounts)
    /\ ArcadiaFund \in Accounts
    \* a builder's address has the type byte of BLS keys, the fund's has 0
    /\ Builders \subseteq Accounts \ {ArcadiaFund}
    /\ Whitelisted \subseteq Accounts
    /\ NoActor \notin Accounts
    /\ MaxUint \in Nat
    /\ NoRecord \notin Nat
    /\ Fees \subseteq Nat \ {0}
    \* neither a Transfer nor an Auction of 0 decodes (UnpackUint64 required)
    /\ Prices \subseteq Nat \ {0}
    /\ MaxHeight \in Nat /\ MaxAllocs \in Nat
    /\ MaxActions \in Nat /\ MaxTxs \in Nat

BidEpochs == 0..(Epoch(MaxHeight) + 1)

VARIABLES
    hght,      \* height of the processing block
    txs,       \* transactions the processing block has executed
    ledger,    \* state after the finished transactions
    actor,     \* signer and sponsor of the executing transaction
    actions,   \* actions it has executed
    view,      \* state the executing transaction sees
    supply     \* history: what genesis put into circulation

vars == <<hght, txs, ledger, actor, actions, view, supply>>

-----------------------------------------------------------------------------
(* The part of the state database these actions touch, with two history   *)
(* fields: fees burned, and what each builder has paid for each epoch.    *)

Bid == [price : Nat, builder : Builders]

LedgerState ==
    [balance : [Accounts -> (0..MaxUint) \cup {NoRecord}],
     bid     : [BidEpochs -> Bid \cup {NoRecord}],
     burned  : Nat,
     paid    : [BidEpochs -> [Builders -> Nat]]]

GetBalance(b, a) == IF b[a] = NoRecord THEN 0 ELSE b[a]

(* The builder of an epoch, which GetBuilder serves. *)
GetArcadiaBuilder(s, e) == IF s.bid[e] = NoRecord THEN NoRecord ELSE s.bid[e].builder

Total(b) == SumOf([a \in Accounts |-> GetBalance(b, a)])

MutantCanSub(b, a, v) == TRUE

(* The subtraction does not underflow. *)
CanSub(b, a, v) == v <= GetBalance(b, a)

(* SubBalance deletes a record instead of leaving a zero. *)
SubBalance(b, a, v) ==
    [b EXCEPT ![a] = IF GetBalance(b, a) = v THEN NoRecord
                     ELSE GetBalance(b, a) - v]

CanAdd(b, a, v) == GetBalance(b, a) + v <= MaxUint

(* AddBalance with create = true, as every caller passes it. *)
AddBalance(b, a, v) == [b EXCEPT ![a] = GetBalance(b, a) + v]

MutantPay(s, from, to, v) ==
    [s EXCEPT !.balance = [SubBalance(s.balance, from, v)
                           EXCEPT ![to] = GetBalance(s.balance, to) + v]]

(* SubBalance on one account, then AddBalance on another or the same one. *)
Pay(s, from, to, v) ==
    [s EXCEPT !.balance = AddBalance(SubBalance(s.balance, from, v), to, v)]

CanPay(s, from, to, v) ==
    /\ CanSub(s.balance, from, v)
    /\ CanAdd(SubBalance(s.balance, from, v), to, v)

-----------------------------------------------------------------------------
(* Genesis.Load: every allocation sets a balance, so the last one of an    *)
(* address counts; the running supply is added up with overflow checks.    *)

Allocation == [address : Accounts, balance : 0..MaxUint]

MutantLoadSucceeds(allocs) == TRUE

LoadSucceeds(allocs) ==
    SumOf([k \in DOMAIN allocs |-> allocs[k].balance]) <= MaxUint

Load(allocs) ==
    [a \in Accounts |->
        LET mine == {k \in DOMAIN allocs : allocs[k].address = a} IN
        IF mine = {} THEN NoRecord
        ELSE allocs[CHOOSE k \in mine : \A m \in mine : m <= k].balance]

(* Starts from the given allocation list; startup fails unless it loads. *)
InitFrom(allocs) ==
    /\ LoadSucceeds(allocs)
    /\ hght = 1
    /\ txs = 0
    /\ ledger = [balance |-> Load(allocs),
                 bid     |-> [e \in BidEpochs |-> NoRecord],
                 burned  |-> 0,
                 paid    |-> [e \in BidEpochs |-> [a \in Builders |-> 0]]]
    /\ actor = NoActor
    /\ actions = 0
    /\ view = ledger
    /\ supply = Total(ledger.balance)

Init ==
    \E n \in 0..MaxAllocs : \E allocs \in [1..n -> Allocation] : InitFrom(allocs)

-----------------------------------------------------------------------------
(* hypersdk's transaction, with StateManager.CanDeduct and Deduct: the fee *)
(* is taken from the signer first and stays taken if an action fails.      *)
BeginTx(a, fee) ==
    /\ actor = NoActor
    /\ txs < MaxTxs
    /\ CanSub(ledger.balance, a, fee)
    /\ actor' = a
    /\ txs' = txs + 1
    /\ ledger' = [ledger EXCEPT !.balance = SubBalance(ledger.balance, a, fee),
                                !.burned = @ + fee]
    /\ view' = ledger'
    /\ UNCHANGED <<hght, actions, supply>>

(* SequencerMsg.Execute: the message is data for a rollup, no state. *)
SequencerMsg ==
    /\ actor # NoActor
    /\ actions < MaxActions
    /\ actions' = actions + 1
    /\ UNCHANGED <<hght, txs, ledger, actor, view, supply>>

(* Transfer.Execute *)
Transfer(to, v) ==
    /\ actor # NoActor
    /\ actions < MaxActions
    /\ CanPay(view, actor, to, v)
    /\ view' = Pay(view, actor, to, v)
    /\ actions' = actions + 1
    /\ UNCHANGED <<hght, txs, ledger, actor, supply>>

MutantValidBidEpoch(e) == e <= Epoch(hght) + 1

(* A bid counts for the next epoch only. *)
ValidBidEpoch(e) == e = Epoch(hght) + 1

MutantChargeAndStore(e, v, builder) ==
    [Pay(view, actor, ArcadiaFund, v) EXCEPT
        !.bid[e] = [price |-> v, builder |-> builder]]

(* Auction.Execute after its checks: the builder pays the fund, and the    *)
(* bid replaces whatever was stored for the epoch.                         *)
ChargeAndStore(e, v, builder) ==
    [Pay(view, builder, ArcadiaFund, v) EXCEPT
        !.bid[e] = [price |-> v, builder |-> builder]]

(* History: by how much account a is poorer in t than in s, and t with     *)
(* what every builder is poorer by counted as paid for epoch e.            *)
Debit(s, t, a) ==
    IF GetBalance(t.balance, a) <= GetBalance(s.balance, a)
    THEN GetBalance(s.balance, a) - GetBalance(t.balance, a)
    ELSE 0

WithPaid(e, s, t) ==
    [t EXCEPT !.paid[e] = [a \in Builders |-> t.paid[e][a] + Debit(s, t, a)]]

isWhiteListed(a) == a \in Whitelisted

(* Auction.Execute: key is the address of the BLS key the action carries,  *)
(* signed tells whether its signature is one of that key over the bid.     *)
Auction(e, v, builder, key, signed) ==
    /\ actor # NoActor
    /\ actions < MaxActions
    /\ isWhiteListed(actor)
    /\ ValidBidEpoch(e)
    /\ signed
    /\ key = builder
    /\ CanPay(view, key, ArcadiaFund, v)
    /\ view' = WithPaid(e, view, ChargeAndStore(e, v, key))
    /\ actions' = actions + 1
    /\ UNCHANGED <<hght, txs, ledger, actor, supply>>

CommitTx ==
    /\ actor # NoActor
    /\ ledger' = view
    /\ actor' = NoActor
    /\ actions' = 0
    /\ UNCHANGED <<hght, txs, view, supply>>

(* An action failed; one that always does (a Transfer whose memo is too    *)
(* long, an Auction for a past epoch) can come after any other action.     *)
AbortTx ==
    /\ actor # NoActor
    /\ view' = ledger
    /\ actor' = NoActor
    /\ actions' = 0
    /\ UNCHANGED <<hght, txs, ledger, supply>>

(* The block is accepted and the next one begins. *)
NextBlock ==
    /\ actor = NoActor
    /\ hght < MaxHeight
    /\ hght' = hght + 1
    /\ txs' = 0
    /\ UNCHANGED <<ledger, actor, actions, view, supply>>

(* All blocks up to the bound are accepted; the model stops here. *)
Finished == actor = NoActor /\ hght = MaxHeight /\ UNCHANGED vars

Next ==
    \/ \E a \in Accounts, fee \in Fees : BeginTx(a, fee)
    \/ SequencerMsg
    \/ \E to \in Accounts, v \in Prices : Transfer(to, v)
    \/ \E e \in BidEpochs, v \in Prices, builder \in Accounts, key \in Builders,
          signed \in BOOLEAN : Auction(e, v, builder, key, signed)
    \/ CommitTx
    \/ AbortTx
    \/ NextBlock
    \/ Finished

Spec == Init /\ [][Next]_vars

-----------------------------------------------------------------------------
(* Properties *)

(* The type invariant; balances fit into a uint64. *)
TypeOK ==
    /\ hght \in Nat
    /\ txs \in Nat
    /\ ledger \in LedgerState
    /\ actor \in Accounts \cup {NoActor}
    /\ actions \in Nat
    /\ view \in LedgerState
    /\ supply \in Nat

(* No sequence of fees, transfers (to oneself included), bids and rolled   *)
(* back transactions creates or loses a coin: what genesis put into        *)
(* circulation is in the accounts or was burned as fees.                   *)
SupplyConserved ==
    \A s \in {ledger, view} : Total(s.balance) + s.burned = supply

(* The overflow error of AddBalance is unreachable, since genesis bounds   *)
(* the supply: whoever can send an amount, anybody can receive it.         *)
AddNeverOverflows ==
    \A from, to \in Accounts, v \in Prices :
        CanSub(view.balance, from, v) => CanPay(view, from, to, v)

(* The auctions of an epoch have taken at least the recorded price off the *)
(* balance of the builder GetBuilder serves, whoever submitted the bid,    *)
(* and failed transactions and replaced bids included.                     *)
RecordedBuilderPaid ==
    \A s \in {ledger, view}, e \in BidEpochs :
        LET builder == GetArcadiaBuilder(s, e)
        IN  builder # NoRecord => s.bid[e].price <= s.paid[e][builder]

(* Once an epoch has begun its builder, which GetBuilder serves, stays.    *)
BuilderFixedOnceEpochBegins ==
    [][\A e \in BidEpochs : e <= Epoch(hght) => ledger'.bid[e] = ledger.bid[e]]_vars
=============================================================================
