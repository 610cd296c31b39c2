----------------------------- MODULE Submission -----------------------------
(***************************************************************************)
(* How a transaction is priced, submitted and waited for: SubmitMsgTx of   *)
(* the RPC server, GenerateAndSubmitTx of the multi client and sendAndWait *)
(* of the command line.                                                    *)
(*                                                                         *)
(* The maximum fee of a transaction is an estimate from the unit prices    *)
(* and the prices of the namespaces, which are read one after the other    *)
(* while blocks change them, plus a fifth.  A block includes a transaction *)
(* only if the prices of that moment stay below the maximum fee and the    *)
(* transaction has not expired.                                            *)
(***************************************************************************)
EXTENDS Integers, Sequences, FiniteSets, SequencesExt, Sums

CONSTANTS
    Calls,          \* submissions
    Payloads,       \* what is submitted: the data or the actions of a call
    Namespaces,     \* fee markets the transactions use
    Units,          \* units of a transaction (one dimension)
    NsUnits,        \* its units per namespace (feeMarketUnits)
    Prices,         \* prices: of a unit and of each namespace
    PriorityFees,   \* priority fees of GenerateAndSubmitTx
    Modulus,        \* 2^64: a uint64 is reduced modulo it
    Second,         \* ticks of a second
    Window,         \* the validity window in ticks
    LastCall,       \* bound: no transaction is submitted after this time
    NoTx            \* no transaction

Kinds == {"SubmitMsgTx", "GenerateAndSubmitTx", "sendAndWait"}

(* Transactions; only those of SubmitMsgTx have a sender of their own. *)
Txs == [payload : Payloads, sender : Calls \cup {NoTx}, priority : Nat, maxFee : Nat,
        timestamp : Nat]

ASSUME SubmissionAssumption ==
    /\ IsFiniteSet(Namespaces)
    /\ Units \in Nat /\ NsUnits \in [Namespaces -> Nat]
    /\ Prices \subseteq [unit : Nat, ns : [Namespaces -> Nat]]
    /\ PriorityFees \subseteq Nat
    /\ Modulus \in Nat \ {0} /\ Second \in Nat \ {0}
    /\ Window \in Nat /\ LastCall \in Nat
    /\ NoTx \notin Txs

VARIABLES
    time,       \* the time of the last block
    price,      \* the prices the next block charges: [unit, ns]
    pool,       \* submitted transactions no block has
    included,   \* transactions in blocks, with the fee they paid
    call,       \* per call: how far it is and what it has read
    listening,  \* transactions the node is to report on to the command line
    results     \* reports that wait in its connection: [tx, err]

vars == <<time, price, pool, included, call, listening, results>>
connection == <<listening, results>>

-----------------------------------------------------------------------------
(* The estimate *)

(* fees.MulSum, which reports an overflow. *)
MulSum(unit) == unit * Units
Overflows(unit) == MulSum(unit) >= Modulus

MutantAddNamespaces(fee, nsPrices, nss) ==
    (fee + SumOf([i \in 1..Len(nss) |-> nsPrices[i] * NsUnits[nss[Len(nss) + 1 - i]]])) % Modulus

(* The prices of the namespaces come as a list in the order nss, which the *)
(* iteration of a map decided; each is multiplied and added unchecked, so  *)
(* that what the loop leaves is the sum modulo 2^64.                       *)
AddNamespaces(fee, nsPrices, nss) ==
    (fee + SumOf([i \in 1..Len(nss) |-> nsPrices[i] * NsUnits[nss[i]]])) % Modulus

MutantAddMargin(fee) == (fee + fee \div 4) % Modulus

(* "Add 20% to the max fee". *)
AddMargin(fee) == (fee + fee \div 5) % Modulus

MaxFee(unit, nsPrices, nss, priority) ==
    AddMargin((AddNamespaces(MulSum(unit), nsPrices, nss) + priority) % Modulus)

(* utils.UnixRMilli: rounded down to a second. *)
UnixRMilli(now, add) == ((now + add) \div Second) * Second

-----------------------------------------------------------------------------
(* What the chain charges *)

NsFee(ns) == SumOf([n \in Namespaces |-> ns[n] * NsUnits[n]])

FeeAt(p, priority) == p.unit * Units + NsFee(p.ns) + priority

Init ==
    /\ time = 0
    /\ price \in Prices
    /\ pool = {}
    /\ included = {}
    /\ call \in [Calls -> {[kind |-> k, state |-> "new", payload |-> p, priority |-> f,
                            unit |-> 0, ns |-> [n \in Namespaces |-> 0],
                            maxFee |-> 0, tx |-> NoTx] :
                              k \in Kinds, p \in Payloads, f \in PriorityFees \cup {0}}]
    /\ \A c \in Calls : call[c].kind = "SubmitMsgTx" => call[c].priority = 0
    /\ listening = {}
    /\ results = << >>

Under(c) == call[c].state \in {"units", "estimated", "waiting"}

(* The call reads the unit prices.  "sendAndWait may not be used            *)
(* concurrently": the command line makes one call after the other.          *)
ReadUnitPrices(c) ==
    /\ call[c].state = "new"
    /\ call[c].kind = "sendAndWait" =>
          \A d \in Calls : call[d].kind = "sendAndWait" => ~Under(d)
    /\ call' = [call EXCEPT ![c].unit = price.unit,
                            ![c].state = IF Overflows(price.unit) THEN "error" ELSE "units"]
    /\ UNCHANGED <<time, price, pool, included, connection>>

(* It reads the prices of the namespaces, in some order. *)
ReadNameSpacesPrice(c, nss) ==
    /\ call[c].state = "units"
    /\ call' = [call EXCEPT
                   ![c].ns = price.ns,
                   ![c].maxFee = MaxFee(call[c].unit, [i \in 1..Len(nss) |-> price.ns[nss[i]]],
                                        nss, call[c].priority),
                   ![c].state = "estimated"]
    /\ UNCHANGED <<time, price, pool, included, connection>>

(* SubmitMsgTx makes up a new sender for every call. *)
Sender(c) == IF call[c].kind = "SubmitMsgTx" THEN c ELSE NoTx

(* The transaction of a call; two that agree in everything are the same. *)
NewTx(c) ==
    [payload |-> call[c].payload, sender |-> Sender(c), priority |-> call[c].priority,
     maxFee |-> call[c].maxFee, timestamp |-> UnixRMilli(time, Window)]

(* The node refuses a transaction that cannot pay the current prices.  The *)
(* calls over HTTP get the error; sendAndWait, which registers it with the *)
(* node over a connection of its own (RegisterTx), does not, and waits.    *)
Submit(c) ==
    /\ call[c].state = "estimated"
    /\ time <= LastCall
    /\ LET tx == NewTx(c)
           refused == FeeAt(price, tx.priority) > tx.maxFee
           waits == call[c].kind = "sendAndWait"
       IN  /\ pool' = IF refused \/ \E b \in included : b.tx = tx THEN pool ELSE pool \cup {tx}
           /\ call' = [call EXCEPT
                          ![c].tx = IF refused /\ ~waits THEN NoTx ELSE tx,
                          ![c].state = IF waits THEN "waiting"
                                       ELSE IF refused THEN "error" ELSE "returned"]
           /\ listening' = IF waits THEN listening \cup {tx} ELSE listening
    /\ UNCHANGED <<time, price, included, results>>

(* A request, the connection or the context of a call fails.  Of a          *)
(* transaction it has registered the node reports nevertheless.             *)
CallFails(c) ==
    /\ call[c].state = "new" \/ Under(c)
    /\ call' = [call EXCEPT ![c].state = "error"]
    /\ UNCHANGED <<time, price, pool, included, connection>>

(* A block includes transactions that can pay and have not expired; those  *)
(* that cannot pay may be dropped.  It may move the prices.                *)
Payable(tx) == FeeAt(price, tx.priority) <= tx.maxFee /\ tx.timestamp >= time + 1

NewBlock(txs, dropped, p) ==
    /\ \A tx \in txs : Payable(tx)
    /\ \A tx \in dropped : FeeAt(price, tx.priority) > tx.maxFee
    /\ time < LastCall + Window + 1
    /\ time' = time + 1
    /\ price' = p
    /\ included' = included \cup {[tx |-> tx, fee |-> FeeAt(price, tx.priority)] : tx \in txs}
    /\ pool' = {tx \in pool \ (txs \cup dropped) : tx.timestamp >= time + 1}
    /\ UNCHANGED <<call, connection>>

BlockStep ==
    \E txs \in SUBSET pool, dropped \in SUBSET pool, p \in Prices : NewBlock(txs, dropped, p)

Accepted(tx) == \E b \in included : b.tx = tx

(* The node reports the result of a transaction once, or that it expired;   *)
(* that also when it was registered after its block.                        *)
Report(tx, err) ==
    /\ tx \in listening
    /\ IF err THEN tx.timestamp < time ELSE Accepted(tx)
    /\ listening' = listening \ {tx}
    /\ results' = Append(results, [tx |-> tx, err |-> err])
    /\ UNCHANGED <<time, price, pool, included, call>>

ReportStep == \E tx \in listening, err \in BOOLEAN : Report(tx, err)

MutantHeard(tx, report) == IF report.err THEN "error" ELSE "done"

MutantHeardError(tx, report) ==
    IF ~report.err /\ report.tx = tx THEN "done" ELSE "waiting"

(* How a call that waits for tx goes on after a report: the error of any    *)
(* transaction ends it, the result of another one is skipped.               *)
Heard(tx, report) ==
    IF report.err THEN "error" ELSE IF report.tx = tx THEN "done" ELSE "waiting"

(* The loop of sendAndWait: it takes the next report. *)
ListenTx(c) ==
    /\ call[c].state = "waiting"
    /\ results # << >>
    /\ call' = [call EXCEPT ![c].state = Heard(call[c].tx, Head(results))]
    /\ results' = Tail(results)
    /\ UNCHANGED <<time, price, pool, included, listening>>

Next ==
    \/ \E c \in Calls :
          \/ ReadUnitPrices(c)
          \/ \E nss \in SetToSeqs(Namespaces) : ReadNameSpacesPrice(c, nss)
          \/ Submit(c)
          \/ CallFails(c)
          \/ ListenTx(c)
    \/ BlockStep
    \/ ReportStep

Spec == Init /\ [][Next]_vars

(* Blocks go on, the node reports, and a call that can go on does. *)
FairSpec ==
    /\ Spec
    /\ WF_vars(BlockStep)
    /\ WF_vars(ReportStep)
    /\ \A c \in Calls : WF_vars(ListenTx(c))

-----------------------------------------------------------------------------
(* Properties *)

(* The fee at the prices a call has read, and with a fifth more. *)
Estimate(c) == FeeAt([unit |-> call[c].unit, ns |-> call[c].ns], call[c].priority)
WithMargin(fee) == fee + fee \div 5

Estimated == {c \in Calls : call[c].tx # NoTx \/ call[c].state = "estimated"}

(* The transaction of a call can be paid for as long as no price is more   *)
(* than a fifth above what the call has read, in whatever order the prices *)
(* came and whatever blocks lay between the reads; only an estimate beyond *)
(* 64 bits is lost (SubmitMsgTx, GenerateAndSubmitTx).                     *)
FeeCovered ==
    \A c \in Estimated :
        /\ WithMargin(Estimate(c)) < Modulus
        /\ 5 * price.unit <= 6 * call[c].unit
        /\ \A n \in Namespaces : 5 * price.ns[n] <= 6 * call[c].ns[n]
        => FeeAt(price, call[c].priority) <= call[c].maxFee

(* Nobody pays more than a fifth above the prices read, even when the      *)
(* estimate has wrapped around.                                            *)
NeverPaysMore ==
    \A c \in Calls, b \in included :
        b.tx = call[c].tx => b.fee <= WithMargin(Estimate(c))

(* sendAndWait returns a result only for its own transaction, and only one  *)
(* in a block: a report on the transaction of an earlier call, which had    *)
(* given up, is not taken for it, though it comes first on the connection.  *)
ResultIsOwn == \A c \in Calls : call[c].state = "done" => Accepted(call[c].tx)

(* A call of sendAndWait ends, with a result or an error, however many     *)
(* reports on other transactions it has to skip: the one it has registered *)
(* is included or expires.                                                 *)
CallEnds == \A c \in Calls : call[c].state = "waiting" ~> call[c].state \in {"done", "error"}
=============================================================================
