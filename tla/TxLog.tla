------------------------------- MODULE TxLog -------------------------------
(***************************************************************************)
(* What the index of transactions promises, whatever crashes and restarts  *)
(* the node goes through: a log of accepted blocks whose transactions      *)
(* become known one whole block at a time and stay known, and clients that *)
(* are answered once, with the result of a known transaction.              *)
(***************************************************************************)
EXTENDS Integers, Sequences

CONSTANTS
    Txs,       \* transaction identifiers
    Results,   \* results a transaction may have
    Clients,   \* who asks
    None       \* no result, no answer

VARIABLES
    chain,     \* the accepted blocks: the result of each transaction in them
    known,     \* the transactions that are found
    answer     \* what a client was told

vars == <<chain, known, answer>>

TxsOf(b) == {tx \in Txs : b[tx] # None}

Init ==
    /\ chain = << >>
    /\ known = {}
    /\ answer = [c \in Clients |-> None]

(* A block of new transactions is accepted. *)
Extend(b) ==
    /\ \A n \in 1..Len(chain) : TxsOf(chain[n]) \cap TxsOf(b) = {}
    /\ chain' = Append(chain, b)
    /\ UNCHANGED <<known, answer>>

(* All transactions of a block become known together. *)
Publish(n) ==
    /\ known' = known \cup TxsOf(chain[n])
    /\ UNCHANGED <<chain, answer>>

(* A client learns the result of a known transaction. *)
Tell(c, tx) ==
    /\ answer[c] = None
    /\ tx \in known
    /\ \E n \in 1..Len(chain) :
          /\ chain[n][tx] # None
          /\ answer' = [answer EXCEPT ![c] = [tx |-> tx, result |-> chain[n][tx]]]
    /\ UNCHANGED <<chain, known>>

Next ==
    \/ \E b \in [Txs -> Results \cup {None}] : Extend(b)
    \/ \E n \in 1..Len(chain) : Publish(n)
    \/ \E c \in Clients, tx \in Txs : Tell(c, tx)

Spec == Init /\ [][Next]_vars
=============================================================================
