--------------------------- MODULE BlockExecution ---------------------------
(***************************************************************************)
(* The transactions of a block run in parallel.                            *)
(*                                                                         *)
(* Every action declares in StateKeys the keys of the state it may touch   *)
(* and what it may do with each.  hypersdk starts a transaction as soon as *)
(* those before it that share a key with it are done, unless both only     *)
(* read it, and gives it a view of the state that refuses every access the *)
(* transaction did not declare.  So a block has the outcome its order      *)
(* says, on every node, only if the declarations cover what Execute does.  *)
(*                                                                         *)
(* The values are reduced to what flows between transactions: balances,    *)
(* the builder of an epoch, a rollup's record, and the lists of registered *)
(* rollups and of exits, whose order every node has to agree on.           *)
(***************************************************************************)
EXTENDS Integers, SequencesExt

CONSTANTS
    Addresses,    \* of accounts
    Fund,         \* ArcadiaFundAddress
    Namespaces,   \* of rollups
    Epochs,       \* epochs of bids and exits
    NextEpoch,    \* the epoch after that of the block
    Fee,          \* what a transaction pays
    Absent,       \* a key that is not in the state
    Blocks,       \* blocks: sequences of transactions
    States        \* states of the database before the block

VARIABLES
    block,     \* the transactions
    db,        \* hypersdk's TState: the state the transactions share
    busy,      \* the transactions under way
    run,       \* per transaction: how far it has run
    results,   \* per transaction: its result, or Absent
    serial     \* reference: the same block run one transaction at a time

vars == <<block, db, busy, run, results, serial>>

-----------------------------------------------------------------------------
(* Keys and permissions *)

(* A map with one entry, and one map laid over another. *)
Entry(k, v) == [x \in {k} |-> v]
Over(f, g) == [x \in DOMAIN f \cup DOMAIN g |-> IF x \in DOMAIN f THEN f[x] ELSE g[x]]

BalanceKey(a) == <<"balance", a>>
ArcadiaBidKey(e) == <<"bid", e>>
RollupInfoKey(ns) == <<"info", ns>>
RollupRegistryKey == <<"registry">>
EpochExitsKey(e) == <<"exits", e>>

Keys == {BalanceKey(a) : a \in Addresses \cup {Fund}} \cup {ArcadiaBidKey(e) : e \in Epochs}
        \cup {RollupInfoKey(ns) : ns \in Namespaces} \cup {RollupRegistryKey}
        \cup {EpochExitsKey(e) : e \in Epochs}

(* hypersdk: Write and Allocate include Read. *)
Read == {"read"}
Write == {"read", "write"}
Allocate == {"read", "allocate"}
All == Read \cup Write \cup Allocate

(* StateKeys of the actions.  Of a key named twice the later entry counts. *)
TransferKeys(actor, act) ==
    Over(Entry(BalanceKey(act.to), All), Entry(BalanceKey(actor), Read \cup Write))

MutantAuctionKeys(actor, act) ==
    Over(Entry(ArcadiaBidKey(act.epoch), Write \cup Allocate),
         Over(Entry(BalanceKey(Fund), Read \cup Write),
              Entry(BalanceKey(act.builder), Read \cup Write)))

AuctionKeys(actor, act) ==
    Over(Entry(ArcadiaBidKey(act.epoch), Write \cup Allocate),
         Over(Entry(BalanceKey(Fund), All),
              Entry(BalanceKey(act.builder), Read \cup Write)))

MutantRegistrationKeys(actor, act) ==
    Over(Entry(RollupRegistryKey, Read \cup Write), Entry(RollupInfoKey(act.ns), All))

RegistrationKeys(actor, act) ==
    Over(Entry(RollupRegistryKey, All), Entry(RollupInfoKey(act.ns), All))

EpochExitKeys(actor, act) ==
    Over(Entry(RollupRegistryKey, Read),
         Over(Entry(RollupInfoKey(act.ns), Read), Entry(EpochExitsKey(act.epoch), All)))

MsgKeys(actor, act) == << >>

StateKeys(actor, act) ==
    CASE act.type = "transfer" -> TransferKeys(actor, act)
      [] act.type = "auction" -> AuctionKeys(actor, act)
      [] act.type = "register" -> RegistrationKeys(actor, act)
      [] act.type = "exit" -> EpochExitKeys(actor, act)
      [] act.type = "msg" -> MsgKeys(actor, act)

SponsorStateKeys(actor) == Entry(BalanceKey(actor), Read \cup Write)

(* The scope of a transaction: all it declares, by key. *)
Scope(tx) ==
    LET declared == {SponsorStateKeys(tx.actor)}
                    \cup {StateKeys(tx.actor, tx.actions[i]) : i \in 1..Len(tx.actions)}
    IN  [k \in Keys |-> UNION {f[k] : f \in {g \in declared : k \in DOMAIN g}}]

-----------------------------------------------------------------------------
(* Execute of the actions: whether one succeeds on state d, the keys it     *)
(* reads, and the writes it makes one after the other; writing Absent       *)
(* removes a key.                                                           *)

Balance(d, a) == IF d[BalanceKey(a)] = Absent THEN 0 ELSE d[BalanceKey(a)]
ListOf(x) == IF x = Absent THEN << >> ELSE x
Listed(list, ns) == \E i \in 1..Len(list) : list[i] = ns

SubBalance(d, a, n) ==
    [key |-> BalanceKey(a), value |-> IF Balance(d, a) = n THEN Absent ELSE Balance(d, a) - n]

AddBalance(d, a, n) == [key |-> BalanceKey(a), value |-> Balance(d, a) + n]

(* SubBalance from one account and AddBalance to another, or the same. *)
Pay(d, from, to, n) ==
    LET sub == SubBalance(d, from, n)
    IN  <<sub, AddBalance([d EXCEPT ![sub.key] = sub.value], to, n)>>

Transfer(d, actor, act) ==
    [ok |-> act.value # 0 /\ Balance(d, actor) >= act.value,
     reads |-> {BalanceKey(actor), BalanceKey(act.to)},
     writes |-> Pay(d, actor, act.to, act.value)]

Auction(d, actor, act) ==
    [ok |-> act.epoch = NextEpoch /\ Balance(d, act.builder) >= act.price,
     reads |-> {BalanceKey(act.builder), BalanceKey(Fund)},
     writes |-> Append(Pay(d, act.builder, Fund, act.price),
                       [key |-> ArcadiaBidKey(act.epoch), value |-> act.builder])]

(* The epoch checks of the three opcodes, and what they store; two epochs   *)
(* of notice are one after the next.                                        *)
ValidEpochs(act, old, known) ==
    CASE act.op = "create" -> act.info.start >= NextEpoch + 1 /\ act.info.exit = 0
      [] act.op = "update" -> TRUE
      [] act.op = "exit" -> known /\ act.info.exit >= old.start /\ act.info.exit >= NextEpoch + 1

Stored(act, old, known) ==
    IF known /\ act.op # "create"
    THEN [authority |-> act.info.authority, start |-> old.start,
          exit |-> IF act.op = "exit" THEN act.info.exit ELSE old.exit]
    ELSE act.info

(* The first registration creates, every other needs the authority. *)
Registration(d, actor, act) ==
    LET registry == ListOf(d[RollupRegistryKey])
        known == Listed(registry, act.ns)
        old == d[RollupInfoKey(act.ns)]
    IN  [ok |-> /\ IF known THEN old.authority = actor ELSE act.op = "create"
                /\ ValidEpochs(act, old, known),
         reads |-> {RollupRegistryKey} \cup IF known THEN {RollupInfoKey(act.ns)} ELSE {},
         writes |-> <<[key |-> RollupInfoKey(act.ns), value |-> Stored(act, old, known)],
                      [key |-> RollupRegistryKey,
                       value |-> IF known THEN registry ELSE Append(registry, act.ns)]>>]

EpochExit(d, actor, act) ==
    LET k == EpochExitsKey(act.epoch)
        exits == ListOf(d[k])
    IN  [ok |-> /\ Listed(ListOf(d[RollupRegistryKey]), act.ns)
                /\ d[RollupInfoKey(act.ns)].authority = actor
                /\ act.create # Listed(exits, act.ns),
         reads |-> {RollupRegistryKey, RollupInfoKey(act.ns), k},
         writes |-> <<[key |-> k, value |-> IF act.create THEN Append(exits, act.ns)
                                            ELSE RemoveFirst(exits, act.ns)]>>]

SequencerMsg == [ok |-> TRUE, reads |-> {}, writes |-> << >>]

Execute(d, actor, act) ==
    CASE act.type = "transfer" -> Transfer(d, actor, act)
      [] act.type = "auction" -> Auction(d, actor, act)
      [] act.type = "register" -> Registration(d, actor, act)
      [] act.type = "exit" -> EpochExit(d, actor, act)
      [] act.type = "msg" -> SequencerMsg

(* StateManager.CanDeduct and Deduct. *)
Deduct(d, actor) ==
    [ok |-> Balance(d, actor) >= Fee, reads |-> {BalanceKey(actor)},
     writes |-> <<SubBalance(d, actor, Fee)>>]

(* What decodes as an action, and transactions of them. *)
Action ==
    [type : {"transfer"}, to : Addresses, value : Nat]
        \cup [type : {"auction"}, builder : Addresses, epoch : Epochs, price : Nat]
        \cup [type : {"register"}, op : {"create", "update", "exit"}, ns : Namespaces,
              info : [authority : Addresses, start : Nat, exit : Nat]]
        \cup [type : {"exit"}, ns : Namespaces, epoch : Epochs, create : BOOLEAN]
        \cup [type : {"msg"}]

Transaction == [actor : Addresses, actions : Seq(Action)]

ASSUME BlockAssumption ==
    /\ Blocks \subseteq Seq(Transaction)
    /\ \A d \in States : d = [k \in Keys |-> d[k]]
    /\ Fee \in Nat
    /\ Absent \notin {"success", "failed", "scope"}

-----------------------------------------------------------------------------
(* hypersdk's view of the state *)

(* What key k holds in d after the first n writes. *)
ValueAfter(d, writes, n, k) ==
    LET ws == {i \in 1..n : writes[i].key = k}
    IN  IF ws = {} THEN d[k] ELSE writes[Max(ws)].value

(* The accesses of an execution are within the scope: a key that is not     *)
(* there is created only with the permission to allocate it.                *)
InScope(scope, d, x) ==
    /\ \A k \in x.reads : "read" \in scope[k]
    /\ x.ok => \A i \in 1..Len(x.writes) :
          LET w == x.writes[i]
          IN  /\ "write" \in scope[w.key]
              /\ ValueAfter(d, x.writes, i - 1, w.key) = Absent /\ w.value # Absent
                    => "allocate" \in scope[w.key]

Result(scope, d, x) ==
    IF ~InScope(scope, d, x) THEN "scope" ELSE IF x.ok THEN "success" ELSE "failed"

(* A transaction under way: the next action, 0 being the fee; what it has   *)
(* written to its view, and had when the fee was paid; its result.          *)
Fresh == [next |-> 0, writes |-> << >>, paid |-> << >>, result |-> Absent]

(* What is written after execution x on view, with what was written before. *)
Written(view, before, x) ==
    [k \in DOMAIN before \cup {x.writes[i].key : i \in 1..Len(x.writes)} |->
        ValueAfter(view, x.writes, Len(x.writes), k)]

(* chain.Transaction.Execute: one step, the fee or an action.  A failure    *)
(* undoes all but the fee.                                                  *)
Step(t, d, scope, r) ==
    LET view == Over(r.writes, d)
        x == IF r.next = 0 THEN Deduct(view, t.actor)
             ELSE Execute(view, t.actor, t.actions[r.next])
        res == Result(scope, view, x)
        writes == Written(view, r.writes, x)
    IN  IF res # "success"
        THEN [next |-> r.next, writes |-> r.paid, paid |-> r.paid, result |-> res]
        ELSE [next |-> r.next + 1, writes |-> writes,
              paid |-> IF r.next = 0 THEN writes ELSE r.paid,
              result |-> IF r.next = Len(t.actions) THEN "success" ELSE Absent]

-----------------------------------------------------------------------------
(* hypersdk's executor *)

(* Two transactions share a key that not both only read. *)
Conflict(t, u) ==
    LET p == Scope(t)
        q == Scope(u)
    IN  \E k \in Keys : p[k] # {} /\ q[k] # {} /\ (p[k] # Read \/ q[k] # Read)

Done(i) == results[i] # Absent

(* Those before it that conflict with transaction i are done. *)
Ready(i) == \A j \in 1..(i - 1) : Conflict(block[j], block[i]) => Done(j)

Init ==
    /\ block \in Blocks
    /\ db \in States
    /\ busy = {}
    /\ run = [i \in 1..Len(block) |-> Fresh]
    /\ results = [i \in 1..Len(block) |-> Absent]
    /\ serial = [states |-> <<db>>, paths |-> <<<<Fresh>>>>]

(* The reference runs first: each transaction, step by step, on the state   *)
(* the one before it left, with access to everything.                       *)
Everything == [k \in Keys |-> All]
SerialDone == Len(serial.states) = Len(block) + 1
SerialEnd(i) == serial.paths[i][Len(serial.paths[i])]

RunSerially ==
    /\ ~SerialDone
    /\ LET i == Len(serial.states)
           d == serial.states[i]
           r == SerialEnd(i)
       IN  serial' =
              IF r.result = Absent
              THEN [states |-> serial.states,
                    paths |-> [serial.paths EXCEPT
                                  ![i] = Append(@, Step(block[i], d, Everything, r))]]
              ELSE [states |-> Append(serial.states, Over(r.writes, d)),
                    paths |-> Append(serial.paths, <<Fresh>>)]
    /\ UNCHANGED <<block, db, busy, run, results>>

(* A worker takes transaction i ... *)
Begin(i) ==
    /\ SerialDone
    /\ i \notin busy /\ ~Done(i)
    /\ Ready(i)
    /\ busy' = busy \cup {i}
    /\ UNCHANGED <<block, db, run, results, serial>>

(* ... runs it step by step on a view of the shared state ... *)
Continue(i) ==
    /\ i \in busy
    /\ run[i].result = Absent
    /\ run' = [run EXCEPT ![i] = Step(block[i], db, Scope(block[i]), run[i])]
    /\ UNCHANGED <<block, db, busy, results, serial>>

(* ... and commits what it has written. *)
Commit(i) ==
    /\ i \in busy
    /\ run[i].result # Absent
    /\ db' = Over(run[i].writes, db)
    /\ results' = [results EXCEPT ![i] = run[i].result]
    /\ busy' = busy \ {i}
    /\ UNCHANGED <<block, run, serial>>

Next ==
    \/ RunSerially
    \/ \E i \in 1..Len(block) : Begin(i) \/ Continue(i) \/ Commit(i)

Spec == Init /\ [][Next]_vars

-----------------------------------------------------------------------------
(* Properties *)

Finished == \A i \in 1..Len(block) : Done(i)

(* Whatever the order in which the transactions run, the block ends in the *)
(* state, and with the results, of running them one by one: the actions'   *)
(* StateKeys declare every key through which transactions meet.            *)
SerialOutcome ==
    Finished =>
        /\ db = serial.states[Len(block) + 1]
        /\ results = [i \in 1..Len(block) |-> SerialEnd(i).result]

(* No action touches a key it did not declare in StateKeys, or creates a   *)
(* key it may not allocate: accounts emptied and created anew, the fund's  *)
(* first income and a first bid included.                                  *)
NeverOutOfScope == \A i \in 1..Len(block) : results[i] # "scope"
=============================================================================
