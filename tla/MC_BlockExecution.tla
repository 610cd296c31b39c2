------------------------- MODULE MC_BlockExecution -------------------------
(***************************************************************************)
(* Model-checking instance of BlockExecution: every block of three         *)
(* transactions from a menu that makes them meet at the balances of three  *)
(* accounts, the fund, two rollups and their list, one bid and one list of *)
(* exits.                                                                  *)
(***************************************************************************)
EXTENDS BlockExecution

CONSTANTS a, b, c, n, m

To(x, v) == [type |-> "transfer", to |-> x, value |-> v]
Bid(e) == [type |-> "auction", builder |-> b, epoch |-> e, price |-> 1]
Info(x, from, until) == [authority |-> x, start |-> from, exit |-> until]
Reg(op, ns, info) == [type |-> "register", op |-> op, ns |-> ns, info |-> info]
Exit(ns, new) == [type |-> "exit", ns |-> ns, epoch |-> 2, create |-> new]
Msg == [type |-> "msg"]
Tx(x, acts) == [actor |-> x, actions |-> acts]

Menu ==
    {Tx(a, <<To(b, 1)>>), Tx(a, <<To(a, 3)>>), Tx(b, <<To(a, 1)>>),
     Tx(a, <<To(b, 2), Bid(2)>>), Tx(a, <<Bid(1)>>), Tx(b, <<Msg, Bid(2)>>),
     Tx(a, <<Reg("create", n, Info(a, 4, 0))>>), Tx(c, <<Reg("create", n, Info(c, 3, 0))>>),
     Tx(a, <<Reg("update", n, Info(c, 1, 1))>>), Tx(a, <<Reg("exit", n, Info(a, 1, 3))>>),
     Tx(c, <<Reg("create", m, Info(c, 3, 0))>>),
     Tx(a, <<Exit(n, TRUE)>>), Tx(a, <<Exit(n, FALSE), To(b, 1)>>), Tx(c, <<Exit(m, TRUE)>>),
     Tx(c, <<To(b, 2)>>)}

MCBlocks == [1..3 -> Menu]

(* A state with these balances, where nothing or both rollups are known. *)
Holding(x, y, known) ==
    [k \in Keys |-> CASE k = BalanceKey(a) -> x
                      [] k = BalanceKey(b) -> y
                      [] k = BalanceKey(c) -> 3
                      [] k = RollupRegistryKey /\ known -> <<n, m>>
                      [] k = RollupInfoKey(n) /\ known -> Info(a, 2, 0)
                      [] k = RollupInfoKey(m) /\ known -> Info(c, 3, 4)
                      [] OTHER -> Absent]

MCStates == {Holding(4, Absent, FALSE), Holding(5, 2, TRUE)}
=============================================================================
