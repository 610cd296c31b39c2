---------------------------- MODULE LedgerProofs ----------------------------
(***************************************************************************)
(* Proofs about balances and the auction, for any number of accounts,      *)
(* allocations, transactions and blocks.                                   *)
(***************************************************************************)
EXTENDS Ledger, FiniteSetTheorems, TLAPS

-----------------------------------------------------------------------------
(* Sums.  The coins of a function whose values have a bound form a finite  *)
(* set, and changing one value changes only the coins of its argument.     *)

(* The coins of f are the pairs of an argument and a number up to its value. *)
LEMMA CoinsAre ==
    ASSUME NEW S, NEW f \in [S -> Nat]
    PROVE  /\ Coins(f) \subseteq S \X Nat
           /\ \A x \in S, i \in Nat : <<x, i>> \in Coins(f) <=> i \in 1..f[x]
BY DEF Coins

LEMMA CoinsFinite ==
    ASSUME NEW S, IsFiniteSet(S), NEW M \in Nat, NEW f \in [S -> 0..M]
    PROVE  IsFiniteSet(Coins(f)) /\ SumOf(f) \in Nat
<1>1. f \in [S -> Nat]
  OBVIOUS
<1>2. Coins(f) \subseteq S \X (1..M)
  BY DEF Coins
<1>3. IsFiniteSet(1..M)
  BY FS_Interval
<1>4. IsFiniteSet(S \X (1..M))
  BY <1>3, FS_Product
<1>5. IsFiniteSet(Coins(f))
  BY <1>2, <1>4, FS_Subset
<1> QED
  BY <1>5, FS_CardinalityType DEF SumOf

(* The coins of one argument, counted. *)
LEMMA CoinsOfOne ==
    ASSUME NEW x, NEW n \in Nat
    PROVE  IsFiniteSet({x} \X (1..n)) /\ Cardinality({x} \X (1..n)) = n
<1>1. IsFiniteSet({x}) /\ Cardinality({x}) = 1
  BY FS_Singleton
<1>2. IsFiniteSet(1..n) /\ Cardinality(1..n) = n
  BY FS_Interval
<1> DEFINE A == {x}
           B == 1..n
<1> HIDE DEF A, B
<1>3. IsFiniteSet(A) /\ IsFiniteSet(B) /\ Cardinality(A) = 1 /\ Cardinality(B) = n
  BY <1>1, <1>2 DEF A, B
<1>4. IsFiniteSet(A \X B) /\ Cardinality(A \X B) = Cardinality(A) * Cardinality(B)
  BY <1>3, FS_Product, Zenon
<1>5. IsFiniteSet(A \X B) /\ Cardinality(A \X B) = n
  BY <1>3, <1>4
<1> QED
  BY <1>5 DEF A, B

(* The coins of one argument and those of the others. *)
LEMMA SumSplit ==
    ASSUME NEW S, IsFiniteSet(S), NEW M \in Nat, NEW f \in [S -> 0..M],
           NEW x \in S
    PROVE  LET rest == {c \in Coins(f) : c[1] # x}
           IN  /\ Cardinality(rest) \in Nat
               /\ SumOf(f) = Cardinality(rest) + f[x]
<1> DEFINE rest == {c \in Coins(f) : c[1] # x}
           own == {x} \X (1..f[x])
<1>1. Coins(f) = rest \cup own
  BY DEF Coins
<1>2. rest \cap own = {}
  OBVIOUS
<1>3. IsFiniteSet(rest) /\ Cardinality(rest) \in Nat
  BY CoinsFinite, FS_Subset, FS_CardinalityType
<1>4. IsFiniteSet(own) /\ Cardinality(own) = f[x]
  <2>1. f[x] \in Nat
    OBVIOUS
  <2> QED
    BY <2>1, CoinsOfOne
<1>5. Cardinality(rest \cap own) = 0
  BY <1>2, FS_EmptySet
<1> HIDE DEF rest, own
<1>6. Cardinality(rest \cup own) =
          Cardinality(rest) + Cardinality(own) - Cardinality(rest \cap own)
  BY <1>3, <1>4, FS_Union, Zenon
<1>7. SumOf(f) = Cardinality(rest) + f[x]
  BY <1>1, <1>3, <1>4, <1>5, <1>6 DEF SumOf
<1> QED
  BY <1>3, <1>7 DEF rest

(* Changing one value changes the sum by the difference. *)
LEMMA SumUpdate ==
    ASSUME NEW S, IsFiniteSet(S), NEW M \in Nat, NEW f \in [S -> 0..M],
           NEW x \in S, NEW g \in [S -> 0..M],
           \A y \in S \ {x} : g[y] = f[y]
    PROVE  SumOf(g) = SumOf(f) - f[x] + g[x]
<1> DEFINE restf == {c \in Coins(f) : c[1] # x}
           restg == {c \in Coins(g) : c[1] # x}
<1>1. restf = restg
  BY DEF Coins
<1>2. Cardinality(restf) \in Nat /\ SumOf(f) = Cardinality(restf) + f[x]
  BY SumSplit
<1>3. SumOf(g) = Cardinality(restg) + g[x]
  BY SumSplit
<1> HIDE DEF restf, restg
<1>4. f[x] \in Nat /\ g[x] \in Nat
  OBVIOUS
<1> QED
  BY <1>1, <1>2, <1>3, <1>4

(* Two values are together at most the sum. *)
LEMMA SumBound ==
    ASSUME NEW S, IsFiniteSet(S), NEW M \in Nat, NEW f \in [S -> 0..M],
           NEW x \in S, NEW y \in S, x # y
    PROVE  f[x] + f[y] <= SumOf(f)
<1> DEFINE g == [f EXCEPT ![x] = 0]
<1>1. /\ g \in [S -> 0..M] /\ g[x] = 0
      /\ \A z \in S \ {x} : g[z] = f[z]
  OBVIOUS
<1> HIDE DEF g
<1>2. SumOf(g) = SumOf(f) - f[x] + g[x]
  BY <1>1, SumUpdate
<1>3. g[y] <= SumOf(g)
  <2> DEFINE rest == {c \in Coins(g) : c[1] # y}
  <2>1. Cardinality(rest) \in Nat /\ SumOf(g) = Cardinality(rest) + g[y]
    BY <1>1, SumSplit
  <2>2. g[y] \in Nat
    BY <1>1
  <2> HIDE DEF rest
  <2> QED
    BY <2>1, <2>2
<1>4. SumOf(f) \in Nat
  BY CoinsFinite
<1>5. f[x] \in Nat /\ f[y] \in Nat
  OBVIOUS
<1> QED
  BY <1>1, <1>2, <1>3, <1>4, <1>5

-----------------------------------------------------------------------------
(* Genesis.  The balances that Load sets are at most what was allocated:   *)
(* each coin of an account is one of the last allocation to the account.   *)

(* A set of naturals has a least element. *)
LEMMA LeastNatural ==
    ASSUME NEW T \in SUBSET Nat, T # {}
    PROVE  \E x \in T : \A y \in T : x <= y
<1> DEFINE R == OpToRel(<, Nat)
<1>1. IsWellFoundedOn(R, Nat)
  BY NatLessThanWellFounded, Zenon
<1> HIDE DEF R
<1>2. PICK x \in T : \A y \in T : ~(<<y, x>> \in R)
  BY <1>1, WFMin
<1>3. \A y \in T : ~(y < x)
  BY <1>2 DEF R, OpToRel
<1> QED
  BY <1>3

(* A nonempty set of positions in a list has a last one. *)
LEMMA LastPosition ==
    ASSUME NEW n \in Nat, NEW T \in SUBSET (1..n), T # {}
    PROVE  \E k \in T : \A m \in T : m <= k
<1> DEFINE D == {d \in Nat : n - d \in T}
<1>1. PICK k \in T : TRUE
  OBVIOUS
<1>2. n - k \in D
  BY <1>1
<1>3. PICK d \in D : \A c \in D : d <= c
  BY <1>2, LeastNatural
<1>4. \A m \in T : n - m \in D
  OBVIOUS
<1> HIDE DEF D
<1>5. n - d \in T /\ d \in Nat
  BY <1>3 DEF D
<1>6. \A m \in T : d <= n - m
  BY <1>3, <1>4
<1> QED
  BY <1>5, <1>6

(* The allocation that counts for an account. *)
LastOf(allocs, a) ==
    CHOOSE k \in {k \in DOMAIN allocs : allocs[k].address = a} :
        \A m \in {l \in DOMAIN allocs : allocs[l].address = a} : m <= k

(* The balances an account has, as numbers. *)
Amounts(b) == [a \in Accounts |-> GetBalance(b, a)]

Balances == [Accounts -> (0..MaxUint) \cup {NoRecord}]

LEMMA AmountsType ==
    ASSUME NEW b \in Balances
    PROVE  /\ Amounts(b) \in [Accounts -> 0..MaxUint]
           /\ \A a \in Accounts : Amounts(b)[a] = GetBalance(b, a)
           /\ Total(b) = SumOf(Amounts(b))
           /\ Total(b) \in Nat
<1>1. Amounts(b) \in [Accounts -> 0..MaxUint]
  BY LedgerAssumption DEF Amounts, GetBalance, Balances
<1>2. Total(b) = SumOf(Amounts(b))
  BY DEF Total, Amounts
<1>3. SumOf(Amounts(b)) \in Nat
  BY <1>1, CoinsFinite, LedgerAssumption
<1> QED
  BY <1>1, <1>2, <1>3 DEF Amounts

LEMMA LoadType ==
    ASSUME NEW n \in Nat, NEW allocs \in [1..n -> Allocation]
    PROVE  /\ Load(allocs) \in Balances
           /\ \A a \in Accounts :
                 Load(allocs)[a] # NoRecord =>
                     /\ LastOf(allocs, a) \in 1..n
                     /\ allocs[LastOf(allocs, a)].address = a
                     /\ Load(allocs)[a] = allocs[LastOf(allocs, a)].balance
<1> DEFINE mine(a) == {k \in DOMAIN allocs : allocs[k].address = a}
<1>1. ASSUME NEW a \in Accounts, mine(a) # {}
      PROVE  LastOf(allocs, a) \in mine(a)
  <2>1. mine(a) \in SUBSET (1..n)
    OBVIOUS
  <2> HIDE DEF mine
  <2>2. \E k \in mine(a) : \A m \in mine(a) : m <= k
    BY <1>1, <2>1, LastPosition
  <2>3. LastOf(allocs, a) = CHOOSE k \in mine(a) : \A m \in mine(a) : m <= k
    BY DEF LastOf, mine
  <2> QED
    BY <2>2, <2>3
<1>2. \A a \in Accounts :
        Load(allocs)[a] = IF mine(a) = {} THEN NoRecord
                          ELSE allocs[LastOf(allocs, a)].balance
  BY DEF Load, LastOf
<1>3. Load(allocs) = [a \in Accounts |-> Load(allocs)[a]]
  BY DEF Load
<1>4. \A a \in Accounts : mine(a) # {} =>
        /\ LastOf(allocs, a) \in 1..n
        /\ allocs[LastOf(allocs, a)].address = a
        /\ allocs[LastOf(allocs, a)].balance \in 0..MaxUint
  BY <1>1 DEF Allocation
<1> HIDE DEF mine
<1>5. \A a \in Accounts : Load(allocs)[a] \in (0..MaxUint) \cup {NoRecord}
  BY <1>2, <1>4
<1>6. Load(allocs) \in Balances
  BY <1>3, <1>5 DEF Balances
<1> QED
  BY <1>2, <1>4, <1>6

LEMMA LoadWithinSupply ==
    ASSUME NEW n \in Nat, NEW allocs \in [1..n -> Allocation],
           LoadSucceeds(allocs)
    PROVE  Total(Load(allocs)) <= MaxUint
<1> DEFINE f == Amounts(Load(allocs))
           g == [k \in DOMAIN allocs |-> allocs[k].balance]
           h == [c \in Coins(f) |-> <<LastOf(allocs, c[1]), c[2]>>]
<1>1. /\ f \in [Accounts -> 0..MaxUint] /\ Total(Load(allocs)) = SumOf(f)
      /\ \A a \in Accounts : f[a] = GetBalance(Load(allocs), a)
  BY LoadType, AmountsType
<1>2. g \in [1..n -> 0..MaxUint] /\ \A k \in 1..n : g[k] = allocs[k].balance
  BY DEF Allocation
<1>3. SumOf(g) <= MaxUint
  BY DEF LoadSucceeds
<1> HIDE DEF f, g
<1>4. ASSUME NEW c \in Coins(f)
      PROVE  /\ c[1] \in Accounts /\ c[2] \in Nat /\ c = <<c[1], c[2]>>
             /\ LastOf(allocs, c[1]) \in 1..n
             /\ allocs[LastOf(allocs, c[1])].address = c[1]
             /\ <<LastOf(allocs, c[1]), c[2]>> \in Coins(g)
  <2>1. f \in [Accounts -> Nat] /\ g \in [1..n -> Nat]
    BY <1>1, <1>2
  <2>2. c[1] \in Accounts /\ c[2] \in Nat /\ c = <<c[1], c[2]>>
    BY <2>1, CoinsAre
  <2>3. c[2] \in 1..f[c[1]]
    BY <2>1, <2>2, CoinsAre
  <2>4. Load(allocs)[c[1]] # NoRecord /\ f[c[1]] = Load(allocs)[c[1]]
    BY <1>1, <2>2, <2>3 DEF GetBalance
  <2>5. /\ LastOf(allocs, c[1]) \in 1..n
        /\ allocs[LastOf(allocs, c[1])].address = c[1]
        /\ Load(allocs)[c[1]] = allocs[LastOf(allocs, c[1])].balance
    BY <2>2, <2>4, LoadType
  <2>6. c[2] \in 1..g[LastOf(allocs, c[1])]
    BY <1>2, <2>3, <2>4, <2>5
  <2>7. <<LastOf(allocs, c[1]), c[2]>> \in Coins(g)
    BY <2>1, <2>2, <2>5, <2>6, CoinsAre
  <2> QED
    BY <2>2, <2>5, <2>7
<1>5. h \in [Coins(f) -> Coins(g)]
  BY <1>4
<1>6. ASSUME NEW c \in Coins(f), NEW d \in Coins(f), h[c] = h[d]
      PROVE  c = d
  <2>1. LastOf(allocs, c[1]) = LastOf(allocs, d[1]) /\ c[2] = d[2]
    BY <1>6
  <2> QED
    BY <1>4, <2>1
<1> HIDE DEF h
<1>7. h \in Injection(Coins(f), Coins(g))
  BY <1>5, <1>6 DEF Injection, IsInjective
<1>8. IsFiniteSet(1..n)
  BY FS_Interval
<1>9. IsFiniteSet(Coins(g)) /\ SumOf(g) \in Nat
  BY <1>2, <1>8, CoinsFinite, LedgerAssumption
<1>10. SumOf(f) <= SumOf(g)
  BY <1>7, <1>9, FS_Injection DEF SumOf
<1>11. SumOf(f) \in Nat
  BY <1>1, CoinsFinite, LedgerAssumption
<1> QED
  BY <1>1, <1>3, <1>9, <1>10, <1>11, LedgerAssumption

-----------------------------------------------------------------------------
(* Balances.  Deducting and crediting change one balance, and the total by *)
(* what was deducted or credited.                                          *)

LEMMA SubChanges ==
    ASSUME NEW b \in Balances, NEW a \in Accounts, NEW v \in Nat, CanSub(b, a, v)
    PROVE  /\ SubBalance(b, a, v) \in Balances
           /\ \A x \in Accounts :
                 GetBalance(SubBalance(b, a, v), x) =
                     IF x = a THEN GetBalance(b, a) - v ELSE GetBalance(b, x)
           /\ Total(SubBalance(b, a, v)) = Total(b) - v
<1> DEFINE s == SubBalance(b, a, v)
<1>1. \A x \in Accounts : GetBalance(b, x) \in 0..MaxUint
  BY LedgerAssumption DEF GetBalance, Balances
<1>2. s \in Balances
  BY <1>1, LedgerAssumption DEF SubBalance, CanSub, Balances
<1>3. \A x \in Accounts :
          GetBalance(s, x) = IF x = a THEN GetBalance(b, a) - v ELSE GetBalance(b, x)
  BY <1>1, LedgerAssumption DEF SubBalance, CanSub, Balances, GetBalance
<1> HIDE DEF s
<1>4. \A y \in Accounts \ {a} : Amounts(s)[y] = Amounts(b)[y]
  BY <1>2, <1>3, AmountsType
<1>5. Amounts(s) \in [Accounts -> 0..MaxUint] /\ Amounts(b) \in [Accounts -> 0..MaxUint]
  BY <1>2, AmountsType
<1>6. SumOf(Amounts(s)) = SumOf(Amounts(b)) - Amounts(b)[a] + Amounts(s)[a]
  BY <1>4, <1>5, SumUpdate, LedgerAssumption
<1>7. /\ Amounts(b)[a] = GetBalance(b, a) /\ Amounts(s)[a] = GetBalance(b, a) - v
      /\ Total(s) = SumOf(Amounts(s)) /\ Total(b) = SumOf(Amounts(b))
      /\ Total(s) \in Nat /\ Total(b) \in Nat
  BY <1>2, <1>3, AmountsType
<1>8. Total(s) = Total(b) - v
  BY <1>1, <1>6, <1>7
<1> QED
  BY <1>2, <1>3, <1>8 DEF s

LEMMA AddChanges ==
    ASSUME NEW b \in Balances, NEW a \in Accounts, NEW v \in Nat, CanAdd(b, a, v)
    PROVE  /\ AddBalance(b, a, v) \in Balances
           /\ \A x \in Accounts :
                 GetBalance(AddBalance(b, a, v), x) =
                     IF x = a THEN GetBalance(b, a) + v ELSE GetBalance(b, x)
           /\ Total(AddBalance(b, a, v)) = Total(b) + v
<1> DEFINE s == AddBalance(b, a, v)
<1>1. \A x \in Accounts : GetBalance(b, x) \in 0..MaxUint
  BY LedgerAssumption DEF GetBalance, Balances
<1>2. s \in Balances
  BY <1>1, LedgerAssumption DEF AddBalance, CanAdd, Balances
<1>3. \A x \in Accounts :
          GetBalance(s, x) = IF x = a THEN GetBalance(b, a) + v ELSE GetBalance(b, x)
  BY <1>1, LedgerAssumption DEF AddBalance, CanAdd, Balances, GetBalance
<1> HIDE DEF s
<1>4. \A y \in Accounts \ {a} : Amounts(s)[y] = Amounts(b)[y]
  BY <1>2, <1>3, AmountsType
<1>5. Amounts(s) \in [Accounts -> 0..MaxUint] /\ Amounts(b) \in [Accounts -> 0..MaxUint]
  BY <1>2, AmountsType
<1>6. SumOf(Amounts(s)) = SumOf(Amounts(b)) - Amounts(b)[a] + Amounts(s)[a]
  BY <1>4, <1>5, SumUpdate, LedgerAssumption
<1>7. /\ Amounts(b)[a] = GetBalance(b, a) /\ Amounts(s)[a] = GetBalance(b, a) + v
      /\ Total(s) = SumOf(Amounts(s)) /\ Total(b) = SumOf(Amounts(b))
      /\ Total(s) \in Nat /\ Total(b) \in Nat
  BY <1>2, <1>3, AmountsType
<1>8. Total(s) = Total(b) + v
  BY <1>1, <1>6, <1>7
<1> QED
  BY <1>2, <1>3, <1>8 DEF s

(* A payment moves coins, to the payer itself too, and touches nothing else. *)
LEMMA PayConserves ==
    ASSUME NEW s \in LedgerState, NEW from \in Accounts, NEW to \in Accounts,
           NEW v \in Nat, CanPay(s, from, to, v)
    PROVE  /\ Pay(s, from, to, v) \in LedgerState
           /\ Total(Pay(s, from, to, v).balance) = Total(s.balance)
           /\ Pay(s, from, to, v).burned = s.burned
           /\ Pay(s, from, to, v).bid = s.bid
           /\ Pay(s, from, to, v).paid = s.paid
           /\ from # to => GetBalance(Pay(s, from, to, v).balance, from)
                              = GetBalance(s.balance, from) - v
<1> DEFINE b == SubBalance(s.balance, from, v)
           c == AddBalance(b, to, v)
<1>1. s.balance \in Balances
  BY DEF LedgerState, Balances
<1>2. /\ b \in Balances /\ Total(b) = Total(s.balance) - v
      /\ GetBalance(b, from) = GetBalance(s.balance, from) - v
  BY <1>1, SubChanges DEF CanPay
<1>3. CanAdd(b, to, v)
  BY DEF CanPay
<1> HIDE DEF b
<1>4. /\ c \in Balances /\ Total(c) = Total(b) + v
      /\ from # to => GetBalance(c, from) = GetBalance(b, from)
  BY <1>2, <1>3, AddChanges
<1>5. Total(c) = Total(s.balance)
  BY <1>1, <1>2, <1>4, AmountsType
<1>6. Pay(s, from, to, v) = [s EXCEPT !.balance = c]
  BY DEF Pay, b
<1> HIDE DEF c
<1>7. Pay(s, from, to, v).balance = c
  BY <1>6 DEF LedgerState
<1>8. from # to => GetBalance(c, from) = GetBalance(s.balance, from) - v
  BY <1>2, <1>4
<1> QED
  BY <1>4, <1>5, <1>6, <1>7, <1>8 DEF LedgerState, Balances

(* Within a supply that fits into a uint64, a credit after a debit fits.   *)
LEMMA AddFits ==
    ASSUME NEW s \in LedgerState, NEW from \in Accounts, NEW to \in Accounts,
           NEW v \in Nat, CanSub(s.balance, from, v),
           Total(s.balance) <= MaxUint
    PROVE  CanPay(s, from, to, v)
<1> DEFINE b == s.balance
<1>1. b \in Balances
  BY DEF LedgerState, Balances
<1> HIDE DEF b
<1>2. /\ GetBalance(b, from) \in 0..MaxUint /\ GetBalance(b, to) \in 0..MaxUint
      /\ v <= GetBalance(b, from)
  BY <1>1, LedgerAssumption DEF GetBalance, Balances, b, CanSub
<1>3. GetBalance(SubBalance(b, from, v), to) =
          IF to = from THEN GetBalance(b, from) - v ELSE GetBalance(b, to)
  BY <1>1, SubChanges DEF b
<1>4. from # to => GetBalance(b, from) + GetBalance(b, to) <= Total(b)
  BY <1>1, AmountsType, SumBound, LedgerAssumption
<1>5. Total(b) \in Nat /\ Total(b) <= MaxUint
  BY <1>1, AmountsType DEF b
<1>6. CanAdd(SubBalance(b, from, v), to, v)
  BY <1>2, <1>3, <1>4, <1>5, LedgerAssumption DEF CanAdd
<1> QED
  BY <1>6 DEF CanPay, b

-----------------------------------------------------------------------------
(* The inductive invariant *)

(* Between two transactions there is one state. *)
ViewIsLedger == actor = NoActor => view = ledger

(* The supply fits into a uint64: the overflow check of genesis. *)
SupplyFits == supply <= MaxUint

(* The executing transaction leaves the bids of begun epochs alone. *)
BegunBidsKept ==
    \A e \in BidEpochs : e <= Epoch(hght) => view.bid[e] = ledger.bid[e]

(* A recorded builder has paid the price recorded with it. *)
BidsBacked ==
    \A s \in {ledger, view}, e \in BidEpochs :
        s.bid[e] # NoRecord => s.bid[e].price <= s.paid[e][s.bid[e].builder]

LedgerInv ==
    /\ TypeOK
    /\ ViewIsLedger
    /\ SupplyFits
    /\ SupplyConserved
    /\ BidsBacked
    /\ BegunBidsKept

(* What the invariant asks of one state. *)
Backed(s) ==
    \A e \in BidEpochs :
        s.bid[e] # NoRecord => s.bid[e].price <= s.paid[e][s.bid[e].builder]

Sound(s) ==
    /\ s \in LedgerState
    /\ Total(s.balance) + s.burned = supply
    /\ Backed(s)

LEMMA SoundStates ==
    TypeOK /\ SupplyConserved /\ BidsBacked <=>
        /\ Sound(ledger) /\ Sound(view)
        /\ hght \in Nat /\ txs \in Nat /\ actions \in Nat /\ supply \in Nat
        /\ actor \in Accounts \cup {NoActor}
BY DEF TypeOK, SupplyConserved, BidsBacked, Sound, Backed

LEMMA LedgerInvInit == Init => LedgerInv
<1> SUFFICES ASSUME NEW n \in 0..MaxAllocs, NEW allocs \in [1..n -> Allocation],
                    InitFrom(allocs)
             PROVE  LedgerInv
  BY DEF Init
<1>1. n \in Nat
  BY LedgerAssumption
<1>2. Load(allocs) \in Balances
  BY <1>1, LoadType
<1>3. Total(Load(allocs)) <= MaxUint /\ Total(Load(allocs)) \in Nat
  BY <1>1, <1>2, LoadWithinSupply, AmountsType DEF InitFrom
<1>4. ledger \in LedgerState /\ ledger.balance = Load(allocs)
  BY <1>2, LedgerAssumption DEF InitFrom, LedgerState, Balances
<1>5. Backed(ledger)
  BY DEF InitFrom, Backed
<1>6. supply = Total(Load(allocs)) /\ ledger.burned = 0 /\ view = ledger
  BY <1>4 DEF InitFrom
<1>7. Sound(ledger) /\ Sound(view)
  BY <1>3, <1>4, <1>5, <1>6 DEF Sound
<1>8. hght \in Nat /\ txs \in Nat /\ actions \in Nat /\ actor = NoActor
  BY DEF InitFrom
<1>9. TypeOK /\ SupplyConserved /\ BidsBacked
  BY <1>3, <1>6, <1>7, <1>8, SoundStates
<1> QED
  BY <1>3, <1>6, <1>9 DEF LedgerInv, ViewIsLedger, SupplyFits, BegunBidsKept

(* A payment of the executing transaction keeps its state sound. *)
LEMMA PaySound ==
    ASSUME NEW s, Sound(s), NEW from \in Accounts, NEW to \in Accounts,
           NEW v \in Nat, CanPay(s, from, to, v)
    PROVE  Sound(Pay(s, from, to, v)) /\ Pay(s, from, to, v).bid = s.bid
<1> s \in LedgerState
  BY DEF Sound
<1> QED
  BY PayConserves DEF Sound, Backed

(* So does a bid: what it records as the price has left the balance of the *)
(* builder it records, since the fund is no builder.                       *)
LEMMA BidSound ==
    ASSUME Sound(view), NEW e \in BidEpochs, NEW v \in Nat,
           NEW builder \in Builders, CanPay(view, builder, ArcadiaFund, v)
    PROVE  LET r == WithPaid(e, view, ChargeAndStore(e, v, builder))
           IN  Sound(r) /\ \A x \in BidEpochs \ {e} : r.bid[x] = view.bid[x]
<1> DEFINE p == Pay(view, builder, ArcadiaFund, v)
           q == ChargeAndStore(e, v, builder)
           r == WithPaid(e, view, q)
           bids == [p.bid EXCEPT ![e] = [price |-> v, builder |-> builder]]
           sums == [a \in Builders |-> p.paid[e][a] + Debit(view, p, a)]
<1>1. /\ builder \in Accounts /\ ArcadiaFund \in Accounts /\ builder # ArcadiaFund
      /\ view \in LedgerState
  BY LedgerAssumption DEF Sound
<1>2. /\ Sound(p) /\ p.bid = view.bid
      /\ GetBalance(p.balance, builder) = GetBalance(view.balance, builder) - v
  BY <1>1, PaySound, PayConserves
<1> HIDE DEF p
<1>3. p \in LedgerState
  BY <1>2 DEF Sound
<1>4. q = [balance |-> p.balance, bid |-> bids, burned |-> p.burned, paid |-> p.paid]
  <2>1. q = [p EXCEPT !.bid[e] = [price |-> v, builder |-> builder]]
    BY DEF ChargeAndStore, p
  <2> HIDE DEF q
  <2> QED
    BY <1>3, <2>1 DEF LedgerState
<1>5. \A a \in Builders : Debit(view, p, a) \in Nat /\ p.paid[e][a] \in Nat
  <2>1. \A a \in Builders : /\ GetBalance(view.balance, a) \in Nat
                            /\ GetBalance(p.balance, a) \in Nat
    BY <1>1, <1>3, LedgerAssumption DEF LedgerState, GetBalance
  <2> QED
    BY <1>3, <2>1 DEF Debit, LedgerState
<1>6. Debit(view, p, builder) = v
  <2>1. GetBalance(view.balance, builder) \in Nat /\ v <= GetBalance(view.balance, builder)
    BY <1>1, LedgerAssumption DEF LedgerState, GetBalance, CanPay, CanSub
  <2> QED
    BY <1>2, <2>1 DEF Debit
<1>7. sums \in [Builders -> Nat] /\ sums[builder] = p.paid[e][builder] + v
  BY <1>5, <1>6
<1>8. r = [balance |-> p.balance, bid |-> bids, burned |-> p.burned,
           paid |-> [p.paid EXCEPT ![e] = sums]]
  BY <1>4 DEF WithPaid, Debit
<1> HIDE DEF q, r, sums
<1>9. bids \in [BidEpochs -> Bid \cup {NoRecord}]
  BY <1>3 DEF LedgerState, Bid
<1>10. [p.paid EXCEPT ![e] = sums] \in [BidEpochs -> [Builders -> Nat]]
  BY <1>3, <1>7 DEF LedgerState
<1>11. r \in LedgerState /\ r.balance = p.balance /\ r.burned = p.burned
  BY <1>3, <1>8, <1>9, <1>10 DEF LedgerState
<1>12. /\ r.bid[e] = [price |-> v, builder |-> builder]
       /\ r.paid[e][builder] = p.paid[e][builder] + v
       /\ p.paid[e][builder] \in Nat
       /\ \A x \in BidEpochs \ {e} : r.bid[x] = p.bid[x] /\ r.paid[x] = p.paid[x]
  BY <1>3, <1>5, <1>7, <1>8 DEF LedgerState
<1>13. Backed(r)
  BY <1>2, <1>12 DEF Backed, Sound
<1>14. Sound(r)
  BY <1>2, <1>11, <1>13 DEF Sound
<1> QED
  BY <1>2, <1>12, <1>14 DEF r, q

LEMMA LedgerInvNext == LedgerInv /\ [Next]_vars => LedgerInv'
<1> SUFFICES ASSUME LedgerInv, [Next]_vars
             PROVE  LedgerInv'
  OBVIOUS
<1>0. /\ Sound(ledger) /\ Sound(view)
      /\ hght \in Nat /\ txs \in Nat /\ actions \in Nat /\ supply \in Nat
      /\ actor \in Accounts \cup {NoActor}
      /\ actor # NoActor => actor \in Accounts
  BY SoundStates DEF LedgerInv
<1>s. ASSUME Sound(ledger)', Sound(view)', supply' = supply,
             hght' \in Nat, txs' \in Nat, actions' \in Nat,
             actor' \in Accounts \cup {NoActor},
             ViewIsLedger', BegunBidsKept'
      PROVE  LedgerInv'
  <2>1. (TypeOK /\ SupplyConserved /\ BidsBacked)'
    BY <1>0, <1>s DEF TypeOK, SupplyConserved, BidsBacked, Sound, Backed
  <2> QED
    BY <1>s, <2>1 DEF LedgerInv, SupplyFits
<1>1. ASSUME NEW a \in Accounts, NEW fee \in Fees, BeginTx(a, fee)
      PROVE  LedgerInv'
  <2>1. fee \in Nat /\ ledger.balance \in Balances /\ ledger \in LedgerState
    BY <1>0, LedgerAssumption DEF Sound, LedgerState, Balances
  <2> DEFINE b == SubBalance(ledger.balance, a, fee)
  <2>2. b \in Balances /\ Total(b) = Total(ledger.balance) - fee
    BY <1>1, <2>1, SubChanges DEF BeginTx
  <2>3. ledger' = [ledger EXCEPT !.balance = b, !.burned = @ + fee]
    BY <1>1 DEF BeginTx
  <2> HIDE DEF b
  <2>4. /\ ledger' \in LedgerState /\ ledger'.balance = b
        /\ ledger'.burned = ledger.burned + fee /\ ledger.burned \in Nat
        /\ ledger'.bid = ledger.bid /\ ledger'.paid = ledger.paid
    <3>1. ledger' = [balance |-> b, bid |-> ledger.bid,
                     burned |-> ledger.burned + fee, paid |-> ledger.paid]
      BY <2>1, <2>3 DEF LedgerState
    <3>2. ledger.burned \in Nat /\ ledger.burned + fee \in Nat
      BY <2>1 DEF LedgerState
    <3>3. ledger.bid \in [BidEpochs -> Bid \cup {NoRecord}]
          /\ ledger.paid \in [BidEpochs -> [Builders -> Nat]]
      BY <2>1 DEF LedgerState
    <3> QED
      BY <2>2, <3>1, <3>2, <3>3 DEF LedgerState, Balances
  <2>5. Total(ledger'.balance) + ledger'.burned = supply
    BY <1>0, <2>1, <2>2, <2>4, AmountsType DEF Sound
  <2>6. supply' = supply /\ view' = ledger'
    BY <1>1 DEF BeginTx
  <2>7. Sound(ledger)'
    BY <1>0, <2>4, <2>5, <2>6 DEF Sound, Backed
  <2>8. Sound(view)'
    BY <2>6, <2>7 DEF Sound, Backed
  <2> QED
    BY <1>0, <1>1, <1>s, <2>6, <2>7, <2>8 DEF BeginTx, ViewIsLedger, BegunBidsKept
<1>2. CASE SequencerMsg
  BY <1>0, <1>2, <1>s DEF SequencerMsg, LedgerInv, ViewIsLedger, BegunBidsKept, Sound, Backed
<1>3. ASSUME NEW to \in Accounts, NEW v \in Prices, Transfer(to, v)
      PROVE  LedgerInv'
  <2>1. v \in Nat
    BY LedgerAssumption
  <2>2. Sound(Pay(view, actor, to, v)) /\ Pay(view, actor, to, v).bid = view.bid
    BY <1>0, <1>3, <2>1, PaySound DEF Transfer
  <2>3. Sound(view)' /\ view'.bid = view.bid
    BY <1>3, <2>2 DEF Transfer, Sound, Backed
  <2>4. Sound(ledger)' /\ ledger' = ledger
    BY <1>0, <1>3 DEF Transfer, Sound, Backed
  <2> QED
    BY <1>0, <1>3, <1>s, <2>3, <2>4
    DEF Transfer, LedgerInv, ViewIsLedger, BegunBidsKept
<1>4. ASSUME NEW e \in BidEpochs, NEW v \in Prices, NEW builder \in Accounts,
             NEW key \in Builders, NEW signed \in BOOLEAN,
             Auction(e, v, builder, key, signed)
      PROVE  LedgerInv'
  <2>1. v \in Nat
    BY LedgerAssumption
  <2> DEFINE new == WithPaid(e, view, ChargeAndStore(e, v, key))
  <2>2. Sound(new) /\ \A x \in BidEpochs \ {e} : new.bid[x] = view.bid[x]
    BY <1>0, <1>4, <2>1, BidSound DEF Auction
  <2> HIDE DEF new
  <2>3. /\ view' = new /\ supply' = supply
        /\ ledger' = ledger /\ hght' = hght /\ actor' = actor /\ actor # NoActor
        /\ txs' = txs /\ actions' = actions + 1
    BY <1>4 DEF Auction, new
  <2>4. Sound(view)'
    BY <2>2, <2>3 DEF Sound, Backed
  <2>5. Sound(ledger)'
    BY <1>0, <2>3 DEF Sound, Backed
  <2>6. e = Epoch(hght) + 1 /\ Epoch(hght) \in Nat
    BY <1>0, <1>4, EpochLengthAssumption DEF Auction, ValidBidEpoch, Epoch
  <2>7. \A x \in BidEpochs : x <= Epoch(hght) => x # e
    BY <2>6 DEF BidEpochs
  <2>8. BegunBidsKept'
    BY <2>2, <2>3, <2>7 DEF BegunBidsKept, LedgerInv, Epoch, BidEpochs
  <2> QED
    BY <1>0, <1>s, <2>3, <2>4, <2>5, <2>8 DEF ViewIsLedger
<1>5. CASE CommitTx
  BY <1>0, <1>5, <1>s DEF CommitTx, LedgerInv, ViewIsLedger, BegunBidsKept, Sound, Backed
<1>6. CASE AbortTx
  BY <1>0, <1>6, <1>s DEF AbortTx, LedgerInv, ViewIsLedger, BegunBidsKept, Sound, Backed
<1>7. CASE NextBlock
  BY <1>0, <1>7, <1>s DEF NextBlock, LedgerInv, ViewIsLedger, BegunBidsKept, Sound, Backed
<1>8. CASE UNCHANGED vars
  BY <1>0, <1>8, <1>s DEF vars, LedgerInv, ViewIsLedger, BegunBidsKept, Sound, Backed
<1> QED
  BY <1>1, <1>2, <1>3, <1>4, <1>5, <1>6, <1>7, <1>8 DEF Next, Finished

LEMMA LedgerInvAlways == Spec => []LedgerInv
BY LedgerInvInit, LedgerInvNext, PTL DEF Spec

-----------------------------------------------------------------------------
(* Theorems *)

(* Every state of the ledger is well typed: no balance leaves the range of *)
(* a uint64, whatever is deducted, transferred or bid.                     *)
THEOREM LedgerTypeCorrect == Spec => []TypeOK
BY LedgerInvAlways, PTL DEF LedgerInv

(* SubBalance and AddBalance, in any order of fees, transfers, bids and    *)
(* rolled back transactions, neither create nor lose a coin.               *)
THEOREM SupplyAlwaysConserved == Spec => []SupplyConserved
BY LedgerInvAlways, PTL DEF LedgerInv

(* The overflow error of AddBalance is unreachable for every genesis that  *)
(* Genesis.Load accepts.                                                   *)
THEOREM AddBalanceNeverOverflows == Spec => []AddNeverOverflows
<1>1. LedgerInv => AddNeverOverflows
  <2> SUFFICES ASSUME LedgerInv, NEW from \in Accounts, NEW to \in Accounts,
                      NEW v \in Prices, CanSub(view.balance, from, v)
               PROVE  CanPay(view, from, to, v)
    BY DEF AddNeverOverflows
  <2>1. v \in Nat
    BY LedgerAssumption
  <2>2. Sound(view) /\ view \in LedgerState /\ view.burned \in Nat
    BY SoundStates DEF LedgerInv, Sound, LedgerState
  <2>3. view.balance \in Balances
    BY <2>2 DEF LedgerState, Balances
  <2>4. Total(view.balance) \in Nat
    BY <2>3, AmountsType
  <2>5. supply <= MaxUint /\ supply = Total(view.balance) + view.burned
    BY <2>2 DEF LedgerInv, SupplyFits, Sound
  <2>6. Total(view.balance) <= MaxUint
    BY <2>2, <2>4, <2>5, LedgerAssumption
  <2> QED
    BY <2>1, <2>2, <2>6, AddFits
<1> QED
  BY <1>1, LedgerInvAlways, PTL

(* Auction.Execute takes the price it records off the balance of the       *)
(* builder it records, whoever signed the transaction.                     *)
THEOREM RecordedBuilderHasPaid == Spec => []RecordedBuilderPaid
<1>1. BidsBacked => RecordedBuilderPaid
  BY DEF BidsBacked, RecordedBuilderPaid, GetArcadiaBuilder
<1> QED
  BY <1>1, LedgerInvAlways, PTL DEF LedgerInv

(* No transaction changes the builder of an epoch that has begun.          *)
THEOREM BegunBuilderFixed == Spec => BuilderFixedOnceEpochBegins
<1>1. LedgerInv /\ [Next]_vars =>
        [\A e \in BidEpochs : e <= Epoch(hght) => ledger'.bid[e] = ledger.bid[e]]_vars
  <2> SUFFICES ASSUME LedgerInv, Next, NEW e \in BidEpochs, e <= Epoch(hght)
               PROVE  ledger'.bid[e] = ledger.bid[e]
    OBVIOUS
  <2>1. ledger \in LedgerState
    BY DEF LedgerInv, TypeOK
  <2>2. ASSUME NEW a \in Accounts, NEW fee \in Fees, BeginTx(a, fee)
        PROVE  ledger'.bid[e] = ledger.bid[e]
    BY <2>1, <2>2 DEF BeginTx, LedgerState
  <2>3. CASE CommitTx
    BY <2>3 DEF CommitTx, LedgerInv, BegunBidsKept
  <2>4. CASE ledger' = ledger
    BY <2>4
  <2> QED
    BY <2>2, <2>3, <2>4
    DEF Next, SequencerMsg, Transfer, Auction, AbortTx, NextBlock, Finished, vars
<1> QED
  BY <1>1, LedgerInvAlways, PTL DEF Spec, BuilderFixedOnceEpochBegins
=============================================================================
