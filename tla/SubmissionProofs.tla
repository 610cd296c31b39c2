-------------------------- MODULE SubmissionProofs --------------------------
(***************************************************************************)
(* Proofs about the fees of submitted transactions, for any number of      *)
(* calls, namespaces and blocks and any prices.                            *)
(***************************************************************************)
EXTENDS Submission, FiniteSetTheorems, TLAPS

-----------------------------------------------------------------------------
(* Sums *)

(* The coins of f are the pairs of an argument and a number up to its value. *)
LEMMA CoinsAre ==
    ASSUME NEW S, NEW f \in [S -> Nat]
    PROVE  /\ Coins(f) \subseteq S \X Nat
           /\ \A x \in S, i \in Nat : <<x, i>> \in Coins(f) <=> i \in 1..f[x]
BY DEF Coins

(* A function that is one to one and onto. *)
LEMMA IsBijection ==
    ASSUME NEW S, NEW T, NEW f \in [S -> T],
           \A x, y \in S : f[x] = f[y] => x = y,
           \A t \in T : \E x \in S : f[x] = t
    PROVE  ExistsBijection(S, T)
BY Zenon DEF ExistsBijection, Bijection, Injection, IsInjective, Surjection

(* A function on a finite set has finitely many coins. *)
LEMMA CoinsFinite ==
    ASSUME NEW S, IsFiniteSet(S), NEW f \in [S -> Nat]
    PROVE  IsFiniteSet(Coins(f)) /\ SumOf(f) \in Nat
<1> DEFINE g == [x \in S |-> {x} \X (1..f[x])]
           T == {{x} \X (1..f[x]) : x \in S}
<1>1. g \in Surjection(S, T)
  BY Zenon DEF Surjection
<1>2. IsFiniteSet(T)
  BY <1>1, FS_Surjection
<1>3. ASSUME NEW t \in T
      PROVE  IsFiniteSet(t)
  <2>1. PICK x \in S : t = {x} \X (1..f[x])
    BY <1>3
  <2>2. IsFiniteSet({x})
    BY FS_Singleton
  <2>3. IsFiniteSet(1..f[x])
    <3>1. f[x] \in Int
      OBVIOUS
    <3> QED
      BY <3>1, FS_Interval
  <2> QED
    BY <2>1, <2>2, <2>3, FS_Product
<1>4. IsFiniteSet(UNION T)
  BY <1>2, <1>3, FS_UNION
<1>5. Coins(f) = UNION T
  BY DEF Coins
<1> QED
  BY <1>4, <1>5, FS_CardinalityType DEF SumOf

(* A sum grows with its terms. *)
LEMMA SumMonotone ==
    ASSUME NEW S, IsFiniteSet(S), NEW f \in [S -> Nat], NEW g \in [S -> Nat],
           \A x \in S : f[x] <= g[x]
    PROVE  SumOf(f) <= SumOf(g)
<1>1. IsFiniteSet(Coins(g))
  BY CoinsFinite
<1>2. Coins(f) \subseteq Coins(g)
  <2>1. ASSUME NEW c \in Coins(f)
        PROVE  c \in Coins(g)
    <3>1. PICK x \in S, i \in Nat : c = <<x, i>> /\ i \in 1..f[x]
      BY <2>1, CoinsAre
    <3>2. i \in 1..g[x]
      BY <3>1
    <3> QED
      BY <3>1, <3>2, CoinsAre
  <2> QED
    BY <2>1
<1> QED
  BY <1>1, <1>2, FS_Subset DEF SumOf

(* The sum of two functions: the second one's coins are put on top. *)
LEMMA SumOfSums ==
    ASSUME NEW S, IsFiniteSet(S), NEW f \in [S -> Nat], NEW g \in [S -> Nat]
    PROVE  SumOf([x \in S |-> f[x] + g[x]]) = SumOf(f) + SumOf(g)
<1> DEFINE s == [x \in S |-> f[x] + g[x]]
           top == {c \in Coins(s) : c \notin Coins(f)}
           lift == [c \in Coins(g) |-> <<c[1], f[c[1]] + c[2]>>]
<1>1. s \in [S -> Nat] /\ \A x \in S : s[x] = f[x] + g[x]
  OBVIOUS
<1> HIDE DEF s
<1>2. /\ IsFiniteSet(Coins(f)) /\ IsFiniteSet(Coins(g)) /\ IsFiniteSet(Coins(s))
      /\ SumOf(f) \in Nat /\ SumOf(g) \in Nat
  BY <1>1, CoinsFinite
<1>3. ASSUME NEW c \in Coins(g)
      PROVE  /\ c[1] \in S /\ c[2] \in Nat /\ c[2] \in 1..g[c[1]] /\ c = <<c[1], c[2]>>
             /\ <<c[1], f[c[1]] + c[2]>> \in top
  <2>1. PICK x \in S, i \in Nat : c = <<x, i>> /\ i \in 1..g[x]
    BY CoinsAre
  <2>2. f[x] + i \in Nat /\ f[x] + i \in 1..s[x] /\ f[x] + i \notin 1..f[x]
    BY <1>1, <2>1
  <2>3. <<x, f[x] + i>> \in Coins(s) /\ <<x, f[x] + i>> \notin Coins(f)
    BY <1>1, <2>2, CoinsAre
  <2> QED
    BY <2>1, <2>3
<1>4. lift \in [Coins(g) -> top]
  BY <1>3
<1>5. ASSUME NEW c \in Coins(g), NEW d \in Coins(g), lift[c] = lift[d]
      PROVE  c = d
  <2>1. c[1] = d[1] /\ f[c[1]] + c[2] = f[d[1]] + d[2]
    BY <1>5
  <2>2. c[2] = d[2]
    <3>1. c[1] \in S /\ c[2] \in Nat /\ d[2] \in Nat
      BY <1>3
    <3>2. f[c[1]] \in Nat /\ f[c[1]] + c[2] = f[c[1]] + d[2]
      BY <2>1, <3>1
    <3> QED
      BY <3>1, <3>2
  <2>3. c = <<c[1], c[2]>> /\ d = <<d[1], d[2]>>
    BY <1>3
  <2> QED
    BY <2>1, <2>2, <2>3
<1>6. ASSUME NEW t \in top
      PROVE  \E c \in Coins(g) : lift[c] = t
  <2>1. PICK x \in S, i \in Nat : t = <<x, i>> /\ i \in 1..s[x]
    BY <1>1, CoinsAre
  <2>2. i \notin 1..f[x]
    BY <2>1, CoinsAre
  <2>3. i - f[x] \in Nat /\ i - f[x] \in 1..g[x] /\ f[x] + (i - f[x]) = i
    BY <1>1, <2>1, <2>2
  <2>4. <<x, i - f[x]>> \in Coins(g)
    BY <2>3, CoinsAre
  <2> QED
    BY <2>1, <2>3, <2>4
<1> HIDE DEF lift, top
<1>7. ExistsBijection(Coins(g), top)
  BY <1>4, <1>5, <1>6, IsBijection
<1> USE DEF top
<1>8. IsFiniteSet(top) /\ Cardinality(top) = SumOf(g)
  BY <1>2, <1>7, FS_Bijection DEF SumOf
<1>9. Coins(f) \subseteq Coins(s)
  <2>1. ASSUME NEW c \in Coins(f)
        PROVE  c \in Coins(s)
    <3>1. PICK x \in S, i \in Nat : c = <<x, i>> /\ i \in 1..f[x]
      BY <2>1, CoinsAre
    <3>2. i \in 1..s[x]
      BY <1>1, <3>1
    <3> QED
      BY <1>1, <3>1, <3>2, CoinsAre
  <2> QED
    BY <2>1
<1>10. Coins(s) = Coins(f) \cup top /\ Coins(f) \cap top = {}
  BY <1>9
<1>11. SumOf(s) = SumOf(f) + SumOf(g)
  BY <1>2, <1>8, <1>10, FS_Union, FS_EmptySet DEF SumOf
<1> QED
  BY <1>11 DEF s

(* The terms of a sum may be taken in any order: what is added up along an  *)
(* enumeration of a finite set is the sum over the set.                     *)
LEMMA SumInAnyOrder ==
    ASSUME NEW S, IsFiniteSet(S), NEW f \in [S -> Nat], NEW e \in SetToSeqs(S)
    PROVE  /\ Len(e) = Cardinality(S)
           /\ \A i \in 1..Len(e) : e[i] \in S
           /\ SumOf([i \in 1..Len(e) |-> f[e[i]]]) = SumOf(f)
<1> DEFINE n == Cardinality(S)
           D == 1..n
           g == [i \in D |-> f[e[i]]]
           move == [c \in Coins(g) |-> <<e[c[1]], c[2]>>]
<1>1. n \in Nat
  BY FS_CardinalityType
<1>2. /\ e \in [D -> S]
      /\ \A i, j \in D : i # j => e[i] # e[j]
  BY DEF SetToSeqs
<1>3. Len(e) = n
  BY <1>1, <1>2
<1> HIDE DEF n
<1>4. IsFiniteSet(D) /\ Cardinality(D) = Cardinality(S)
  BY <1>1, FS_Interval DEF n
<1>5. e \in Injection(D, S)
  BY <1>2 DEF Injection, IsInjective
<1>6. e \in Surjection(D, S)
  BY <1>4, <1>5, FS_Injection
<1>7. \A x \in S : \E i \in D : e[i] = x
  BY <1>6 DEF Surjection
<1> HIDE DEF D
<1>8. g \in [D -> Nat] /\ \A i \in D : g[i] = f[e[i]]
  BY <1>2
<1> HIDE DEF g
<1>9. ASSUME NEW c \in Coins(g)
      PROVE  /\ c[1] \in D /\ c = <<c[1], c[2]>>
             /\ <<e[c[1]], c[2]>> \in Coins(f)
  <2>1. PICK i \in D, k \in Nat : c = <<i, k>> /\ k \in 1..g[i]
    BY <1>8, CoinsAre
  <2>2. <<e[i], k>> \in Coins(f)
    BY <1>2, <1>8, <2>1, CoinsAre
  <2> QED
    BY <2>1, <2>2
<1>10. move \in [Coins(g) -> Coins(f)]
  BY <1>9
<1>11. ASSUME NEW c \in Coins(g), NEW d \in Coins(g), move[c] = move[d]
       PROVE  c = d
  <2>1. e[c[1]] = e[d[1]] /\ c[2] = d[2]
    BY <1>11
  <2>2. c[1] = d[1]
    BY <2>1, <1>2, <1>9
  <2> QED
    BY <2>1, <2>2, <1>9
<1>12. ASSUME NEW t \in Coins(f)
       PROVE  \E c \in Coins(g) : move[c] = t
  <2>1. PICK x \in S, k \in Nat : t = <<x, k>> /\ k \in 1..f[x]
    BY CoinsAre
  <2>2. PICK i \in D : e[i] = x
    BY <1>7
  <2>3. <<i, k>> \in Coins(g)
    BY <1>8, <2>1, <2>2, CoinsAre
  <2> QED
    BY <2>1, <2>2, <2>3
<1> HIDE DEF move
<1>13. ExistsBijection(Coins(g), Coins(f))
  BY <1>10, <1>11, <1>12, IsBijection
<1>14. SumOf(g) = SumOf(f)
  BY <1>4, <1>8, <1>13, CoinsFinite, FS_Bijection DEF SumOf
<1> QED
  BY <1>2, <1>3, <1>14 DEF g, D, n

-----------------------------------------------------------------------------
(* The estimate *)

(* Reduction modulo 2^64 never makes a number larger, and keeps a small one. *)
LEMMA Reduced ==
    ASSUME NEW x \in Nat
    PROVE  /\ x % Modulus \in Nat /\ x % Modulus <= x
           /\ x < Modulus => x % Modulus = x
<1>1. Modulus \in Nat \ {0}
  BY SubmissionAssumption
<1> QED
  BY <1>1

(* A fifth more, of a larger fee. *)
LEMMA MarginGrows ==
    ASSUME NEW x \in Nat, NEW y \in Nat, x <= y
    PROVE  /\ WithMargin(x) \in Nat /\ x <= WithMargin(x)
           /\ WithMargin(x) <= WithMargin(y)
BY DEF WithMargin

(* What is at most a fifth larger is within the margin, rounded as it is. *)
LEMMA WithinMargin ==
    ASSUME NEW x \in Nat, NEW y \in Nat, 5 * x <= 6 * y
    PROVE  x <= WithMargin(y)
BY DEF WithMargin

(* An inequality keeps when both sides are multiplied. *)
LEMMA Scaled ==
    ASSUME NEW a \in Nat, NEW b \in Nat, NEW u \in Nat, 5 * a <= 6 * b
    PROVE  5 * (a * u) <= 6 * (b * u)
<1>1. \A x, y, z \in Nat : x <= y => x * z <= y * z
  OBVIOUS
<1>2. (5 * a) * u <= (6 * b) * u
  BY <1>1
<1> QED
  BY <1>2

PriceSet == [unit : Nat, ns : [Namespaces -> Nat]]

(* Fees are natural numbers. *)
LEMMA FeeType ==
    ASSUME NEW p \in PriceSet, NEW f \in Nat
    PROVE  /\ [n \in Namespaces |-> p.ns[n] * NsUnits[n]] \in [Namespaces -> Nat]
           /\ NsFee(p.ns) \in Nat /\ p.unit * Units \in Nat
           /\ FeeAt(p, f) \in Nat
           /\ FeeAt(p, f) = p.unit * Units + NsFee(p.ns) + f
<1>1. /\ p.unit \in Nat /\ p.ns \in [Namespaces -> Nat]
      /\ Units \in Nat /\ NsUnits \in [Namespaces -> Nat]
  BY SubmissionAssumption DEF PriceSet
<1>2. \A a, b \in Nat : a * b \in Nat
  OBVIOUS
<1>3. [n \in Namespaces |-> p.ns[n] * NsUnits[n]] \in [Namespaces -> Nat]
  BY <1>1, <1>2
<1>4. NsFee(p.ns) \in Nat
  BY <1>3, CoinsFinite, SubmissionAssumption DEF NsFee
<1>5. p.unit * Units \in Nat
  BY <1>1, <1>2
<1> QED
  BY <1>3, <1>4, <1>5 DEF FeeAt

(* The maximum fee of a call, from the prices it has read in whatever      *)
(* order: never more than the fee at these prices and a fifth, and exactly *)
(* that unless it is beyond 64 bits (the fee estimate of SubmitMsgTx and   *)
(* GenerateAndSubmitTx).                                                   *)
THEOREM MaxFeeIs ==
    ASSUME NEW p \in PriceSet, NEW f \in Nat, NEW nss \in SetToSeqs(Namespaces)
    PROVE  LET m == MaxFee(p.unit, [i \in 1..Len(nss) |-> p.ns[nss[i]]], nss, f)
               e == WithMargin(FeeAt(p, f))
           IN  m \in Nat /\ m <= e /\ (e < Modulus => m = e)
<1> DEFINE term == [n \in Namespaces |-> p.ns[n] * NsUnits[n]]
           prices == [i \in 1..Len(nss) |-> p.ns[nss[i]]]
           units == p.unit * Units
           fee == units + NsFee(p.ns)
           est == FeeAt(p, f)
           a == fee % Modulus
           b == (a + f) % Modulus
           m == MaxFee(p.unit, prices, nss, f)
<1>1. /\ term \in [Namespaces -> Nat] /\ NsFee(p.ns) \in Nat /\ units \in Nat
      /\ est \in Nat /\ est = fee + f
  BY FeeType
<1>2. /\ \A i \in 1..Len(nss) : nss[i] \in Namespaces
      /\ SumOf([i \in 1..Len(nss) |-> term[nss[i]]]) = NsFee(p.ns)
  <2> HIDE DEF term
  <2>1. /\ \A i \in 1..Len(nss) : nss[i] \in Namespaces
        /\ SumOf([i \in 1..Len(nss) |-> term[nss[i]]]) = SumOf(term)
    BY <1>1, SumInAnyOrder, SubmissionAssumption
  <2> QED
    BY <2>1 DEF term, NsFee
<1>3. [i \in 1..Len(nss) |-> prices[i] * NsUnits[nss[i]]]
         = [i \in 1..Len(nss) |-> term[nss[i]]]
  BY <1>2
<1>4. AddNamespaces(MulSum(p.unit), prices, nss) = a
  BY <1>2, <1>3, Zenon DEF AddNamespaces, MulSum
<1>5. m = AddMargin(b)
  BY <1>4, Zenon DEF MaxFee
<1> HIDE DEF m, prices, term, units
<1>6. fee \in Nat
  BY <1>1
<1> HIDE DEF fee
<1>7. a \in Nat /\ a <= fee /\ (fee < Modulus => a = fee)
  BY <1>6, Reduced
<1> HIDE DEF a, est
<1>8. a + f \in Nat
  BY <1>7
<1>9. b \in Nat /\ b <= a + f /\ (a + f < Modulus => b = a + f)
  BY <1>8, Reduced
<1> HIDE DEF b
<1>10. m = WithMargin(b) % Modulus
  BY <1>5 DEF AddMargin, WithMargin
<1>11. b <= est
  BY <1>1, <1>6, <1>7, <1>9
<1>12. /\ WithMargin(b) \in Nat /\ WithMargin(b) <= WithMargin(est)
       /\ est <= WithMargin(est) /\ WithMargin(est) \in Nat
  BY <1>1, <1>9, <1>11, MarginGrows
<1>13. m \in Nat /\ m <= WithMargin(b) /\ (WithMargin(b) < Modulus => m = WithMargin(b))
  BY <1>10, <1>12, Reduced
<1>14. Modulus \in Nat
  BY SubmissionAssumption
<1>15. m <= WithMargin(est)
  BY <1>12, <1>13
<1>16. ASSUME WithMargin(est) < Modulus
       PROVE  m = WithMargin(est)
  <2>1. fee < Modulus /\ a + f < Modulus
    BY <1>1, <1>6, <1>7, <1>12, <1>14, <1>16
  <2>2. b = est
    BY <1>1, <1>7, <1>9, <2>1
  <2> QED
    BY <1>12, <1>13, <1>16, <2>2
<1> QED
  BY <1>13, <1>15, <1>16 DEF m, est, prices

(* Prices that are at most a fifth higher make a fee at most a fifth higher. *)
LEMMA FeeGrowsByAFifth ==
    ASSUME NEW p \in PriceSet, NEW q \in PriceSet, NEW f \in Nat,
           5 * p.unit <= 6 * q.unit,
           \A n \in Namespaces : 5 * p.ns[n] <= 6 * q.ns[n]
    PROVE  FeeAt(p, f) <= WithMargin(FeeAt(q, f))
<1> DEFINE x == [n \in Namespaces |-> p.ns[n] * NsUnits[n]]
           y == [n \in Namespaces |-> q.ns[n] * NsUnits[n]]
           x2 == [n \in Namespaces |-> x[n] + x[n]]
           x4 == [n \in Namespaces |-> x2[n] + x2[n]]
           x5 == [n \in Namespaces |-> x4[n] + x[n]]
           y2 == [n \in Namespaces |-> y[n] + y[n]]
           y4 == [n \in Namespaces |-> y2[n] + y2[n]]
           y6 == [n \in Namespaces |-> y4[n] + y2[n]]
<1>1. /\ x \in [Namespaces -> Nat] /\ SumOf(x) = NsFee(p.ns) /\ SumOf(x) \in Nat
      /\ y \in [Namespaces -> Nat] /\ SumOf(y) = NsFee(q.ns) /\ SumOf(y) \in Nat
  BY FeeType DEF NsFee
<1>2. \A n \in Namespaces : 5 * x[n] <= 6 * y[n]
  <2>1. SUFFICES ASSUME NEW n \in Namespaces
                 PROVE  5 * (p.ns[n] * NsUnits[n]) <= 6 * (q.ns[n] * NsUnits[n])
    OBVIOUS
  <2>2. p.ns[n] \in Nat /\ q.ns[n] \in Nat /\ NsUnits[n] \in Nat
    BY SubmissionAssumption DEF PriceSet
  <2>3. \A a, b, u \in Nat : 5 * a <= 6 * b => 5 * (a * u) <= 6 * (b * u)
    BY Scaled
  <2> QED
    BY <2>2, <2>3
<1> HIDE DEF x, y
<1>3. /\ x2 \in [Namespaces -> Nat] /\ x4 \in [Namespaces -> Nat]
      /\ x5 \in [Namespaces -> Nat] /\ \A n \in Namespaces : x5[n] = 5 * x[n]
  BY <1>1
<1>4. /\ y2 \in [Namespaces -> Nat] /\ y4 \in [Namespaces -> Nat]
      /\ y6 \in [Namespaces -> Nat] /\ \A n \in Namespaces : y6[n] = 6 * y[n]
  BY <1>1
<1>5. IsFiniteSet(Namespaces)
  BY SubmissionAssumption
<1>6. SumOf(x2) = SumOf(x) + SumOf(x)
  BY <1>1, <1>5, SumOfSums
<1>7. SumOf(y2) = SumOf(y) + SumOf(y)
  BY <1>1, <1>5, SumOfSums
<1> HIDE DEF x2, y2
<1>8. SumOf(x4) = SumOf(x2) + SumOf(x2)
  BY <1>3, <1>5, SumOfSums
<1>9. SumOf(y4) = SumOf(y2) + SumOf(y2)
  BY <1>4, <1>5, SumOfSums
<1> HIDE DEF x4, y4
<1>10. SumOf(x5) = SumOf(x4) + SumOf(x)
  BY <1>1, <1>3, <1>5, SumOfSums
<1>11. SumOf(y6) = SumOf(y4) + SumOf(y2)
  BY <1>4, <1>5, SumOfSums
<1> HIDE DEF x5, y6
<1>12. \A n \in Namespaces : x5[n] <= y6[n]
  BY <1>2, <1>3, <1>4
<1>13. SumOf(x5) <= SumOf(y6)
  BY <1>3, <1>4, <1>5, <1>12, SumMonotone
<1>14. 5 * NsFee(p.ns) <= 6 * NsFee(q.ns)
  BY <1>1, <1>6, <1>7, <1>8, <1>9, <1>10, <1>11, <1>13
<1>15. 5 * (p.unit * Units) <= 6 * (q.unit * Units)
  <2>1. p.unit \in Nat /\ q.unit \in Nat /\ Units \in Nat
    BY SubmissionAssumption DEF PriceSet
  <2> QED
    BY <2>1, Scaled
<1>16. /\ FeeAt(p, f) \in Nat /\ NsFee(p.ns) \in Nat /\ p.unit * Units \in Nat
       /\ FeeAt(p, f) = p.unit * Units + NsFee(p.ns) + f
  BY FeeType
<1>17. /\ FeeAt(q, f) \in Nat /\ NsFee(q.ns) \in Nat /\ q.unit * Units \in Nat
       /\ FeeAt(q, f) = q.unit * Units + NsFee(q.ns) + f
  BY FeeType
<1>18. ASSUME NEW u \in Nat, NEW v \in Nat, 5 * u <= 6 * v,
              NEW s \in Nat, NEW t \in Nat, 5 * s <= 6 * t
       PROVE  5 * (u + s + f) <= 6 * (v + t + f)
  BY <1>18
<1>19. 5 * FeeAt(p, f) <= 6 * FeeAt(q, f)
  BY <1>14, <1>15, <1>16, <1>17, <1>18
<1> QED
  BY <1>16, <1>17, <1>19, WithinMargin

-----------------------------------------------------------------------------
(* The inductive invariant *)

States == {"new", "units", "estimated", "error", "waiting", "returned", "done"}

CallSet == [kind : Kinds, state : States, payload : Payloads, priority : Nat,
            unit : Nat, ns : [Namespaces -> Nat], maxFee : Nat, tx : Txs \cup {NoTx}]

Reports == [tx : Txs, err : BOOLEAN]

TypeOK ==
    /\ listening \subseteq Txs
    /\ time \in Nat
    /\ price \in PriceSet
    /\ pool \subseteq Txs
    /\ included \subseteq [tx : Txs, fee : Nat]
    /\ call \in [Calls -> CallSet]
    /\ results \in Seq(Reports)

(* The fee at the prices call r has read. *)
EstimateOf(r) == FeeAt([unit |-> r.unit, ns |-> r.ns], r.priority)

(* The maximum fee is what the estimate of the prices read says. *)
Priced(r) ==
    /\ r.maxFee <= WithMargin(EstimateOf(r))
    /\ WithMargin(EstimateOf(r)) < Modulus => r.maxFee = WithMargin(EstimateOf(r))

CallsPriced == \A c \in Calls : call[c].state = "estimated" \/ call[c].tx # NoTx => Priced(call[c])

(* A call has the transaction it made, which never changes again. *)
CallsOwnTx ==
    \A c \in Calls : call[c].tx # NoTx =>
        /\ call[c].state \in {"waiting", "returned", "done", "error"}
        /\ call[c].tx.maxFee = call[c].maxFee

(* No transaction has paid more than it allowed. *)
PaidWithinMax == \A b \in included : b.fee <= b.tx.maxFee

(* A result on the connection is that of a transaction in a block. *)
ReportsTrue == \A i \in 1..Len(results) : ~results[i].err => Accepted(results[i].tx)

Inv == TypeOK /\ CallsPriced /\ CallsOwnTx /\ PaidWithinMax /\ ReportsTrue /\ ResultIsOwn

(* What Estimate says of a call. *)
LEMMA EstimateIs ==
    ASSUME TypeOK, NEW c \in Calls
    PROVE  /\ Estimate(c) = EstimateOf(call[c]) /\ Estimate(c) \in Nat
           /\ [unit |-> call[c].unit, ns |-> call[c].ns] \in PriceSet
<1>1. call[c] \in CallSet
  BY DEF TypeOK
<1>2. [unit |-> call[c].unit, ns |-> call[c].ns] \in PriceSet /\ call[c].priority \in Nat
  BY <1>1 DEF CallSet, PriceSet
<1> QED
  BY <1>2, FeeType DEF Estimate, EstimateOf

LEMMA InitInv ==
    ASSUME Init
    PROVE  Inv
<1>1. price \in PriceSet
  BY SubmissionAssumption DEF Init, PriceSet
<1>2. ASSUME NEW c \in Calls
      PROVE  call[c] \in CallSet /\ call[c].state = "new" /\ call[c].tx = NoTx
  <2>1. PICK k \in Kinds, p \in Payloads, f \in PriorityFees \cup {0} :
           call[c] = [kind |-> k, state |-> "new", payload |-> p, priority |-> f,
                      unit |-> 0, ns |-> [n \in Namespaces |-> 0], maxFee |-> 0, tx |-> NoTx]
    BY DEF Init
  <2>2. f \in Nat /\ [n \in Namespaces |-> 0] \in [Namespaces -> Nat]
    BY SubmissionAssumption
  <2> QED
    BY <2>1, <2>2 DEF CallSet, States
<1>3. call \in [Calls -> CallSet]
  BY <1>2 DEF Init
<1> QED
  BY <1>1, <1>2, <1>3
     DEF Init, Inv, TypeOK, CallsPriced, CallsOwnTx, PaidWithinMax, ReportsTrue, ResultIsOwn

(* A step of one call that changes its record and the connection, to a     *)
(* record that keeps the invariant.                                        *)
LEMMA CallStep ==
    ASSUME Inv, NEW c \in Calls, NEW r \in CallSet, call' = [call EXCEPT ![c] = r],
           UNCHANGED <<time, price, included>>, pool' \subseteq Txs,
           listening' \subseteq Txs, results' \in Seq(Reports), ReportsTrue',
           r.state = "estimated" \/ r.tx # NoTx => Priced(r),
           r.tx # NoTx => /\ r.state \in {"waiting", "returned", "done", "error"}
                          /\ r.tx.maxFee = r.maxFee,
           r.state = "done" => Accepted(r.tx)
    PROVE  Inv'
<1>1. call' \in [Calls -> CallSet] /\ \A d \in Calls : call'[d] = IF d = c THEN r ELSE call[d]
  BY DEF Inv, TypeOK
<1>2. TypeOK'
  BY <1>1 DEF Inv, TypeOK
<1>3. CallsPriced'
  BY <1>1 DEF Inv, CallsPriced
<1>4. CallsOwnTx'
  BY <1>1 DEF Inv, CallsOwnTx
<1>5. PaidWithinMax'
  BY DEF Inv, PaidWithinMax
<1>6. ResultIsOwn'
  BY <1>1 DEF Inv, ResultIsOwn, Accepted
<1> QED
  BY <1>2, <1>3, <1>4, <1>5, <1>6 DEF Inv

(* A step that leaves the connection alone. *)
LEMMA ConnectionKept ==
    ASSUME Inv, UNCHANGED <<included, connection>>
    PROVE  listening' \subseteq Txs /\ results' \in Seq(Reports) /\ ReportsTrue'
BY DEF Inv, TypeOK, ReportsTrue, Accepted, connection

LEMMA ReadUnitPricesInv ==
    ASSUME Inv, NEW c \in Calls, ReadUnitPrices(c)
    PROVE  Inv'
<1> DEFINE r == [call[c] EXCEPT !.unit = price.unit,
                                !.state = IF Overflows(price.unit) THEN "error" ELSE "units"]
<1>1. call[c] \in CallSet /\ call \in [Calls -> CallSet] /\ price.unit \in Nat
  BY DEF Inv, TypeOK, PriceSet
<1>2. /\ r \in CallSet /\ r.state \notin {"estimated", "done"} /\ r.tx = call[c].tx
  BY <1>1 DEF CallSet, States
<1>3. call[c].tx = NoTx
  BY DEF Inv, CallsOwnTx, ReadUnitPrices
<1>4. call' = [call EXCEPT ![c] = r]
  BY <1>1 DEF ReadUnitPrices, CallSet
<1> HIDE DEF r
<1> QED
  BY <1>2, <1>3, <1>4, CallStep, ConnectionKept DEF ReadUnitPrices, Inv, TypeOK

LEMMA ReadNameSpacesPriceInv ==
    ASSUME Inv, NEW c \in Calls, NEW nss \in SetToSeqs(Namespaces), ReadNameSpacesPrice(c, nss)
    PROVE  Inv'
<1> DEFINE m == MaxFee(call[c].unit, [i \in 1..Len(nss) |-> price.ns[nss[i]]], nss,
                       call[c].priority)
           r == [call[c] EXCEPT !.ns = price.ns, !.maxFee = m, !.state = "estimated"]
           p == [unit |-> call[c].unit, ns |-> price.ns]
<1>1. call[c] \in CallSet /\ call \in [Calls -> CallSet] /\ price.ns \in [Namespaces -> Nat]
  BY DEF Inv, TypeOK, PriceSet
<1>2. p \in PriceSet /\ p.unit = call[c].unit /\ p.ns = price.ns /\ call[c].priority \in Nat
  BY <1>1 DEF CallSet, PriceSet
<1>3. /\ m \in Nat /\ m <= WithMargin(FeeAt(p, call[c].priority))
      /\ WithMargin(FeeAt(p, call[c].priority)) < Modulus
            => m = WithMargin(FeeAt(p, call[c].priority))
  <2> HIDE DEF p
  <2>1. m = MaxFee(p.unit, [i \in 1..Len(nss) |-> p.ns[nss[i]]], nss, call[c].priority)
    BY <1>2, Zenon
  <2> HIDE DEF m
  <2> QED
    BY <1>2, <2>1, MaxFeeIs
<1>4. call[c].tx = NoTx
  BY DEF Inv, CallsOwnTx, ReadNameSpacesPrice
<1>5. call' = [call EXCEPT ![c] = r]
  BY <1>1 DEF ReadNameSpacesPrice, CallSet
<1> HIDE DEF m
<1>6. /\ r \in CallSet /\ r.state = "estimated" /\ r.tx = call[c].tx
      /\ r.maxFee = m /\ r.unit = call[c].unit /\ r.ns = price.ns
      /\ r.priority = call[c].priority
  BY <1>1, <1>3 DEF CallSet, States
<1> HIDE DEF r
<1>7. EstimateOf(r) = FeeAt(p, call[c].priority)
  BY <1>6 DEF EstimateOf
<1>8. Priced(r)
  BY <1>3, <1>6, <1>7 DEF Priced
<1> QED
  BY <1>4, <1>5, <1>6, <1>8, CallStep, ConnectionKept DEF ReadNameSpacesPrice, Inv, TypeOK

LEMMA SubmitInv ==
    ASSUME Inv, NEW c \in Calls, Submit(c)
    PROVE  Inv'
<1> DEFINE tx == NewTx(c)
           refused == FeeAt(price, tx.priority) > tx.maxFee
           waits == call[c].kind = "sendAndWait"
           t == IF refused /\ ~waits THEN NoTx ELSE tx
           s == IF waits THEN "waiting" ELSE IF refused THEN "error" ELSE "returned"
           r == [call[c] EXCEPT !.tx = t, !.state = s]
<1>1. call[c] \in CallSet /\ call \in [Calls -> CallSet] /\ time \in Nat
  BY DEF Inv, TypeOK
<1>2. UnixRMilli(time, Window) \in Nat
  <2>1. Window \in Nat /\ Second \in Nat \ {0}
    BY SubmissionAssumption
  <2>2. (time + Window) \div Second \in Nat
    BY <1>1, <2>1
  <2> QED
    BY <2>1, <2>2 DEF UnixRMilli
<1>3. tx \in Txs /\ tx.maxFee = call[c].maxFee
  BY <1>1, <1>2 DEF NewTx, Sender, Txs, CallSet
<1>4. call' = [call EXCEPT ![c] = r]
  BY <1>1 DEF Submit, CallSet
<1>5. pool' \subseteq Txs /\ listening' \subseteq Txs
  BY <1>3 DEF Submit, Inv, TypeOK
<1> HIDE DEF tx, refused
<1>6. /\ t \in Txs \cup {NoTx} /\ s \in {"waiting", "returned", "error"}
      /\ t # NoTx => t = tx
  BY <1>3
<1> HIDE DEF t, s
<1>7. /\ r \in CallSet /\ r.state = s /\ r.tx = t /\ r.maxFee = call[c].maxFee
      /\ r.kind = call[c].kind /\ r.unit = call[c].unit /\ r.ns = call[c].ns
      /\ r.priority = call[c].priority
  BY <1>1, <1>6 DEF CallSet, States
<1> HIDE DEF r
<1>8. Priced(call[c])
  BY DEF Inv, CallsPriced, Submit
<1>9. Priced(r)
  BY <1>7, <1>8 DEF Priced, EstimateOf
<1>10. r.tx # NoTx =>
          /\ r.state \in {"waiting", "returned", "done", "error"}
          /\ r.tx.maxFee = r.maxFee
  BY <1>3, <1>6, <1>7
<1>11. UNCHANGED <<time, price, included, results>>
  BY DEF Submit
<1>12. results' \in Seq(Reports) /\ ReportsTrue' /\ r.state # "done"
  BY <1>6, <1>7, <1>11 DEF Inv, TypeOK, ReportsTrue, Accepted
<1> QED
  <2>1. r \in CallSet
    BY <1>7
  <2>2. r.state = "estimated" \/ r.tx # NoTx => Priced(r)
    BY <1>9
  <2> QED
    BY <1>4, <1>5, <1>10, <1>11, <1>12, <2>1, <2>2, CallStep

(* A step that ends a call, or leaves it waiting. *)
LEMMA StateStep ==
    ASSUME Inv, NEW c \in Calls, NEW s \in {"waiting", "done", "error"},
           call' = [call EXCEPT ![c].state = s], UNCHANGED <<time, price, pool, included>>,
           listening' \subseteq Txs, results' \in Seq(Reports), ReportsTrue',
           s = "done" => Accepted(call[c].tx)
    PROVE  Inv'
<1> DEFINE r == [call[c] EXCEPT !.state = s]
<1>1. call[c] \in CallSet /\ call \in [Calls -> CallSet]
  BY DEF Inv, TypeOK
<1>2. call' = [call EXCEPT ![c] = r]
  BY <1>1 DEF CallSet
<1>3. /\ r \in CallSet /\ r.state = s /\ r.tx = call[c].tx /\ r.maxFee = call[c].maxFee
      /\ r.unit = call[c].unit /\ r.ns = call[c].ns /\ r.priority = call[c].priority
  BY <1>1 DEF CallSet, States
<1> HIDE DEF r
<1>4. r.tx # NoTx => Priced(r)
  BY <1>3 DEF Inv, CallsPriced, Priced, EstimateOf
<1>5. r.tx # NoTx => /\ r.state \in {"waiting", "returned", "done", "error"}
                     /\ r.tx.maxFee = r.maxFee
  BY <1>3 DEF Inv, CallsOwnTx
<1>6. pool' \subseteq Txs
  BY DEF Inv, TypeOK
<1>7. r.state = "done" => Accepted(r.tx)
  BY <1>3
<1> QED
  BY <1>2, <1>3, <1>4, <1>5, <1>6, <1>7, CallStep

LEMMA CallFailsInv ==
    ASSUME Inv, NEW c \in Calls, CallFails(c)
    PROVE  Inv'
BY StateStep, ConnectionKept DEF CallFails

LEMMA ReportInv ==
    ASSUME Inv, ReportStep
    PROVE  Inv'
<1>1. PICK tx \in listening, err \in BOOLEAN : Report(tx, err)
  BY DEF ReportStep
<1> DEFINE m == [tx |-> tx, err |-> err]
<1>2. m \in Reports /\ results \in Seq(Reports) /\ results' = Append(results, m)
  BY <1>1 DEF Report, Inv, TypeOK, Reports
<1>3. ~m.err => Accepted(m.tx)
  BY <1>1 DEF Report
<1>4. UNCHANGED <<time, price, pool, included, call>> /\ listening' \subseteq Txs
  BY <1>1 DEF Report, Inv, TypeOK
<1> HIDE DEF m
<1>5. results' \in Seq(Reports)
  BY <1>2
<1>6. ASSUME NEW i \in 1..Len(results')
      PROVE  results'[i] = m \/ (i \in 1..Len(results) /\ results'[i] = results[i])
  BY <1>2
<1>7. ReportsTrue'
  BY <1>3, <1>4, <1>6 DEF Inv, ReportsTrue, Accepted
<1> QED
  BY <1>4, <1>5, <1>7
     DEF Inv, TypeOK, CallsPriced, CallsOwnTx, PaidWithinMax, ResultIsOwn, Accepted

LEMMA ListenTxInv ==
    ASSUME Inv, NEW c \in Calls, ListenTx(c)
    PROVE  Inv'
<1> DEFINE m == Head(results)
           s == Heard(call[c].tx, m)
<1>1. /\ results \in Seq(Reports) /\ results # << >> /\ results' = Tail(results)
      /\ UNCHANGED <<time, price, pool, included, listening>>
      /\ call' = [call EXCEPT ![c].state = s]
  BY DEF ListenTx, Inv, TypeOK
<1>2. /\ Len(results) \in Nat /\ 1 \in 1..Len(results) /\ m = results[1]
      /\ results' \in Seq(Reports)
      /\ \A i \in 1..Len(results') : i + 1 \in 1..Len(results) /\ results'[i] = results[i + 1]
  BY <1>1
<1>3. ~m.err => Accepted(m.tx)
  BY <1>2 DEF Inv, ReportsTrue
<1>4. s \in {"waiting", "done", "error"} /\ (s = "done" => Accepted(call[c].tx))
  BY <1>3 DEF Heard
<1>5. ReportsTrue'
  BY <1>1, <1>2 DEF Inv, ReportsTrue, Accepted
<1> HIDE DEF s
<1>6. listening' \subseteq Txs
  BY <1>1 DEF Inv, TypeOK
<1> QED
  BY <1>1, <1>2, <1>4, <1>5, <1>6, StateStep

LEMMA BlockStepInv ==
    ASSUME Inv, BlockStep
    PROVE  Inv'
<1>1. PICK txs \in SUBSET pool, dropped \in SUBSET pool, p \in Prices : NewBlock(txs, dropped, p)
  BY DEF BlockStep
<1>2. ASSUME NEW tx \in txs
      PROVE  /\ tx \in Txs /\ FeeAt(price, tx.priority) \in Nat
             /\ FeeAt(price, tx.priority) <= tx.maxFee
  <2>1. tx \in Txs /\ tx.priority \in Nat /\ price \in PriceSet
    BY DEF Inv, TypeOK, Txs
  <2> QED
    BY <1>1, <2>1, FeeType DEF NewBlock, Payable
<1>3. ASSUME NEW b \in included'
      PROVE  b \in [tx : Txs, fee : Nat] /\ b.fee <= b.tx.maxFee
  <2>1. CASE b \in included
    BY <2>1 DEF Inv, TypeOK, PaidWithinMax
  <2>2. CASE \E tx \in txs : b = [tx |-> tx, fee |-> FeeAt(price, tx.priority)]
    BY <1>2, <2>2
  <2> QED
    BY <1>1, <2>1, <2>2 DEF NewBlock
<1>4. TypeOK'
  <2>1. p \in PriceSet
    BY SubmissionAssumption DEF PriceSet
  <2>2. time' \in Nat /\ price' \in PriceSet /\ pool' \subseteq Txs
    BY <1>1, <2>1 DEF NewBlock, Inv, TypeOK
  <2> QED
    BY <1>1, <1>3, <2>2 DEF NewBlock, connection, Inv, TypeOK
<1>5. PaidWithinMax'
  BY <1>3 DEF PaidWithinMax
<1>6. CallsPriced' /\ CallsOwnTx'
  BY <1>1 DEF NewBlock, Inv, CallsPriced, CallsOwnTx
<1>7. \A tx : Accepted(tx) => Accepted(tx)'
  BY <1>1 DEF NewBlock, Accepted
<1>8. ReportsTrue' /\ ResultIsOwn'
  BY <1>1, <1>7 DEF NewBlock, connection, Inv, ReportsTrue, ResultIsOwn
<1> QED
  BY <1>4, <1>5, <1>6, <1>8 DEF Inv

LEMMA NextInv ==
    ASSUME Inv, [Next]_vars
    PROVE  Inv'
<1>1. CASE UNCHANGED vars
  BY <1>1 DEF vars, Inv, TypeOK, CallsPriced, CallsOwnTx, PaidWithinMax, ReportsTrue,
              ResultIsOwn, Accepted
<1>2. CASE Next
  BY <1>2, ReadUnitPricesInv, ReadNameSpacesPriceInv, SubmitInv, CallFailsInv, ListenTxInv,
     BlockStepInv, ReportInv DEF Next
<1> QED
  BY <1>1, <1>2

LEMMA InvAlways == Spec => []Inv
BY InitInv, NextInv, PTL DEF Spec

-----------------------------------------------------------------------------
(* Theorems *)

(* A transaction pays for every price up to a fifth above what its call    *)
(* has read, in whatever order the prices came and whatever blocks lay     *)
(* between, unless the estimate is beyond 64 bits (SubmitMsgTx,            *)
(* GenerateAndSubmitTx).                                                   *)
THEOREM FeeIsCovered == Spec => []FeeCovered
<1>1. ASSUME Inv
      PROVE  FeeCovered
  <2> SUFFICES ASSUME NEW c \in Estimated,
                      WithMargin(Estimate(c)) < Modulus,
                      5 * price.unit <= 6 * call[c].unit,
                      \A n \in Namespaces : 5 * price.ns[n] <= 6 * call[c].ns[n]
               PROVE  FeeAt(price, call[c].priority) <= call[c].maxFee
    BY DEF FeeCovered
  <2> DEFINE q == [unit |-> call[c].unit, ns |-> call[c].ns]
  <2>1. c \in Calls /\ call[c] \in CallSet /\ price \in PriceSet
    BY <1>1 DEF Estimated, Inv, TypeOK
  <2>2. call[c].priority \in Nat
    BY <2>1 DEF CallSet
  <2>3. q \in PriceSet /\ q.unit = call[c].unit /\ q.ns = call[c].ns
    BY <1>1, <2>1, EstimateIs DEF Inv
  <2>4. Estimate(c) = FeeAt(q, call[c].priority) /\ Estimate(c) = EstimateOf(call[c])
    BY <1>1, <2>1, EstimateIs DEF Inv, Estimate
  <2> HIDE DEF q
  <2>5. FeeAt(price, call[c].priority) <= WithMargin(FeeAt(q, call[c].priority))
    BY <2>1, <2>2, <2>3, FeeGrowsByAFifth
  <2>6. call[c].maxFee = WithMargin(Estimate(c))
    BY <1>1, <2>1, <2>4 DEF Inv, CallsPriced, Priced, Estimated
  <2> QED
    BY <2>4, <2>5, <2>6
<1> QED
  BY <1>1, InvAlways, PTL

(* Nobody pays more than a fifth above the fee at the prices his call has  *)
(* read, an estimate that wrapped around included (AddMargin, Payable).    *)
THEOREM NobodyPaysMore == Spec => []NeverPaysMore
<1>1. ASSUME Inv
      PROVE  NeverPaysMore
  <2> SUFFICES ASSUME NEW c \in Calls, NEW b \in included, b.tx = call[c].tx
               PROVE  b.fee <= WithMargin(Estimate(c))
    BY DEF NeverPaysMore
  <2>1. /\ b \in [tx : Txs, fee : Nat] /\ b.fee <= b.tx.maxFee /\ call[c] \in CallSet
    BY <1>1 DEF Inv, TypeOK, PaidWithinMax
  <2>2. call[c].tx # NoTx
    BY <2>1, SubmissionAssumption
  <2>3. /\ call[c].tx.maxFee = call[c].maxFee
        /\ call[c].maxFee <= WithMargin(EstimateOf(call[c]))
    BY <1>1, <2>2 DEF Inv, CallsPriced, CallsOwnTx, Priced
  <2>4. Estimate(c) = EstimateOf(call[c]) /\ Estimate(c) \in Nat
    BY <1>1, EstimateIs DEF Inv
  <2>5. b.fee \in Nat /\ call[c].maxFee \in Nat /\ WithMargin(Estimate(c)) \in Nat
    BY <2>1, <2>4, MarginGrows DEF CallSet
  <2> QED
    BY <2>1, <2>3, <2>4, <2>5
<1> QED
  BY <1>1, InvAlways, PTL

(* A call of sendAndWait that returns a result has its transaction in a    *)
(* block, whatever reports on the transactions of other calls came before, *)
(* for any number of calls that gave up (Heard, Report).                   *)
THEOREM ResultsAreOwn == Spec => []ResultIsOwn
<1>1. Inv => ResultIsOwn
  BY DEF Inv
<1> QED
  BY <1>1, InvAlways, PTL
=============================================================================
