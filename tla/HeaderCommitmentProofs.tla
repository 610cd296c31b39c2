----------------------- MODULE HeaderCommitmentProofs -----------------------
(***************************************************************************)
(* Proofs about the commitment to a header, for any header, any number of  *)
(* bytes in a number and in a digest, and any ideal hash.                  *)
(***************************************************************************)
EXTENDS HeaderCommitment, SequenceTheorems, WellFoundedInduction, TLAPS

-----------------------------------------------------------------------------
(* Digits and their value *)

(* A set of naturals that is not empty has a least element. *)
LEMMA LeastNatural ==
    ASSUME NEW T \in SUBSET Nat, T # {}
    PROVE  \E x \in T : \A y \in T : x <= y
<1> DEFINE R == OpToRel(<, Nat)
<1>1. IsWellFoundedOn(R, Nat)
  BY NatLessThanWellFounded, Zenon
<1> HIDE DEF R
<1>2. PICK x \in T : \A y \in T : ~(<<y, x>> \in R)
  BY <1>1, WFMin
<1>3. \A y \in T : ~(y < x)
  BY <1>2 DEF R, OpToRel
<1> QED
  BY <1>3

LEMMA BaseType == Base \in Nat /\ Base > 9 /\ Byte \subseteq Nat /\ 0 \in Byte
BY CommitmentAssumption DEF Byte

(* The values of the first digits, one more at a time. *)
ValueStep(v, d, i) == v[i] = v[i - 1] * Base + d[i]
Values(v, d, n) == v \in [0..n -> Nat] /\ v[0] = 0 /\ \A i \in 1..n : ValueStep(v, d, i)

LEMMA ValuesExist ==
    ASSUME NEW n \in Nat, NEW d \in [1..n -> Nat]
    PROVE  \E v : Values(v, d, n)
<1> DEFINE T == {m \in 0..n : ~ \E v : Values(v, d, m)}
<1>1. SUFFICES ASSUME T # {} PROVE FALSE
  <2>1. n \in 0..n
    OBVIOUS
  <2> QED
    BY <2>1, Zenon
<1>2. PICK m \in T : \A y \in T : m <= y
  <2>1. T \subseteq Nat
    OBVIOUS
  <2> HIDE DEF T
  <2> QED
    BY <1>1, <2>1, LeastNatural
<1>3. m \in 0..n /\ ~ \E v : Values(v, d, m)
  OBVIOUS
<1>4. m # 0
  <2>1. Values([i \in 0..0 |-> 0], d, 0)
    BY DEF Values
  <2> QED
    BY <1>3, <2>1
<1>5. m - 1 \in 0..n /\ m - 1 \notin T
  BY <1>2, <1>3, <1>4
<1>6. PICK u : Values(u, d, m - 1)
  BY <1>5
<1> DEFINE w == [i \in 0..m |-> IF i = m THEN u[m - 1] * Base + d[m] ELSE u[i]]
<1>7. /\ u \in [0..(m - 1) -> Nat] /\ u[0] = 0
      /\ \A i \in 1..(m - 1) : u[i] = u[i - 1] * Base + d[i]
  BY <1>6, Zenon DEF Values, ValueStep
<1>8. u[m - 1] * Base + d[m] \in Nat
  <2>1. u[m - 1] \in Nat /\ d[m] \in Nat
    BY <1>3, <1>4, <1>7
  <2>2. \A x, y, z \in Nat : x * y + z \in Nat
    OBVIOUS
  <2> QED
    BY <2>1, <2>2, BaseType
<1>9. w \in [0..m -> Nat] /\ w[0] = 0
  BY <1>3, <1>4, <1>7, <1>8
<1>10. ASSUME NEW i \in 1..m
       PROVE  w[i] = w[i - 1] * Base + d[i]
  <2>1. CASE i = m
    <3>1. w[i] = u[m - 1] * Base + d[m] /\ w[i - 1] = u[m - 1]
      BY <1>3, <1>4, <2>1
    <3> QED
      BY <2>1, <3>1, Zenon
  <2>2. CASE i # m
    <3>1. i \in 1..(m - 1) /\ w[i] = u[i] /\ w[i - 1] = u[i - 1]
      BY <1>3, <1>4, <2>2
    <3> QED
      BY <1>7, <3>1, Zenon
  <2> QED
    BY <2>1, <2>2
<1> HIDE DEF w
<1>11. Values(w, d, m)
  BY <1>9, <1>10, Zenon DEF Values, ValueStep
<1> QED
  BY <1>3, <1>11

(* Value is the last of these values. *)
LEMMA ValueIs ==
    ASSUME NEW n \in Nat, NEW d \in [1..n -> Byte]
    PROVE  \E v : Values(v, d, n) /\ Value(d) = v[n]
<1> DEFINE F(v) == [i \in 0..n |-> IF i = 0 THEN 0 ELSE v[i - 1] * Base + d[i]]
           w == CHOOSE v : v = F(v)
<1>1. Len(d) = n /\ d \in [1..n -> Nat]
  <2>1. Len(d) = n
    OBVIOUS
  <2>2. d \in [1..n -> Nat]
    BY BaseType
  <2> QED
    BY <2>1, <2>2
<1>2. PICK u : Values(u, d, n)
  BY <1>1, ValuesExist
<1>3. /\ u \in [0..n -> Nat] /\ u[0] = 0
      /\ \A i \in 1..n : u[i] = u[i - 1] * Base + d[i]
  BY <1>2, Zenon DEF Values, ValueStep
<1>4. \A i \in 0..n : i = 0 \/ i \in 1..n
  OBVIOUS
<1>5. \A i \in 0..n : u[i] = IF i = 0 THEN 0 ELSE u[i - 1] * Base + d[i]
  BY <1>3, <1>4, Zenon
<1>6. u = F(u)
  BY <1>3, <1>5, Zenon
<1>7. w = F(w)
  BY <1>6, Zenon
<1>8. Value(d) = w[n]
  BY <1>1, Zenon DEF Value
<1> HIDE DEF w
<1>9. \A i \in 0..n : w[i] = IF i = 0 THEN 0 ELSE w[i - 1] * Base + d[i]
  BY <1>7, Zenon
<1> DEFINE T == {i \in 0..n : w[i] # u[i]}
<1>10. T = {}
  <2>1. SUFFICES ASSUME T # {} PROVE FALSE
    OBVIOUS
  <2>2. PICK i \in T : \A y \in T : i <= y
    <3>1. T \subseteq Nat
      OBVIOUS
    <3> HIDE DEF T
    <3> QED
      BY <2>1, <3>1, LeastNatural
  <2>3. i # 0
    BY <1>3, <1>9
  <2>4. i - 1 \in 0..n /\ i - 1 \notin T
    BY <2>2, <2>3
  <2>5. w[i - 1] = u[i - 1]
    BY <2>4
  <2>6. w[i] = u[i]
    BY <1>5, <1>9, <2>3, <2>5, Zenon
  <2> QED
    BY <2>6
<1>11. w[n] = u[n]
  BY <1>10
<1> QED
  BY <1>2, <1>8, <1>11

(* A number has one quotient and one last digit. *)
LEMMA LastDigit ==
    ASSUME NEW x \in Nat, NEW y \in Nat, NEW r \in Byte, NEW s \in Byte,
           x * Base + r = y * Base + s
    PROVE  x = y /\ r = s
<1>1. Base \in Nat /\ r \in 0..(Base - 1) /\ s \in 0..(Base - 1)
  BY BaseType DEF Byte
<1>2. ASSUME NEW a \in Nat, NEW b \in Nat, NEW p \in 0..(Base - 1), NEW q \in 0..(Base - 1),
             a < b
      PROVE  a * Base + p < b * Base + q
  <2>1. (a + 1) * Base <= b * Base
    <3>1. \A k, l, m \in Nat : k <= l => k * m <= l * m
      OBVIOUS
    <3> QED
      BY <1>1, <1>2, <3>1
  <2>2. (a + 1) * Base = a * Base + Base
    BY <1>1
  <2>3. a * Base \in Nat /\ b * Base \in Nat
    BY <1>1
  <2> QED
    BY <1>1, <2>1, <2>2, <2>3
<1>3. x * Base + r \in Nat
  BY <1>1
<1>4. ~(x < y) /\ ~(y < x)
  BY <1>1, <1>2, <1>3
<1>5. x = y
  BY <1>4
<1> QED
  BY <1>1, <1>5

(* Digits are determined by their number and their value. *)
LEMMA DigitsUnique ==
    ASSUME NEW n \in Nat, NEW a \in [1..n -> Byte], NEW b \in [1..n -> Byte],
           Value(a) = Value(b)
    PROVE  a = b
<1>1. PICK u : Values(u, a, n) /\ Value(a) = u[n]
  BY ValueIs
<1>2. PICK v : Values(v, b, n) /\ Value(b) = v[n]
  BY ValueIs
<1>3. /\ u \in [0..n -> Nat] /\ \A i \in 1..n : u[i] = u[i - 1] * Base + a[i]
      /\ v \in [0..n -> Nat] /\ \A i \in 1..n : v[i] = v[i - 1] * Base + b[i]
  BY <1>1, <1>2, Zenon DEF Values, ValueStep
<1>4. ASSUME NEW i \in 1..n, u[i] = v[i]
      PROVE  u[i - 1] = v[i - 1] /\ a[i] = b[i]
  <2>1. i - 1 \in 0..n
    OBVIOUS
  <2>2. u[i - 1] \in Nat /\ v[i - 1] \in Nat /\ a[i] \in Byte /\ b[i] \in Byte
    BY <1>3, <2>1
  <2>3. u[i - 1] * Base + a[i] = v[i - 1] * Base + b[i]
    BY <1>3, <1>4, Zenon
  <2> QED
    BY <2>2, <2>3, LastDigit
<1> DEFINE T == {k \in 0..n : u[n - k] # v[n - k]}
<1>5. T = {}
  <2>1. SUFFICES ASSUME T # {} PROVE FALSE
    OBVIOUS
  <2>2. PICK k \in T : \A y \in T : k <= y
    <3>1. T \subseteq Nat
      OBVIOUS
    <3> HIDE DEF T
    <3> QED
      BY <2>1, <3>1, LeastNatural
  <2>3. k # 0
    <3>1. u[n] = v[n]
      BY <1>1, <1>2, Zenon
    <3>2. n - 0 = n
      OBVIOUS
    <3> QED
      BY <3>1, <3>2
  <2>4. k - 1 \in 0..n /\ k - 1 \notin T
    BY <2>2, <2>3
  <2>5. n - (k - 1) \in 1..n /\ (n - (k - 1)) - 1 = n - k
    BY <2>3
  <2>6. u[n - (k - 1)] = v[n - (k - 1)]
    BY <2>4
  <2>7. u[n - k] = v[n - k]
    BY <1>4, <2>5, <2>6
  <2> QED
    BY <2>7
<1>6. ASSUME NEW i \in 1..n
      PROVE  a[i] = b[i]
  <2>1. n - i \in 0..n /\ n - (n - i) = i
    OBVIOUS
  <2>2. n - i \notin T
    BY <1>5
  <2>3. u[i] = v[i]
    BY <2>1, <2>2
  <2> QED
    BY <1>4, <2>3
<1> QED
  BY <1>6

-----------------------------------------------------------------------------
(* Numbers as bytes *)

(* The digits of a value are what BigEndian finds again. *)
LEMMA BigEndianOfValue ==
    ASSUME NEW w \in Nat, NEW d \in [1..w -> Byte]
    PROVE  BigEndian(Value(d), w) = d
<1> DEFINE e == BigEndian(Value(d), w)
<1>1. e \in [1..w -> Byte] /\ Value(e) = Value(d)
  BY Zenon DEF BigEndian
<1> HIDE DEF e
<1>2. e = d
  BY <1>1, DigitsUnique
<1> QED
  BY <1>2 DEF e

LEMMA Uint64Bytes ==
    ASSUME NEW n \in Uint64Values
    PROVE  BigEndian(n, Width) \in [1..Width -> Byte] /\ Value(BigEndian(n, Width)) = n
BY Zenon DEF BigEndian, Uint64Values

(* Functions on 1..n are strings of length n. *)
LEMMA IsString ==
    ASSUME NEW A, NEW n \in Nat, NEW f \in [1..n -> A]
    PROVE  f \in Seq(A) /\ Len(f) = n
OBVIOUS

(* A commitment has a last leading zero. *)
LEMMA LeadingZeros ==
    ASSUME NEW n \in Nat, NEW d \in [1..n -> Byte]
    PROVE  \E z \in 0..n : (\A i \in 1..z : d[i] = 0) /\ (z < n => d[z + 1] # 0)
<1> DEFINE T == {i \in 1..n : d[i] # 0}
<1>1. CASE T = {}
  <2>1. n \in 0..n /\ (\A i \in 1..n : d[i] = 0) /\ ~(n < n)
    BY <1>1
  <2> QED
    BY <2>1
<1>2. CASE T # {}
  <2>1. PICK k \in T : \A y \in T : k <= y
    <3>1. T \subseteq Nat
      OBVIOUS
    <3> HIDE DEF T
    <3> QED
      BY <1>2, <3>1, LeastNatural
  <2>2. k - 1 \in 0..n /\ (k - 1) + 1 = k /\ d[k] # 0
    OBVIOUS
  <2>3. \A i \in 1..(k - 1) : d[i] = 0
    BY <2>1
  <2> QED
    BY <2>2, <2>3
<1> QED
  BY <1>1, <1>2

(* Every commitment is the same after its way through an integer, leading   *)
(* zeros included (Commitment.Uint256, CommitmentFromUint256).              *)
THEOREM RoundTrip ==
    ASSUME NEW c \in Commitment
    PROVE  CommitmentFromUint256(Uint256(c)) = c
<1> DEFINE n == DigestLen
           Lead(z) == (\A i \in 1..z : c[i] = 0) /\ (z < n => c[z + 1] # 0)
           zeros == CHOOSE z \in 0..n : Lead(z)
           bytes == SubSeq(c, zeros + 1, n)
<1>1. n \in Nat /\ c \in [1..n -> Byte]
  BY CommitmentAssumption DEF Commitment
<1>2. BigEndian(Uint256(c), n) = c
  BY <1>1, BigEndianOfValue DEF Uint256
<1>3. Bytes(Uint256(c)) = bytes
  BY <1>2, Zenon DEF Bytes
<1>4. \E z \in 0..n : Lead(z)
  BY <1>1, LeadingZeros
<1>5. zeros \in 0..n /\ Lead(zeros)
  BY <1>4, Zenon
<1>6. CommitmentFromUint256(Uint256(c)) = [i \in 1..(n - Len(bytes)) |-> 0] \o bytes
  BY <1>3, Zenon DEF CommitmentFromUint256
<1> HIDE DEF zeros, n
<1>7. \A i \in 1..zeros : c[i] = 0
  BY <1>5
<1>8. c \in Seq(Byte) /\ Len(c) = n
  BY <1>1
<1>9. /\ bytes \in Seq(Byte) /\ Len(bytes) = n - zeros
      /\ \A i \in 1..(n - zeros) : bytes[i] = c[zeros + i]
  BY <1>1, <1>5, <1>8
<1> HIDE DEF bytes
<1> DEFINE pad == [i \in 1..(n - Len(bytes)) |-> 0]
<1>10. n - Len(bytes) = zeros
  BY <1>1, <1>5, <1>9
<1>11. pad = [i \in 1..zeros |-> 0]
  BY <1>10
<1>12. pad \in Seq(Byte) /\ Len(pad) = zeros /\ \A i \in 1..zeros : pad[i] = 0
  <2>1. 0 \in Byte /\ zeros \in Nat
    BY <1>1, <1>5, BaseType
  <2>2. pad \in [1..zeros -> Byte] /\ \A i \in 1..zeros : pad[i] = 0
    BY <1>11, <2>1
  <2> HIDE DEF pad
  <2> QED
    BY <2>1, <2>2, IsString
<1> HIDE DEF pad
<1>13. pad \o bytes \in Seq(Byte) /\ Len(pad \o bytes) = n
  <2>1. pad \o bytes \in Seq(Byte) /\ Len(pad \o bytes) = Len(pad) + Len(bytes)
    BY <1>9, <1>12, ConcatProperties
  <2> QED
    BY <1>1, <1>5, <1>9, <1>12, <2>1
<1>14. ASSUME NEW i \in 1..n
       PROVE  (pad \o bytes)[i] = c[i]
  <2>1. CASE i \in 1..zeros
    BY <1>7, <1>9, <1>12, <2>1
  <2>2. CASE i \notin 1..zeros
    <3>1. i - zeros \in 1..(n - zeros) /\ zeros + (i - zeros) = i
      BY <1>1, <1>5, <2>2
    <3>2. (pad \o bytes)[i] = bytes[i - zeros]
      BY <1>1, <1>5, <1>9, <1>12, <2>2
    <3> QED
      BY <1>9, <3>1, <3>2
  <2> QED
    BY <2>1, <2>2
<1>15. pad \o bytes = c
  BY <1>1, <1>8, <1>13, <1>14
<1> QED
  BY <1>6, <1>15 DEF pad

-----------------------------------------------------------------------------
(* What is written to the hasher *)

(* Equal strings that are put together from pieces of equal length have    *)
(* equal pieces.                                                           *)
LEMMA SamePieces ==
    ASSUME NEW A, NEW s \in Seq(A), NEW t \in Seq(A), NEW u \in Seq(A), NEW v \in Seq(A),
           Len(s) = Len(t), s \o u = t \o v
    PROVE  s = t /\ u = v
<1>1. Len(s) \in Nat /\ Len(u) \in Nat /\ Len(v) \in Nat
  OBVIOUS
<1>2. Len(s \o u) = Len(s) + Len(u) /\ Len(t \o v) = Len(s) + Len(v)
  <2>1. Len(s \o u) = Len(s) + Len(u)
    BY ConcatProperties
  <2>2. Len(t \o v) = Len(t) + Len(v)
    BY ConcatProperties
  <2> QED
    BY <2>1, <2>2
<1>3. Len(u) = Len(v)
  BY <1>1, <1>2
<1>4. \A i \in 1..Len(s) : s[i] = t[i]
  <2>1. SUFFICES ASSUME NEW i \in 1..Len(s) PROVE s[i] = t[i]
    OBVIOUS
  <2>2. (s \o u)[i] = s[i] /\ (t \o v)[i] = t[i]
    OBVIOUS
  <2> QED
    BY <2>2
<1>5. \A i \in 1..Len(u) : u[i] = v[i]
  <2>1. SUFFICES ASSUME NEW i \in 1..Len(u) PROVE u[i] = v[i]
    OBVIOUS
  <2>2. (s \o u)[Len(s) + i] = u[i]
    BY <1>1
  <2>3. (t \o v)[Len(s) + i] = v[i]
    BY <1>1, <1>3
  <2> QED
    BY <2>2, <2>3
<1>6. s = t
  BY <1>4, SeqEqual
<1>7. u = v
  BY <1>3, <1>5, SeqEqual
<1> QED
  BY <1>6, <1>7

(* The bytes that are written. *)
Written == Byte \cup {InvalidUtf8} \cup {Char(s) : s \in {Names[i] : i \in 1..7}}

LEMMA WrittenChars ==
    /\ Char("BLOCK") \in Written /\ Char("height") \in Written
    /\ Char("timestamp") \in Written /\ Char("l1_head") \in Written
    /\ Char("transactions_root") \in Written
    /\ Char("NMTROOT") \in Written /\ Char("root") \in Written
<1>1. /\ Names[1] = "BLOCK" /\ Names[2] = "height" /\ Names[3] = "timestamp"
      /\ Names[4] = "l1_head" /\ Names[5] = "transactions_root"
      /\ Names[6] = "NMTROOT" /\ Names[7] = "root"
  BY DEF Names
<1>2. /\ 1 \in 1..7 /\ 2 \in 1..7 /\ 3 \in 1..7 /\ 4 \in 1..7 /\ 5 \in 1..7
      /\ 6 \in 1..7 /\ 7 \in 1..7
  OBVIOUS
<1>3. \A i \in 1..7 : Char(Names[i]) \in Written
  BY Zenon DEF Written
<1> QED
  BY <1>1, <1>2, <1>3

LEMMA ConstantStringIs ==
    ASSUME NEW s, Char(s) \in Written, NEW b \in Seq(Written)
    PROVE  /\ ConstantString(b, s) \in Seq(Written)
           /\ Len(ConstantString(b, s)) = Len(b) + 2
           /\ ConstantString(b, s) = b \o <<Char(s), InvalidUtf8>>
<1>1. InvalidUtf8 \in Written
  BY DEF Written
<1> QED
  BY <1>1 DEF ConstantString, FixedSizeBytes

LEMMA NewBuilderIs ==
    ASSUME NEW s, Char(s) \in Written
    PROVE  NewRawCommitmentBuilder(s) \in Seq(Written)
<1>1. << >> \in Seq(Written)
  OBVIOUS
<1>2. ConstantString(<< >>, s) \in Seq(Written)
  BY <1>1, ConstantStringIs
<1> QED
  BY <1>2 DEF NewRawCommitmentBuilder

(* A number field: the name and as many bytes for every number, so that it *)
(* can be read back.                                                       *)
LEMMA Uint64FieldIs ==
    ASSUME NEW s, Char(s) \in Written, NEW b \in Seq(Written), NEW n \in Uint64Values
    PROVE  /\ Uint64Field(b, s, n) \in Seq(Written)
           /\ Len(Uint64Field(b, s, n)) = Len(b) + 2 + Width
<1> DEFINE d == BigEndian(n, Width)
<1>1. d \in Seq(Written) /\ Len(d) = Width
  <2>1. d \in [1..Width -> Byte] /\ Width \in Nat /\ Byte \subseteq Written
    BY Uint64Bytes, CommitmentAssumption DEF Written
  <2> HIDE DEF d
  <2>2. d \in [1..Width -> Written]
    BY <2>1
  <2> QED
    BY <2>1, <2>2
<1>2. Uint64Field(b, s, n) = ConstantString(b, s) \o d
  BY Zenon DEF Uint64Field, Uint64, FixedSizeBytes
<1> HIDE DEF d
<1>3. ConstantString(b, s) \in Seq(Written) /\ Len(ConstantString(b, s)) = Len(b) + 2
  BY ConstantStringIs
<1> DEFINE p == ConstantString(b, s)
<1> HIDE DEF p
<1>4. p \in Seq(Written) /\ Len(p) = Len(b) + 2
  BY <1>3 DEF p
<1>5. p \o d \in Seq(Written) /\ Len(p \o d) = Len(p) + Len(d)
  BY <1>1, <1>4, ConcatProperties
<1> QED
  BY <1>1, <1>2, <1>4, <1>5 DEF p

LEMMA Uint64FieldBinds ==
    ASSUME NEW s, Char(s) \in Written, NEW b \in Seq(Written), NEW c \in Seq(Written),
           Len(b) = Len(c), NEW n \in Uint64Values, NEW m \in Uint64Values,
           Uint64Field(b, s, n) = Uint64Field(c, s, m)
    PROVE  b = c /\ n = m
<1> DEFINE d == BigEndian(n, Width)
           e == BigEndian(m, Width)
           x == ConstantString(b, s)
           y == ConstantString(c, s)
           t == <<Char(s), InvalidUtf8>>
<1>1. /\ d \in [1..Width -> Byte] /\ Value(d) = n
      /\ e \in [1..Width -> Byte] /\ Value(e) = m
  BY Uint64Bytes
<1>2. x \o d = y \o e
  BY Zenon DEF Uint64Field, Uint64, FixedSizeBytes
<1>3. /\ x \in Seq(Written) /\ Len(x) = Len(b) + 2 /\ x = b \o t
      /\ y \in Seq(Written) /\ Len(y) = Len(c) + 2 /\ y = c \o t
  BY ConstantStringIs
<1> HIDE DEF d, e, x, y
<1>4. d \in Seq(Written) /\ e \in Seq(Written)
  <2>1. Width \in Nat /\ Byte \subseteq Written
    BY CommitmentAssumption DEF Written
  <2>2. d \in [1..Width -> Written] /\ e \in [1..Width -> Written]
    BY <1>1, <2>1
  <2> QED
    BY <2>1, <2>2
<1>5. x = y /\ d = e
  <2>1. Len(x) = Len(y)
    BY <1>3
  <2>2. x \in Seq(Written) /\ y \in Seq(Written)
    BY <1>3
  <2> QED
    BY <1>2, <1>4, <2>1, <2>2, SamePieces
<1>6. t \in Seq(Written)
  BY DEF Written
<1> HIDE DEF t
<1>7. b = c
  BY <1>3, <1>5, <1>6, SamePieces
<1> QED
  BY <1>1, <1>5, <1>7

(* The length of a root and the root can be told apart, whatever the root. *)
LEMMA NmtRootBinds ==
    ASSUME NEW r \in Roots, NEW s \in Roots, NmtRootBytes(r) = NmtRootBytes(s)
    PROVE  r = s
<1> DEFINE b == NewRawCommitmentBuilder("NMTROOT")
           x == Uint64Field(b, "root", Len(r))
           y == Uint64Field(b, "root", Len(s))
<1>1. b \in Seq(Written)
  BY WrittenChars, NewBuilderIs
<1>2. x \o r = y \o s
  BY Zenon DEF NmtRootBytes, VarSizeField, VarSizeBytes, Uint64Field
<1>3. Len(r) \in Uint64Values /\ Len(s) \in Uint64Values
  BY CommitmentAssumption
<1> HIDE DEF b
<1>4. x \in Seq(Written) /\ y \in Seq(Written) /\ Len(x) = Len(y)
  BY <1>1, <1>3, WrittenChars, Uint64FieldIs
<1> HIDE DEF x, y
<1>5. r \in Seq(Written) /\ s \in Seq(Written)
  <2>1. Byte \subseteq Written /\ r \in Seq(Byte) /\ s \in Seq(Byte)
    BY CommitmentAssumption DEF Written
  <2> QED
    BY <2>1
<1> QED
  BY <1>2, <1>4, <1>5, SamePieces

(* Header.Commit writes every field where it can be found again. *)
LEMMA HeaderBinds ==
    ASSUME NEW a \in Header, NEW b \in Header, NEW r \in Digests, NEW s \in Digests,
           HeaderBytes(a, r) = HeaderBytes(b, s)
    PROVE  /\ a.Height = b.Height /\ a.Timestamp = b.Timestamp /\ a.L1Head = b.L1Head
           /\ r = s
<1> DEFINE n == NewRawCommitmentBuilder("BLOCK")
           a1 == Uint64Field(n, "height", a.Height)
           a2 == Uint64Field(a1, "timestamp", a.Timestamp)
           a3 == Uint64Field(a2, "l1_head", a.L1Head)
           a4 == ConstantString(a3, "transactions_root")
           b1 == Uint64Field(n, "height", b.Height)
           b2 == Uint64Field(b1, "timestamp", b.Timestamp)
           b3 == Uint64Field(b2, "l1_head", b.L1Head)
           b4 == ConstantString(b3, "transactions_root")
<1>1. a4 \o r = b4 \o s
  BY Zenon DEF HeaderBytes, Field, FixedSizeBytes
<1>2. /\ a.Height \in Uint64Values /\ a.Timestamp \in Uint64Values /\ a.L1Head \in Uint64Values
      /\ b.Height \in Uint64Values /\ b.Timestamp \in Uint64Values /\ b.L1Head \in Uint64Values
  BY CommitmentAssumption DEF Header
<1>3. n \in Seq(Written)
  BY WrittenChars, NewBuilderIs
<1> HIDE DEF n
<1>4. /\ a1 \in Seq(Written) /\ Len(a1) = Len(n) + 2 + Width
      /\ b1 \in Seq(Written) /\ Len(b1) = Len(n) + 2 + Width
  BY <1>2, <1>3, WrittenChars, Uint64FieldIs
<1>5. ASSUME a1 = b1
      PROVE  a.Height = b.Height
  BY <1>2, <1>3, <1>5, WrittenChars, Uint64FieldBinds
<1> HIDE DEF a1, b1
<1>6. /\ a2 \in Seq(Written) /\ Len(a2) = Len(a1) + 2 + Width
      /\ b2 \in Seq(Written) /\ Len(b2) = Len(b1) + 2 + Width
  BY <1>2, <1>4, WrittenChars, Uint64FieldIs
<1>7. ASSUME a2 = b2
      PROVE  a1 = b1 /\ a.Timestamp = b.Timestamp
  BY <1>2, <1>4, <1>7, WrittenChars, Uint64FieldBinds
<1> HIDE DEF a2, b2
<1>8. /\ a3 \in Seq(Written) /\ Len(a3) = Len(a2) + 2 + Width
      /\ b3 \in Seq(Written) /\ Len(b3) = Len(b2) + 2 + Width
  BY <1>2, <1>6, WrittenChars, Uint64FieldIs
<1>9. ASSUME a3 = b3
      PROVE  a2 = b2 /\ a.L1Head = b.L1Head
  <2>1. Len(a2) = Len(b2)
    BY <1>4, <1>6
  <2> QED
    BY <1>2, <1>6, <1>9, <2>1, WrittenChars, Uint64FieldBinds
<1> HIDE DEF a3, b3
<1> DEFINE t == <<Char("transactions_root"), InvalidUtf8>>
<1>10. /\ a4 \in Seq(Written) /\ Len(a4) = Len(a3) + 2 /\ a4 = a3 \o t
       /\ b4 \in Seq(Written) /\ Len(b4) = Len(b3) + 2 /\ b4 = b3 \o t
  BY <1>8, WrittenChars, ConstantStringIs
<1>11. t \in Seq(Written)
  BY WrittenChars DEF Written
<1> HIDE DEF a4, b4, t
<1>12. Len(a3) = Len(b3) /\ Len(a4) = Len(b4)
  BY <1>4, <1>6, <1>8, <1>10
<1>13. r \in Seq(Written) /\ s \in Seq(Written)
  <2>1. Byte \subseteq Written /\ r \in [1..DigestLen -> Byte] /\ s \in [1..DigestLen -> Byte]
        /\ DigestLen \in Nat
    BY CommitmentAssumption DEF Written, Commitment
  <2>2. r \in [1..DigestLen -> Written] /\ s \in [1..DigestLen -> Written]
    BY <2>1
  <2> QED
    BY <2>1, <2>2, IsString
<1>14. a4 = b4 /\ r = s
  <2>1. a4 \in Seq(Written) /\ b4 \in Seq(Written)
    BY <1>10
  <2> QED
    BY <1>1, <1>12, <1>13, <2>1, SamePieces
<1>15. a3 = b3
  <2>1. a3 \o t = b3 \o t
    BY <1>10, <1>14
  <2> QED
    BY <1>8, <1>11, <1>12, <2>1, SamePieces
<1> QED
  BY <1>5, <1>7, <1>9, <1>14, <1>15

-----------------------------------------------------------------------------
(* The hash *)

(* No input has two digests and no digest two inputs. *)
OneToOne(k) == \A p, q \in k : p[1] = q[1] <=> p[2] = q[2]

(* The hash k has been asked for the commitment c to header hd. *)
Committed(hd, r, c, k) ==
    <<NmtRootBytes(hd.Root), r>> \in k /\ <<HeaderBytes(hd, r), c>> \in k

LEMMA FinalizeIs ==
    ASSUME NEW b, NEW d, NEW k, NEW known, OneToOne(known), Finalize(b, d, k, known)
    PROVE  OneToOne(k) /\ known \subseteq k /\ <<b, d>> \in k
<1>1. k = known \cup {<<b, d>>} /\ \A p \in known : p[1] = b <=> p[2] = d
  BY DEF Finalize
<1>2. ASSUME NEW p \in k, NEW q \in k
      PROVE  p[1] = q[1] <=> p[2] = q[2]
  <2>1. CASE p \in known /\ q \in known
    BY <2>1 DEF OneToOne
  <2>2. CASE p \in known /\ q = <<b, d>>
    BY <1>1, <2>2
  <2>3. CASE p = <<b, d>> /\ q \in known
    BY <1>1, <2>3
  <2>4. CASE p = <<b, d>> /\ q = <<b, d>>
    BY <2>4
  <2> QED
    BY <1>1, <2>1, <2>2, <2>3, <2>4
<1> QED
  BY <1>1, <1>2 DEF OneToOne

LEMMA CommitIs ==
    ASSUME NEW hd, NEW c, NEW k, NEW known, OneToOne(known), Commit(hd, c, k, known)
    PROVE  /\ OneToOne(k) /\ known \subseteq k
           /\ \E r \in Digests : Committed(hd, r, c, k)
<1>1. PICK r \in Digests :
         LET nmt == known \cup {<<NmtRootBytes(hd.Root), r>>}
         IN  /\ Finalize(NmtRootBytes(hd.Root), r, nmt, known)
             /\ Finalize(HeaderBytes(hd, r), c, k, nmt)
  BY DEF Commit
<1> DEFINE nmt == known \cup {<<NmtRootBytes(hd.Root), r>>}
<1>2. Finalize(NmtRootBytes(hd.Root), r, nmt, known) /\ Finalize(HeaderBytes(hd, r), c, k, nmt)
  BY <1>1
<1> HIDE DEF nmt
<1>3. OneToOne(nmt) /\ known \subseteq nmt /\ <<NmtRootBytes(hd.Root), r>> \in nmt
  BY <1>2, FinalizeIs
<1>4. OneToOne(k) /\ nmt \subseteq k /\ <<HeaderBytes(hd, r), c>> \in k
  BY <1>2, <1>3, FinalizeIs
<1> QED
  BY <1>3, <1>4 DEF Committed

(* Under any ideal hash the commitments to two headers are equal exactly    *)
(* when the headers are (Header.Commit, NmtRoot.Commit).                    *)
THEOREM CommitmentBinds ==
    ASSUME NEW a \in Header, NEW b \in Header, NEW k, OneToOne(k),
           NEW r \in Digests, NEW s \in Digests, NEW c, NEW d,
           Committed(a, r, c, k), Committed(b, s, d, k)
    PROVE  c = d <=> a = b
<1> DEFINE nr == <<NmtRootBytes(a.Root), r>>
           ns == <<NmtRootBytes(b.Root), s>>
           hr == <<HeaderBytes(a, r), c>>
           hs == <<HeaderBytes(b, s), d>>
<1>1. nr \in k /\ ns \in k /\ hr \in k /\ hs \in k
  BY DEF Committed
<1>2. /\ nr[1] = NmtRootBytes(a.Root) /\ nr[2] = r
      /\ ns[1] = NmtRootBytes(b.Root) /\ ns[2] = s
      /\ hr[1] = HeaderBytes(a, r) /\ hr[2] = c
      /\ hs[1] = HeaderBytes(b, s) /\ hs[2] = d
  OBVIOUS
<1> HIDE DEF nr, ns, hr, hs
<1>3. /\ NmtRootBytes(a.Root) = NmtRootBytes(b.Root) <=> r = s
      /\ HeaderBytes(a, r) = HeaderBytes(b, s) <=> c = d
  <2>1. nr[1] = ns[1] <=> nr[2] = ns[2]
    BY <1>1, Zenon DEF OneToOne
  <2>2. hr[1] = hs[1] <=> hr[2] = hs[2]
    BY <1>1, Zenon DEF OneToOne
  <2> QED
    BY <1>2, <2>1, <2>2, Zenon
<1>4. ASSUME c = d
      PROVE  a = b
  <2>1. HeaderBytes(a, r) = HeaderBytes(b, s)
    BY <1>3, <1>4
  <2>2. /\ a.Height = b.Height /\ a.Timestamp = b.Timestamp /\ a.L1Head = b.L1Head
        /\ r = s
    BY <2>1, HeaderBinds
  <2>3. a.Root = b.Root
    <3>1. a.Root \in Roots /\ b.Root \in Roots
      BY DEF Header
    <3> QED
      BY <1>3, <2>2, <3>1, NmtRootBinds
  <2> QED
    BY <2>2, <2>3 DEF Header
<1>5. ASSUME a = b
      PROVE  c = d
  <2>1. r = s
    BY <1>3, <1>5, Zenon
  <2>2. HeaderBytes(a, r) = HeaderBytes(b, s)
    BY <1>5, <2>1, Zenon
  <2> QED
    BY <1>3, <2>2
<1> QED
  BY <1>4, <1>5

-----------------------------------------------------------------------------
(* Decoding *)

(* A decoded header is one, and is all of the object. *)
LEMMA UnmarshalIs ==
    ASSUME NEW o \in HeaderJSON, NEW old, ~UnmarshalJSON(o, old).error
    PROVE  /\ UnmarshalJSON(o, old).h \in Header
           /\ MarshalJSON(UnmarshalJSON(o, old).h) = o
<1> DEFINE P(n) == /\ \A i \in 1..n : o[Members[i]] # Absent
                   /\ n < 4 => o[Members[n + 1]] = Absent
           n == IF NmtRootMissing(o) THEN 0 ELSE Present(o)
<1>1. UnmarshalJSON(o, old).error = (n < 4)
  BY Zenon DEF UnmarshalJSON
<1>2. \E m \in 0..4 : P(m)
  <2>1. CASE o[Members[1]] = Absent
    <3>1. P(0)
      BY <2>1
    <3> QED
      BY <3>1
  <2>2. CASE o[Members[1]] # Absent /\ o[Members[2]] = Absent
    <3>1. P(1)
      BY <2>2
    <3> QED
      BY <3>1
  <2>3. CASE /\ o[Members[1]] # Absent /\ o[Members[2]] # Absent
             /\ o[Members[3]] = Absent
    <3>1. P(2)
      <4>1. \A i \in 1..2 : i = 1 \/ i = 2
        OBVIOUS
      <4> QED
        BY <2>3, <4>1
    <3> QED
      BY <3>1
  <2>4. CASE /\ o[Members[1]] # Absent /\ o[Members[2]] # Absent
             /\ o[Members[3]] # Absent /\ o[Members[4]] = Absent
    <3>1. P(3)
      <4>1. \A i \in 1..3 : i = 1 \/ i = 2 \/ i = 3
        OBVIOUS
      <4> QED
        BY <2>4, <4>1
    <3> QED
      BY <3>1
  <2>5. CASE /\ o[Members[1]] # Absent /\ o[Members[2]] # Absent
             /\ o[Members[3]] # Absent /\ o[Members[4]] # Absent
    <3>1. P(4)
      <4>1. \A i \in 1..4 : i = 1 \/ i = 2 \/ i = 3 \/ i = 4
        OBVIOUS
      <4> QED
        BY <2>5, <4>1
    <3> QED
      BY <3>1
  <2> QED
    BY <2>1, <2>2, <2>3, <2>4, <2>5
<1>3. Present(o) \in 0..4 /\ P(Present(o))
  BY <1>2, Zenon DEF Present
<1>4. ~NmtRootMissing(o) /\ Present(o) = 4 /\ n = 4
  <2>1. ~(n < 4)
    BY <1>1, Zenon
  <2>2. Present(o) \in 0..4
    BY <1>3
  <2> QED
    BY <2>1, <2>2
<1>5. \A i \in 1..4 : o[Members[i]] # Absent
  BY <1>3, <1>4
<1>6. /\ Members[1] = "height" /\ Members[2] = "timestamp" /\ Members[3] = "l1_head"
      /\ Members[4] = "transactions_root"
  BY DEF Members
<1>7. /\ o.height # Absent /\ o.timestamp # Absent /\ o.l1_head # Absent
      /\ o.transactions_root # Absent
  <2>1. 1 \in 1..4 /\ 2 \in 1..4 /\ 3 \in 1..4 /\ 4 \in 1..4
    OBVIOUS
  <2> QED
    BY <1>5, <1>6, <2>1, Zenon
<1>8. /\ o.height \in Numbers /\ o.timestamp \in Numbers /\ o.l1_head \in Numbers
      /\ o.transactions_root \in [root : Optional(Roots)]
      /\ o = [height |-> o.height, timestamp |-> o.timestamp, l1_head |-> o.l1_head,
              transactions_root |-> o.transactions_root]
  BY <1>7 DEF HeaderJSON, Optional
<1>9. /\ o.transactions_root.root \in Roots
      /\ o.transactions_root = [root |-> o.transactions_root.root]
  <2>1. o.transactions_root.root # Absent
    BY <1>4, <1>7 DEF NmtRootMissing
  <2> QED
    BY <1>8, <2>1 DEF Optional
<1> DEFINE g == [Height |-> o.height, Timestamp |-> o.timestamp, L1Head |-> o.l1_head,
                 Root |-> o.transactions_root.root]
<1>10. UnmarshalJSON(o, old).h = g
  <2>1. UnmarshalJSON(o, old).h =
           [Height |-> IF n >= 1 THEN o.height ELSE old.Height,
            Timestamp |-> IF n >= 2 THEN o.timestamp ELSE old.Timestamp,
            L1Head |-> IF n >= 3 THEN o.l1_head ELSE old.L1Head,
            Root |-> IF n = 4 THEN o.transactions_root.root ELSE old.Root]
    BY Zenon DEF UnmarshalJSON
  <2> HIDE DEF n
  <2>2. n >= 1 /\ n >= 2 /\ n >= 3 /\ n = 4
    BY <1>4
  <2> QED
    BY <2>1, <2>2, Zenon
<1>11. g \in Header
  BY <1>8, <1>9 DEF Header
<1>12. MarshalJSON(g) = o
  <2>1. MarshalJSON(g) = [height |-> o.height, timestamp |-> o.timestamp,
                          l1_head |-> o.l1_head,
                          transactions_root |-> [root |-> o.transactions_root.root]]
    BY DEF MarshalJSON
  <2> HIDE DEF g
  <2> QED
    BY <1>8, <1>9, <2>1, Zenon
<1> QED
  BY <1>10, <1>11, <1>12, Zenon

-----------------------------------------------------------------------------
(* The inductive invariant *)

(* The root that was published is the commitment to the block's header. *)
RootPublished ==
    root # Absent => \E r, c \in Digests : Committed(row, r, c, keccak) /\ root = Uint256(c)

(* The client has an answer only about a header. *)
DecodedHeader == client \notin {"start", "error"} => h \in Header

Inv ==
    /\ row \in Header
    /\ OneToOne(keccak)
    /\ RootPublished
    /\ DecodedHeader
    /\ DecodedIsComplete
    /\ VerifiedIsGenuine
    /\ GenuineVerifies

LEMMA InitInv ==
    ASSUME Init
    PROVE  Inv
BY DEF Init, Inv, OneToOne, RootPublished, DecodedHeader, DecodedIsComplete,
       VerifiedIsGenuine, GenuineVerifies

LEMMA GetCommitmentBlocksInv ==
    ASSUME Inv, GetCommitmentBlocks
    PROVE  Inv'
<1>1. PICK c \in Digests : Commit(row, c, keccak', keccak) /\ root' = Uint256(c)
  BY DEF GetCommitmentBlocks
<1>2. OneToOne(keccak') /\ \E r \in Digests : Committed(row, r, c, keccak')
  BY <1>1, CommitIs DEF Inv
<1>3. UNCHANGED <<row, obj, h, client>>
  BY DEF GetCommitmentBlocks
<1>4. RootPublished'
  <2>1. PICK r \in Digests : Committed(row, r, c, keccak')
    BY <1>2
  <2>2. Committed(row', r, c, keccak') /\ root' = Uint256(c)
    BY <1>1, <1>3, <2>1
  <2> QED
    BY <2>2, Zenon DEF RootPublished
<1> QED
  BY <1>2, <1>3, <1>4
     DEF Inv, DecodedHeader, DecodedIsComplete, VerifiedIsGenuine, GenuineVerifies

LEMMA DecodeInv ==
    ASSUME Inv, NEW o \in HeaderJSON, Decode(o)
    PROVE  Inv'
<1>1. /\ obj' = o /\ h' = UnmarshalJSON(o, h).h
      /\ client' = IF UnmarshalJSON(o, h).error THEN "error" ELSE "decoded"
      /\ UNCHANGED <<row, keccak, root>>
  BY DEF Decode
<1>2. DecodedHeader' /\ DecodedIsComplete'
  <2>1. CASE UnmarshalJSON(o, h).error
    BY <1>1, <2>1 DEF DecodedHeader, DecodedIsComplete
  <2>2. CASE ~UnmarshalJSON(o, h).error
    BY <1>1, <2>2, UnmarshalIs DEF DecodedHeader, DecodedIsComplete
  <2> QED
    BY <2>1, <2>2
<1>3. client' \notin {"equal", "different"}
  BY <1>1
<1>4. RootPublished'
  BY <1>1 DEF Inv, RootPublished
<1> QED
  BY <1>1, <1>2, <1>3, <1>4 DEF Inv, VerifiedIsGenuine, GenuineVerifies

LEMMA VerifyInv ==
    ASSUME Inv, Verify
    PROVE  Inv'
<1>1. /\ client = "decoded" /\ root # Absent /\ UNCHANGED <<row, root, obj, h>>
  BY DEF Verify
<1>2. PICK c \in Digests :
         /\ Commit(h, c, keccak', keccak)
         /\ client' = IF CommitmentFromUint256(root) = c THEN "equal" ELSE "different"
  BY DEF Verify
<1>3. /\ OneToOne(keccak') /\ keccak \subseteq keccak'
      /\ \E r \in Digests : Committed(h, r, c, keccak')
  BY <1>2, CommitIs DEF Inv
<1>4. PICK r \in Digests : Committed(h, r, c, keccak')
  BY <1>3
<1>5. PICK s \in Digests, d \in Digests : Committed(row, s, d, keccak) /\ root = Uint256(d)
  BY <1>1 DEF Inv, RootPublished
<1>6. Committed(row, s, d, keccak')
  BY <1>3, <1>5 DEF Committed
<1>7. h \in Header /\ row \in Header
  BY <1>1 DEF Inv, DecodedHeader
<1>8. c = d <=> h = row
  BY <1>3, <1>4, <1>6, <1>7, CommitmentBinds
<1>9. CommitmentFromUint256(root) = d
  <2>1. d \in Commitment
    BY CommitmentAssumption
  <2> QED
    BY <1>5, <2>1, RoundTrip
<1>10. client' = IF h = row THEN "equal" ELSE "different"
  BY <1>2, <1>8, <1>9
<1>11. VerifiedIsGenuine' /\ GenuineVerifies'
  BY <1>1, <1>10 DEF VerifiedIsGenuine, GenuineVerifies
<1>12. RootPublished'
  <2>1. Committed(row', s, d, keccak') /\ root' = Uint256(d)
    BY <1>1, <1>5, <1>6
  <2> QED
    BY <2>1, Zenon DEF RootPublished
<1>13. DecodedHeader' /\ DecodedIsComplete'
  BY <1>1, <1>7 DEF Inv, DecodedHeader, DecodedIsComplete
<1>14. row' \in Header
  BY <1>1, <1>7
<1> QED
  BY <1>3, <1>11, <1>12, <1>13, <1>14 DEF Inv

LEMMA NextInv ==
    ASSUME Inv, [Next]_vars
    PROVE  Inv'
<1>1. CASE UNCHANGED vars
  BY <1>1 DEF vars, Inv, RootPublished, DecodedHeader, DecodedIsComplete,
              VerifiedIsGenuine, GenuineVerifies
<1>2. CASE Next
  BY <1>1, <1>2, GetCommitmentBlocksInv, DecodeInv, VerifyInv DEF Next, Done
<1> QED
  BY <1>1, <1>2

LEMMA InvAlways == Spec => []Inv
BY InitInv, NextInv, PTL DEF Spec

-----------------------------------------------------------------------------
(* Theorems *)

(* Header.Commit binds every field: a header whose commitment equals the    *)
(* root the node published is the header of the block.                      *)
THEOREM OnlyGenuineVerifies == Spec => []VerifiedIsGenuine
<1>1. Inv => VerifiedIsGenuine
  BY DEF Inv
<1> QED
  BY <1>1, InvAlways, PTL

(* The root survives its way through an integer: a client with the header   *)
(* of the block finds the commitments equal (CommitmentFromUint256).        *)
THEOREM GenuineAlwaysVerifies == Spec => []GenuineVerifies
<1>1. Inv => GenuineVerifies
  BY DEF Inv
<1> QED
  BY <1>1, InvAlways, PTL

(* A header is only decoded from an object that has all its members         *)
(* (Header.UnmarshalJSON, NmtRoot.UnmarshalJSON).                           *)
THEOREM DecodesAllMembers == Spec => []DecodedIsComplete
<1>1. Inv => DecodedIsComplete
  BY DEF Inv
<1> QED
  BY <1>1, InvAlways, PTL
=============================================================================
