------------------------ MODULE BlockExecutionProofs ------------------------
(***************************************************************************)
(* Proofs about parallel execution, for every block, state, fee and order  *)
(* in which the workers run.                                               *)
(***************************************************************************)
EXTENDS BlockExecution, TLAPS

-----------------------------------------------------------------------------
(* Lists of anything *)

IsList(s) == Len(s) \in Nat /\ s = [i \in 1..Len(s) |-> s[i]]

LEMMA AppendList ==
    ASSUME NEW s, IsList(s), NEW x
    PROVE  /\ IsList(Append(s, x))
           /\ Len(Append(s, x)) = Len(s) + 1
           /\ Append(s, x)[Len(s) + 1] = x
           /\ \A i \in 1..Len(s) : Append(s, x)[i] = s[i]
<1> DEFINE n == Len(s)
           T == {s[i] : i \in 1..n} \cup {x}
<1>1. n \in Nat /\ s \in [1..n -> T]
  BY DEF IsList
<1>2. x \in T
  OBVIOUS
<1> HIDE DEF T
<1>3. s \in Seq(T)
  BY <1>1
<1>4. Append(s, x) \in Seq(T)
  BY <1>2, <1>3
<1>5. /\ Len(Append(s, x)) = n + 1 /\ Append(s, x)[n + 1] = x
      /\ \A i \in 1..n : Append(s, x)[i] = s[i]
  BY <1>2, <1>3
<1>6. IsList(Append(s, x))
  <2> DEFINE a == Append(s, x)
  <2>1. a \in Seq(T)
    BY <1>4
  <2> HIDE DEF a
  <2>2. Len(a) \in Nat /\ a \in [1..Len(a) -> T]
    BY <2>1
  <2>3. IsList(a)
    BY <2>2 DEF IsList
  <2> QED
    BY <2>3 DEF a
<1> QED
  BY <1>5, <1>6

-----------------------------------------------------------------------------
(* Declarations cover executions *)

(* A state of the database: a map of all keys. *)
IsState(d) == d = [k \in Keys |-> d[k]]

(* The map f of permissions allows what execution x does on state d. *)
Covers(f, d, x) ==
    /\ \A k \in x.reads : k \in DOMAIN f /\ "read" \in f[k]
    /\ \A i \in 1..Len(x.writes) :
          x.writes[i].key \in DOMAIN f /\ "write" \in f[x.writes[i].key]
    /\ x.ok => \A i \in 1..Len(x.writes) :
          /\ ValueAfter(d, x.writes, i - 1, x.writes[i].key) = Absent
          /\ x.writes[i].value # Absent
          => "allocate" \in f[x.writes[i].key]

(* Two states agree on the keys of a map. *)
Agree(K, d, e) == \A k \in K : d[k] = e[k]

LEMMA KeysAre ==
    /\ \A a \in Addresses \cup {Fund} : BalanceKey(a) \in Keys
    /\ \A e \in Epochs : ArcadiaBidKey(e) \in Keys /\ EpochExitsKey(e) \in Keys
    /\ \A ns \in Namespaces : RollupInfoKey(ns) \in Keys
    /\ RollupRegistryKey \in Keys
BY DEF Keys

LEMMA ExitsKeyDiffers ==
    ASSUME NEW e, NEW ns
    PROVE  EpochExitsKey(e) # RollupRegistryKey /\ EpochExitsKey(e) # RollupInfoKey(ns)
BY DEF EpochExitsKey, RollupRegistryKey, RollupInfoKey

(* Before the first write of an execution every key has its old value. *)
LEMMA NothingWritten ==
    ASSUME NEW d, NEW writes, NEW k
    PROVE  ValueAfter(d, writes, 1 - 1, k) = d[k]
<1>1. {i \in 1..(1 - 1) : writes[i].key = k} = {}
  OBVIOUS
<1> QED
  BY <1>1 DEF ValueAfter

(* A deduction that succeeds from an account without a record leaves it    *)
(* without one, so it needs no permission to allocate.                     *)
LEMMA SubNeverAllocates ==
    ASSUME NEW d, NEW a, NEW n \in Nat, Balance(d, a) >= n
    PROVE  d[BalanceKey(a)] = Absent => SubBalance(d, a, n).value = Absent
BY DEF Balance, SubBalance

LEMMA DeductCovered ==
    ASSUME NEW actor \in Addresses, NEW d, NEW e,
           Agree(DOMAIN SponsorStateKeys(actor), d, e)
    PROVE  /\ DOMAIN SponsorStateKeys(actor) \subseteq Keys
           /\ Covers(SponsorStateKeys(actor), d, Deduct(d, actor))
           /\ Deduct(d, actor) = Deduct(e, actor)
<1> DEFINE f == SponsorStateKeys(actor)
           b == BalanceKey(actor)
           x == Deduct(d, actor)
<1>1. DOMAIN f = {b} /\ f[b] = {"read", "write"}
  BY DEF SponsorStateKeys, Entry, Read, Write
<1>2. b \in Keys
  BY KeysAre
<1>3. /\ x.reads = {b} /\ x.writes = <<SubBalance(d, actor, Fee)>>
      /\ x.ok = (Balance(d, actor) >= Fee)
  BY DEF Deduct
<1>4. /\ Len(x.writes) = 1 /\ x.writes[1].key = b
      /\ x.writes[1].value = SubBalance(d, actor, Fee).value
  BY <1>3 DEF SubBalance
<1>5. x.ok /\ d[b] = Absent => x.writes[1].value = Absent
  BY <1>3, <1>4, SubNeverAllocates, BlockAssumption
<1>6. ValueAfter(d, x.writes, 1 - 1, b) = d[b]
  BY NothingWritten
<1>7. d[b] = e[b]
  BY <1>1 DEF Agree
<1>8. Deduct(d, actor) = Deduct(e, actor)
  BY <1>7 DEF Deduct, SubBalance, Balance
<1> HIDE DEF f, b, x
<1>9. Covers(f, d, x)
  BY <1>1, <1>3, <1>4, <1>5, <1>6 DEF Covers
<1> QED
  BY <1>1, <1>2, <1>8, <1>9 DEF f, b, x

(* What a payment writes. *)
LEMMA PayWrites ==
    ASSUME NEW d, NEW from, NEW to, NEW n
    PROVE  /\ Len(Pay(d, from, to, n)) = 2
           /\ Pay(d, from, to, n)[1] = SubBalance(d, from, n)
           /\ Pay(d, from, to, n)[1].key = BalanceKey(from)
           /\ Pay(d, from, to, n)[2].key = BalanceKey(to)
BY DEF Pay, SubBalance, AddBalance

(* A payment depends on the two balances only. *)
LEMMA PayLocal ==
    ASSUME NEW d, NEW e, IsState(d), IsState(e), NEW from, NEW to, NEW n,
           BalanceKey(from) \in Keys, BalanceKey(to) \in Keys,
           d[BalanceKey(from)] = e[BalanceKey(from)],
           d[BalanceKey(to)] = e[BalanceKey(to)]
    PROVE  Pay(d, from, to, n) = Pay(e, from, to, n)
<1>1. SubBalance(d, from, n) = SubBalance(e, from, n)
  BY DEF SubBalance, Balance
<1> DEFINE s == SubBalance(d, from, n)
           v == s.value
<1>2. s.key = BalanceKey(from)
  BY DEF SubBalance
<1> HIDE DEF s
<1>3. [d EXCEPT ![s.key] = v][BalanceKey(to)] = [e EXCEPT ![s.key] = v][BalanceKey(to)]
  BY <1>2 DEF IsState
<1>4. AddBalance([d EXCEPT ![s.key] = v], to, n) = AddBalance([e EXCEPT ![s.key] = v], to, n)
  BY <1>3 DEF AddBalance, Balance
<1> QED
  BY <1>1, <1>4 DEF Pay, s

(* What an action does on d is covered by its StateKeys and is the same on *)
(* a state e that agrees with d on them.                                   *)
Declared(actor, act, d, e) ==
    LET f == StateKeys(actor, act)
    IN  /\ DOMAIN f \subseteq Keys
        /\ Covers(f, d, Execute(d, actor, act))
        /\ Agree(DOMAIN f, d, e) => Execute(d, actor, act) = Execute(e, actor, act)

LEMMA TransferDeclared ==
    ASSUME NEW actor \in Addresses, NEW d, NEW e, IsState(d), IsState(e),
           NEW act \in [type : {"transfer"}, to : Addresses, value : Nat]
    PROVE  Declared(actor, act, d, e)
<1> DEFINE f == TransferKeys(actor, act)
           p == BalanceKey(actor)
           q == BalanceKey(act.to)
           x == Transfer(d, actor, act)
           n == act.value
<1>1. /\ StateKeys(actor, act) = f /\ Execute(d, actor, act) = x
      /\ Execute(e, actor, act) = Transfer(e, actor, act)
  BY DEF StateKeys, Execute
<1>2. /\ DOMAIN f = {p, q}
      /\ {"read", "write"} \subseteq f[p] /\ f[q] = {"read", "write", "allocate"}
  BY DEF TransferKeys, Over, Entry, Read, Write, Allocate, All
<1>3. p \in Keys /\ q \in Keys /\ n \in Nat
  BY KeysAre
<1>4. /\ x.reads = {p, q} /\ x.writes = Pay(d, actor, act.to, n)
      /\ x.ok => Balance(d, actor) >= n
  BY DEF Transfer
<1>5. /\ Len(x.writes) = 2 /\ x.writes[1].key = p /\ x.writes[2].key = q
      /\ x.writes[1].value = SubBalance(d, actor, n).value
  BY <1>4, PayWrites
<1>6. x.ok /\ d[p] = Absent => x.writes[1].value = Absent
  BY <1>3, <1>4, <1>5, SubNeverAllocates
<1>7. ValueAfter(d, x.writes, 1 - 1, p) = d[p]
  BY NothingWritten
<1>8. ASSUME Agree(DOMAIN f, d, e)
      PROVE  x = Transfer(e, actor, act)
  <2>1. d[p] = e[p] /\ d[q] = e[q]
    BY <1>2, <1>8 DEF Agree
  <2>2. Pay(d, actor, act.to, n) = Pay(e, actor, act.to, n)
    BY <1>3, <2>1, PayLocal
  <2> QED
    BY <2>1, <2>2 DEF Transfer, Balance
<1> HIDE DEF f, p, q, x, n
<1>9. Covers(f, d, x)
  <2>1. \A i \in 1..Len(x.writes) : i = 1 \/ i = 2
    BY <1>5
  <2> QED
    BY <1>2, <1>4, <1>5, <1>6, <1>7, <2>1 DEF Covers
<1>10. DOMAIN f \subseteq Keys
  BY <1>2, <1>3
<1> QED
  BY <1>1, <1>8, <1>9, <1>10 DEF Declared

LEMMA AuctionDeclared ==
    ASSUME NEW actor \in Addresses, NEW d, NEW e, IsState(d), IsState(e),
           NEW act \in [type : {"auction"}, builder : Addresses, epoch : Epochs, price : Nat]
    PROVE  Declared(actor, act, d, e)
<1> DEFINE f == AuctionKeys(actor, act)
           p == BalanceKey(act.builder)
           q == BalanceKey(Fund)
           b == ArcadiaBidKey(act.epoch)
           x == Auction(d, actor, act)
           n == act.price
           w == Pay(d, act.builder, Fund, n)
<1>1. /\ StateKeys(actor, act) = f /\ Execute(d, actor, act) = x
      /\ Execute(e, actor, act) = Auction(e, actor, act)
  BY DEF StateKeys, Execute
<1>2. /\ DOMAIN f = {p, q, b}
      /\ {"read", "write"} \subseteq f[p] /\ f[q] = {"read", "write", "allocate"}
      /\ f[b] = {"read", "write", "allocate"}
  BY DEF AuctionKeys, Over, Entry, Read, Write, Allocate, All
<1>3. p \in Keys /\ q \in Keys /\ b \in Keys /\ n \in Nat
  BY KeysAre
<1>4. /\ x.reads = {p, q}
      /\ x.writes = Append(w, [key |-> b, value |-> act.builder])
      /\ x.ok => Balance(d, act.builder) >= n
  BY DEF Auction
<1>5. /\ Len(w) = 2 /\ w[1].key = p /\ w[2].key = q
      /\ w[1].value = SubBalance(d, act.builder, n).value
  BY PayWrites
<1>6. IsList(w)
  BY DEF IsList, Pay
<1>7. /\ Len(x.writes) = 3 /\ x.writes[1].key = p /\ x.writes[2].key = q
      /\ x.writes[3].key = b /\ x.writes[1].value = w[1].value
  <2> DEFINE r == [key |-> b, value |-> act.builder]
             y == x.writes
  <2>1. r.key = b
    OBVIOUS
  <2>2. y = Append(w, r)
    BY <1>4
  <2> HIDE DEF w, r, b
  <2>3. /\ Len(Append(w, r)) = Len(w) + 1 /\ Append(w, r)[Len(w) + 1] = r
        /\ \A i \in 1..Len(w) : Append(w, r)[i] = w[i]
    BY <1>6, AppendList
  <2>4. Len(y) = 3 /\ y[1] = w[1] /\ y[2] = w[2] /\ y[3] = r
    <3> HIDE DEF y
    <3> QED
      BY <1>5, <2>2, <2>3
  <2> HIDE DEF x, p, q
  <2> QED
    BY <1>5, <2>1, <2>4
<1>8. x.ok /\ d[p] = Absent => x.writes[1].value = Absent
  BY <1>3, <1>4, <1>5, <1>7, SubNeverAllocates
<1>9. ValueAfter(d, x.writes, 1 - 1, p) = d[p]
  BY NothingWritten
<1>10. ASSUME Agree(DOMAIN f, d, e)
       PROVE  x = Auction(e, actor, act)
  <2>1. d[p] = e[p] /\ d[q] = e[q]
    BY <1>2, <1>10 DEF Agree
  <2>2. Pay(d, act.builder, Fund, n) = Pay(e, act.builder, Fund, n)
    BY <1>3, <2>1, PayLocal
  <2> QED
    BY <2>1, <2>2 DEF Auction, Balance
<1> HIDE DEF f, p, q, b, x, n, w
<1>11. Covers(f, d, x)
  <2>1. \A i \in 1..Len(x.writes) : i = 1 \/ i = 2 \/ i = 3
    BY <1>7
  <2> QED
    BY <1>2, <1>4, <1>7, <1>8, <1>9, <2>1 DEF Covers
<1>12. DOMAIN f \subseteq Keys
  BY <1>2, <1>3
<1> QED
  BY <1>1, <1>10, <1>11, <1>12 DEF Declared

LEMMA RegistrationDeclared ==
    ASSUME NEW actor \in Addresses, NEW d, NEW e, IsState(d), IsState(e),
           NEW act \in [type : {"register"}, op : {"create", "update", "exit"}, ns : Namespaces,
                        info : [authority : Addresses, start : Nat, exit : Nat]]
    PROVE  Declared(actor, act, d, e)
<1> DEFINE f == RegistrationKeys(actor, act)
           p == RollupRegistryKey
           q == RollupInfoKey(act.ns)
           x == Registration(d, actor, act)
<1>1. /\ StateKeys(actor, act) = f /\ Execute(d, actor, act) = x
      /\ Execute(e, actor, act) = Registration(e, actor, act)
  BY DEF StateKeys, Execute
<1>2. /\ DOMAIN f = {p, q}
      /\ f[p] = {"read", "write", "allocate"} /\ f[q] = {"read", "write", "allocate"}
  BY DEF RegistrationKeys, Over, Entry, Read, Write, Allocate, All
<1>3. p \in Keys /\ q \in Keys
  BY KeysAre
<1>4. /\ x.reads \subseteq {p, q} /\ Len(x.writes) = 2
      /\ x.writes[1].key = q /\ x.writes[2].key = p
  BY DEF Registration
<1>5. ASSUME Agree(DOMAIN f, d, e)
      PROVE  x = Registration(e, actor, act)
  <2>1. d[p] = e[p] /\ d[q] = e[q]
    BY <1>2, <1>5 DEF Agree
  <2> QED
    BY <2>1 DEF Registration
<1> HIDE DEF f, p, q, x
<1>6. Covers(f, d, x)
  <2>1. \A i \in 1..Len(x.writes) : i = 1 \/ i = 2
    BY <1>4
  <2> QED
    BY <1>2, <1>4, <2>1 DEF Covers
<1>7. DOMAIN f \subseteq Keys
  BY <1>2, <1>3
<1> QED
  BY <1>1, <1>5, <1>6, <1>7 DEF Declared

LEMMA ExitDeclared ==
    ASSUME NEW actor \in Addresses, NEW d, NEW e, IsState(d), IsState(e),
           NEW act \in [type : {"exit"}, ns : Namespaces, epoch : Epochs, create : BOOLEAN]
    PROVE  Declared(actor, act, d, e)
<1> DEFINE f == EpochExitKeys(actor, act)
           p == RollupRegistryKey
           q == RollupInfoKey(act.ns)
           b == EpochExitsKey(act.epoch)
           x == EpochExit(d, actor, act)
<1>1. /\ StateKeys(actor, act) = f /\ Execute(d, actor, act) = x
      /\ Execute(e, actor, act) = EpochExit(e, actor, act)
  BY DEF StateKeys, Execute
<1>2. /\ DOMAIN f = {p, q, b}
      /\ f[p] = {"read"} /\ f[q] = {"read"} /\ f[b] = {"read", "write", "allocate"}
  <2>1. b # p /\ b # q
    BY ExitsKeyDiffers
  <2> HIDE DEF p, q, b
  <2> QED
    BY <2>1 DEF EpochExitKeys, Over, Entry, Read, Write, Allocate, All, p, q, b
<1>3. p \in Keys /\ q \in Keys /\ b \in Keys
  BY KeysAre
<1>4. x.reads = {p, q, b} /\ Len(x.writes) = 1 /\ x.writes[1].key = b
  BY DEF EpochExit
<1>5. ASSUME Agree(DOMAIN f, d, e)
      PROVE  x = EpochExit(e, actor, act)
  <2>1. d[p] = e[p] /\ d[q] = e[q] /\ d[b] = e[b]
    BY <1>2, <1>5 DEF Agree
  <2> QED
    BY <2>1 DEF EpochExit
<1> HIDE DEF f, p, q, b, x
<1>6. Covers(f, d, x)
  <2>1. \A i \in 1..Len(x.writes) : i = 1
    BY <1>4
  <2> QED
    BY <1>2, <1>4, <2>1 DEF Covers
<1>7. DOMAIN f \subseteq Keys
  BY <1>2, <1>3
<1> QED
  BY <1>1, <1>5, <1>6, <1>7 DEF Declared

LEMMA MsgDeclared ==
    ASSUME NEW actor \in Addresses, NEW d, NEW e, NEW act \in [type : {"msg"}]
    PROVE  Declared(actor, act, d, e)
<1>1. /\ StateKeys(actor, act) = << >> /\ Execute(d, actor, act) = SequencerMsg
      /\ Execute(e, actor, act) = SequencerMsg
  BY DEF StateKeys, Execute, MsgKeys
<1>2. SequencerMsg.reads = {} /\ Len(SequencerMsg.writes) = 0
  BY DEF SequencerMsg
<1>3. Covers(<< >>, d, SequencerMsg)
  BY <1>2 DEF Covers
<1> QED
  BY <1>1, <1>3 DEF Declared

LEMMA ActionDeclared ==
    ASSUME NEW actor \in Addresses, NEW act \in Action,
           NEW d, NEW e, IsState(d), IsState(e)
    PROVE  Declared(actor, act, d, e)
BY TransferDeclared, AuctionDeclared, RegistrationDeclared, ExitDeclared, MsgDeclared DEF Action

-----------------------------------------------------------------------------
(* Steps of a transaction *)

TouchKeys(t) == {k \in Keys : Scope(t)[k] # {}}
WriteKeys(t) == {k \in Keys : "write" \in Scope(t)[k]}

LEMMA WritersTouch ==
    ASSUME NEW t
    PROVE  WriteKeys(t) \subseteq TouchKeys(t)
BY DEF WriteKeys, TouchKeys

(* The scope of a transaction has what the fee and each action declare. *)
LEMMA ScopeHas ==
    ASSUME NEW t \in Transaction, NEW f, DOMAIN f \subseteq Keys,
           \/ f = SponsorStateKeys(t.actor)
           \/ \E i \in 1..Len(t.actions) : f = StateKeys(t.actor, t.actions[i])
    PROVE  \A k \in DOMAIN f : f[k] \subseteq Scope(t)[k]
<1> DEFINE declared == {SponsorStateKeys(t.actor)}
                       \cup {StateKeys(t.actor, t.actions[i]) : i \in 1..Len(t.actions)}
<1>1. f \in declared
  OBVIOUS
<1>2. \A k \in Keys :
          Scope(t)[k] = UNION {h[k] : h \in {g \in declared : k \in DOMAIN g}}
  BY DEF Scope
<1> HIDE DEF declared
<1> SUFFICES ASSUME NEW k \in DOMAIN f
             PROVE  f[k] \subseteq Scope(t)[k]
  OBVIOUS
<1>3. f \in {g \in declared : k \in DOMAIN g}
  BY <1>1
<1>4. f[k] \in {h[k] : h \in {g \in declared : k \in DOMAIN g}}
  BY <1>3
<1> QED
  BY <1>2, <1>4

LEMMA CoversInScope ==
    ASSUME NEW t \in Transaction, NEW f, DOMAIN f \subseteq Keys, NEW d, NEW x,
           \/ f = SponsorStateKeys(t.actor)
           \/ \E i \in 1..Len(t.actions) : f = StateKeys(t.actor, t.actions[i]),
           Covers(f, d, x)
    PROVE  /\ InScope(Scope(t), d, x)
           /\ InScope(Everything, d, x)
           /\ \A i \in 1..Len(x.writes) : x.writes[i].key \in WriteKeys(t)
<1>1. \A k \in DOMAIN f : f[k] \subseteq Scope(t)[k]
  BY ScopeHas
<1>2. \A k \in x.reads : k \in Keys /\ "read" \in Scope(t)[k]
  BY <1>1 DEF Covers
<1>3. \A i \in 1..Len(x.writes) :
          x.writes[i].key \in Keys /\ "write" \in Scope(t)[x.writes[i].key]
  BY <1>1 DEF Covers
<1>4. x.ok => \A i \in 1..Len(x.writes) :
          /\ ValueAfter(d, x.writes, i - 1, x.writes[i].key) = Absent
          /\ x.writes[i].value # Absent
          => "allocate" \in Scope(t)[x.writes[i].key]
  BY <1>1 DEF Covers
<1>5. InScope(Scope(t), d, x)
  BY <1>2, <1>3, <1>4 DEF InScope
<1>6. \A k \in Keys : "read" \in Everything[k] /\ "write" \in Everything[k]
                      /\ "allocate" \in Everything[k]
  BY DEF Everything, All, Read, Write, Allocate
<1>7. InScope(Everything, d, x)
  BY <1>2, <1>3, <1>6 DEF InScope
<1> QED
  BY <1>3, <1>5, <1>7 DEF WriteKeys

(* What step n of transaction t executes. *)
Executed(t, n, v) ==
    IF n = 0 THEN Deduct(v, t.actor) ELSE Execute(v, t.actor, t.actions[n])

(* Every key an action or the fee declares is declared with a permission. *)
Readable(f) == \A k \in DOMAIN f : "read" \in f[k]

LEMMA OverReadable ==
    ASSUME NEW f, NEW g, Readable(f), Readable(g)
    PROVE  Readable(Over(f, g))
BY DEF Readable, Over

LEMMA EntryReadable ==
    ASSUME NEW k, NEW p, "read" \in p
    PROVE  Readable(Entry(k, p))
BY DEF Readable, Entry

LEMMA KeysGranted ==
    ASSUME NEW actor
    PROVE  /\ Readable(SponsorStateKeys(actor))
           /\ \A act \in Action : Readable(StateKeys(actor, act))
<1>1. "read" \in Read /\ "read" \in Read \cup Write /\ "read" \in All
      /\ "read" \in Write \cup Allocate
  BY DEF Read, Write, Allocate, All
<1>2. Readable(SponsorStateKeys(actor))
  BY <1>1, EntryReadable DEF SponsorStateKeys
<1>3. ASSUME NEW act \in Action
      PROVE  Readable(StateKeys(actor, act))
  <2>1. Readable(TransferKeys(actor, act))
    BY <1>1, EntryReadable, OverReadable DEF TransferKeys
  <2>2. Readable(AuctionKeys(actor, act))
    BY <1>1, EntryReadable, OverReadable DEF AuctionKeys
  <2>3. Readable(RegistrationKeys(actor, act))
    BY <1>1, EntryReadable, OverReadable DEF RegistrationKeys
  <2>4. Readable(EpochExitKeys(actor, act))
    BY <1>1, EntryReadable, OverReadable DEF EpochExitKeys
  <2>5. Readable(MsgKeys(actor, act))
    BY DEF Readable, MsgKeys
  <2>6. \/ act.type = "transfer" \/ act.type = "auction" \/ act.type = "register"
        \/ act.type = "exit" \/ act.type = "msg"
    BY DEF Action
  <2> QED
    BY <2>1, <2>2, <2>3, <2>4, <2>5, <2>6 DEF StateKeys
<1> QED
  BY <1>2, <1>3

LEMMA ExecutedInScope ==
    ASSUME NEW t \in Transaction, NEW n \in 0..Len(t.actions),
           NEW v, NEW w, IsState(v), IsState(w), Agree(TouchKeys(t), v, w)
    PROVE  /\ Executed(t, n, v) = Executed(t, n, w)
           /\ InScope(Scope(t), v, Executed(t, n, v))
           /\ InScope(Everything, w, Executed(t, n, v))
           /\ \A i \in 1..Len(Executed(t, n, v).writes) :
                 Executed(t, n, v).writes[i].key \in WriteKeys(t)
<1>0. t.actor \in Addresses /\ t.actions \in Seq(Action)
  BY DEF Transaction
<1>1. CASE n = 0
  <2> DEFINE f == SponsorStateKeys(t.actor)
             x == Deduct(v, t.actor)
  <2>1. DOMAIN f \subseteq Keys
    BY <1>0, DeductCovered DEF Agree
  <2>2. \A k \in DOMAIN f : "read" \in f[k]
    BY KeysGranted DEF Readable
  <2>3. DOMAIN f \subseteq TouchKeys(t)
    <3>1. \A k \in DOMAIN f : f[k] \subseteq Scope(t)[k]
      BY <2>1, ScopeHas
    <3> QED
      BY <2>1, <2>2, <3>1 DEF TouchKeys
  <2>4. Agree(DOMAIN f, v, w) /\ Agree(DOMAIN f, w, v)
    BY <2>3 DEF Agree
  <2>5. Covers(f, v, x) /\ x = Deduct(w, t.actor) /\ Covers(f, w, Deduct(w, t.actor))
    BY <1>0, <2>4, DeductCovered
  <2>6. Executed(t, n, v) = x /\ Executed(t, n, w) = Deduct(w, t.actor)
    BY <1>1 DEF Executed
  <2> HIDE DEF f, x
  <2>7. /\ InScope(Scope(t), v, x)
        /\ \A i \in 1..Len(x.writes) : x.writes[i].key \in WriteKeys(t)
    BY <2>1, <2>5, CoversInScope DEF f
  <2>8. InScope(Everything, w, x)
    BY <2>1, <2>5, CoversInScope DEF f
  <2> QED
    BY <2>5, <2>6, <2>7, <2>8
<1>2. CASE n # 0
  <2> DEFINE act == t.actions[n]
             f == StateKeys(t.actor, act)
             x == Execute(v, t.actor, act)
             y == Execute(w, t.actor, act)
  <2>0. n \in 1..Len(t.actions) /\ act \in Action
    BY <1>0, <1>2
  <2>1. /\ DOMAIN f \subseteq Keys /\ Covers(f, v, x) /\ Covers(f, w, y)
        /\ Agree(DOMAIN f, v, w) => x = y
    BY <1>0, <2>0, ActionDeclared DEF Declared
  <2>2. \A k \in DOMAIN f : "read" \in f[k]
    BY <2>0, KeysGranted DEF Readable
  <2>3. DOMAIN f \subseteq TouchKeys(t)
    <3>1. \A k \in DOMAIN f : f[k] \subseteq Scope(t)[k]
      BY <2>0, <2>1, ScopeHas
    <3> QED
      BY <2>1, <2>2, <3>1 DEF TouchKeys
  <2>4. x = y
    BY <2>1, <2>3 DEF Agree
  <2>6. Executed(t, n, v) = x /\ Executed(t, n, w) = y
    BY <1>2 DEF Executed
  <2>5. \E i \in 1..Len(t.actions) : f = StateKeys(t.actor, t.actions[i])
    BY <2>0
  <2> HIDE DEF f, x, y
  <2>7. /\ InScope(Scope(t), v, x)
        /\ \A i \in 1..Len(x.writes) : x.writes[i].key \in WriteKeys(t)
    BY <2>1, <2>5, CoversInScope
  <2>8. InScope(Everything, w, x)
    BY <2>1, <2>4, <2>5, CoversInScope
  <2> QED
    BY <2>4, <2>6, <2>7, <2>8
<1> QED
  BY <1>1, <1>2

(* A map of some of the keys that transaction t may write. *)
IsWrites(t, w) == DOMAIN w \subseteq WriteKeys(t) /\ w = [k \in DOMAIN w |-> w[k]]

(* How far transaction t has run, within its scope. *)
WellRun(t, r) ==
    /\ r.next \in Nat
    /\ r.result = Absent => r.next <= Len(t.actions)
    /\ IsWrites(t, r.writes)
    /\ IsWrites(t, r.paid)
    /\ r.result # "scope"

LEMMA FreshWellRun ==
    ASSUME NEW t \in Transaction
    PROVE  WellRun(t, Fresh)
<1>1. IsWrites(t, << >>)
  BY DEF IsWrites
<1>2. Len(t.actions) \in Nat
  BY DEF Transaction
<1> QED
  BY <1>1, <1>2, BlockAssumption DEF WellRun, Fresh

LEMMA OverState ==
    ASSUME NEW t, NEW w, IsWrites(t, w), NEW d, IsState(d)
    PROVE  /\ IsState(Over(w, d))
           /\ \A k \in DOMAIN w : Over(w, d)[k] = w[k]
           /\ \A k \in Keys \ DOMAIN w : Over(w, d)[k] = d[k]
<1>1. DOMAIN d = Keys /\ DOMAIN w \subseteq Keys
  BY DEF IsState, IsWrites, WriteKeys
<1>2. Over(w, d) = [k \in Keys |-> IF k \in DOMAIN w THEN w[k] ELSE d[k]]
  BY <1>1 DEF Over
<1> QED
  BY <1>1, <1>2 DEF IsState

(* The key one of the writes has gets a written value, any other key keeps *)
(* its own.                                                                *)
LEMMA ValueAfterLocal ==
    ASSUME NEW v, NEW w, NEW writes, NEW n, NEW k,
           v[k] = w[k] \/ \E i \in 1..n : writes[i].key = k
    PROVE  ValueAfter(v, writes, n, k) = ValueAfter(w, writes, n, k)
<1> DEFINE ws == {i \in 1..n : writes[i].key = k}
<1>1. CASE ws = {}
  BY <1>1 DEF ValueAfter
<1>2. CASE ws # {}
  BY <1>2 DEF ValueAfter
<1> QED
  BY <1>1, <1>2

(* Two states that agree on the keys a transaction touches are the same to *)
(* it, and its declarations restrict it in nothing.                        *)
LEMMA StepLocal ==
    ASSUME NEW t \in Transaction, NEW d, NEW e, IsState(d), IsState(e),
           Agree(TouchKeys(t), d, e),
           NEW r, WellRun(t, r), r.result = Absent
    PROVE  /\ Step(t, d, Scope(t), r) = Step(t, e, Everything, r)
           /\ WellRun(t, Step(t, d, Scope(t), r))
<1> DEFINE v == Over(r.writes, d)
           w == Over(r.writes, e)
           x == Executed(t, r.next, v)
           keys == DOMAIN r.writes \cup {x.writes[i].key : i \in 1..Len(x.writes)}
           wv == Written(v, r.writes, x)
           ww == Written(w, r.writes, x)
<1>0. Len(t.actions) \in Nat /\ r.next \in 0..Len(t.actions)
  BY DEF WellRun, Transaction
<1>1. /\ IsState(v) /\ IsState(w)
      /\ \A k \in DOMAIN r.writes : v[k] = r.writes[k] /\ w[k] = r.writes[k]
      /\ \A k \in Keys \ DOMAIN r.writes : v[k] = d[k] /\ w[k] = e[k]
  BY OverState DEF WellRun
<1> HIDE DEF v, w
<1>2. Agree(TouchKeys(t), v, w)
  BY <1>1 DEF Agree, TouchKeys
<1>3. /\ Executed(t, r.next, w) = x
      /\ InScope(Scope(t), v, x) /\ InScope(Everything, w, x)
      /\ \A i \in 1..Len(x.writes) : x.writes[i].key \in WriteKeys(t)
  BY <1>0, <1>1, <1>2, ExecutedInScope
<1>4. Result(Scope(t), v, x) = (IF x.ok THEN "success" ELSE "failed")
      /\ Result(Everything, w, x) = (IF x.ok THEN "success" ELSE "failed")
  BY <1>3 DEF Result
<1> HIDE DEF x
<1>5. wv = ww
  <2>1. \A k \in keys : ValueAfter(v, x.writes, Len(x.writes), k) =
                        ValueAfter(w, x.writes, Len(x.writes), k)
    <3> SUFFICES ASSUME NEW k \in keys
                 PROVE  ValueAfter(v, x.writes, Len(x.writes), k) =
                        ValueAfter(w, x.writes, Len(x.writes), k)
      OBVIOUS
    <3>1. v[k] = w[k] \/ \E i \in 1..Len(x.writes) : x.writes[i].key = k
      BY <1>1
    <3> QED
      BY <3>1, ValueAfterLocal
  <2>2. wv = [k \in keys |-> ValueAfter(v, x.writes, Len(x.writes), k)]
    BY DEF Written
  <2>3. ww = [k \in keys |-> ValueAfter(w, x.writes, Len(x.writes), k)]
    BY DEF Written
  <2> HIDE DEF keys, wv, ww
  <2> QED
    BY <2>1, <2>2, <2>3
<1>6. IsWrites(t, wv)
  <2>1. keys \subseteq WriteKeys(t)
    BY <1>3 DEF WellRun, IsWrites
  <2>2. wv = [k \in keys |-> ValueAfter(v, x.writes, Len(x.writes), k)]
    BY DEF Written
  <2> HIDE DEF keys, wv
  <2> QED
    BY <2>1, <2>2 DEF IsWrites
<1> HIDE DEF wv, ww
<1> DEFINE next(ws) ==
             [next |-> r.next + 1, writes |-> ws,
              paid |-> IF r.next = 0 THEN ws ELSE r.paid,
              result |-> IF r.next = Len(t.actions) THEN "success" ELSE Absent]
           undone == [next |-> r.next, writes |-> r.paid, paid |-> r.paid, result |-> "failed"]
<1>7. Step(t, d, Scope(t), r) = IF x.ok THEN next(wv) ELSE undone
  BY <1>4 DEF Step, v, x, wv, Executed
<1>8. Step(t, e, Everything, r) = IF x.ok THEN next(ww) ELSE undone
  BY <1>3, <1>4 DEF Step, w, ww, Executed
<1>9. WellRun(t, next(wv))
  BY <1>0, <1>6, BlockAssumption DEF WellRun
<1>10. WellRun(t, undone)
  BY BlockAssumption DEF WellRun
<1> QED
  BY <1>5, <1>7, <1>8, <1>9, <1>10

-----------------------------------------------------------------------------
(* The inductive invariant: the reference *)

BlockType == block \in Seq(Transaction)

(* The reference is a list of states and, for each, the steps of the       *)
(* transaction that starts from it.                                        *)
SerialType ==
    /\ IsList(serial.states) /\ IsList(serial.paths)
    /\ Len(serial.paths) = Len(serial.states)
    /\ Len(serial.states) \in 1..(Len(block) + 1)
    /\ \A i \in 1..Len(serial.states) :
          /\ IsState(serial.states[i])
          /\ IsList(serial.paths[i]) /\ Len(serial.paths[i]) >= 1

(* The steps of a transaction of the reference, each from the one before.  *)
SerialSteps ==
    \A i \in 1..Len(serial.states) : i <= Len(block) =>
        /\ \A k \in 1..Len(serial.paths[i]) : WellRun(block[i], serial.paths[i][k])
        /\ serial.paths[i][1] = Fresh
        /\ \A k \in 1..(Len(serial.paths[i]) - 1) :
              /\ serial.paths[i][k].result = Absent
              /\ serial.paths[i][k + 1] =
                    Step(block[i], serial.states[i], Everything, serial.paths[i][k])

(* A transaction of the reference leaves what it wrote. *)
SerialStates ==
    \A i \in 1..(Len(serial.states) - 1) :
        /\ SerialEnd(i).result # Absent
        /\ serial.states[i + 1] = Over(SerialEnd(i).writes, serial.states[i])

(* A key keeps its value while no transaction may write it. *)
Unwritten ==
    \A k \in Keys : \A a \in 1..Len(serial.states) : \A p \in 1..Len(serial.states) :
        /\ a <= p
        /\ \A j \in 1..Len(block) : a <= j /\ j < p => k \notin WriteKeys(block[j])
        => serial.states[p][k] = serial.states[a][k]

SerialInv == BlockType /\ SerialType /\ SerialSteps /\ SerialStates /\ Unwritten

LEMMA SerialInvInit ==
    ASSUME Init
    PROVE  SerialInv
<1>1. BlockType /\ Len(block) \in Nat
  BY BlockAssumption DEF Init, BlockType
<1>2. /\ Len(serial.states) = 1 /\ serial.states[1] = db
      /\ Len(serial.paths) = 1 /\ Len(serial.paths[1]) = 1 /\ serial.paths[1][1] = Fresh
      /\ IsList(serial.states) /\ IsList(serial.paths) /\ IsList(serial.paths[1])
  BY DEF Init, IsList
<1>3. IsState(db)
  BY BlockAssumption DEF Init, IsState
<1>4. SerialType
  BY <1>1, <1>2, <1>3 DEF SerialType
<1>5. SerialSteps
  <2>1. Len(block) >= 1 => block[1] \in Transaction
    BY <1>1 DEF BlockType
  <2> QED
    BY <1>1, <1>2, <2>1, FreshWellRun DEF SerialSteps
<1>6. SerialStates
  BY <1>2 DEF SerialStates
<1>7. Unwritten
  BY <1>2 DEF Unwritten
<1> QED
  BY <1>1, <1>4, <1>5, <1>6, <1>7 DEF SerialInv

(* The running transaction of the reference takes a step. *)
LEMMA SerialStepInv ==
    ASSUME SerialInv, RunSerially, SerialEnd(Len(serial.states)).result = Absent
    PROVE  SerialInv'
<1> DEFINE i == Len(serial.states)
           S == serial.states
           P == serial.paths
           s == Step(block[i], S[i], Everything, SerialEnd(i))
           q == Append(P[i], s)
<1>1. /\ i \in Nat /\ i >= 1 /\ i <= Len(block) /\ Len(block) \in Nat
      /\ block[i] \in Transaction /\ i \in 1..Len(S) /\ Len(P) = i
  BY DEF SerialInv, BlockType, SerialType, RunSerially, SerialDone
<1>2. /\ serial' = [states |-> S, paths |-> [P EXCEPT ![i] = q]]
      /\ block' = block
  BY DEF RunSerially
<1>3. serial'.states = S /\ serial'.paths = [P EXCEPT ![i] = q]
  BY <1>2
<1>4. IsState(S[i]) /\ IsList(P) /\ IsList(P[i]) /\ Len(P[i]) >= 1 /\ Len(P[i]) \in Nat
  BY <1>1 DEF SerialInv, SerialType, IsList
<1>5. /\ IsList(q) /\ Len(q) = Len(P[i]) + 1 /\ q[Len(P[i]) + 1] = s
      /\ \A k \in 1..Len(P[i]) : q[k] = P[i][k]
  BY <1>4, AppendList
<1>6. WellRun(block[i], SerialEnd(i)) /\ SerialEnd(i) = P[i][Len(P[i])]
  <2>1. SerialEnd(i) = P[i][Len(P[i])]
    BY DEF SerialEnd
  <2>2. Len(P[i]) \in 1..Len(P[i])
    BY <1>4
  <2>3. \A k \in 1..Len(P[i]) : WellRun(block[i], P[i][k])
    BY <1>1 DEF SerialInv, SerialSteps
  <2> QED
    BY <2>1, <2>2, <2>3
<1>7. WellRun(block[i], s)
  <2>1. Agree(TouchKeys(block[i]), S[i], S[i])
    BY DEF Agree
  <2>2. /\ Step(block[i], S[i], Scope(block[i]), SerialEnd(i)) = s
        /\ WellRun(block[i], Step(block[i], S[i], Scope(block[i]), SerialEnd(i)))
    BY <1>1, <1>4, <1>6, <2>1, StepLocal
  <2> QED
    BY <2>2
<1> DEFINE P2 == [P EXCEPT ![i] = q]
<1> HIDE DEF q, s
<1>8. /\ IsList(P2) /\ Len(P2) = i /\ P2[i] = q
      /\ \A j \in 1..i : j # i => P2[j] = P[j]
  <2>1. P = [j \in 1..i |-> P[j]]
    BY <1>1, <1>4 DEF IsList
  <2> DEFINE T == {P[j] : j \in 1..i} \cup {q}
  <2>2. P2 \in [1..i -> T]
    BY <2>1
  <2>3. P2 \in Seq(T) /\ Len(P2) = i
    BY <1>1, <2>2
  <2>4. P2[i] = q /\ \A j \in 1..i : j # i => P2[j] = P[j]
    BY <1>1, <2>1
  <2> HIDE DEF P2, T
  <2>5. IsList(P2)
    BY <1>1, <2>2, <2>3 DEF IsList
  <2> QED
    BY <2>3, <2>4, <2>5
<1> HIDE DEF P2
<1>9. serial'.paths = P2 /\ serial'.states = S
  BY <1>3 DEF P2
<1>10. SerialType'
  <2>1. \A j \in 1..i : IsState(S[j]) /\ IsList(P[j]) /\ Len(P[j]) >= 1
    BY DEF SerialInv, SerialType
  <2>2. IsList(q) /\ Len(q) >= 1
    BY <1>4, <1>5
  <2>3. \A j \in 1..i : IsState(S[j]) /\ IsList(P2[j]) /\ Len(P2[j]) >= 1
    BY <1>8, <2>1, <2>2
  <2>4. IsList(S) /\ Len(S) \in 1..(Len(block) + 1)
    BY DEF SerialInv, SerialType
  <2> HIDE DEF S
  <2> QED
    BY <1>2, <1>8, <1>9, <2>3, <2>4 DEF SerialType, S
<1>11. SerialSteps'
  <2> SUFFICES ASSUME NEW j \in 1..i
               PROVE  /\ \A k \in 1..Len(P2[j]) : WellRun(block[j], P2[j][k])
                      /\ P2[j][1] = Fresh
                      /\ \A k \in 1..(Len(P2[j]) - 1) :
                            /\ P2[j][k].result = Absent
                            /\ P2[j][k + 1] = Step(block[j], S[j], Everything, P2[j][k])
    BY <1>1, <1>2, <1>9 DEF SerialSteps
  <2>1. /\ \A k \in 1..Len(P[j]) : WellRun(block[j], P[j][k])
        /\ P[j][1] = Fresh
        /\ \A k \in 1..(Len(P[j]) - 1) :
              /\ P[j][k].result = Absent
              /\ P[j][k + 1] = Step(block[j], S[j], Everything, P[j][k])
    BY <1>1 DEF SerialInv, SerialSteps
  <2>2. CASE j # i
    BY <1>8, <2>1, <2>2
  <2>3. CASE j = i
    <3> DEFINE n == Len(P[i])
    <3>1. Len(q) = n + 1 /\ n \in Nat /\ n >= 1
      BY <1>4, <1>5
    <3>2. \A k \in 1..Len(q) : WellRun(block[i], q[k])
      <4>1. \A k \in 1..Len(q) : k \in 1..n \/ k = n + 1
        BY <3>1
      <4> QED
        BY <1>5, <1>7, <2>1, <2>3, <4>1
    <3>3. q[1] = Fresh
      BY <1>5, <2>1, <2>3, <3>1
    <3>4. \A k \in 1..(Len(q) - 1) :
              q[k].result = Absent /\ q[k + 1] = Step(block[i], S[i], Everything, q[k])
      <4> SUFFICES ASSUME NEW k \in 1..(Len(q) - 1)
                   PROVE  q[k].result = Absent
                          /\ q[k + 1] = Step(block[i], S[i], Everything, q[k])
        OBVIOUS
      <4>1. CASE k = n
        BY <1>5, <1>6, <3>1, <4>1 DEF s
      <4>2. CASE k \in 1..(n - 1)
        <5>1. k \in 1..n /\ k + 1 \in 1..n
          BY <3>1, <4>2
        <5>2. q[k] = P[i][k] /\ q[k + 1] = P[i][k + 1]
          BY <1>5, <5>1
        <5> QED
          BY <2>1, <2>3, <4>2, <5>2
      <4> QED
        BY <3>1, <4>1, <4>2
    <3> QED
      BY <1>8, <2>3, <3>2, <3>3, <3>4
  <2> QED
    BY <2>2, <2>3
<1>12. SerialStates'
  <2>1. \A j \in 1..(i - 1) : P2[j] = P[j]
    BY <1>1, <1>8
  <2> QED
    BY <1>1, <1>9, <2>1 DEF SerialInv, SerialStates, SerialEnd
<1>13. Unwritten' /\ BlockType'
  BY <1>2, <1>9 DEF SerialInv, Unwritten, BlockType
<1> QED
  BY <1>10, <1>11, <1>12, <1>13 DEF SerialInv

(* The running transaction of the reference has ended: the next state. *)
LEMMA SerialNextInv ==
    ASSUME SerialInv, RunSerially, SerialEnd(Len(serial.states)).result # Absent
    PROVE  SerialInv' /\ serial'.states[1] = serial.states[1]
<1> DEFINE i == Len(serial.states)
           S == serial.states
           P == serial.paths
           d == Over(SerialEnd(i).writes, S[i])
           S2 == Append(S, d)
           P2 == Append(P, <<Fresh>>)
<1>1. /\ i \in Nat /\ i >= 1 /\ i <= Len(block) /\ Len(block) \in Nat
      /\ block[i] \in Transaction /\ i \in 1..Len(S) /\ Len(P) = i
  BY DEF SerialInv, BlockType, SerialType, RunSerially, SerialDone
<1>2. serial'.states = S2 /\ serial'.paths = P2 /\ block' = block
  <2>1. serial' = [states |-> S2, paths |-> P2] /\ block' = block
    BY DEF RunSerially
  <2> QED
    BY <2>1
<1>3. IsState(S[i]) /\ IsList(S) /\ IsList(P) /\ IsList(P[i]) /\ Len(P[i]) >= 1
  BY <1>1 DEF SerialInv, SerialType
<1>4. WellRun(block[i], SerialEnd(i))
  BY <1>1, <1>3 DEF SerialInv, SerialSteps, SerialEnd, IsList
<1>5. /\ IsState(d)
      /\ \A k \in Keys : k \notin WriteKeys(block[i]) => d[k] = S[i][k]
  BY <1>3, <1>4, OverState DEF WellRun, IsWrites
<1> HIDE DEF d
<1>6. /\ IsList(S2) /\ Len(S2) = i + 1 /\ S2[i + 1] = d
      /\ \A j \in 1..i : S2[j] = S[j]
  BY <1>3, AppendList
<1> DEFINE f == <<Fresh>>
<1>f. IsList(f) /\ Len(f) = 1 /\ f[1] = Fresh
  BY DEF IsList
<1> HIDE DEF f
<1>7. /\ IsList(P2) /\ Len(P2) = i + 1 /\ P2[i + 1] = f
      /\ \A j \in 1..i : P2[j] = P[j]
  BY <1>1, <1>3, AppendList DEF f
<1> HIDE DEF S2, P2
<1>8. \A j \in 1..(i + 1) : j \in 1..i \/ j = i + 1
  BY <1>1
<1>9. SerialType'
  <2>1. \A j \in 1..(i + 1) : IsState(S2[j]) /\ IsList(P2[j]) /\ Len(P2[j]) >= 1
    <3>1. \A j \in 1..i : IsState(S[j]) /\ IsList(P[j]) /\ Len(P[j]) >= 1
      BY DEF SerialInv, SerialType
    <3>2. \A j \in 1..i : IsState(S2[j]) /\ IsList(P2[j]) /\ Len(P2[j]) >= 1
      BY <1>6, <1>7, <3>1
    <3>3. IsState(S2[i + 1]) /\ IsList(P2[i + 1]) /\ Len(P2[i + 1]) >= 1
      BY <1>5, <1>6, <1>7, <1>f
    <3> QED
      BY <1>8, <3>2, <3>3
  <2>2. i + 1 \in 1..(Len(block) + 1)
    BY <1>1
  <2> QED
    BY <1>2, <1>6, <1>7, <2>1, <2>2 DEF SerialType
<1>10. SerialSteps'
  <2> SUFFICES ASSUME NEW j \in 1..(i + 1), j <= Len(block)
               PROVE  /\ \A k \in 1..Len(P2[j]) : WellRun(block[j], P2[j][k])
                      /\ P2[j][1] = Fresh
                      /\ \A k \in 1..(Len(P2[j]) - 1) :
                            /\ P2[j][k].result = Absent
                            /\ P2[j][k + 1] = Step(block[j], S2[j], Everything, P2[j][k])
    BY <1>2, <1>6 DEF SerialSteps
  <2>1. CASE j \in 1..i
    <3>1. /\ \A k \in 1..Len(P[j]) : WellRun(block[j], P[j][k])
          /\ P[j][1] = Fresh
          /\ \A k \in 1..(Len(P[j]) - 1) :
                /\ P[j][k].result = Absent
                /\ P[j][k + 1] = Step(block[j], S[j], Everything, P[j][k])
      BY <2>1 DEF SerialInv, SerialSteps
    <3>2. P2[j] = P[j] /\ S2[j] = S[j]
      BY <1>6, <1>7, <2>1
    <3> QED
      BY <3>1, <3>2
  <2>2. CASE j = i + 1
    <3>1. block[j] \in Transaction
      BY <1>1, <2>2 DEF SerialInv, BlockType
    <3>2. P2[j] = f /\ Len(f) = 1
      BY <1>7, <1>f, <2>2
    <3>3. \A k \in 1..Len(f) : k = 1
      BY <1>f
    <3>4. WellRun(block[j], Fresh)
      BY <3>1, FreshWellRun
    <3>5. \A k \in 1..(Len(f) - 1) : FALSE
      BY <1>f
    <3>6. \A k \in 1..Len(f) : WellRun(block[j], f[k])
      BY <1>f, <3>3, <3>4
    <3> QED
      BY <1>f, <3>2, <3>5, <3>6
  <2> QED
    BY <1>8, <2>1, <2>2
<1>11. SerialStates'
  <2> SUFFICES ASSUME NEW j \in 1..i
               PROVE  /\ P2[j][Len(P2[j])].result # Absent
                      /\ S2[j + 1] = Over(P2[j][Len(P2[j])].writes, S2[j])
    BY <1>1, <1>2, <1>6 DEF SerialStates, SerialEnd
  <2>1. CASE j = i
    BY <1>6, <1>7, <2>1 DEF d, SerialEnd
  <2>2. CASE j \in 1..(i - 1)
    <3>1. j \in 1..i /\ j + 1 \in 1..i
      BY <1>1, <2>2
    <3> QED
      BY <1>6, <1>7, <2>2, <3>1 DEF SerialInv, SerialStates, SerialEnd
  <2> QED
    BY <1>1, <2>1, <2>2
<1>12. Unwritten'
  <2> SUFFICES ASSUME NEW k \in Keys, NEW a \in 1..(i + 1), NEW p \in 1..(i + 1), a <= p,
                      \A j \in 1..Len(block) : a <= j /\ j < p => k \notin WriteKeys(block[j])
               PROVE  S2[p][k] = S2[a][k]
    BY <1>2, <1>6 DEF Unwritten
  <2>1. CASE p \in 1..i
    <3>1. a \in 1..i
      BY <1>1, <2>1
    <3>2. S[p][k] = S[a][k]
      BY <2>1, <3>1 DEF SerialInv, Unwritten
    <3> QED
      BY <1>6, <2>1, <3>1, <3>2
  <2>2. CASE p = i + 1 /\ a = i + 1
    BY <2>2
  <2>3. CASE p = i + 1 /\ a \in 1..i
    <3>1. k \notin WriteKeys(block[i])
      BY <1>1, <2>3
    <3>2. \A j \in 1..Len(block) : a <= j /\ j < i => k \notin WriteKeys(block[j])
      BY <1>1, <2>3
    <3>3. S[i][k] = S[a][k]
      BY <1>1, <2>3, <3>2 DEF SerialInv, Unwritten
    <3> QED
      BY <1>5, <1>6, <2>3, <3>1, <3>3
  <2> QED
    BY <1>8, <2>1, <2>2, <2>3
<1>13. BlockType'
  BY <1>2 DEF SerialInv, BlockType
<1>14. serial'.states[1] = serial.states[1]
  BY <1>1, <1>2, <1>6
<1> QED
  BY <1>9, <1>10, <1>11, <1>12, <1>13, <1>14 DEF SerialInv

LEMMA SerialInvNext ==
    ASSUME SerialInv, RunSerially
    PROVE  SerialInv' /\ serial'.states[1] = serial.states[1]
<1>1. CASE SerialEnd(Len(serial.states)).result = Absent
  <2>1. serial'.states = serial.states
    <3> DEFINE i == Len(serial.states)
    <3>1. serial' = [states |-> serial.states,
                     paths |-> [serial.paths EXCEPT ![i] = Append(@,
                                  Step(block[i], serial.states[i], Everything, SerialEnd(i)))]]
      BY <1>1 DEF RunSerially
    <3> QED
      BY <3>1
  <2> QED
    BY <1>1, <2>1, SerialStepInv
<1>2. CASE SerialEnd(Len(serial.states)).result # Absent
  BY <1>2, SerialNextInv
<1> QED
  BY <1>1, <1>2

-----------------------------------------------------------------------------
(* The inductive invariant: the workers *)

Indices == 1..Len(block)

WorkerType ==
    /\ IsState(db)
    /\ busy \subseteq Indices
    /\ run = [i \in Indices |-> run[i]]
    /\ results = [i \in Indices |-> results[i]]

(* Nothing runs before the reference has ended. *)
WaitForSerial ==
    ~SerialDone => /\ busy = {} /\ db = serial.states[1]
                   /\ \A i \in Indices : ~Done(i)

(* A transaction under way or done has waited for those before it. *)
InOrder == \A i \in Indices : i \in busy \/ Done(i) => Ready(i)

(* What runs is not done, and goes the steps of the reference. *)
OnPath ==
    \A i \in Indices :
        /\ i \in busy => ~Done(i) /\ \E k \in 1..Len(serial.paths[i]) : run[i] = serial.paths[i][k]
        /\ i \notin busy /\ ~Done(i) => run[i] = Fresh

(* What is done has the result of the reference. *)
SameResults == \A i \in Indices : Done(i) => results[i] = SerialEnd(i).result

(* Done are of the transactions that may write key k exactly those before  *)
(* transaction p: then key k has the value it has before p in the          *)
(* reference.                                                              *)
WrittenUpTo(k, p) == \A j \in Indices : k \in WriteKeys(block[j]) => (Done(j) <=> j < p)

SameValues ==
    SerialDone =>
        \A k \in Keys : \A p \in 1..(Len(block) + 1) :
            WrittenUpTo(k, p) => db[k] = serial.states[p][k]

WorkerInv ==
    /\ WorkerType
    /\ WaitForSerial
    /\ InOrder
    /\ OnPath
    /\ SameResults
    /\ SameValues

ExecInv == SerialInv /\ WorkerInv

(* A transaction that may write a key conflicts with those that touch it. *)
LEMMA WriterConflicts ==
    ASSUME NEW t, NEW u, NEW k, k \in WriteKeys(t), k \in TouchKeys(u)
    PROVE  Conflict(t, u) /\ Conflict(u, t)
<1>1. k \in Keys /\ "write" \in Scope(t)[k] /\ Scope(u)[k] # {}
  BY DEF WriteKeys, TouchKeys
<1>2. Scope(t)[k] # {} /\ Scope(t)[k] # Read
  BY <1>1 DEF Read
<1> QED
  BY <1>1, <1>2 DEF Conflict

(* To a transaction under way the shared state is that of the reference.   *)
LEMMA BusySeesReference ==
    ASSUME ExecInv, SerialDone, NEW i \in Indices, i \in busy, NEW k \in TouchKeys(block[i])
    PROVE  WrittenUpTo(k, i) /\ db[k] = serial.states[i][k]
<1>1. ~Done(i) /\ Ready(i) /\ i \in Nat /\ Len(block) \in Nat /\ k \in Keys
  BY DEF ExecInv, WorkerInv, OnPath, InOrder, SerialInv, BlockType, TouchKeys, Indices
<1>2. ASSUME NEW j \in Indices, k \in WriteKeys(block[j])
      PROVE  Done(j) <=> j < i
  <2>1. Conflict(block[j], block[i]) /\ Conflict(block[i], block[j])
    BY <1>2, WriterConflicts
  <2>2. j < i => Done(j)
    <3>1. j < i => j \in 1..(i - 1)
      BY <1>1 DEF Indices
    <3> QED
      BY <1>1, <2>1, <3>1 DEF Ready
  <2>3. ASSUME Done(j), ~(j < i)
        PROVE  FALSE
    <3>1. i # j
      BY <1>1, <2>3
    <3>2. i \in 1..(j - 1)
      BY <1>1, <2>3, <3>1 DEF Indices
    <3>3. Ready(j)
      BY <2>3 DEF ExecInv, WorkerInv, InOrder
    <3> QED
      BY <1>1, <2>1, <3>2, <3>3 DEF Ready
  <2> QED
    BY <2>2, <2>3
<1>3. WrittenUpTo(k, i)
  BY <1>2 DEF WrittenUpTo
<1>4. i \in 1..(Len(block) + 1)
  BY <1>1 DEF Indices
<1> QED
  BY <1>1, <1>3, <1>4 DEF ExecInv, WorkerInv, SameValues

LEMMA ExecInvInit == Init => ExecInv
<1> SUFFICES ASSUME Init
             PROVE  ExecInv
  OBVIOUS
<1>1. SerialInv
  BY SerialInvInit
<1>2. \A i \in Indices : results[i] = Absent /\ run[i] = Fresh /\ ~Done(i)
  BY DEF Init, Indices, Done
<1>3. IsState(db) /\ busy = {} /\ serial.states[1] = db
  BY BlockAssumption DEF Init, IsState
<1>4. WorkerType
  BY <1>3 DEF WorkerType, Init, Indices
<1>5. WaitForSerial /\ InOrder /\ OnPath /\ SameResults
  BY <1>2, <1>3 DEF WaitForSerial, InOrder, OnPath, SameResults
<1>6. SameValues
  <2> SUFFICES ASSUME SerialDone, NEW k \in Keys, NEW p \in 1..(Len(block) + 1)
               PROVE  db[k] = serial.states[p][k]
    BY DEF SameValues
  <2>1. Len(serial.states) = 1
    BY DEF Init
  <2>2. Len(block) \in Nat
    BY <1>1 DEF SerialInv, BlockType
  <2>3. p = 1
    <3>1. Len(block) + 1 = 1
      BY <2>1 DEF SerialDone
    <3>2. p \in 1..1
      BY <3>1
    <3> QED
      BY <3>2
  <2> QED
    BY <1>3, <2>3
<1> QED
  BY <1>1, <1>4, <1>5, <1>6 DEF ExecInv, WorkerInv

(* The reference runs: no transaction has begun. *)
LEMMA RunSeriallyInv ==
    ASSUME ExecInv, RunSerially
    PROVE  ExecInv'
<1>1. SerialInv' /\ serial'.states[1] = serial.states[1]
  BY SerialInvNext DEF ExecInv
<1>2. /\ ~SerialDone
      /\ block' = block /\ db' = db /\ busy' = busy /\ run' = run /\ results' = results
  BY DEF RunSerially
<1>3. busy = {} /\ db = serial.states[1] /\ \A i \in Indices : ~Done(i)
  BY <1>2 DEF ExecInv, WorkerInv, WaitForSerial
<1>4. Indices' = Indices /\ \A i : Done(i)' = Done(i)
  BY <1>2 DEF Indices, Done
<1>5. WorkerType' /\ InOrder' /\ SameResults' /\ WaitForSerial'
  BY <1>1, <1>2, <1>3, <1>4
     DEF ExecInv, WorkerInv, WorkerType, InOrder, SameResults, WaitForSerial, IsState, Keys
<1>6. OnPath'
  BY <1>2, <1>3, <1>4 DEF ExecInv, WorkerInv, OnPath
<1>7. SameValues'
  <2> SUFFICES ASSUME SerialDone', NEW k \in Keys, NEW p \in 1..(Len(block) + 1),
                      WrittenUpTo(k, p)'
               PROVE  db[k] = serial'.states[p][k]
    BY <1>2 DEF SameValues
  <2>1. Len(block) \in Nat /\ Len(serial'.states) = Len(block) + 1
    BY <1>2 DEF ExecInv, SerialInv, BlockType, SerialDone
  <2>2. \A j \in Indices : 1 <= j /\ j < p => k \notin WriteKeys(block[j])
    BY <1>2, <1>3, <1>4 DEF WrittenUpTo
  <2>3. 1 \in 1..(Len(block) + 1) /\ 1 <= p
    BY <2>1
  <2>4. Unwritten'
    BY <1>1 DEF SerialInv
  <2>5. serial'.states[p][k] = serial'.states[1][k]
    BY <1>2, <2>1, <2>2, <2>3, <2>4 DEF Unwritten, Indices
  <2> QED
    BY <1>1, <1>3, <2>5
<1> QED
  BY <1>1, <1>5, <1>6, <1>7 DEF ExecInv, WorkerInv

(* While the reference is fixed, so is what is known of it. *)
LEMMA SerialFixed ==
    ASSUME ExecInv, UNCHANGED <<block, serial>>
    PROVE  /\ SerialInv'
           /\ Indices' = Indices
           /\ SerialDone' = SerialDone
           /\ \A i : SerialEnd(i)' = SerialEnd(i)
<1>1. block' = block /\ serial' = serial
  OBVIOUS
<1>2. \A i : SerialEnd(i)' = SerialEnd(i)
  BY <1>1 DEF SerialEnd
<1>3. SerialInv'
  BY <1>1, <1>2
     DEF ExecInv, SerialInv, BlockType, SerialType, SerialSteps, SerialStates, Unwritten
<1> QED
  BY <1>1, <1>2, <1>3 DEF Indices, SerialDone

LEMMA BeginInv ==
    ASSUME ExecInv, NEW i \in Indices, Begin(i)
    PROVE  ExecInv'
<1>1. /\ SerialDone /\ ~Done(i) /\ i \notin busy /\ Ready(i) /\ busy' = busy \cup {i}
      /\ block' = block /\ db' = db /\ run' = run /\ results' = results /\ serial' = serial
  BY DEF Begin
<1>2. /\ SerialInv' /\ Indices' = Indices /\ SerialDone'
      /\ \A j : SerialEnd(j)' = SerialEnd(j)
  BY <1>1, SerialFixed
<1>3. \A j : Done(j)' = Done(j) /\ Ready(j)' = Ready(j)
  BY <1>1 DEF Done, Ready
<1>4. WorkerType'
  BY <1>1, <1>2 DEF ExecInv, WorkerInv, WorkerType, IsState
<1>5. WaitForSerial' /\ InOrder' /\ SameResults'
  BY <1>1, <1>2, <1>3 DEF ExecInv, WorkerInv, WaitForSerial, InOrder, SameResults
<1>6. OnPath'
  <2>1. run[i] = Fresh
    BY <1>1 DEF ExecInv, WorkerInv, OnPath
  <2>2. \E k \in 1..Len(serial.paths[i]) : run[i] = serial.paths[i][k]
    <3>1. i \in 1..Len(serial.states) /\ i <= Len(block) /\ Len(block) \in Nat
      BY <1>1 DEF SerialDone, Indices, ExecInv, SerialInv, BlockType
    <3>2. serial.paths[i][1] = Fresh /\ Len(serial.paths[i]) >= 1 /\ Len(serial.paths[i]) \in Nat
      BY <3>1 DEF ExecInv, SerialInv, SerialSteps, SerialType, IsList
    <3> QED
      BY <2>1, <3>2
  <2> QED
    BY <1>1, <1>2, <1>3, <2>2 DEF ExecInv, WorkerInv, OnPath
<1>7. SameValues'
  BY <1>1, <1>2, <1>3 DEF ExecInv, WorkerInv, SameValues, WrittenUpTo
<1> QED
  BY <1>2, <1>4, <1>5, <1>6, <1>7 DEF ExecInv, WorkerInv

(* A transaction under way is at a step of the reference; one that has     *)
(* ended is at the last.                                                   *)
LEMMA BusyOnPath ==
    ASSUME ExecInv, NEW i \in Indices, i \in busy
    PROVE  /\ SerialDone
           /\ block[i] \in Transaction
           /\ i \in 1..(Len(serial.states) - 1)
           /\ WellRun(block[i], run[i])
           /\ IF run[i].result = Absent
              THEN \E k \in 1..(Len(serial.paths[i]) - 1) : run[i] = serial.paths[i][k]
              ELSE run[i] = SerialEnd(i)
<1>1. SerialDone
  BY DEF ExecInv, WorkerInv, WaitForSerial
<1>2. /\ i \in 1..(Len(serial.states) - 1) /\ i \in 1..Len(serial.states) /\ i <= Len(block)
      /\ block[i] \in Transaction
  BY <1>1 DEF SerialDone, Indices, ExecInv, SerialInv, BlockType
<1> DEFINE q == serial.paths[i]
<1>3. IsList(q) /\ Len(q) >= 1 /\ Len(q) \in Nat /\ SerialEnd(i) = q[Len(q)]
  BY <1>2 DEF ExecInv, SerialInv, SerialType, IsList, SerialEnd
<1>4. PICK k \in 1..Len(q) : run[i] = q[k]
  BY DEF ExecInv, WorkerInv, OnPath
<1>5. /\ WellRun(block[i], q[k])
      /\ \A m \in 1..(Len(q) - 1) : q[m].result = Absent
  BY <1>2 DEF ExecInv, SerialInv, SerialSteps
<1>6. q[Len(q)].result # Absent
  BY <1>2, <1>3 DEF ExecInv, SerialInv, SerialStates
<1> HIDE DEF q
<1>7. k = Len(q) \/ k \in 1..(Len(q) - 1)
  BY <1>3
<1>8. CASE k = Len(q)
  BY <1>1, <1>2, <1>3, <1>4, <1>5, <1>6, <1>8
<1>9. CASE k \in 1..(Len(q) - 1)
  BY <1>1, <1>2, <1>4, <1>5, <1>9 DEF q
<1> QED
  BY <1>7, <1>8, <1>9

LEMMA ContinueInv ==
    ASSUME ExecInv, NEW i \in Indices, Continue(i)
    PROVE  ExecInv'
<1> DEFINE s == Step(block[i], db, Scope(block[i]), run[i])
<1>1. /\ i \in busy /\ run[i].result = Absent /\ run' = [run EXCEPT ![i] = s]
      /\ block' = block /\ db' = db /\ busy' = busy /\ results' = results /\ serial' = serial
  BY DEF Continue
<1>2. /\ SerialInv' /\ Indices' = Indices /\ SerialDone' = SerialDone
      /\ \A j : SerialEnd(j)' = SerialEnd(j)
  BY <1>1, SerialFixed
<1>3. \A j : Done(j)' = Done(j) /\ Ready(j)' = Ready(j)
  BY <1>1 DEF Done, Ready
<1>4. /\ SerialDone /\ block[i] \in Transaction /\ i \in 1..(Len(serial.states) - 1)
      /\ WellRun(block[i], run[i])
      /\ \E k \in 1..(Len(serial.paths[i]) - 1) : run[i] = serial.paths[i][k]
  BY <1>1, BusyOnPath
<1>5. PICK k \in 1..(Len(serial.paths[i]) - 1) : run[i] = serial.paths[i][k]
  BY <1>4
<1>6. /\ i \in 1..Len(serial.states) /\ i <= Len(block) /\ IsState(serial.states[i])
      /\ Len(serial.paths[i]) \in Nat
  <2>1. Len(serial.states) \in Nat /\ i \in Nat /\ Len(block) \in Nat
    BY DEF ExecInv, SerialInv, SerialType, IsList, Indices, BlockType
  <2>2. i \in 1..Len(serial.states) /\ i <= Len(block)
    BY <1>4, <2>1 DEF Indices
  <2> QED
    BY <2>2 DEF ExecInv, SerialInv, SerialType, IsList
<1>7. serial.paths[i][k + 1] = Step(block[i], serial.states[i], Everything, run[i])
  BY <1>5, <1>6 DEF ExecInv, SerialInv, SerialSteps
<1>8. Agree(TouchKeys(block[i]), db, serial.states[i])
  BY <1>1, <1>4, BusySeesReference DEF Agree
<1>9. IsState(db)
  BY DEF ExecInv, WorkerInv, WorkerType
<1>10. s = serial.paths[i][k + 1]
  BY <1>1, <1>4, <1>6, <1>7, <1>8, <1>9, StepLocal
<1>11. k + 1 \in 1..Len(serial.paths[i])
  BY <1>6
<1> HIDE DEF s
<1>12. run' = [j \in Indices |-> IF j = i THEN s ELSE run[j]]
  BY <1>1 DEF ExecInv, WorkerInv, WorkerType
<1>13. WorkerType'
  BY <1>1, <1>2, <1>12 DEF ExecInv, WorkerInv, WorkerType, IsState
<1>14. WaitForSerial' /\ InOrder' /\ SameResults'
  BY <1>1, <1>2, <1>3 DEF ExecInv, WorkerInv, WaitForSerial, InOrder, SameResults
<1>15. OnPath'
  BY <1>1, <1>2, <1>3, <1>10, <1>11, <1>12 DEF ExecInv, WorkerInv, OnPath
<1>16. SameValues'
  BY <1>1, <1>2, <1>3 DEF ExecInv, WorkerInv, SameValues, WrittenUpTo
<1> QED
  BY <1>2, <1>13, <1>14, <1>15, <1>16 DEF ExecInv, WorkerInv

(* A transaction commits: what it wrote is what the reference wrote, and   *)
(* every key it did not write keeps its place in the order.                *)
LEMMA CommitInv ==
    ASSUME ExecInv, NEW i \in Indices, Commit(i)
    PROVE  ExecInv'
<1> DEFINE w == run[i].writes
           S == serial.states
<1>1. /\ i \in busy /\ run[i].result # Absent /\ db' = Over(w, db)
      /\ results' = [results EXCEPT ![i] = run[i].result] /\ busy' = busy \ {i}
      /\ block' = block /\ run' = run /\ serial' = serial
  BY DEF Commit
<1>2. /\ SerialInv' /\ Indices' = Indices /\ SerialDone' = SerialDone
      /\ \A j : SerialEnd(j)' = SerialEnd(j)
  BY <1>1, SerialFixed
<1>3. /\ SerialDone /\ block[i] \in Transaction /\ i \in 1..(Len(S) - 1)
      /\ WellRun(block[i], run[i]) /\ run[i] = SerialEnd(i)
  BY <1>1, BusyOnPath
<1>4. results' = [j \in Indices |-> IF j = i THEN run[i].result ELSE results[j]]
  BY <1>1 DEF ExecInv, WorkerInv, WorkerType
<1>5. ~Done(i) /\ \A j \in Indices : Done(j)' <=> Done(j) \/ j = i
  BY <1>1, <1>4 DEF Done, ExecInv, WorkerInv, OnPath
<1>6. /\ IsState(db')
      /\ \A k \in DOMAIN w : db'[k] = w[k]
      /\ \A k \in Keys \ DOMAIN w : db'[k] = db[k]
  <2>1. IsState(db) /\ IsWrites(block[i], w)
    BY <1>3 DEF ExecInv, WorkerInv, WorkerType, WellRun
  <2> QED
    BY <1>1, <2>1, OverState
<1>7. WorkerType'
  BY <1>1, <1>2, <1>4, <1>6 DEF ExecInv, WorkerInv, WorkerType, IsState
<1>8. WaitForSerial' /\ SameResults'
  BY <1>2, <1>3, <1>4, <1>5 DEF ExecInv, WorkerInv, WaitForSerial, SameResults, Done
<1>9. InOrder'
  <2>1. ASSUME NEW j \in Indices, Ready(j)
        PROVE  Ready(j)'
    <3>1. \A m \in 1..(j - 1) : m \in Indices
      BY DEF Indices, ExecInv, SerialInv, BlockType
    <3> QED
      BY <1>1, <1>5, <2>1, <3>1 DEF Ready
  <2> QED
    BY <1>1, <1>2, <1>5, <2>1 DEF ExecInv, WorkerInv, InOrder
<1>10. OnPath'
  BY <1>1, <1>2, <1>5 DEF ExecInv, WorkerInv, OnPath
<1>11. SameValues'
  <2> SUFFICES ASSUME NEW k \in Keys, NEW p \in 1..(Len(block) + 1), WrittenUpTo(k, p)'
               PROVE  db'[k] = S[p][k]
    BY <1>1 DEF SameValues
  <2>0. /\ \A j \in Indices : k \in WriteKeys(block[j]) => (Done(j)' <=> j < p)
        /\ Len(block) \in Nat /\ i \in Nat /\ Len(S) = Len(block) + 1
    BY <1>1, <1>2, <1>3 DEF WrittenUpTo, Indices, ExecInv, SerialInv, BlockType, SerialDone
  <2>1. CASE k \notin WriteKeys(block[i])
    <3>1. WrittenUpTo(k, p)
      BY <1>5, <2>0, <2>1 DEF WrittenUpTo
    <3>2. db[k] = S[p][k]
      BY <1>3, <3>1 DEF ExecInv, WorkerInv, SameValues
    <3>3. k \notin DOMAIN w
      BY <1>3, <2>1 DEF WellRun, IsWrites
    <3> QED
      BY <1>6, <3>2, <3>3
  <2>2. CASE k \in WriteKeys(block[i])
    <3>1. WrittenUpTo(k, i) /\ db[k] = S[i][k]
      <4>1. k \in TouchKeys(block[i])
        BY <2>2, WritersTouch
      <4> QED
        BY <1>1, <1>3, <4>1, BusySeesReference
    <3>2. i < p
      BY <1>5, <2>0, <2>2
    <3>3. ASSUME NEW j \in Indices, i + 1 <= j, j < p
          PROVE  k \notin WriteKeys(block[j])
      <4>1. j \in Nat /\ j # i /\ ~(j < i)
        BY <2>0, <3>3 DEF Indices
      <4> QED
        BY <1>5, <2>0, <3>1, <3>3, <4>1 DEF WrittenUpTo
    <3>4. S[p][k] = S[i + 1][k]
      <4>1. i + 1 \in 1..Len(S) /\ p \in 1..Len(S) /\ i + 1 <= p
        BY <1>3, <2>0, <3>2
      <4> QED
        BY <3>3, <4>1 DEF ExecInv, SerialInv, Unwritten, Indices
    <3>5. S[i + 1] = Over(w, S[i])
      BY <1>3 DEF ExecInv, SerialInv, SerialStates
    <3>6. S[i + 1][k] = IF k \in DOMAIN w THEN w[k] ELSE S[i][k]
      <4>1. IsState(S[i]) /\ IsWrites(block[i], w)
        BY <1>3, <2>0 DEF ExecInv, SerialInv, SerialType, WellRun
      <4> QED
        BY <3>5, <4>1, OverState
    <3> QED
      BY <1>6, <3>1, <3>4, <3>6
  <2> QED
    BY <2>1, <2>2
<1> QED
  BY <1>2, <1>7, <1>8, <1>9, <1>10, <1>11 DEF ExecInv, WorkerInv

LEMMA ExecInvNext == ExecInv /\ [Next]_vars => ExecInv'
<1> SUFFICES ASSUME ExecInv, [Next]_vars
             PROVE  ExecInv'
  OBVIOUS
<1>1. CASE RunSerially
  BY <1>1, RunSeriallyInv
<1>2. ASSUME NEW i \in Indices, Begin(i) \/ Continue(i) \/ Commit(i)
      PROVE  ExecInv'
  BY <1>2, BeginInv, ContinueInv, CommitInv
<1>3. CASE UNCHANGED vars
  <2>1. /\ block' = block /\ db' = db /\ busy' = busy /\ run' = run
        /\ results' = results /\ serial' = serial
    BY <1>3 DEF vars
  <2>2. /\ SerialInv' /\ Indices' = Indices /\ SerialDone' = SerialDone
        /\ \A j : SerialEnd(j)' = SerialEnd(j)
    BY <2>1, SerialFixed
  <2>3. \A j : Done(j)' = Done(j) /\ Ready(j)' = Ready(j)
    BY <2>1 DEF Done, Ready
  <2> QED
    BY <2>1, <2>2, <2>3
       DEF ExecInv, WorkerInv, WorkerType, WaitForSerial, InOrder, OnPath, SameResults,
           SameValues, WrittenUpTo, IsState
<1> QED
  BY <1>1, <1>2, <1>3 DEF Next, Indices

THEOREM ExecInvAlways == Spec => []ExecInv
<1>1. Init => ExecInv
  BY ExecInvInit
<1>2. ExecInv /\ [Next]_vars => ExecInv'
  BY ExecInvNext
<1> QED
  BY <1>1, <1>2, PTL DEF Spec

-----------------------------------------------------------------------------
(* Theorems *)

LEMMA ExecInvSerialOutcome ==
    ASSUME ExecInv
    PROVE  SerialOutcome
<1> SUFFICES ASSUME Finished
             PROVE  /\ db = serial.states[Len(block) + 1]
                    /\ results = [i \in 1..Len(block) |-> SerialEnd(i).result]
  BY DEF SerialOutcome
<1>1. results = [i \in 1..Len(block) |-> SerialEnd(i).result]
  BY DEF Finished, ExecInv, WorkerInv, SameResults, WorkerType, Indices
<1>2. Len(block) \in Nat
  BY DEF ExecInv, SerialInv, BlockType
<1>3. SerialDone
  <2>1. CASE Len(block) = 0
    BY <2>1 DEF ExecInv, SerialInv, SerialType, SerialDone
  <2>2. CASE Len(block) # 0
    <3>1. 1 \in Indices
      BY <1>2, <2>2 DEF Indices
    <3> QED
      BY <3>1 DEF Finished, ExecInv, WorkerInv, WaitForSerial, Indices
  <2> QED
    BY <2>1, <2>2
<1>4. \A k \in Keys : WrittenUpTo(k, Len(block) + 1)
  BY <1>2 DEF Finished, WrittenUpTo, Indices
<1>5. Len(block) + 1 \in 1..(Len(block) + 1) /\ Len(block) + 1 \in 1..Len(serial.states)
  BY <1>2, <1>3 DEF SerialDone
<1>6. \A k \in Keys : db[k] = serial.states[Len(block) + 1][k]
  BY <1>3, <1>4, <1>5 DEF ExecInv, WorkerInv, SameValues
<1>7. IsState(db) /\ IsState(serial.states[Len(block) + 1])
  BY <1>5 DEF ExecInv, WorkerInv, WorkerType, SerialInv, SerialType
<1> QED
  BY <1>1, <1>6, <1>7 DEF IsState

(* Run in parallel, in whatever order the declared keys allow, the         *)
(* transactions of a block leave the state and the results of running them *)
(* one by one: for every block of actions, every state before it and every *)
(* fee.                                                                    *)
THEOREM ParallelIsSerial == Spec => []SerialOutcome
BY ExecInvAlways, ExecInvSerialOutcome, PTL

(* The StateKeys of every action declare all that its Execute accesses,    *)
(* with the permissions it needs: no transaction is refused an access.     *)
THEOREM DeclarationsSuffice == Spec => []NeverOutOfScope
<1>1. ASSUME ExecInv
      PROVE  NeverOutOfScope
  <2> SUFFICES ASSUME NEW i \in Indices
               PROVE  results[i] # "scope"
    BY DEF NeverOutOfScope, Indices
  <2>1. CASE ~Done(i)
    BY <2>1, BlockAssumption DEF Done
  <2>2. CASE Done(i)
    <3>1. SerialDone /\ results[i] = SerialEnd(i).result
      BY <1>1, <2>2 DEF ExecInv, WorkerInv, WaitForSerial, SameResults
    <3>2. i \in 1..Len(serial.states) /\ i <= Len(block)
      BY <1>1, <3>1 DEF SerialDone, Indices, ExecInv, SerialInv, BlockType
    <3>3. Len(serial.paths[i]) \in 1..Len(serial.paths[i])
      <4>1. Len(serial.paths[i]) \in Nat /\ Len(serial.paths[i]) >= 1
        BY <1>1, <3>2 DEF ExecInv, SerialInv, SerialType, IsList
      <4> QED
        BY <4>1
    <3>4. WellRun(block[i], SerialEnd(i))
      BY <1>1, <3>2, <3>3 DEF ExecInv, SerialInv, SerialSteps, SerialEnd
    <3> QED
      BY <3>1, <3>4 DEF WellRun
  <2> QED
    BY <2>1, <2>2
<1> QED
  BY <1>1, ExecInvAlways, PTL
=============================================================================
