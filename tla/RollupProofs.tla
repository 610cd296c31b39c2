---------------------------- MODULE RollupProofs ----------------------------
(***************************************************************************)
(* Proofs about the rollups: their registration on the chain, the registry *)
(* in the memory of a node, and the RPC method that reads the chain's.     *)
(*                                                                         *)
(* Registration: its types, and the invariants of the state database that  *)
(* every view of it (accepted, block, transaction) satisfies.  The step    *)
(* lemmas are about TxStep and AcceptBlock, so that they hold wherever the *)
(* chain is composed with other components.                                *)
(***************************************************************************)
EXTENDS RollupRegistry, RollupReaders, SequenceTheorems, TLAPS

-----------------------------------------------------------------------------
(* Types *)

(* A record that is present is a RollupInfo. *)
LEMMA InfoType ==
    ASSUME NEW db \in StateDB, NEW ns \in Namespaces, db.info[ns] # NoInfo
    PROVE  db.info[ns] \in RollupInfo
BY DEF StateDB

(* The database without entries is one. *)
LEMMA EmptyDBType == EmptyDB \in StateDB
BY DEF EmptyDB, StateDB

(* The fields of a registration that a transaction may carry. *)
LEMMA RegistrationType ==
    ASSUME NEW r \in Registration
    PROVE  /\ r.namespace \in Namespaces
           /\ r.info \in RollupInfo
           /\ r.info.start \in Nat /\ r.info.exit \in Nat
BY BoundsAssumption DEF Registration, RollupInfo

(* Appending to the registry keeps its type. *)
LEMMA RegistryWithType ==
    ASSUME NEW reg \in Seq(Namespaces), NEW ns \in Namespaces
    PROVE  RegistryWith(reg, ns) \in Seq(Namespaces)
BY DEF RegistryWith

(***************************************************************************)
(* Every registration that executes comes down to SetRollup with the       *)
(* registry extended as needed and a RollupInfo of its own namespace.      *)
(***************************************************************************)
LEMMA RegistrationStep ==
    ASSUME ChainTypeOK, RegistryMatches(txDB), NEW r \in Registration,
           CreateRollup(r) \/ UpdateRollup(r) \/ ExitRollup(r)
    PROVE  \E i \in RollupInfo :
              /\ i.namespace = r.namespace
              /\ SetRollup(RegistryWith(txDB.registry, r.namespace), r.namespace, i)
              /\ phase = "tx"
              /\ txDB.info[r.namespace] # NoInfo =>
                     txDB.info[r.namespace].authority = actor
              /\ i.exit = 0 \/ i.start <= i.exit \/
                     /\ txDB.info[r.namespace] # NoInfo
                     /\ i.start = txDB.info[r.namespace].start
                     /\ i.exit = txDB.info[r.namespace].exit
<1> DEFINE ns == r.namespace
           old == txDB.info[ns]
<1>1. ns \in Namespaces /\ r.info \in RollupInfo /\ txDB \in StateDB
  BY RegistrationType DEF ChainTypeOK
<1>2. contains(txDB.registry, ns) <=> old # NoInfo
  BY <1>1 DEF RegistryMatches
<1>3. old # NoInfo => old \in RollupInfo
  BY <1>1, InfoType
<1>4. CASE CreateRollup(r)
  <2>1. r.info.namespace = ns /\ phase = "tx" /\ r.info.exit = 0
    BY <1>4 DEF CreateRollup, RegistrationChecks, ValidCreateEpochs
  <2>2. old # NoInfo => old.authority = actor
    BY <1>2, <1>4 DEF CreateRollup, authorizationChecks
  <2>3. SetRollup(RegistryWith(txDB.registry, ns), ns, r.info)
    BY <1>4 DEF CreateRollup
  <2> QED
    BY <1>1, <2>1, <2>2, <2>3
<1>5. CASE UpdateRollup(r)
  <2> DEFINE i == [r.info EXCEPT !.start = old.start, !.exit = old.exit]
  <2>1. r.info.namespace = ns /\ phase = "tx" /\ contains(txDB.registry, ns)
        /\ old.authority = actor /\ SetRollup(txDB.registry, ns, i)
    BY <1>5 DEF UpdateRollup, RegistrationChecks, authorizationChecks
  <2>2. old \in RollupInfo /\ old # NoInfo
    BY <1>2, <1>3, <2>1
  <2>3. i \in RollupInfo /\ i.namespace = ns /\ i.start = old.start /\ i.exit = old.exit
    BY <1>1, <2>1, <2>2 DEF RollupInfo
  <2>4. RegistryWith(txDB.registry, ns) = txDB.registry
    BY <2>1 DEF RegistryWith
  <2> HIDE DEF i
  <2> QED
    BY <2>1, <2>2, <2>3, <2>4
<1>6. CASE ExitRollup(r)
  <2> DEFINE i == [r.info EXCEPT !.start = old.start]
  <2>1. r.info.namespace = ns /\ phase = "tx" /\ contains(txDB.registry, ns)
        /\ old.authority = actor /\ SetRollup(txDB.registry, ns, i)
        /\ r.info.exit >= old.start
    BY <1>6 DEF ExitRollup, RegistrationChecks, authorizationChecks, ValidExitEpoch
  <2>2. old \in RollupInfo /\ old # NoInfo
    BY <1>2, <1>3, <2>1
  <2>3. i \in RollupInfo /\ i.namespace = ns /\ i.start <= i.exit
    BY <1>1, <2>1, <2>2 DEF RollupInfo
  <2>4. RegistryWith(txDB.registry, ns) = txDB.registry
    BY <2>1 DEF RegistryWith
  <2> HIDE DEF i
  <2> QED
    BY <2>1, <2>2, <2>3, <2>4
<1> QED
  BY <1>4, <1>5, <1>6

-----------------------------------------------------------------------------
(* Removing an entry from a list *)

LEMMA WithoutProperties ==
    ASSUME NEW list \in Seq(Namespaces), NEW k \in 1..Len(list)
    PROVE  /\ Without(list, k) \in Seq(Namespaces)
           /\ Len(Without(list, k)) = Len(list) - 1
           /\ \A m \in 1..(Len(list) - 1) :
                  Without(list, k)[m] = IF m < k THEN list[m] ELSE list[m + 1]
<1> DEFINE l == SubSeq(list, 1, k - 1)
           r == SubSeq(list, k + 1, Len(list))
<1>1. l \in Seq(Namespaces) /\ Len(l) = k - 1 /\ \A m \in 1..(k - 1) : l[m] = list[m]
  OBVIOUS
<1>2. r \in Seq(Namespaces) /\ Len(r) = Len(list) - k
      /\ \A m \in 1..(Len(list) - k) : r[m] = list[k + m]
  OBVIOUS
<1> HIDE DEF l, r
<1>3. Len(l \o r) = Len(list) - 1 /\ l \o r \in Seq(Namespaces)
  <2>1. l \o r \in Seq(Namespaces)
    BY <1>1, <1>2, ConcatProperties
  <2>2. Len(l \o r) = Len(l) + Len(r)
    BY <1>1, <1>2, ConcatProperties
  <2> QED
    BY <1>1, <1>2, <2>1, <2>2
<1>4. ASSUME NEW m \in 1..(Len(list) - 1)
      PROVE  (l \o r)[m] = IF m < k THEN list[m] ELSE list[m + 1]
  <2>1. CASE m < k
    BY <1>1, <1>2, <2>1
  <2>2. CASE ~(m < k)
    <3>1. (l \o r)[m] = r[m - (k - 1)]
      BY <1>1, <1>2, <2>2
    <3>2. m - (k - 1) \in 1..(Len(list) - k) /\ k + (m - (k - 1)) = m + 1
      BY <2>2
    <3> QED
      BY <1>2, <2>2, <3>1, <3>2
  <2> QED
    BY <2>1, <2>2
<1> QED
  BY <1>3, <1>4 DEF Without, l, r

-----------------------------------------------------------------------------
(***************************************************************************)
(* An epoch exit that executes replaces one list; the rollup is registered *)
(* and its authority signs, nothing is said about other rollups, and the   *)
(* list stays free of duplicates.                                          *)
(***************************************************************************)
LEMMA EpochExitStep ==
    ASSUME ChainTypeOK, RegistryMatches(txDB), ExitsOnceAndRegistered(txDB),
           NEW ns \in Namespaces, NEW e \in ExitEpochs,
           CreateExit(ns, e) \/ DeleteExit(ns, e)
    PROVE  \E list \in Seq(Namespaces) :
              /\ SetEpochExits(e, list)
              /\ phase = "tx"
              /\ txDB.info[ns] # NoInfo
              /\ txDB.info[ns].authority = actor
              /\ \A n \in Namespaces \ {ns} :
                     contains(list, n) <=> contains(txDB.exits[e], n)
              /\ \A k \in 1..Len(list) : txDB.info[list[k]] # NoInfo
              /\ \A j, k \in 1..Len(list) : list[j] = list[k] => j = k
<1> DEFINE old == txDB.exits[e]
<1>1. old \in Seq(Namespaces)
  BY DEF ChainTypeOK, StateDB
<1>2. phase = "tx" /\ txDB.info[ns] # NoInfo /\ txDB.info[ns].authority = actor
  BY DEF CreateExit, DeleteExit, EpochExitChecks, authorizationChecks, RegistryMatches
<1>3. /\ \A j, k \in 1..Len(old) : old[j] = old[k] => j = k
      /\ \A k \in 1..Len(old) : txDB.info[old[k]] # NoInfo
  BY DEF ExitsOnceAndRegistered
<1>4. CASE CreateExit(ns, e)
  <2> DEFINE list == Append(old, ns)
  <2>1. SetEpochExits(e, list) /\ \A k \in 1..Len(old) : old[k] # ns
    BY <1>4 DEF CreateExit, Indices
  <2>2. /\ list \in Seq(Namespaces)
        /\ Len(list) = Len(old) + 1
        /\ \A k \in 1..Len(old) : list[k] = old[k]
        /\ list[Len(old) + 1] = ns
    BY <1>1
  <2> HIDE DEF old, list
  <2>3. \A n \in Namespaces \ {ns} : contains(list, n) <=> contains(old, n)
    BY <1>1, <2>2 DEF contains
  <2>4. \A k \in 1..Len(list) : txDB.info[list[k]] # NoInfo
    BY <1>1, <1>2, <1>3, <2>2
  <2>5. \A j, k \in 1..Len(list) : list[j] = list[k] => j = k
    BY <1>1, <1>3, <2>1, <2>2
  <2> QED
    BY <1>2, <2>1, <2>2, <2>3, <2>4, <2>5 DEF old
<1>5. CASE DeleteExit(ns, e)
  <2>1. PICK k \in 1..Len(old) : old[k] = ns /\ SetEpochExits(e, Without(old, k))
    BY <1>5 DEF DeleteExit, Indices
  <2> DEFINE list == Without(old, k)
  <2>2. /\ list \in Seq(Namespaces)
        /\ Len(list) = Len(old) - 1
        /\ \A m \in 1..Len(list) : list[m] = IF m < k THEN old[m] ELSE old[m + 1]
    BY <1>1, <2>1, WithoutProperties
  <2> HIDE DEF old, list
  <2>3. ASSUME NEW n \in Namespaces \ {ns}, contains(old, n)
        PROVE  contains(list, n)
    <3>1. PICK m \in 1..Len(old) : old[m] = n
      BY <2>3 DEF contains
    <3>2. CASE m < k
      <4>1. m \in 1..Len(list) /\ list[m] = n
        BY <1>1, <2>1, <2>2, <3>1, <3>2
      <4> QED
        BY <4>1 DEF contains
    <3>3. CASE m > k
      <4>1. m - 1 \in 1..Len(list) /\ list[m - 1] = n
        BY <1>1, <2>1, <2>2, <3>1, <3>3
      <4> QED
        BY <4>1 DEF contains
    <3> QED
      BY <1>1, <2>1, <3>1, <3>2, <3>3
  <2>4. ASSUME NEW n \in Namespaces \ {ns}, contains(list, n)
        PROVE  contains(old, n)
    BY <1>1, <2>1, <2>2, <2>4 DEF contains
  <2>5. \A m \in 1..Len(list) : txDB.info[list[m]] # NoInfo
    BY <1>1, <1>3, <2>1, <2>2
  <2>6. \A j, m \in 1..Len(list) : list[j] = list[m] => j = m
    BY <1>1, <1>3, <2>1, <2>2
  <2>7. SetEpochExits(e, list)
    BY <2>1 DEF list
  <2> QED
    BY <1>2, <2>2, <2>3, <2>4, <2>5, <2>6, <2>7 DEF old
<1> QED
  BY <1>4, <1>5

-----------------------------------------------------------------------------
(***************************************************************************)
(* The inductive invariant.  Outside a transaction the block's view is the *)
(* transaction's, outside a block both are the accepted state; the         *)
(* properties of the three views carry one another from step to step.      *)
(***************************************************************************)
PhasesNest ==
    /\ phase # "tx" => txDB = blockDB /\ txRegs = << >>
    /\ phase = "idle" => blockDB = accepted /\ blockRegs = << >>

ChainInv ==
    /\ ChainTypeOK
    /\ PhasesNest
    /\ RegistryMatchesInfo
    /\ ExitsConsistent
    /\ OptOutNotBeforeOptIn
    /\ OnlyAuthority

(* The initial state satisfies the invariant. *)
LEMMA ChainInvInit == ChainInit => ChainInv
<1> SUFFICES ASSUME ChainInit PROVE ChainInv
  OBVIOUS
<1>1. ChainTypeOK /\ PhasesNest
  BY EmptyDBType, SentinelAssumption DEF ChainInit, ChainTypeOK, PhasesNest
<1>2. RegistryMatches(EmptyDB) /\ ExitsOnceAndRegistered(EmptyDB) /\ EpochsOrdered(EmptyDB)
  BY DEF RegistryMatches, ExitsOnceAndRegistered, EpochsOrdered, EmptyDB, contains
<1>3. OnlyAuthority
  BY DEF ChainInit, OnlyAuthority, EmptyDB
<1> QED
  BY <1>1, <1>2, <1>3 DEF ChainInit, ChainInv, RegistryMatchesInfo, ExitsConsistent,
                           OptOutNotBeforeOptIn, Views

(* Registering keeps the registry and the records in step. *)
LEMMA SetRollupKeepsMatch ==
    ASSUME NEW db \in StateDB, RegistryMatches(db), NEW ns \in Namespaces,
           NEW i \in RollupInfo, i.namespace = ns
    PROVE  RegistryMatches([registry |-> RegistryWith(db.registry, ns),
                            info     |-> [db.info EXCEPT ![ns] = i],
                            exits    |-> db.exits])
<1> DEFINE reg == RegistryWith(db.registry, ns)
           inf == [db.info EXCEPT ![ns] = i]
<1>1. db.registry \in Seq(Namespaces) /\ db.info \in [Namespaces -> RollupInfo \cup {NoInfo}]
  BY DEF StateDB
<1>2. \A n \in Namespaces : inf[n] = IF n = ns THEN i ELSE db.info[n]
  BY <1>1
<1>3. i # NoInfo
  BY SentinelAssumption
<1>4. \A n \in Namespaces : contains(reg, n) <=> n = ns \/ contains(db.registry, n)
  BY <1>1 DEF RegistryWith, contains
<1>5. \A j, k \in 1..Len(reg) : reg[j] = reg[k] => j = k
  <2>1. CASE contains(db.registry, ns)
    BY <2>1 DEF RegistryWith, RegistryMatches
  <2>2. CASE ~contains(db.registry, ns)
    <3>1. /\ Len(reg) = Len(db.registry) + 1
          /\ reg[Len(db.registry) + 1] = ns
          /\ \A k \in 1..Len(db.registry) : reg[k] = db.registry[k]
      BY <1>1, <2>2 DEF RegistryWith
    <3>2. \A k \in 1..Len(db.registry) : db.registry[k] # ns
      BY <2>2 DEF contains
    <3>3. \A j, k \in 1..Len(db.registry) : db.registry[j] = db.registry[k] => j = k
      BY DEF RegistryMatches
    <3> HIDE DEF reg
    <3> QED
      BY <1>1, <3>1, <3>2, <3>3
  <2> QED
    BY <2>1, <2>2
<1>6. \A n \in Namespaces : contains(reg, n) <=> inf[n] # NoInfo
  <2>1. \A n \in Namespaces : contains(db.registry, n) <=> db.info[n] # NoInfo
    BY DEF RegistryMatches
  <2> HIDE DEF reg, inf
  <2> QED
    BY <1>2, <1>3, <1>4, <2>1
<1>7. \A n \in Namespaces : inf[n] # NoInfo => inf[n].namespace = n
  <2>1. \A n \in Namespaces : db.info[n] # NoInfo => db.info[n].namespace = n
    BY DEF RegistryMatches
  <2> HIDE DEF reg, inf
  <2> QED
    BY <1>2, <2>1
<1> HIDE DEF reg, inf
<1>8. RegistryMatches([registry |-> reg, info |-> inf, exits |-> db.exits])
  BY <1>5, <1>6, <1>7 DEF RegistryMatches
<1> QED
  BY <1>8 DEF reg, inf

(* A registration keeps the invariant. *)
LEMMA RegistrationKeepsInv ==
    ASSUME ChainInv, NEW r \in Registration,
           CreateRollup(r) \/ UpdateRollup(r) \/ ExitRollup(r)
    PROVE  ChainInv'
<1> DEFINE ns == r.namespace
           reg == RegistryWith(txDB.registry, ns)
<1>1. ChainTypeOK /\ RegistryMatches(txDB) /\ ExitsOnceAndRegistered(txDB)
      /\ EpochsOrdered(txDB) /\ OnlyAuthority /\ PhasesNest
  BY DEF ChainInv, RegistryMatchesInfo, ExitsConsistent, OptOutNotBeforeOptIn, Views
<1>2. PICK i \in RollupInfo :
          /\ i.namespace = ns
          /\ SetRollup(reg, ns, i)
          /\ phase = "tx"
          /\ txDB.info[ns] # NoInfo => txDB.info[ns].authority = actor
          /\ i.exit = 0 \/ i.start <= i.exit \/
                 /\ txDB.info[ns] # NoInfo
                 /\ i.start = txDB.info[ns].start
                 /\ i.exit = txDB.info[ns].exit
  BY <1>1, RegistrationStep
<1>3. ns \in Namespaces /\ reg \in Seq(Namespaces)
  BY <1>1, RegistrationType, RegistryWithType DEF ChainTypeOK, StateDB
<1>4. /\ txDB' = [registry |-> reg, info |-> [txDB.info EXCEPT ![ns] = i],
                  exits |-> txDB.exits]
      /\ txRegs' = Append(txRegs, [info |-> i, success |-> TRUE])
      /\ UNCHANGED <<hght, accepted, phase, blockDB, blockRegs, actor>>
  BY <1>2 DEF SetRollup
<1>5. /\ txDB.info \in [Namespaces -> RollupInfo \cup {NoInfo}]
      /\ \A n \in Namespaces : txDB'.info[n] = IF n = ns THEN i ELSE txDB.info[n]
      /\ txDB'.exits = txDB.exits
      /\ i # NoInfo
  BY <1>1, <1>3, <1>4, SentinelAssumption DEF ChainTypeOK, StateDB
<1>6. ChainTypeOK'
  <2>1. txDB' \in StateDB
    BY <1>1, <1>3, <1>4 DEF ChainTypeOK, StateDB
  <2>2. txRegs' \in Seq(RegAction)
    BY <1>1, <1>4 DEF ChainTypeOK, RegAction
  <2> QED
    BY <1>1, <1>4, <2>1, <2>2 DEF ChainTypeOK
<1>7. PhasesNest'
  BY <1>2, <1>4 DEF PhasesNest
<1>8. RegistryMatchesInfo'
  <2>1. RegistryMatches(txDB')
    BY <1>1, <1>2, <1>3, <1>4, SetRollupKeepsMatch DEF ChainTypeOK
  <2> QED
    BY <1>4, <2>1 DEF ChainInv, RegistryMatchesInfo, Views
<1>9. ExitsConsistent'
  <2>1. \A e \in ExitEpochs : txDB.exits[e] \in Seq(Namespaces)
    BY <1>1 DEF ChainTypeOK, StateDB
  <2>2. ExitsOnceAndRegistered(txDB')
    BY <1>1, <1>5, <2>1 DEF ExitsOnceAndRegistered
  <2> QED
    BY <1>4, <2>2 DEF ChainInv, ExitsConsistent, Views
<1>10. OptOutNotBeforeOptIn'
  <2>1. EpochsOrdered(txDB')
    BY <1>1, <1>2, <1>3, <1>5 DEF EpochsOrdered
  <2> QED
    BY <1>4, <2>1 DEF ChainInv, OptOutNotBeforeOptIn, Views
<1>11. OnlyAuthority'
  <2> SUFFICES ASSUME NEW n \in Namespaces, blockDB.info[n] # NoInfo,
                      \/ txDB'.info[n] # blockDB.info[n]
                      \/ \E e \in ExitEpochs :
                            contains(txDB.exits[e], n) # contains(blockDB.exits[e], n)
               PROVE  actor = blockDB.info[n].authority
    BY <1>4, <1>5 DEF OnlyAuthority
  <2>1. CASE n = ns /\ txDB.info[n] = blockDB.info[n]
    BY <1>2, <2>1
  <2>2. CASE n # ns \/ txDB.info[n] # blockDB.info[n]
    BY <1>1, <1>5, <2>2 DEF OnlyAuthority
  <2> QED
    BY <2>1, <2>2
<1> QED
  BY <1>6, <1>7, <1>8, <1>9, <1>10, <1>11 DEF ChainInv

(* An epoch exit keeps the invariant. *)
LEMMA EpochExitKeepsInv ==
    ASSUME ChainInv, NEW ns \in Namespaces, NEW e \in ExitEpochs,
           CreateExit(ns, e) \/ DeleteExit(ns, e)
    PROVE  ChainInv'
<1>1. ChainTypeOK /\ RegistryMatches(txDB) /\ ExitsOnceAndRegistered(txDB)
      /\ EpochsOrdered(txDB) /\ OnlyAuthority /\ PhasesNest
  BY DEF ChainInv, RegistryMatchesInfo, ExitsConsistent, OptOutNotBeforeOptIn, Views
<1>2. PICK list \in Seq(Namespaces) :
          /\ SetEpochExits(e, list)
          /\ phase = "tx"
          /\ txDB.info[ns] # NoInfo
          /\ txDB.info[ns].authority = actor
          /\ \A n \in Namespaces \ {ns} :
                 contains(list, n) <=> contains(txDB.exits[e], n)
          /\ \A k \in 1..Len(list) : txDB.info[list[k]] # NoInfo
          /\ \A j, k \in 1..Len(list) : list[j] = list[k] => j = k
  BY <1>1, EpochExitStep
<1>3. /\ txDB' = [registry |-> txDB.registry, info |-> txDB.info,
                  exits |-> [txDB.exits EXCEPT ![e] = list]]
      /\ UNCHANGED <<hght, accepted, phase, blockDB, blockRegs, actor, txRegs>>
  BY <1>2 DEF SetEpochExits
<1>4. /\ txDB'.registry = txDB.registry
      /\ txDB'.info = txDB.info
      /\ txDB.exits \in [ExitEpochs -> Seq(Namespaces)]
      /\ \A d \in ExitEpochs : txDB'.exits[d] = IF d = e THEN list ELSE txDB.exits[d]
  BY <1>1, <1>3 DEF ChainTypeOK, StateDB
<1>5. ChainTypeOK'
  <2>1. txDB' \in StateDB
    BY <1>1, <1>3 DEF ChainTypeOK, StateDB
  <2> QED
    BY <1>1, <1>3, <2>1 DEF ChainTypeOK
<1>6. PhasesNest'
  BY <1>2, <1>3 DEF PhasesNest
<1>7. RegistryMatchesInfo'
  <2>1. RegistryMatches(txDB')
    BY <1>1, <1>4 DEF RegistryMatches
  <2> QED
    BY <1>3, <2>1 DEF ChainInv, RegistryMatchesInfo, Views
<1>8. ExitsConsistent'
  <2>1. ExitsOnceAndRegistered(txDB')
    BY <1>1, <1>2, <1>4 DEF ExitsOnceAndRegistered
  <2> QED
    BY <1>3, <2>1 DEF ChainInv, ExitsConsistent, Views
<1>9. OptOutNotBeforeOptIn'
  <2>1. EpochsOrdered(txDB')
    BY <1>1, <1>4 DEF EpochsOrdered
  <2> QED
    BY <1>3, <2>1 DEF ChainInv, OptOutNotBeforeOptIn, Views
<1>10. OnlyAuthority'
  <2> SUFFICES ASSUME NEW n \in Namespaces, blockDB.info[n] # NoInfo,
                      \/ txDB.info[n] # blockDB.info[n]
                      \/ \E d \in ExitEpochs :
                            contains(txDB'.exits[d], n) # contains(blockDB.exits[d], n)
               PROVE  actor = blockDB.info[n].authority
    BY <1>3, <1>4 DEF OnlyAuthority
  <2>1. CASE txDB.info[n] # blockDB.info[n]
    BY <1>1, <2>1 DEF OnlyAuthority
  <2>2. CASE txDB.info[n] = blockDB.info[n] /\ n = ns
    BY <1>2, <2>2
  <2>3. CASE txDB.info[n] = blockDB.info[n] /\ n # ns
    <3>1. PICK d \in ExitEpochs :
              contains(txDB'.exits[d], n) # contains(blockDB.exits[d], n)
      BY <2>3
    <3>2. contains(txDB.exits[d], n) = contains(txDB'.exits[d], n)
      <4>1. CASE d = e
        <5>1. contains(list, n) <=> contains(txDB.exits[e], n)
          BY <1>2, <2>3
        <5>2. txDB'.exits[d] = list
          BY <1>4, <4>1
        <5>3. contains(list, n) \in BOOLEAN /\ contains(txDB.exits[e], n) \in BOOLEAN
          BY DEF contains
        <5> QED
          BY <4>1, <5>1, <5>2, <5>3
      <4>2. CASE d # e
        BY <1>4, <4>2
      <4> QED
        BY <4>1, <4>2
    <3> QED
      BY <1>1, <3>1, <3>2 DEF OnlyAuthority
  <2> QED
    BY <2>1, <2>2, <2>3
<1> QED
  BY <1>5, <1>6, <1>7, <1>8, <1>9, <1>10 DEF ChainInv

(* What a failed transaction leaves in the block is typed. *)
LEMMA FailedType ==
    ASSUME NEW regs \in Seq(RegAction)
    PROVE  Failed(regs) \in Seq(RegAction)
<1>1. \A k \in 1..Len(regs) : regs[k] \in RegAction
  OBVIOUS
<1>2. Failed(regs) \in [1..Len(regs) -> RegAction]
  BY <1>1 DEF Failed, RegAction
<1>3. Len(regs) \in Nat
  OBVIOUS
<1> QED
  BY <1>2, <1>3, SeqDef

(* The steps that only move views about keep the invariant. *)
LEMMA MovingViewsKeepsInv ==
    ASSUME ChainInv, ChainTypeOK', PhasesNest', OnlyAuthority',
           accepted' \in Views, blockDB' \in Views, txDB' \in Views
    PROVE  ChainInv'
BY DEF ChainInv, RegistryMatchesInfo, ExitsConsistent, OptOutNotBeforeOptIn, Views

(* Every step of the chain keeps the invariant. *)
LEMMA ChainInvStep ==
    ASSUME ChainInv, TxStep \/ AcceptBlock
    PROVE  ChainInv'
<1>1. ChainTypeOK /\ PhasesNest /\ OnlyAuthority
  BY DEF ChainInv
<1>2. CASE BuildBlock
  <2>1. ChainTypeOK' /\ PhasesNest' /\ OnlyAuthority'
    BY <1>1, <1>2 DEF BuildBlock, ChainTypeOK, PhasesNest, OnlyAuthority
  <2> QED
    BY <1>2, <2>1, MovingViewsKeepsInv DEF BuildBlock, Views
<1>3. ASSUME NEW a \in Addresses, BeginTx(a)
      PROVE  ChainInv'
  <2>1. ChainTypeOK' /\ PhasesNest'
    BY <1>1, <1>3 DEF BeginTx, ChainTypeOK, PhasesNest
  <2>2. txDB' = blockDB'
    BY <1>1, <1>3 DEF BeginTx, PhasesNest
  <2>3. OnlyAuthority'
    BY <2>2 DEF OnlyAuthority
  <2> QED
    BY <1>3, <2>1, <2>3, MovingViewsKeepsInv DEF BeginTx, Views
<1>4. CASE ExecuteStep
  BY <1>4, RegistrationKeepsInv, EpochExitKeepsInv DEF ExecuteStep
<1>5. CASE CommitTx
  <2>1. blockRegs \o txRegs \in Seq(RegAction)
    BY <1>1, ConcatProperties DEF ChainTypeOK
  <2>2. ChainTypeOK' /\ PhasesNest'
    BY <1>1, <1>5, <2>1, SentinelAssumption DEF CommitTx, ChainTypeOK, PhasesNest
  <2>3. txDB' = blockDB'
    BY <1>5 DEF CommitTx
  <2>4. OnlyAuthority'
    BY <2>3 DEF OnlyAuthority
  <2> QED
    BY <1>5, <2>2, <2>4, MovingViewsKeepsInv DEF CommitTx, Views
<1>6. CASE AbortTx
  <2>1. blockRegs \o Failed(txRegs) \in Seq(RegAction)
    BY <1>1, FailedType, ConcatProperties DEF ChainTypeOK
  <2>2. ChainTypeOK' /\ PhasesNest'
    BY <1>1, <1>6, <2>1, SentinelAssumption DEF AbortTx, ChainTypeOK, PhasesNest
  <2>3. txDB' = blockDB'
    BY <1>6 DEF AbortTx
  <2>4. OnlyAuthority'
    BY <2>3 DEF OnlyAuthority
  <2> QED
    BY <1>6, <2>2, <2>4, MovingViewsKeepsInv DEF AbortTx, Views
<1>7. CASE AcceptBlock
  <2>1. ChainTypeOK' /\ PhasesNest'
    BY <1>1, <1>7 DEF AcceptBlock, ChainTypeOK, PhasesNest
  <2>2. txDB' = blockDB'
    BY <1>1, <1>7 DEF AcceptBlock, PhasesNest
  <2>3. OnlyAuthority'
    BY <2>2 DEF OnlyAuthority
  <2> QED
    BY <1>7, <2>1, <2>3, MovingViewsKeepsInv DEF AcceptBlock, Views
<1>8. CASE RejectBlock
  <2>1. ChainTypeOK' /\ PhasesNest'
    BY <1>1, <1>8 DEF RejectBlock, ChainTypeOK, PhasesNest
  <2>2. txDB' = blockDB'
    BY <1>8 DEF RejectBlock
  <2>3. OnlyAuthority'
    BY <2>2 DEF OnlyAuthority
  <2> QED
    BY <1>8, <2>1, <2>3, MovingViewsKeepsInv DEF RejectBlock, Views
<1> QED
  BY <1>2, <1>3, <1>4, <1>5, <1>6, <1>7, <1>8 DEF TxStep

(* A step that leaves the chain's variables alone keeps the invariant. *)
LEMMA ChainInvStutter ==
    ASSUME ChainInv, UNCHANGED chainVars
    PROVE  ChainInv'
BY DEF ChainInv, chainVars, ChainTypeOK, PhasesNest, RegistryMatchesInfo, RegistryMatches,
       ExitsConsistent, ExitsOnceAndRegistered, OptOutNotBeforeOptIn, EpochsOrdered,
       OnlyAuthority, Views, contains

(***************************************************************************)
(* Along every behaviour of the chain, for every set of namespaces and     *)
(* addresses and every epoch length.                                       *)
(***************************************************************************)
THEOREM ChainInvariant == ChainSpec => []ChainInv
<1>1. ChainInv /\ [ChainNext]_chainVars => ChainInv'
  BY ChainInvStep, ChainInvStutter DEF ChainNext, Finished
<1> QED
  BY <1>1, ChainInvInit, PTL DEF ChainSpec

(* Type correctness of the registration and epoch exit actions. *)
THEOREM ChainTypeCorrect == ChainSpec => []ChainTypeOK
BY ChainInvariant, PTL DEF ChainInv

(* The registry and the stored records always agree. *)
THEOREM RegistryAlwaysMatchesInfo == ChainSpec => []RegistryMatchesInfo
BY ChainInvariant, PTL DEF ChainInv

(* Exit lists hold registered rollups, each at most once. *)
THEOREM ExitsAlwaysConsistent == ChainSpec => []ExitsConsistent
BY ChainInvariant, PTL DEF ChainInv

(* A recorded opt-out never precedes the opt-in. *)
THEOREM OptOutNeverBeforeOptIn == ChainSpec => []OptOutNotBeforeOptIn
BY ChainInvariant, PTL DEF ChainInv

(* Nobody but its authority changes a rollup registered before the tx. *)
THEOREM OnlyAuthorityEver == ChainSpec => []OnlyAuthority
BY ChainInvariant, PTL DEF ChainInv

-----------------------------------------------------------------------------
(***************************************************************************)
(* What a block may do to a record.  Compared with the accepted state, a   *)
(* record in the view of the block or of a transaction is missing in both, *)
(* opts in with two epochs of notice, or has its old opt-in and either its *)
(* old opt-out or one with two epochs of notice.                           *)
(***************************************************************************)
NoticeGiven(db) ==
    \A ns \in Namespaces :
        LET old == accepted.info[ns]
            new == db.info[ns]
        IN  \/ old = NoInfo /\ new = NoInfo
            \/ new # NoInfo /\ new.start >= CurrentEpoch + 2
            \/ /\ old # NoInfo /\ new # NoInfo
               /\ new.start = old.start
               /\ new.exit = old.exit \/ new.exit >= CurrentEpoch + 2

NoticeInv == NoticeGiven(blockDB) /\ NoticeGiven(txDB)

(* The accepted state itself. *)
LEMMA NoticeOfAccepted == NoticeGiven(accepted)
BY DEF NoticeGiven

(* The current epoch is a number. *)
LEMMA CurrentEpochType ==
    ASSUME hght \in Nat
    PROVE  CurrentEpoch \in Nat
BY EpochLengthAssumption DEF CurrentEpoch, Epoch

(* Create gives notice of the opt-in, Exit of the opt-out, and Update keeps *)
(* both epochs.                                                             *)
LEMMA RegistrationGivesNotice ==
    ASSUME ChainInv, NoticeInv, NEW r \in Registration,
           CreateRollup(r) \/ UpdateRollup(r) \/ ExitRollup(r)
    PROVE  NoticeInv'
<1> DEFINE ns == r.namespace
           old == txDB.info[ns]
<1>1. ChainTypeOK /\ RegistryMatches(txDB)
  BY DEF ChainInv, RegistryMatchesInfo, Views
<1>2. ns \in Namespaces /\ r.info \in RollupInfo /\ txDB \in StateDB
  BY <1>1, RegistrationType DEF ChainTypeOK
<1>3. contains(txDB.registry, ns) => old # NoInfo /\ old \in RollupInfo
  BY <1>1, <1>2, InfoType DEF RegistryMatches
<1>4. PICK i \in RollupInfo :
          /\ \E reg : SetRollup(reg, ns, i)
          /\ \/ i.start >= CurrentEpoch + 2
             \/ /\ old # NoInfo
                /\ i.start = old.start
                /\ i.exit = old.exit \/ i.exit >= CurrentEpoch + 2
  <2>1. CASE CreateRollup(r)
    BY <1>2, <2>1 DEF CreateRollup, ValidCreateEpochs
  <2>2. CASE UpdateRollup(r)
    <3> DEFINE i == [r.info EXCEPT !.start = old.start, !.exit = old.exit]
    <3>1. SetRollup(txDB.registry, ns, i) /\ contains(txDB.registry, ns)
      BY <2>2 DEF UpdateRollup, authorizationChecks
    <3>2. i \in RollupInfo /\ i.start = old.start /\ i.exit = old.exit
      BY <1>2, <1>3, <3>1 DEF RollupInfo
    <3> HIDE DEF i
    <3> QED
      BY <1>3, <3>1, <3>2
  <2>3. CASE ExitRollup(r)
    <3> DEFINE i == [r.info EXCEPT !.start = old.start]
    <3>1. /\ SetRollup(txDB.registry, ns, i) /\ contains(txDB.registry, ns)
          /\ r.info.exit >= CurrentEpoch + 2
      BY <2>3 DEF ExitRollup, authorizationChecks, ValidExitEpoch
    <3>2. i \in RollupInfo /\ i.start = old.start /\ i.exit = r.info.exit
      BY <1>2, <1>3, <3>1 DEF RollupInfo
    <3> HIDE DEF i
    <3> QED
      BY <1>3, <3>1, <3>2
  <2> QED
    BY <2>1, <2>2, <2>3
<1>5. /\ \A n \in Namespaces : txDB'.info[n] = IF n = ns THEN i ELSE txDB.info[n]
      /\ UNCHANGED <<hght, accepted, blockDB>>
      /\ i # NoInfo
  BY <1>2, <1>4, SentinelAssumption DEF SetRollup, StateDB
<1>6. CurrentEpoch' = CurrentEpoch
  BY <1>5 DEF CurrentEpoch
<1>7. NoticeGiven(blockDB)'
  BY <1>5, <1>6 DEF NoticeInv, NoticeGiven
<1>8. NoticeGiven(txDB)'
  <2> SUFFICES ASSUME NEW n \in Namespaces
               PROVE  LET o == accepted.info[n]
                          new == txDB'.info[n]
                      IN  \/ o = NoInfo /\ new = NoInfo
                          \/ new # NoInfo /\ new.start >= CurrentEpoch + 2
                          \/ /\ o # NoInfo /\ new # NoInfo
                             /\ new.start = o.start
                             /\ new.exit = o.exit \/ new.exit >= CurrentEpoch + 2
    BY <1>5, <1>6 DEF NoticeGiven
  <2>1. CASE n # ns
    BY <1>5, <2>1 DEF NoticeInv, NoticeGiven
  <2>2. CASE n = ns
    BY <1>2, <1>4, <1>5, <2>2 DEF NoticeInv, NoticeGiven
  <2> QED
    BY <2>1, <2>2
<1> QED
  BY <1>7, <1>8 DEF NoticeInv

(* Every step of the chain keeps it. *)
LEMMA NoticeStep ==
    ASSUME ChainInv, NoticeInv, TxStep \/ AcceptBlock
    PROVE  NoticeInv'
<1>1. PhasesNest
  BY DEF ChainInv
<1>2. CASE \E r \in Registration : CreateRollup(r) \/ UpdateRollup(r) \/ ExitRollup(r)
  BY <1>2, RegistrationGivesNotice
<1>3. CASE AcceptBlock
  <2>1. blockDB' = accepted' /\ txDB' = accepted'
    BY <1>1, <1>3 DEF AcceptBlock, PhasesNest
  <2> QED
    BY <2>1 DEF NoticeInv, NoticeGiven
<1>4. CASE BuildBlock \/ (\E a \in Addresses : BeginTx(a)) \/ CommitTx \/ AbortTx
           \/ RejectBlock
  <2>1. /\ UNCHANGED <<hght, accepted>>
        /\ blockDB' \in Views /\ txDB' \in Views
    BY <1>1, <1>4 DEF BuildBlock, BeginTx, CommitTx, AbortTx, RejectBlock, Views
  <2>2. CurrentEpoch' = CurrentEpoch
    BY <2>1 DEF CurrentEpoch
  <2> QED
    BY <2>1, <2>2, NoticeOfAccepted DEF NoticeInv, NoticeGiven, Views
<1>5. ASSUME NEW ns \in Namespaces, NEW e \in ExitEpochs,
             CreateExit(ns, e) \/ DeleteExit(ns, e)
      PROVE  NoticeInv'
  <2>1. txDB'.info = txDB.info /\ UNCHANGED <<hght, accepted, blockDB>>
    BY <1>5 DEF CreateExit, DeleteExit, SetEpochExits
  <2>2. CurrentEpoch' = CurrentEpoch
    BY <2>1 DEF CurrentEpoch
  <2> QED
    BY <2>1, <2>2 DEF NoticeInv, NoticeGiven
<1> QED
  BY <1>2, <1>3, <1>4, <1>5 DEF TxStep, ExecuteStep

(* Accepting a block whose view gives notice decides nothing about epochs  *)
(* up to the next one for a first registration or a first opt-out.         *)
LEMMA AcceptLeavesNotice ==
    ASSUME ChainTypeOK, NoticeInv, accepted' = blockDB,
           NEW ns \in Namespaces, NEW e \in 0..(CurrentEpoch + 1),
           \/ accepted.info[ns] = NoInfo
           \/ /\ accepted.info[ns].exit = 0
              /\ accepted'.info[ns].start = accepted.info[ns].start
    PROVE  Participates(accepted, ns, e) = Participates(accepted', ns, e)
<1> DEFINE old == accepted.info[ns]
           new == blockDB.info[ns]
<1>1. CurrentEpoch \in Nat
  BY CurrentEpochType DEF ChainTypeOK
<1>2. /\ old # NoInfo => old.start \in Nat /\ old.exit \in Nat
      /\ new # NoInfo => new.start \in Nat /\ new.exit \in Nat
  BY InfoType DEF ChainTypeOK, RollupInfo
<1>3. \/ old = NoInfo /\ new = NoInfo
      \/ new # NoInfo /\ new.start >= CurrentEpoch + 2
      \/ /\ old # NoInfo /\ new # NoInfo
         /\ new.start = old.start
         /\ new.exit = old.exit \/ new.exit >= CurrentEpoch + 2
  BY DEF NoticeInv, NoticeGiven
<1>4. /\ Participates(accepted, ns, e) <=> old # NoInfo /\ ValidAtEpoch(old, e)
      /\ Participates(accepted', ns, e) <=> new # NoInfo /\ ValidAtEpoch(new, e)
  BY DEF Participates
<1>5. Participates(accepted, ns, e) <=> Participates(accepted', ns, e)
  BY <1>1, <1>2, <1>3, <1>4 DEF ValidAtEpoch, Exited
<1> QED
  BY <1>5 DEF Participates

(* Accepting a block of epoch E decides nothing about epochs up to E + 1   *)
(* for a rollup that registers or opts out for the first time.             *)
THEOREM FirstChangeAlwaysLeavesNotice == ChainSpec => FirstChangeLeavesNotice
<1> DEFINE A == accepted' # accepted =>
        \A ns \in Namespaces, e \in 0..(CurrentEpoch + 1) :
            \/ accepted.info[ns] = NoInfo
            \/ /\ accepted.info[ns].exit = 0
               /\ accepted'.info[ns].start = accepted.info[ns].start
            => Participates(accepted, ns, e) = Participates(accepted', ns, e)
<1>1. ChainInit => NoticeInv
  BY NoticeOfAccepted DEF ChainInit, NoticeInv
<1>2. ChainInv /\ NoticeInv /\ [ChainNext]_chainVars => NoticeInv'
  <2>1. NoticeInv /\ UNCHANGED chainVars => NoticeInv'
    BY DEF NoticeInv, NoticeGiven, chainVars, CurrentEpoch
  <2> QED
    BY <2>1, NoticeStep DEF ChainNext, Finished
<1>3. ChainInv /\ NoticeInv /\ [ChainNext]_chainVars => [A]_chainVars
  <2> SUFFICES ASSUME ChainInv, NoticeInv, ChainNext, accepted' # accepted
               PROVE  A
    BY DEF chainVars
  <2>1. AcceptBlock
    BY DEF ChainNext, TxStep, ExecuteStep, Finished, chainVars, BuildBlock, BeginTx,
           CreateRollup, UpdateRollup, ExitRollup, SetRollup, CreateExit, DeleteExit,
           SetEpochExits, CommitTx, AbortTx, RejectBlock
  <2>2. accepted' = blockDB /\ ChainTypeOK
    BY <2>1 DEF AcceptBlock, ChainInv
  <2> QED
    BY <2>2, AcceptLeavesNotice
<1> QED
  BY <1>1, <1>2, <1>3, ChainInvariant, PTL DEF ChainSpec, FirstChangeLeavesNotice

-----------------------------------------------------------------------------
(***************************************************************************)
(* The in-memory registry: it agrees with the state database up to the     *)
(* blocks Controller.Accepted has yet to process.                          *)
(***************************************************************************)

-----------------------------------------------------------------------------
(* Epochs *)

(* Epochs are natural numbers and do not decrease with the height. *)
LEMMA EpochMonotonic ==
    ASSUME NEW h1 \in Nat, NEW h2 \in Nat, h1 <= h2
    PROVE  Epoch(h1) \in Nat /\ Epoch(h2) \in Nat /\ Epoch(h1) <= Epoch(h2)
BY EpochLengthAssumption DEF Epoch

(* An opt-out in effect stays in effect. *)
LEMMA ExitedMonotonic ==
    ASSUME NEW i \in RollupInfo, NEW e1 \in Nat, NEW e2 \in Nat, e1 <= e2, Exited(i, e1)
    PROVE  Exited(i, e2)
BY DEF Exited, RollupInfo

-----------------------------------------------------------------------------
(* Lists of registrations *)

(* The last registration for a namespace is unique. *)
LEMMA LastUnique ==
    ASSUME NEW regs \in Seq(RegAction), NEW ns,
           NEW j \in 1..Len(regs), NEW k \in 1..Len(regs),
           IsLast(regs, j, ns), IsLast(regs, k, ns)
    PROVE  j = k
BY DEF IsLast

(* What Update leaves in the map for a namespace. *)
LEMMA PutValue ==
    ASSUME NEW regs \in Seq(RegAction), NEW ns, NEW old
    PROVE  /\ NoneFor(regs, ns) => Put(regs, ns, old) = old
           /\ \A i : LastFor(regs, ns, i) => Put(regs, ns, old) = i
<1>1. NoneFor(regs, ns) => Put(regs, ns, old) = old
  BY DEF NoneFor, Put, IsLast
<1>2. ASSUME NEW i, LastFor(regs, ns, i)
      PROVE  Put(regs, ns, old) = i
  <2>1. PICK k \in 1..Len(regs) : IsLast(regs, k, ns) /\ regs[k].info = i
    BY <1>2 DEF LastFor
  <2> DEFINE j == CHOOSE m \in 1..Len(regs) : IsLast(regs, m, ns)
  <2>2. j \in 1..Len(regs) /\ IsLast(regs, j, ns)
    BY <2>1
  <2> HIDE DEF j
  <2>3. j = k
    BY <2>1, <2>2, LastUnique
  <2> QED
    BY <2>1, <2>3 DEF Put, j
<1> QED
  BY <1>1, <1>2

(* A list of registrations accounts for the change from one state to the   *)
(* next: what it says nothing about is unchanged, and its last word on a   *)
(* namespace is the stored record.                                         *)
Explains(regs, from, to) ==
    \A ns \in Namespaces :
        \/ NoneFor(regs, ns) /\ to.info[ns] = from.info[ns]
        \/ LastFor(regs, ns, to.info[ns])

(* Lists of registrations compose. *)
LEMMA ExplainsConcat ==
    ASSUME NEW r1 \in Seq(RegAction), NEW r2 \in Seq(RegAction), NEW a, NEW b, NEW c,
           Explains(r1, a, b), Explains(r2, b, c)
    PROVE  Explains(r1 \o r2, a, c)
<1> DEFINE r == r1 \o r2
<1>1. /\ r \in Seq(RegAction)
      /\ Len(r) = Len(r1) + Len(r2)
      /\ \A k \in 1..Len(r1) : r[k] = r1[k]
      /\ \A k \in 1..Len(r2) : r[Len(r1) + k] = r2[k]
  BY ConcatProperties
<1>2. Len(r1) \in Nat /\ Len(r2) \in Nat
  OBVIOUS
<1> HIDE DEF r
<1> SUFFICES ASSUME NEW ns \in Namespaces
             PROVE  \/ NoneFor(r, ns) /\ c.info[ns] = a.info[ns]
                    \/ LastFor(r, ns, c.info[ns])
  BY DEF Explains, r
<1>3. /\ \A k \in 1..Len(r1) : HandedOver(r, k, ns) <=> HandedOver(r1, k, ns)
      /\ \A k \in 1..Len(r2) : HandedOver(r, Len(r1) + k, ns) <=> HandedOver(r2, k, ns)
  BY <1>1 DEF HandedOver
<1>4. \A k \in 1..Len(r) : k \in 1..Len(r1) \/ \E m \in 1..Len(r2) : k = Len(r1) + m
  <2> SUFFICES ASSUME NEW k \in 1..Len(r), k \notin 1..Len(r1)
               PROVE  \E m \in 1..Len(r2) : k = Len(r1) + m
    OBVIOUS
  <2>1. k - Len(r1) \in 1..Len(r2) /\ k = Len(r1) + (k - Len(r1))
    BY <1>1, <1>2
  <2> QED
    BY <2>1
<1>5. CASE LastFor(r2, ns, c.info[ns])
  <2>1. PICK k \in 1..Len(r2) : IsLast(r2, k, ns) /\ r2[k].info = c.info[ns]
    BY <1>5 DEF LastFor
  <2>2. Len(r1) + k \in 1..Len(r) /\ r[Len(r1) + k].info = c.info[ns]
    BY <1>1, <1>2, <2>1
  <2>3. HandedOver(r, Len(r1) + k, ns)
    BY <1>3, <2>1 DEF IsLast
  <2>4. ASSUME NEW m \in 1..Len(r), HandedOver(r, m, ns)
        PROVE  m <= Len(r1) + k
    <3>1. CASE m \in 1..Len(r1)
      BY <1>2, <3>1
    <3>2. ASSUME NEW n \in 1..Len(r2), m = Len(r1) + n
          PROVE  m <= Len(r1) + k
      <4>1. n <= k
        BY <1>3, <2>1, <2>4, <3>2 DEF IsLast
      <4> QED
        BY <1>2, <3>2, <4>1
    <3> QED
      BY <1>4, <3>1, <3>2
  <2> QED
    BY <2>2, <2>3, <2>4 DEF LastFor, IsLast
<1>6. CASE NoneFor(r2, ns) /\ c.info[ns] = b.info[ns] /\ LastFor(r1, ns, b.info[ns])
  <2>1. PICK k \in 1..Len(r1) : IsLast(r1, k, ns) /\ r1[k].info = b.info[ns]
    BY <1>6 DEF LastFor
  <2>2. k \in 1..Len(r) /\ r[k].info = c.info[ns]
    BY <1>1, <1>2, <1>6, <2>1
  <2>3. HandedOver(r, k, ns)
    BY <1>3, <2>1 DEF IsLast
  <2>4. ASSUME NEW m \in 1..Len(r), HandedOver(r, m, ns)
        PROVE  m <= k
    <3>1. m \in 1..Len(r1)
      BY <1>3, <1>4, <1>6, <2>4 DEF NoneFor
    <3> QED
      BY <1>3, <2>1, <2>4, <3>1 DEF IsLast
  <2> QED
    BY <2>2, <2>3, <2>4 DEF LastFor, IsLast
<1>7. CASE NoneFor(r2, ns) /\ c.info[ns] = b.info[ns]
           /\ NoneFor(r1, ns) /\ b.info[ns] = a.info[ns]
  <2>1. NoneFor(r, ns)
    BY <1>3, <1>4, <1>7 DEF NoneFor
  <2> QED
    BY <1>7, <2>1
<1> QED
  BY <1>5, <1>6, <1>7 DEF Explains

(* Nothing changed, and no registration or none that succeeded. *)
LEMMA ExplainsNothing ==
    ASSUME NEW db
    PROVE  /\ Explains(<< >>, db, db)
           /\ \A regs \in Seq(RegAction) : Explains(Failed(regs), db, db)
<1>1. Explains(<< >>, db, db)
  BY DEF Explains, NoneFor
<1>2. ASSUME NEW regs \in Seq(RegAction)
      PROVE  Explains(Failed(regs), db, db)
  <2>1. Len(Failed(regs)) = Len(regs) /\ \A k \in 1..Len(regs) : Failed(regs)[k].success = FALSE
    BY DEF Failed
  <2>2. \A ns \in Namespaces : NoneFor(Failed(regs), ns)
    BY <2>1 DEF NoneFor, HandedOver
  <2> QED
    BY <2>2 DEF Explains
<1> QED
  BY <1>1, <1>2

(* One registration explains the write it made. *)
LEMMA ExplainsOne ==
    ASSUME NEW i \in RollupInfo, NEW from \in StateDB, NEW to,
           to.info = [from.info EXCEPT ![i.namespace] = i]
    PROVE  Explains(<<[info |-> i, success |-> TRUE]>>, from, to)
<1> DEFINE regs == <<[info |-> i, success |-> TRUE]>>
<1>1. Len(regs) = 1 /\ regs[1].info = i /\ regs[1].success
  OBVIOUS
<1>2. \A ns \in Namespaces :
          to.info[ns] = IF ns = i.namespace THEN i ELSE from.info[ns]
  BY DEF StateDB
<1> HIDE DEF regs
<1>3. \A ns \in Namespaces \ {i.namespace} : NoneFor(regs, ns)
  BY <1>1 DEF NoneFor, HandedOver
<1>4. LastFor(regs, i.namespace, i)
  BY <1>1 DEF LastFor, IsLast, HandedOver
<1>5. i.namespace \in Namespaces
  BY DEF RollupInfo
<1>6. ASSUME NEW ns \in Namespaces
      PROVE  \/ NoneFor(regs, ns) /\ to.info[ns] = from.info[ns]
             \/ LastFor(regs, ns, to.info[ns])
  <2>1. CASE ns = i.namespace
    BY <1>2, <1>4, <2>1
  <2>2. CASE ns # i.namespace
    BY <1>2, <1>3, <2>2
  <2> QED
    BY <2>1, <2>2
<1>7. Explains(regs, from, to)
  BY <1>6 DEF Explains
<1> QED
  BY <1>7 DEF regs

-----------------------------------------------------------------------------
(* The registrations of a transaction and of a block explain its effects. *)
RegsExplain ==
    /\ Explains(blockRegs, accepted, blockDB)
    /\ Explains(txRegs, blockDB, txDB)

(* Steps that do not touch the stored records. *)
LEMMA ExplainsSameInfo ==
    ASSUME NEW regs, NEW from, NEW to, NEW from2, NEW to2, Explains(regs, from, to),
           from2.info = from.info, to2.info = to.info
    PROVE  Explains(regs, from2, to2)
BY DEF Explains

(* Every step of the chain keeps the explanation. *)
LEMMA RegsExplainStep ==
    ASSUME ChainInv, RegsExplain, TxStep \/ AcceptBlock
    PROVE  RegsExplain'
<1>1. ChainTypeOK /\ PhasesNest /\ RegistryMatches(txDB) /\ ExitsOnceAndRegistered(txDB)
  BY DEF ChainInv, RegistryMatchesInfo, ExitsConsistent, Views
<1>2. blockRegs \in Seq(RegAction) /\ txRegs \in Seq(RegAction) /\ txDB \in StateDB
  BY <1>1 DEF ChainTypeOK
<1>3. ASSUME NEW r \in Registration, CreateRollup(r) \/ UpdateRollup(r) \/ ExitRollup(r)
      PROVE  RegsExplain'
  <2>1. PICK i \in RollupInfo :
            /\ i.namespace = r.namespace
            /\ SetRollup(RegistryWith(txDB.registry, r.namespace), r.namespace, i)
    BY <1>1, <1>3, RegistrationStep
  <2> DEFINE one == <<[info |-> i, success |-> TRUE]>>
  <2>2. /\ txDB'.info = [txDB.info EXCEPT ![i.namespace] = i]
        /\ txRegs' = Append(txRegs, [info |-> i, success |-> TRUE])
        /\ UNCHANGED <<accepted, blockDB, blockRegs>>
    BY <2>1 DEF SetRollup
  <2>3. one \in Seq(RegAction) /\ txRegs' = txRegs \o one
    <3>1. [info |-> i, success |-> TRUE] \in RegAction
      BY DEF RegAction
    <3>2. \A x \in RegAction : <<x>> \in Seq(RegAction)
      OBVIOUS
    <3>3. \A x \in RegAction : Append(txRegs, x) = txRegs \o <<x>>
      BY <1>2, AppendIsConcat
    <3> QED
      BY <2>2, <3>1, <3>2, <3>3
  <2>4. Explains(one, txDB, txDB')
    BY <1>2, <2>2, ExplainsOne
  <2> HIDE DEF one
  <2>5. Explains(txRegs \o one, blockDB, txDB')
    BY <1>2, <2>3, <2>4, ExplainsConcat DEF RegsExplain
  <2> QED
    BY <2>2, <2>3, <2>5 DEF RegsExplain
<1>4. ASSUME NEW ns \in Namespaces, NEW e \in ExitEpochs, CreateExit(ns, e) \/ DeleteExit(ns, e)
      PROVE  RegsExplain'
  <2>1. PICK list \in Seq(Namespaces) : SetEpochExits(e, list)
    BY <1>1, <1>4, EpochExitStep
  <2>2. txDB'.info = txDB.info /\ UNCHANGED <<accepted, blockDB, blockRegs, txRegs>>
    BY <2>1 DEF SetEpochExits
  <2>3. Explains(txRegs, blockDB, txDB')
    BY <2>2, ExplainsSameInfo DEF RegsExplain
  <2> QED
    BY <2>2, <2>3 DEF RegsExplain
<1>5. CASE BuildBlock \/ \E a \in Addresses : BeginTx(a)
  <2>1. UNCHANGED <<accepted, blockDB, blockRegs, txDB, txRegs>>
    BY <1>5 DEF BuildBlock, BeginTx
  <2> QED
    BY <2>1 DEF RegsExplain
<1>6. CASE CommitTx
  <2>1. Explains(blockRegs \o txRegs, accepted, txDB)
    BY <1>2, ExplainsConcat DEF RegsExplain
  <2>2. /\ blockRegs' = blockRegs \o txRegs /\ txRegs' = << >>
        /\ accepted' = accepted /\ blockDB' = txDB /\ txDB' = txDB
    BY <1>6 DEF CommitTx
  <2> QED
    BY <2>1, <2>2, ExplainsNothing DEF RegsExplain
<1>7. CASE AbortTx
  <2>1. Explains(blockRegs \o Failed(txRegs), accepted, blockDB)
    BY <1>2, ExplainsConcat, ExplainsNothing, FailedType DEF RegsExplain
  <2>2. /\ blockRegs' = blockRegs \o Failed(txRegs) /\ txRegs' = << >>
        /\ accepted' = accepted /\ blockDB' = blockDB /\ txDB' = blockDB
    BY <1>7 DEF AbortTx
  <2> QED
    BY <2>1, <2>2, ExplainsNothing DEF RegsExplain
<1>8. CASE AcceptBlock
  <2>1. /\ blockRegs' = << >> /\ txRegs' = << >> /\ accepted' = blockDB
        /\ blockDB' = blockDB /\ txDB' = blockDB
    BY <1>1, <1>8 DEF AcceptBlock, PhasesNest
  <2> QED
    BY <2>1, ExplainsNothing DEF RegsExplain
<1>9. CASE RejectBlock
  <2>1. /\ blockRegs' = << >> /\ txRegs' = << >> /\ accepted' = accepted
        /\ blockDB' = accepted /\ txDB' = accepted
    BY <1>1, <1>9 DEF RejectBlock, PhasesNest
  <2> QED
    BY <2>1, ExplainsNothing DEF RegsExplain
<1> QED
  BY <1>3, <1>4, <1>5, <1>6, <1>7, <1>8, <1>9 DEF TxStep, ExecuteStep

-----------------------------------------------------------------------------
(* The queue of blocks that wait for Controller.Accepted *)

(* A list cannot both have and lack a registration for a namespace. *)
LEMMA LastNotNone ==
    ASSUME NEW regs, NEW ns, NEW i, LastFor(regs, ns, i)
    PROVE  ~NoneFor(regs, ns)
BY DEF LastFor, NoneFor, IsLast

(* What a block adds at the end of the queue. *)
LEMMA QueueAppend ==
    ASSUME NEW q \in Seq(Block), NEW b \in Block, NEW ns
    PROVE  /\ NoneQueued(Append(q, b), ns) <=> NoneQueued(q, ns) /\ NoneFor(b.regs, ns)
           /\ \A i : LastFor(b.regs, ns, i) => LastQueued(Append(q, b), ns, i)
           /\ \A i : LastQueued(q, ns, i) /\ NoneFor(b.regs, ns)
                     => LastQueued(Append(q, b), ns, i)
<1> DEFINE r == Append(q, b)
<1>1. /\ Len(r) = Len(q) + 1
      /\ \A k \in 1..Len(q) : r[k] = q[k]
      /\ r[Len(q) + 1] = b
      /\ Len(q) \in Nat
  BY AppendProperties
<1> HIDE DEF r
<1>2. NoneQueued(r, ns) <=> NoneQueued(q, ns) /\ NoneFor(b.regs, ns)
  <2>1. 1..Len(r) = 1..Len(q) \cup {Len(q) + 1}
    BY <1>1
  <2> QED
    BY <1>1, <2>1 DEF NoneQueued
<1>3. ASSUME NEW i, LastFor(b.regs, ns, i)
      PROVE  LastQueued(r, ns, i)
  <2>1. Len(q) + 1 \in 1..Len(r) /\ \A c \in 1..Len(r) : ~(c > Len(q) + 1)
    BY <1>1
  <2> QED
    BY <1>1, <1>3, <2>1 DEF LastQueued
<1>4. ASSUME NEW i, LastQueued(q, ns, i), NoneFor(b.regs, ns)
      PROVE  LastQueued(r, ns, i)
  <2>1. PICK m \in 1..Len(q) :
            /\ LastFor(q[m].regs, ns, i)
            /\ \A c \in 1..Len(q) : c > m => NoneFor(q[c].regs, ns)
    BY <1>4 DEF LastQueued
  <2>2. m \in 1..Len(r) /\ LastFor(r[m].regs, ns, i)
    BY <1>1, <2>1
  <2>3. ASSUME NEW c \in 1..Len(r), c > m
        PROVE  NoneFor(r[c].regs, ns)
    <3>1. CASE c \in 1..Len(q)
      BY <1>1, <2>1, <2>3, <3>1
    <3>2. CASE c = Len(q) + 1
      BY <1>1, <1>4, <3>2
    <3> QED
      BY <1>1, <3>1, <3>2
  <2> QED
    BY <2>2, <2>3 DEF LastQueued
<1> QED
  BY <1>2, <1>3, <1>4 DEF r

(* What remains when the block at the head of the queue is taken. *)
LEMMA QueueTail ==
    ASSUME NEW q \in Seq(Block), q # << >>, NEW ns
    PROVE  /\ NoneQueued(q, ns) =>
                  NoneFor(Head(q).regs, ns) /\ NoneQueued(Tail(q), ns)
           /\ \A i : LastQueued(q, ns, i) =>
                  \/ LastFor(Head(q).regs, ns, i) /\ NoneQueued(Tail(q), ns)
                  \/ LastQueued(Tail(q), ns, i)
<1> DEFINE t == Tail(q)
<1>1. /\ Len(q) \in Nat \ {0}
      /\ Len(t) = Len(q) - 1
      /\ \A k \in 1..Len(t) : t[k] = q[k + 1]
      /\ Head(q) = q[1]
  BY HeadTailProperties, EmptySeq
<1> HIDE DEF t
<1>2. \A k \in 1..Len(t) : k + 1 \in 1..Len(q)
  BY <1>1
<1>3. NoneQueued(q, ns) => NoneFor(Head(q).regs, ns) /\ NoneQueued(t, ns)
  BY <1>1, <1>2 DEF NoneQueued
<1>4. ASSUME NEW i, LastQueued(q, ns, i)
      PROVE  \/ LastFor(Head(q).regs, ns, i) /\ NoneQueued(t, ns)
             \/ LastQueued(t, ns, i)
  <2>1. PICK m \in 1..Len(q) :
            /\ LastFor(q[m].regs, ns, i)
            /\ \A c \in 1..Len(q) : c > m => NoneFor(q[c].regs, ns)
    BY <1>4 DEF LastQueued
  <2>2. CASE m = 1
    <3>1. \A k \in 1..Len(t) : k + 1 > m
      BY <1>1, <2>2
    <3> QED
      BY <1>1, <1>2, <2>1, <2>2, <3>1 DEF NoneQueued
  <2>3. CASE m # 1
    <3>1. m - 1 \in 1..Len(t) /\ t[m - 1] = q[m]
      BY <1>1, <2>3
    <3>2. \A c \in 1..Len(t) : c > m - 1 => c + 1 > m
      BY <1>1
    <3>3. \A c \in 1..Len(t) : c > m - 1 => NoneFor(t[c].regs, ns)
      BY <1>1, <1>2, <2>1, <3>2
    <3> QED
      BY <2>1, <3>1, <3>3 DEF LastQueued
  <2> QED
    BY <2>2, <2>3
<1> QED
  BY <1>3, <1>4 DEF t

-----------------------------------------------------------------------------
(***************************************************************************)
(* The inductive invariant of a node, restarts included.  It needs         *)
(* RegsExplain, for Controller.Accepted sees only the actions of a block,  *)
(* and TypeOK, which says which heights the queue holds.                   *)
(***************************************************************************)
NodeInv ==
    /\ ChainInv
    /\ RegsExplain
    /\ TypeOK
    /\ ServedIsCurrent
    /\ NoneMissing

(* The initial state satisfies the invariant. *)
LEMMA NodeInvInit == Init => NodeInv
<1> SUFFICES ASSUME Init PROVE NodeInv
  OBVIOUS
<1>1. ChainInv
  BY ChainInvInit DEF Init
<1>2. RegsExplain
  BY ExplainsNothing DEF Init, ChainInit, RegsExplain
<1>3. TypeOK
  BY <1>1 DEF Init, ChainInit, ChainInv, TypeOK
<1>4. ServedIsCurrent
  BY DEF Init, ServedIsCurrent, NoneQueued
<1>5. NoneMissing
  BY DEF Init, ChainInit, EmptyDB, NoneMissing
<1> QED
  BY <1>1, <1>2, <1>3, <1>4, <1>5 DEF NodeInv

(* Steps of the chain that leave the accepted state alone. *)
LEMMA ChainStepKeepsInv ==
    ASSUME NodeInv, ChainStep
    PROVE  NodeInv'
<1>1. ChainInv /\ RegsExplain /\ TypeOK /\ ServedIsCurrent /\ NoneMissing
  BY DEF NodeInv
<1>2. ChainInv' /\ RegsExplain'
  BY <1>1, ChainInvStep, RegsExplainStep DEF ChainStep
<1>3. UNCHANGED <<hght, accepted>>
  BY DEF ChainStep, TxStep, ExecuteStep, BuildBlock, BeginTx, CreateRollup, UpdateRollup,
         ExitRollup, SetRollup, CreateExit, DeleteExit, SetEpochExits, CommitTx, AbortTx,
         RejectBlock
<1>4. UNCHANGED <<acceptedQueue, rollups, processed, forgotten>>
  BY DEF ChainStep, nodeVars
<1>5. TypeOK'
  BY <1>1, <1>2, <1>3, <1>4 DEF TypeOK, ChainInv
<1>6. ServedIsCurrent' /\ NoneMissing'
  BY <1>1, <1>3, <1>4 DEF ServedIsCurrent, NoneMissing
<1> QED
  BY <1>2, <1>5, <1>6 DEF NodeInv

(* A block is accepted: it joins the queue with the records it changed. *)
LEMMA AcceptKeepsInv ==
    ASSUME NodeInv, Accept
    PROVE  NodeInv'
<1> DEFINE b == [hght |-> hght + 1, regs |-> blockRegs]
<1>1. ChainInv /\ RegsExplain /\ TypeOK /\ ServedIsCurrent /\ NoneMissing /\ AcceptBlock
  BY DEF NodeInv, Accept
<1>2. ChainInv' /\ RegsExplain'
  BY <1>1, ChainInvStep, RegsExplainStep
<1>3. /\ hght' = hght + 1 /\ accepted' = blockDB
      /\ acceptedQueue' = Append(acceptedQueue, b)
      /\ UNCHANGED <<rollups, processed, forgotten>>
  BY DEF Accept, AcceptBlock
<1>4. b \in Block /\ b.regs = blockRegs /\ b.hght = hght + 1
  BY <1>1 DEF TypeOK, ChainTypeOK, Block
<1> HIDE DEF b
<1>5. acceptedQueue \in Seq(Block) /\ hght \in Nat /\ processed \in Nat
      /\ processed + Len(acceptedQueue) = hght
  BY <1>1 DEF TypeOK, ChainTypeOK
<1>6. TypeOK'
  <2>1. /\ acceptedQueue' \in Seq(Block)
        /\ Len(acceptedQueue') = Len(acceptedQueue) + 1
        /\ \A k \in 1..Len(acceptedQueue) : acceptedQueue'[k] = acceptedQueue[k]
        /\ acceptedQueue'[Len(acceptedQueue) + 1] = b
        /\ Len(acceptedQueue) \in Nat
    BY <1>3, <1>4, <1>5, AppendProperties
  <2>2. processed' + Len(acceptedQueue') = hght'
    BY <1>3, <1>5, <2>1
  <2>3. ASSUME NEW k \in 1..Len(acceptedQueue')
        PROVE  acceptedQueue'[k].hght = processed' + k
    <3>1. CASE k \in 1..Len(acceptedQueue)
      BY <1>1, <1>3, <2>1, <3>1 DEF TypeOK
    <3>2. CASE k = Len(acceptedQueue) + 1
      BY <1>3, <1>4, <1>5, <2>1, <3>2
    <3> QED
      BY <2>1, <3>1, <3>2
  <2> QED
    BY <1>1, <1>2, <1>3, <2>1, <2>2, <2>3 DEF TypeOK, ChainInv
<1>7. ASSUME NEW ns \in Namespaces
      PROVE  \/ NoneFor(b.regs, ns) /\ accepted'.info[ns] = accepted.info[ns]
             \/ LastFor(b.regs, ns, accepted'.info[ns])
  BY <1>1, <1>3, <1>4 DEF RegsExplain, Explains
<1>8. ServedIsCurrent'
  <2> SUFFICES ASSUME NEW ns \in Namespaces
               PROVE  /\ rollups'[ns] # NoInfo => ~Exited(rollups'[ns], Epoch(processed'))
                      /\ \/ /\ NoneQueued(acceptedQueue', ns)
                            /\ rollups'[ns] \in {NoInfo, accepted'.info[ns]}
                         \/ LastQueued(acceptedQueue', ns, accepted'.info[ns])
    BY DEF ServedIsCurrent
  <2>1. /\ rollups[ns] # NoInfo => ~Exited(rollups[ns], Epoch(processed))
        /\ \/ NoneQueued(acceptedQueue, ns) /\ rollups[ns] \in {NoInfo, accepted.info[ns]}
           \/ LastQueued(acceptedQueue, ns, accepted.info[ns])
    BY <1>1 DEF ServedIsCurrent
  <2> QED
    BY <1>3, <1>4, <1>5, <1>7, <2>1, QueueAppend
<1>9. NoneMissing'
  <2> SUFFICES ASSUME NEW ns \in Namespaces \ forgotten', NoneQueued(acceptedQueue', ns),
                      rollups'[ns] = NoInfo, accepted'.info[ns] # NoInfo
               PROVE  Exited(accepted'.info[ns], Epoch(processed'))
    BY DEF NoneMissing
  <2>1. NoneQueued(acceptedQueue, ns) /\ NoneFor(b.regs, ns)
    BY <1>3, <1>4, <1>5, QueueAppend
  <2>2. accepted'.info[ns] = accepted.info[ns]
    BY <1>7, <2>1, LastNotNone
  <2> QED
    BY <1>1, <1>3, <2>1, <2>2 DEF NoneMissing
<1> QED
  BY <1>2, <1>6, <1>8, <1>9 DEF NodeInv

(* Controller.Accepted processes the block at the head of the queue. *)
LEMMA AcceptedKeepsInv ==
    ASSUME NodeInv, Accepted
    PROVE  NodeInv'
<1> DEFINE q == acceptedQueue
           b == Head(acceptedQueue)
           e == Epoch(Head(acceptedQueue).hght)
<1>1. ChainInv /\ RegsExplain /\ TypeOK /\ ServedIsCurrent /\ NoneMissing
  BY DEF NodeInv
<1>2. /\ q # << >> /\ q' = Tail(q) /\ processed' = b.hght
      /\ rollups' = [ns \in Namespaces |-> DropExited(Put(b.regs, ns, rollups[ns]), e)]
      /\ forgotten' = {ns \in forgotten : NoneFor(b.regs, ns)}
      /\ UNCHANGED chainVars
  BY DEF Accepted, Update
<1>3. /\ q \in Seq(Block) /\ hght \in Nat /\ processed \in Nat
      /\ processed + Len(q) = hght
      /\ \A k \in 1..Len(q) : q[k].hght = processed + k
      /\ rollups \in [Namespaces -> RollupInfo \cup {NoInfo}]
      /\ accepted \in StateDB
      /\ forgotten \subseteq Namespaces
  BY <1>1 DEF TypeOK, ChainTypeOK
<1>4. /\ Len(q) \in Nat \ {0} /\ b = q[1]
      /\ Tail(q) \in Seq(Block) /\ Len(Tail(q)) = Len(q) - 1
      /\ \A k \in 1..Len(Tail(q)) : Tail(q)[k] = q[k + 1]
  BY <1>2, <1>3, HeadTailProperties, EmptySeq
<1>5. b.hght = processed + 1 /\ b.regs \in Seq(RegAction) /\ e = Epoch(processed')
  <2>1. b \in Block /\ 1 \in 1..Len(q)
    BY <1>3, <1>4
  <2>2. b.hght = processed + 1
    BY <1>3, <1>4, <2>1
  <2>3. b.regs \in Seq(RegAction)
    BY <2>1 DEF Block
  <2>4. e = Epoch(processed')
    BY <1>2
  <2> QED
    BY <2>2, <2>3, <2>4
<1>6. /\ ChainInv' /\ RegsExplain'
      /\ UNCHANGED <<hght, accepted, blockDB, blockRegs, txDB, txRegs>>
  BY <1>1, <1>2, ChainInvStutter DEF chainVars, RegsExplain
<1> HIDE DEF q, b, e
<1>7. \A ns \in Namespaces :
          /\ NoneFor(b.regs, ns) => Put(b.regs, ns, rollups[ns]) = rollups[ns]
          /\ \A i : LastFor(b.regs, ns, i) => Put(b.regs, ns, rollups[ns]) = i
  BY <1>5, PutValue
<1>8. \A ns \in Namespaces : rollups'[ns] = DropExited(Put(b.regs, ns, rollups[ns]), e)
  BY <1>2
<1>9. \A ns \in Namespaces : Put(b.regs, ns, rollups[ns]) \in RollupInfo \cup {NoInfo}
  <2> SUFFICES ASSUME NEW ns \in Namespaces
               PROVE  Put(b.regs, ns, rollups[ns]) \in RollupInfo \cup {NoInfo}
    OBVIOUS
  <2>1. CASE \E k \in 1..Len(b.regs) : IsLast(b.regs, k, ns)
    <3>1. PICK k \in 1..Len(b.regs) : IsLast(b.regs, k, ns)
      BY <2>1
    <3>2. LastFor(b.regs, ns, b.regs[k].info) /\ b.regs[k] \in RegAction
      BY <1>5, <3>1 DEF LastFor
    <3> QED
      BY <1>7, <3>2 DEF RegAction
  <2>2. CASE ~\E k \in 1..Len(b.regs) : IsLast(b.regs, k, ns)
    BY <1>3, <2>2 DEF Put
  <2> QED
    BY <2>1, <2>2
<1>10. TypeOK'
  <2>1. \A k \in 1..Len(q') : q'[k].hght = processed' + k
    BY <1>2, <1>3, <1>4, <1>5
  <2>2. rollups' \in [Namespaces -> RollupInfo \cup {NoInfo}]
    <3>1. \A ns \in Namespaces :
              DropExited(Put(b.regs, ns, rollups[ns]), e) \in RollupInfo \cup {NoInfo}
      BY <1>9 DEF DropExited
    <3> QED
      BY <1>2, <3>1
  <2>3. processed' \in Nat /\ processed' + Len(q') = hght' /\ q' \in Seq(Block)
    <3>1. Len(q') = Len(q) - 1 /\ q' \in Seq(Block) /\ processed' = processed + 1
      BY <1>2, <1>4, <1>5
    <3>2. hght' = hght /\ processed + Len(q) = hght
      BY <1>3, <1>6
    <3>3. processed \in Nat /\ Len(q) \in Nat
      BY <1>3, <1>4
    <3>4. processed' + Len(q') = hght'
      BY <3>1, <3>2, <3>3
    <3> QED
      BY <3>1, <3>3, <3>4
  <2> QED
    BY <1>2, <1>3, <1>6, <2>1, <2>2, <2>3 DEF TypeOK, ChainInv, q
<1>11. ASSUME NEW ns \in Namespaces
       PROVE  \/ /\ NoneQueued(q', ns)
                 /\ \/ Put(b.regs, ns, rollups[ns]) = accepted.info[ns]
                    \/ /\ Put(b.regs, ns, rollups[ns]) = NoInfo
                       /\ NoneFor(b.regs, ns)
                       /\ NoneQueued(q, ns)
                       /\ rollups[ns] = NoInfo
              \/ LastQueued(q', ns, accepted.info[ns])
  <2>1. \/ NoneQueued(q, ns) /\ rollups[ns] \in {NoInfo, accepted.info[ns]}
        \/ LastQueued(q, ns, accepted.info[ns])
    BY <1>1 DEF ServedIsCurrent, q
  <2>2. /\ NoneQueued(q, ns) => NoneFor(b.regs, ns) /\ NoneQueued(q', ns)
        /\ LastQueued(q, ns, accepted.info[ns]) =>
              \/ LastFor(b.regs, ns, accepted.info[ns]) /\ NoneQueued(q', ns)
              \/ LastQueued(q', ns, accepted.info[ns])
    BY <1>2, <1>3, QueueTail DEF b, q
  <2> QED
    BY <1>7, <2>1, <2>2
<1>12. ServedIsCurrent'
  <2> SUFFICES ASSUME NEW ns \in Namespaces
               PROVE  /\ rollups'[ns] # NoInfo => ~Exited(rollups'[ns], Epoch(processed'))
                      /\ \/ /\ NoneQueued(q', ns)
                            /\ rollups'[ns] \in {NoInfo, accepted'.info[ns]}
                         \/ LastQueued(q', ns, accepted'.info[ns])
    BY DEF ServedIsCurrent, q
  <2> QED
    BY <1>5, <1>6, <1>8, <1>11 DEF DropExited
<1>13. NoneMissing'
  <2> SUFFICES ASSUME NEW ns \in Namespaces \ forgotten', NoneQueued(q', ns),
                      rollups'[ns] = NoInfo, accepted'.info[ns] # NoInfo
               PROVE  Exited(accepted.info[ns], e)
    BY <1>5, <1>6 DEF NoneMissing, q
  <2>1. ~LastQueued(q', ns, accepted.info[ns])
    BY LastNotNone DEF LastQueued, NoneQueued
  <2>2. accepted.info[ns] # NoInfo /\ accepted.info[ns] \in RollupInfo
    BY <1>3, <1>6, InfoType
  <2>3. CASE Put(b.regs, ns, rollups[ns]) = accepted.info[ns]
    BY <1>8, <2>2, <2>3 DEF DropExited
  <2>4. CASE NoneFor(b.regs, ns) /\ NoneQueued(q, ns) /\ rollups[ns] = NoInfo
    <3>1. Exited(accepted.info[ns], Epoch(processed))
      BY <1>1, <1>2, <2>2, <2>4 DEF NoneMissing, q
    <3>2. Epoch(processed) \in Nat /\ e \in Nat /\ Epoch(processed) <= e
      <4>1. processed' \in Nat /\ processed <= processed'
        BY <1>2, <1>3, <1>5
      <4> QED
        BY <1>3, <1>5, <4>1, EpochMonotonic
    <3> QED
      BY <2>2, <3>1, <3>2, ExitedMonotonic
  <2> QED
    BY <1>11, <2>1, <2>3, <2>4
<1> QED
  BY <1>6, <1>10, <1>12, <1>13 DEF NodeInv

(* A restart: the registry is empty, which claims nothing. *)
LEMMA RestartKeepsInv ==
    ASSUME NodeInv, Restart
    PROVE  NodeInv'
<1>1. ChainInv /\ RegsExplain /\ TypeOK /\ ServedIsCurrent /\ ChainTypeOK
  BY DEF NodeInv, ChainInv
<1>2. /\ acceptedQueue' \in {acceptedQueue, << >>}
      /\ rollups' = [ns \in Namespaces |-> NoInfo]
      /\ processed' = IF acceptedQueue' = << >> THEN hght ELSE processed
      /\ phase' = "idle" /\ actor' = NoActor
      /\ blockDB' = accepted /\ txDB' = accepted
      /\ blockRegs' = << >> /\ txRegs' = << >>
      /\ hght' = hght /\ accepted' = accepted
      /\ forgotten' = {ns \in Namespaces : accepted.info[ns] # NoInfo}
  BY DEF Restart
<1>3. ChainTypeOK' /\ PhasesNest'
  BY <1>1, <1>2, SentinelAssumption DEF ChainTypeOK, PhasesNest
<1>4. OnlyAuthority'
  BY <1>2 DEF OnlyAuthority
<1>5. ChainInv'
  BY <1>1, <1>2, <1>3, <1>4, MovingViewsKeepsInv DEF Views
<1>6. RegsExplain'
  BY <1>2, ExplainsNothing DEF RegsExplain
<1>7. TypeOK'
  <2>1. hght \in Nat /\ processed \in Nat
    BY <1>1 DEF TypeOK, ChainTypeOK
  <2>2. CASE acceptedQueue' = << >>
    BY <1>2, <1>3, <2>1, <2>2 DEF TypeOK
  <2>3. CASE acceptedQueue' # << >>
    BY <1>1, <1>2, <1>3, <2>3 DEF TypeOK
  <2> QED
    BY <2>2, <2>3
<1>8. ServedIsCurrent'
  <2>1. \A ns \in Namespaces : rollups'[ns] = NoInfo
    BY <1>2
  <2>2. \A ns \in Namespaces : NoneQueued(<< >>, ns)
    BY DEF NoneQueued
  <2> QED
    BY <1>1, <1>2, <2>1, <2>2 DEF ServedIsCurrent
<1>9. NoneMissing'
  BY <1>2 DEF NoneMissing
<1> QED
  BY <1>5, <1>6, <1>7, <1>8, <1>9 DEF NodeInv

(* Stuttering, and the end of the bounded chain. *)
LEMMA NodeInvStutter ==
    ASSUME NodeInv, UNCHANGED chainVars, UNCHANGED nodeVars
    PROVE  NodeInv'
<1>1. ChainInv /\ RegsExplain /\ TypeOK /\ ServedIsCurrent /\ NoneMissing
  BY DEF NodeInv
<1>2. ChainInv'
  BY <1>1, ChainInvStutter
<1>3. UNCHANGED <<hght, accepted, blockDB, blockRegs, txDB, txRegs, acceptedQueue,
                  rollups, processed, forgotten>>
  BY DEF chainVars, nodeVars
<1>4. RegsExplain' /\ TypeOK' /\ ServedIsCurrent' /\ NoneMissing'
  BY <1>1, <1>2, <1>3 DEF RegsExplain, TypeOK, ChainInv, ServedIsCurrent, NoneMissing
<1> QED
  BY <1>2, <1>4 DEF NodeInv

(* One step of a node. *)
LEMMA NodeInvStep ==
    ASSUME NodeInv, [Next]_vars
    PROVE  NodeInv'
<1>1. CASE Done \/ UNCHANGED vars
  BY <1>1, NodeInvStutter DEF Done, Finished, vars, chainVars, nodeVars
<1> QED
  BY <1>1, ChainStepKeepsInv, AcceptKeepsInv, AcceptedKeepsInv, RestartKeepsInv DEF Next

-----------------------------------------------------------------------------
(* Along every behaviour of a node, restarts included. *)
THEOREM NodeInvariant == Spec => []NodeInv
<1>1. NodeInv /\ [Next]_vars => NodeInv'
  BY NodeInvStep
<1> QED
  BY <1>1, NodeInvInit, PTL DEF Spec

(* Type correctness of the composition; the queue holds the heights        *)
(* between the last processed and the last accepted block.                 *)
THEOREM NodeTypeCorrect == Spec => []TypeOK
BY NodeInvariant, PTL DEF NodeInv

(* What the registry serves is never a record that the chain has replaced  *)
(* in a block already processed, nor one whose opt-out is in effect, even  *)
(* across restarts that lose the queued blocks.                            *)
THEOREM ServedIsAlwaysCurrent == Spec => []ServedIsCurrent
BY NodeInvariant, PTL DEF NodeInv

(* A registered rollup that is not served has exited, is still queued, or  *)
(* has not been heard of since the last restart.                           *)
THEOREM NoneEverMissing == Spec => []NoneMissing
BY NodeInvariant, PTL DEF NodeInv

(* A registry that has caught up lists what the state database holds. *)
LEMMA CaughtUpMatches ==
    ASSUME NodeInv
    PROVE  ServedMatchesState
<1>1. TypeOK /\ ServedIsCurrent /\ NoneMissing
  BY DEF NodeInv
<1> SUFFICES ASSUME acceptedQueue = << >>, NEW e \in Epoch(hght)..(MaxEpoch + 2)
             PROVE  /\ RollupsValidAtEpoch(e) \subseteq RecordsValidAt(e)
                    /\ \A ns \in Namespaces \ forgotten :
                          TakesPart(accepted, ns, e)
                              => accepted.info[ns] \in RollupsValidAtEpoch(e)
  BY DEF ServedMatchesState
<1>2. processed = hght /\ hght \in Nat /\ accepted \in StateDB
  BY <1>1 DEF TypeOK, ChainTypeOK
<1>3. Epoch(hght) \in Nat /\ e \in Nat /\ Epoch(hght) <= e
  BY <1>2, EpochMonotonic, BoundsAssumption
<1>4. ASSUME NEW ns \in Namespaces
      PROVE  rollups[ns] \in {NoInfo, accepted.info[ns]}
  <2>1. NoneQueued(acceptedQueue, ns) /\ ~LastQueued(acceptedQueue, ns, accepted.info[ns])
    BY DEF NoneQueued, LastQueued
  <2> QED
    BY <1>1, <2>1 DEF ServedIsCurrent
<1>5. ASSUME NEW ns \in Namespaces \ forgotten, Participates(accepted, ns, e)
      PROVE  rollups[ns] # NoInfo
  <2> SUFFICES ASSUME rollups[ns] = NoInfo
               PROVE  FALSE
    OBVIOUS
  <2>1. accepted.info[ns] # NoInfo /\ accepted.info[ns] \in RollupInfo
    BY <1>2, <1>5, InfoType DEF Participates
  <2>2. NoneQueued(acceptedQueue, ns)
    BY DEF NoneQueued
  <2>3. Exited(accepted.info[ns], Epoch(hght))
    BY <1>1, <1>2, <2>1, <2>2 DEF NoneMissing
  <2>4. Exited(accepted.info[ns], e)
    BY <1>3, <2>1, <2>3, ExitedMonotonic
  <2> QED
    BY <1>5, <2>4 DEF Participates, ValidAtEpoch
<1>6. RollupsValidAtEpoch(e) \subseteq RecordsValidAt(e)
  BY <1>4 DEF RollupsValidAtEpoch, RecordsValidAt, Participates
<1>7. ASSUME NEW ns \in Namespaces \ forgotten, TakesPart(accepted, ns, e)
      PROVE  accepted.info[ns] \in RollupsValidAtEpoch(e)
  <2>1. Participates(accepted, ns, e)
    BY <1>7 DEF TakesPart
  <2>2. rollups[ns] = accepted.info[ns] /\ rollups[ns] # NoInfo
    BY <1>4, <1>5, <2>1
  <2> QED
    BY <2>1, <2>2 DEF RollupsValidAtEpoch, Participates
<1> QED
  BY <1>6, <1>7

(* Whenever Controller.Accepted has caught up, GetValidRollupsAtEpoch      *)
(* lists for the current and later epochs only stored records that cover   *)
(* the epoch, and every rollup that takes part in it but those forgotten   *)
(* in a restart.                                                           *)
THEOREM ServedAlwaysMatchesState == Spec => []ServedMatchesState
BY NodeInvariant, CaughtUpMatches, PTL

-----------------------------------------------------------------------------
(***************************************************************************)
(* GetAllRollupInfo.  A record once stored is never deleted, in the        *)
(* accepted state nor in the views on top of it, so a namespace the call   *)
(* read from the registry still has its record when its turn comes.        *)
(***************************************************************************)

(* What one view has a record of, the view on top of it has too. *)
NoneDeleted ==
    \A ns \in Namespaces :
        /\ accepted.info[ns] # NoInfo => blockDB.info[ns] # NoInfo
        /\ blockDB.info[ns] # NoInfo => txDB.info[ns] # NoInfo

(* Where the call is in the list it began with. *)
CallInv ==
    /\ \A k \in 1..Len(listed) : accepted.info[listed[k]] # NoInfo
    /\ \A j, k \in 1..Len(listed) : listed[j] = listed[k] => j = k
    /\ \A k \in 1..Len(todo) : todo[k] = listed[Len(reply) + k]
    /\ \A k \in 1..Len(reply) : reply[k] # NoInfo /\ reply[k].namespace = listed[k]

ReaderInv ==
    /\ ChainInv
    /\ ReaderTypeOK
    /\ NoneDeleted
    /\ CallInv
    /\ SnapshotIfQuiet

(* The initial state satisfies the invariant. *)
LEMMA ReaderInvInit == ReaderInit => ReaderInv
<1> SUFFICES ASSUME ReaderInit PROVE ReaderInv
  OBVIOUS
<1>1. ChainInv /\ ChainTypeOK
  BY ChainInvInit DEF ReaderInit, ChainInv
<1>2. ReaderTypeOK /\ CallInv /\ SnapshotIfQuiet
  BY <1>1 DEF ReaderInit, NoCall, ReaderTypeOK, CallInv, SnapshotIfQuiet, ChainTypeOK
<1>3. NoneDeleted
  BY DEF ReaderInit, ChainInit, NoneDeleted, EmptyDB
<1> QED
  BY <1>1, <1>2, <1>3 DEF ReaderInv

(* No step of the chain deletes a record, in any view. *)
LEMMA NoneDeletedStep ==
    ASSUME ChainInv, NoneDeleted, ChainNext
    PROVE  /\ NoneDeleted'
           /\ \A ns \in Namespaces : accepted.info[ns] # NoInfo => accepted'.info[ns] # NoInfo
           /\ accepted' # accepted => hght' = hght + 1
           /\ hght' \in {hght, hght + 1}
<1>1. ChainTypeOK /\ PhasesNest /\ RegistryMatches(txDB) /\ ExitsOnceAndRegistered(txDB)
  BY DEF ChainInv, RegistryMatchesInfo, ExitsConsistent, Views
<1>2. ASSUME NEW r \in Registration, CreateRollup(r) \/ UpdateRollup(r) \/ ExitRollup(r)
      PROVE  NoneDeleted' /\ UNCHANGED <<hght, accepted>>
  <2>1. PICK i \in RollupInfo :
            SetRollup(RegistryWith(txDB.registry, r.namespace), r.namespace, i)
    BY <1>1, <1>2, RegistrationStep
  <2>2. /\ txDB'.info = [txDB.info EXCEPT ![r.namespace] = i]
        /\ UNCHANGED <<hght, accepted, blockDB>>
    BY <2>1 DEF SetRollup
  <2>3. txDB.info \in [Namespaces -> RollupInfo \cup {NoInfo}] /\ i # NoInfo
    BY <1>1, SentinelAssumption DEF ChainTypeOK, StateDB
  <2>4. \A ns \in Namespaces : txDB.info[ns] # NoInfo => txDB'.info[ns] # NoInfo
    BY <2>2, <2>3
  <2> QED
    BY <2>2, <2>4 DEF NoneDeleted
<1>3. ASSUME NEW ns \in Namespaces, NEW e \in ExitEpochs, CreateExit(ns, e) \/ DeleteExit(ns, e)
      PROVE  NoneDeleted' /\ UNCHANGED <<hght, accepted>>
  <2>1. PICK list \in Seq(Namespaces) : SetEpochExits(e, list)
    BY <1>1, <1>3, EpochExitStep
  <2>2. txDB'.info = txDB.info /\ UNCHANGED <<hght, accepted, blockDB>>
    BY <2>1 DEF SetEpochExits
  <2> QED
    BY <2>2 DEF NoneDeleted
<1>4. CASE BuildBlock \/ \E a \in Addresses : BeginTx(a)
  BY <1>4 DEF BuildBlock, BeginTx, NoneDeleted
<1>5. CASE CommitTx
  BY <1>5 DEF CommitTx, NoneDeleted
<1>6. CASE AbortTx
  BY <1>6 DEF AbortTx, NoneDeleted
<1>7. CASE AcceptBlock
  BY <1>1, <1>7 DEF AcceptBlock, NoneDeleted, PhasesNest
<1>8. CASE RejectBlock
  BY <1>8 DEF RejectBlock, NoneDeleted
<1>9. CASE Finished
  BY <1>9 DEF Finished, chainVars, NoneDeleted
<1> QED
  BY <1>2, <1>3, <1>4, <1>5, <1>6, <1>7, <1>8, <1>9 DEF ChainNext, TxStep, ExecuteStep

(* The chain moves on during a call. *)
LEMMA ChainMovesKeepsInv ==
    ASSUME ReaderInv, ChainMoves
    PROVE  ReaderInv'
<1>1. ChainInv' /\ ChainTypeOK'
  <2>1. ChainInv
    BY DEF ReaderInv
  <2>2. CASE TxStep \/ AcceptBlock
    BY <2>1, <2>2, ChainInvStep DEF ChainInv
  <2>3. CASE Finished
    BY <2>1, <2>3, ChainInvStutter DEF ChainInv, Finished
  <2> QED
    BY <2>2, <2>3 DEF ChainMoves, ChainNext
<1>2. /\ NoneDeleted'
      /\ \A ns \in Namespaces : accepted.info[ns] # NoInfo => accepted'.info[ns] # NoInfo
      /\ accepted' # accepted => hght' = hght + 1
      /\ hght' \in {hght, hght + 1}
  BY NoneDeletedStep DEF ReaderInv, ChainMoves
<1>3. UNCHANGED <<call, todo, reply, listed, began>>
  BY DEF ChainMoves, readerVars
<1>4. hght \in Nat /\ began \in Nat /\ began <= hght /\ listed \in Seq(Namespaces)
  BY DEF ReaderInv, ReaderTypeOK, ChainTypeOK
<1>5. ReaderTypeOK'
  BY <1>1, <1>2, <1>3, <1>4 DEF ReaderInv, ReaderTypeOK
<1>6. CallInv'
  <2>1. \A k \in 1..Len(listed) : accepted'.info[listed[k]] # NoInfo
    BY <1>2, <1>4 DEF ReaderInv, CallInv
  <2> QED
    BY <1>3, <2>1 DEF ReaderInv, CallInv
<1>7. SnapshotIfQuiet'
  <2>1. began = hght' => accepted' = accepted /\ hght' = hght
    BY <1>2, <1>4
  <2> QED
    BY <1>3, <2>1 DEF ReaderInv, SnapshotIfQuiet
<1> QED
  BY <1>1, <1>2, <1>5, <1>6, <1>7 DEF ReaderInv

(* A step of the RPC server leaves the chain's part of the invariant. *)
LEMMA ReaderLeavesChain ==
    ASSUME ReaderInv, UNCHANGED chainVars
    PROVE  ChainInv' /\ ChainTypeOK' /\ NoneDeleted'
BY ChainInvStutter DEF ReaderInv, ChainInv, NoneDeleted, chainVars

(* The call begins. *)
LEMMA BeginKeepsInv ==
    ASSUME ReaderInv, GetAllRollupInfo
    PROVE  ReaderInv'
<1>1. ChainInv' /\ ChainTypeOK' /\ NoneDeleted'
  BY ReaderLeavesChain DEF GetAllRollupInfo
<1>2. /\ call' = "reading" /\ todo' = accepted.registry /\ listed' = accepted.registry
      /\ reply' = << >> /\ began' = hght /\ UNCHANGED <<hght, accepted>>
  BY DEF GetAllRollupInfo, GetRollupRegistryFromState, chainVars
<1>3. hght \in Nat /\ accepted.registry \in Seq(Namespaces)
  BY DEF ReaderInv, ReaderTypeOK, ChainTypeOK, StateDB
<1>4. ReaderTypeOK'
  BY <1>1, <1>2, <1>3 DEF ReaderTypeOK
<1>5. RegistryMatches(accepted)
  BY DEF ReaderInv, ChainInv, RegistryMatchesInfo, Views
<1>6. \A k \in 1..Len(accepted.registry) : accepted.info[accepted.registry[k]] # NoInfo
  BY <1>3, <1>5 DEF RegistryMatches, contains
<1>7. CallInv'
  BY <1>2, <1>3, <1>5, <1>6 DEF CallInv, RegistryMatches
<1>8. SnapshotIfQuiet'
  BY <1>2 DEF SnapshotIfQuiet
<1> QED
  BY <1>1, <1>4, <1>7, <1>8 DEF ReaderInv

(* The call reads a record. *)
LEMMA ReadKeepsInv ==
    ASSUME ReaderInv, ReadInfo
    PROVE  ReaderInv'
<1> DEFINE ns == Head(todo)
           i == accepted.info[ns]
<1>1. ChainInv' /\ ChainTypeOK' /\ NoneDeleted'
  BY ReaderLeavesChain DEF ReadInfo
<1>2. /\ reply' = Append(reply, i) /\ todo' = Tail(todo) /\ todo # << >>
      /\ UNCHANGED <<hght, accepted, call, listed, began>>
  BY DEF ReadInfo, GetRollupInfoFromState, chainVars
<1>3. /\ todo \in Seq(Namespaces) /\ listed \in Seq(Namespaces)
      /\ reply \in Seq(RollupInfo \cup {NoInfo}) /\ accepted \in StateDB
      /\ Len(reply) + Len(todo) = Len(listed)
      /\ hght \in Nat /\ began \in Nat /\ began <= hght
      /\ call \in {"idle", "reading"}
  BY DEF ReaderInv, ReaderTypeOK, ChainTypeOK
<1>4. ns = listed[Len(reply) + 1] /\ Len(reply) + 1 \in 1..Len(listed) /\ ns \in Namespaces
  BY <1>2, <1>3 DEF ReaderInv, CallInv
<1>5. i # NoInfo /\ i.namespace = ns /\ i \in RollupInfo \cup {NoInfo}
  <2>1. i # NoInfo
    BY <1>4 DEF ReaderInv, CallInv
  <2>2. RegistryMatches(accepted)
    BY DEF ReaderInv, ChainInv, RegistryMatchesInfo, Views
  <2> QED
    BY <1>3, <1>4, <2>1, <2>2, InfoType DEF RegistryMatches
<1> HIDE DEF i, ns
<1>6. /\ reply' \in Seq(RollupInfo \cup {NoInfo}) /\ Len(reply') = Len(reply) + 1
      /\ reply'[Len(reply) + 1] = i
      /\ \A k \in 1..Len(reply) : reply'[k] = reply[k]
  BY <1>2, <1>3, <1>5
<1>7. /\ todo' \in Seq(Namespaces) /\ Len(todo') = Len(todo) - 1
      /\ \A k \in 1..Len(todo') : todo'[k] = todo[k + 1]
  BY <1>2, <1>3
<1>8. ReaderTypeOK'
  BY <1>1, <1>2, <1>3, <1>6, <1>7 DEF ReaderTypeOK
<1>9. CallInv'
  <2>1. \A k \in 1..Len(todo') : todo'[k] = listed[Len(reply') + k]
    <3> SUFFICES ASSUME NEW k \in 1..Len(todo') PROVE todo'[k] = listed[Len(reply') + k]
      OBVIOUS
    <3>1. k + 1 \in 1..Len(todo) /\ Len(reply) + (k + 1) = Len(reply') + k
      BY <1>3, <1>6, <1>7
    <3>2. todo[k + 1] = listed[Len(reply) + (k + 1)]
      BY <3>1 DEF ReaderInv, CallInv
    <3> QED
      BY <1>7, <3>1, <3>2
  <2>2. \A k \in 1..Len(reply') : reply'[k] # NoInfo /\ reply'[k].namespace = listed[k]
    <3> SUFFICES ASSUME NEW k \in 1..Len(reply')
                 PROVE  reply'[k] # NoInfo /\ reply'[k].namespace = listed[k]
      OBVIOUS
    <3>1. CASE k = Len(reply) + 1
      BY <1>4, <1>5, <1>6, <3>1
    <3>2. CASE k # Len(reply) + 1
      <4>1. k \in 1..Len(reply)
        BY <1>3, <1>6, <3>2
      <4> QED
        BY <1>6, <4>1 DEF ReaderInv, CallInv
    <3> QED
      BY <3>1, <3>2
  <2> QED
    BY <1>2, <2>1, <2>2 DEF ReaderInv, CallInv
<1>10. SnapshotIfQuiet'
  <2> SUFFICES ASSUME call = "reading", began = hght, NEW k \in 1..Len(reply')
               PROVE  /\ listed = accepted.registry
                      /\ reply'[k] = accepted.info[accepted.registry[k]]
    BY <1>2 DEF ReaderInv, SnapshotIfQuiet
  <2>1. listed = accepted.registry
    BY DEF ReaderInv, SnapshotIfQuiet
  <2>2. CASE k = Len(reply) + 1
    BY <1>4, <1>6, <2>1, <2>2 DEF i
  <2>3. CASE k # Len(reply) + 1
    <3>1. k \in 1..Len(reply)
      BY <1>3, <1>6, <2>3
    <3> QED
      BY <1>6, <2>1, <3>1 DEF ReaderInv, SnapshotIfQuiet
  <2> QED
    BY <2>1, <2>2, <2>3
<1> QED
  BY <1>1, <1>8, <1>9, <1>10 DEF ReaderInv

(* The call ends, with an error or with the reply. *)
LEMMA EndKeepsInv ==
    ASSUME ReaderInv, EndCall
    PROVE  ReaderInv'
<1>1. ChainInv' /\ ChainTypeOK' /\ NoneDeleted'
  BY ReaderLeavesChain DEF EndCall
<1>2. ReaderTypeOK' /\ CallInv' /\ SnapshotIfQuiet'
  BY <1>1 DEF EndCall, ReaderTypeOK, CallInv, SnapshotIfQuiet, ChainTypeOK
<1> QED
  BY <1>1, <1>2 DEF ReaderInv

(* The invariant holds along every behaviour of chain and RPC server. *)
THEOREM ReaderInvariant == ReaderSpec => []ReaderInv
<1>1. ASSUME ReaderInv, UNCHANGED allReaderVars
      PROVE  ReaderInv'
  <2>1. UNCHANGED chainVars /\ UNCHANGED <<call, todo, reply, listed, began>>
    BY <1>1 DEF allReaderVars, readerVars
  <2>2. ChainInv' /\ ChainTypeOK' /\ NoneDeleted'
    BY <1>1, <2>1, ReaderLeavesChain
  <2>3. ReaderTypeOK' /\ CallInv' /\ SnapshotIfQuiet'
    BY <1>1, <2>1, <2>2 DEF ReaderInv, ReaderTypeOK, CallInv, SnapshotIfQuiet, chainVars
  <2> QED
    BY <2>2, <2>3 DEF ReaderInv
<1>2. ReaderInv /\ [ReaderNext]_allReaderVars => ReaderInv'
  BY <1>1, ChainMovesKeepsInv, BeginKeepsInv, ReadKeepsInv, EndKeepsInv
     DEF ReaderNext, ReadFails, SendReply
<1> QED
  BY <1>2, ReaderInvInit, PTL DEF ReaderSpec

(* Type correctness of a call of GetAllRollupInfo; what it has read and    *)
(* what it has yet to read are the list it began with.                     *)
THEOREM ReaderTypeCorrect == ReaderSpec => []ReaderTypeOK
<1>1. ReaderInv => ReaderTypeOK
  BY DEF ReaderInv
<1> QED
  BY <1>1, ReaderInvariant, PTL

(* GetAllRollupInfo never dereferences a missing record and answers with   *)
(* one record for each namespace it read from the registry.                *)
THEOREM ReplyAlwaysComplete == ReaderSpec => []ReplyComplete
<1>1. ReaderInv => ReplyComplete
  <2> SUFFICES ASSUME ReaderInv, NEW k \in 1..Len(reply)
               PROVE  /\ reply[k] # NoInfo
                      /\ reply[k].namespace = listed[k]
                      /\ \A j \in 1..Len(reply) : reply[j] = reply[k] => j = k
    BY DEF ReplyComplete
  <2>1. 1..Len(reply) \subseteq 1..Len(listed)
    BY DEF ReaderInv, ReaderTypeOK
  <2> QED
    BY <2>1 DEF ReaderInv, CallInv
<1> QED
  BY <1>1, ReaderInvariant, PTL

(* A call during which no block is accepted answers with the one state. *)
THEOREM QuietCallsSeeOneState == ReaderSpec => []SnapshotIfQuiet
<1>1. ReaderInv => SnapshotIfQuiet
  BY DEF ReaderInv
<1> QED
  BY <1>1, ReaderInvariant, PTL
=============================================================================
