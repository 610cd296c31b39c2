--------------------------- MODULE RollupRegistry ---------------------------
(***************************************************************************)
(* A node's in-memory RollupRegistry, composed with the chain it follows.  *)
(*                                                                         *)
(* hypersdk commits an accepted block's state and queues the block for     *)
(* Controller.Accepted, which runs in block order on a goroutine of its    *)
(* own, so the state database may be ahead of the registry.  Accepted      *)
(* collects the Info of every RollupRegistration of a successful           *)
(* transaction and hands the list to Update with the block's epoch.  The   *)
(* registry serves RollupsValidAtEpoch; it is never loaded from the state  *)
(* database, so a restarted node starts with an empty one and knows a      *)
(* rollup again only when a later block registers it anew.                 *)
(***************************************************************************)
EXTENDS RollupRegistration

CONSTANTS
    MaxQueue      \* bound: accepted blocks that wait for Controller.Accepted

ASSUME QueueAssumption == MaxQueue \in Nat \ {0}

VARIABLES
    acceptedQueue,   \* accepted blocks Controller.Accepted has not seen
    rollups,         \* RollupRegistry.rollups, by namespace (RollupInfo.ID)
    processed,       \* height of the last block Controller.Accepted has seen
    forgotten        \* history: rollups registered before the last restart and
                     \* not heard of since

nodeVars == <<acceptedQueue, rollups, processed, forgotten>>
vars == <<hght, accepted, phase, blockDB, blockRegs, actor, txDB, txRegs,
          acceptedQueue, rollups, processed, forgotten>>

Block == [hght : Nat, regs : Seq(RegAction)]

-----------------------------------------------------------------------------
(* RollupRegistry.Update *)

MutantHandedOver(regs, k, ns) == regs[k].info.namespace = ns

(* Entry k of a block's registrations reaches Update and is about ns. *)
HandedOver(regs, k, ns) == regs[k].success /\ regs[k].info.namespace = ns

(* No registration in regs reaches Update for ns. *)
NoneFor(regs, ns) == \A k \in 1..Len(regs) : ~HandedOver(regs, k, ns)

(* The entry that stays after the entries are put in the map in order. *)
IsLast(regs, k, ns) ==
    /\ HandedOver(regs, k, ns)
    /\ \A m \in 1..Len(regs) : HandedOver(regs, m, ns) => m <= k

Put(regs, ns, old) ==
    IF \E k \in 1..Len(regs) : IsLast(regs, k, ns)
    THEN regs[CHOOSE k \in 1..Len(regs) : IsLast(regs, k, ns)].info
    ELSE old

MutantDropExited(i, e) == i

MutantDropExitedEarly(i, e) == IF i # NoInfo /\ Exited(i, e + 1) THEN NoInfo ELSE i

(* maps.DeleteFunc of the records that have exited. *)
DropExited(i, e) == IF i # NoInfo /\ Exited(i, e) THEN NoInfo ELSE i

Update(e, regs) ==
    rollups' = [ns \in Namespaces |-> DropExited(Put(regs, ns, rollups[ns]), e)]

(* RollupRegistry.RollupsValidAtEpoch *)
RollupsValidAtEpoch(e) ==
    {rollups[ns] : ns \in {n \in Namespaces :
                              rollups[n] # NoInfo /\ ValidAtEpoch(rollups[n], e)}}

(* What the RPC server answers: from the registry, and from the state.     *)
GetValidRollupsAtEpoch(e) == RollupsValidAtEpoch(e)
GetEpochExits(e) == accepted.exits[e]

-----------------------------------------------------------------------------
Init ==
    /\ ChainInit
    /\ acceptedQueue = << >>
    /\ rollups = [ns \in Namespaces |-> NoInfo]
    /\ processed = 0
    /\ forgotten = {}

(* The chain moves without the registry noticing. *)
ChainStep == TxStep /\ UNCHANGED nodeVars

(* hypersdk: the block is committed and queued for Controller.Accepted. *)
Accept ==
    /\ Len(acceptedQueue) < MaxQueue
    /\ AcceptBlock
    /\ acceptedQueue' = Append(acceptedQueue, [hght |-> hght + 1, regs |-> blockRegs])
    /\ UNCHANGED <<rollups, processed, forgotten>>

(* Controller.Accepted for the block at the head of the queue. *)
Accepted ==
    /\ acceptedQueue # << >>
    /\ Update(Epoch(Head(acceptedQueue).hght), Head(acceptedQueue).regs)
    /\ processed' = Head(acceptedQueue).hght
    /\ acceptedQueue' = Tail(acceptedQueue)
    /\ forgotten' = {ns \in forgotten : NoneFor(Head(acceptedQueue).regs, ns)}
    /\ UNCHANGED chainVars

(* The node stops and starts again: Initialize makes an empty registry and *)
(* the work on an unaccepted block is gone.  The blocks accepted but not   *)
(* processed are queued again or, after a crash, lost to the controller.   *)
Restart ==
    /\ acceptedQueue' \in {acceptedQueue, << >>}
    /\ rollups' = [ns \in Namespaces |-> NoInfo]
    /\ processed' = IF acceptedQueue' = << >> THEN hght ELSE processed
    /\ phase' = "idle"
    /\ blockDB' = accepted
    /\ txDB' = accepted
    /\ blockRegs' = << >>
    /\ txRegs' = << >>
    /\ actor' = NoActor
    /\ forgotten' = {ns \in Namespaces : accepted.info[ns] # NoInfo}
    /\ UNCHANGED <<hght, accepted>>

Done == Finished /\ acceptedQueue = << >> /\ UNCHANGED nodeVars

Next == ChainStep \/ Accept \/ Accepted \/ Restart \/ Done

Spec == Init /\ [][Next]_vars

(* The goroutine that drains the queue keeps running. *)
FairSpec == Spec /\ WF_vars(Accepted)

-----------------------------------------------------------------------------
(* Properties *)

(* The type invariant; the queue holds the blocks processed + 1 .. hght.   *)
TypeOK ==
    /\ ChainTypeOK
    /\ acceptedQueue \in Seq(Block)
    /\ rollups \in [Namespaces -> RollupInfo \cup {NoInfo}]
    /\ processed \in Nat
    /\ forgotten \subseteq Namespaces
    /\ processed + Len(acceptedQueue) = hght
    /\ \A k \in 1..Len(acceptedQueue) : acceptedQueue[k].hght = processed + k

(* The last registration for ns in regs carries the record i. *)
LastFor(regs, ns, i) ==
    \E k \in 1..Len(regs) : IsLast(regs, k, ns) /\ regs[k].info = i

(* The same of the queued blocks. *)
NoneQueued(q, ns) == \A b \in 1..Len(q) : NoneFor(q[b].regs, ns)

LastQueued(q, ns, i) ==
    \E b \in 1..Len(q) :
        /\ LastFor(q[b].regs, ns, i)
        /\ \A c \in 1..Len(q) : c > b => NoneFor(q[c].regs, ns)

(* What Accepted has yet to do closes the gap to the state database: a     *)
(* served record is the stored one unless a queued block replaces it, the  *)
(* last replacement is the stored record, and nothing exited is served.    *)
ServedIsCurrent ==
    \A ns \in Namespaces :
        /\ rollups[ns] # NoInfo => ~Exited(rollups[ns], Epoch(processed))
        /\ \/ NoneQueued(acceptedQueue, ns) /\ rollups[ns] \in {NoInfo, accepted.info[ns]}
           \/ LastQueued(acceptedQueue, ns, accepted.info[ns])

(* No participant is missing either, but for those a restart has lost: a   *)
(* rollup that is registered and not served has exited, or waits in the    *)
(* queue, or has not been heard of since the last restart.                 *)
NoneMissing ==
    \A ns \in Namespaces \ forgotten :
        /\ NoneQueued(acceptedQueue, ns)
        /\ rollups[ns] = NoInfo
        /\ accepted.info[ns] # NoInfo
        => Exited(accepted.info[ns], Epoch(processed))

(* The stored records that cover epoch e, epoch exits not applied. *)
RecordsValidAt(e) ==
    {accepted.info[ns] : ns \in {n \in Namespaces : Participates(accepted, n, e)}}

(* When Controller.Accepted has caught up, GetValidRollupsAtEpoch lists    *)
(* for the current and every later epoch only stored records that cover    *)
(* it, and misses no rollup that takes part in it but those not heard of   *)
(* since the last restart.  Rollups with an epoch exit are listed as well: *)
(* see ExitedEpochNotListed.                                               *)
ServedMatchesState ==
    acceptedQueue = << >> =>
        \A e \in Epoch(hght)..(MaxEpoch + 2) :
            /\ RollupsValidAtEpoch(e) \subseteq RecordsValidAt(e)
            /\ \A ns \in Namespaces \ forgotten :
                   TakesPart(accepted, ns, e) => accepted.info[ns] \in RollupsValidAtEpoch(e)

(* arcadia.md: a rollup stays in the list of participants until it opts    *)
(* out entirely or opts out for a specific epoch, with an EpochExit.  The  *)
(* registry is never told of an EpochExit and lists the rollup all the     *)
(* same.                                                                   *)
ExitedEpochNotListed ==
    acceptedQueue = << >> =>
        \A ns \in Namespaces, e \in ExitEpochs :
            contains(GetEpochExits(e), ns) =>
                accepted.info[ns] \notin GetValidRollupsAtEpoch(e)

(* A rollup whose exit epoch has come leaves the registry in the end,      *)
(* unless its authority registers it anew.                                 *)
ExitedIsDropped ==
    \A ns \in Namespaces :
        (accepted.info[ns] # NoInfo /\ Exited(accepted.info[ns], Epoch(hght)))
        ~> (rollups[ns] = NoInfo \/ ~Exited(accepted.info[ns], Epoch(hght)))

(* arcadia.md: once opted in, a rollup stays in the list of participants   *)
(* until it opts out.  A restarted node forgets the ones it served.        *)
OptedInStaysListed ==
    [][\A ns \in Namespaces :
          rollups[ns] # NoInfo /\ accepted'.info[ns] = rollups[ns]
          /\ rollups[ns].exit = 0 => rollups'[ns] # NoInfo]_vars
=============================================================================
