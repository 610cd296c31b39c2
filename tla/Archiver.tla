------------------------------ MODULE Archiver ------------------------------
(***************************************************************************)
(* The SQL archive of accepted blocks (archiver/orm_archiver.go) and the   *)
(* queries the RPC server answers from it.                                 *)
(*                                                                         *)
(* Controller.Accepted starts one goroutine per block that inserts the     *)
(* block and only logs an error, so rows appear in any order, an insert    *)
(* that fails is never retried, and a crash loses those under way.  A      *)
(* query reads the table several times without a transaction: the block    *)
(* it starts from, the one before, the range, and the one after.           *)
(*                                                                         *)
(* A block is known by its height: identifiers are unique, and a row       *)
(* repeats the accepted block's header.  0 is the height of the zero       *)
(* BlockInfo, which a reader gets for a missing row.                       *)
(***************************************************************************)
EXTENDS Naturals, Sequences, FiniteSets

CONSTANTS
    MaxHeight,       \* bound: accepted blocks
    MaxTime,         \* bound: timestamps
    MayFail,         \* whether inserts and reads of the database may fail
    MayCrash,        \* whether the node may crash
    MaxBlocks,       \* GetBlockCommitmentArgs.MaxBlocks
    Queries          \* the queries that are issued

(* The queries: headers from a height, from a block identifier (0: one     *)
(* the chain does not have), or from a timestamp on, up to a time end; a   *)
(* block, by identifier or height, for its transactions; and commitments   *)
(* from a height arg up to a height end, at most MaxBlocks of them.        *)
HeaderKinds == {"height", "id", "time"}
Kinds == HeaderKinds \cup {"block", "commitments"}
Query == [kind : Kinds, arg : Nat, end : Nat]

ASSUME ArchiverAssumption ==
    /\ MaxHeight \in Nat
    /\ MaxTime \in Nat
    /\ MayFail \in BOOLEAN
    /\ MayCrash \in BOOLEAN
    /\ MaxBlocks \in Nat \ {0}
    /\ Queries \subseteq Query

VARIABLES
    stamps,      \* timestamps of the accepted blocks, by height
    inserting,   \* heights whose InsertBlock goroutine is running
    rows,        \* heights in the table
    query,       \* the query being answered
    pc,          \* what the reader does next
    first,       \* height the query starts from
    prev,        \* reply.Prev
    blocks,      \* reply.Blocks
    next,        \* reply.Next
    seen,        \* history: the rows when the query began
    lost         \* history: heights whose insert failed or was cut short

storeVars == <<stamps, inserting, rows, lost>>
readVars == <<query, pc, first, prev, blocks, next, seen>>
vars == <<stamps, inserting, rows, query, pc, first, prev, blocks, next, seen, lost>>

Heights == 1..MaxHeight
hght == Len(stamps)

NoQuery == [kind |-> "height", arg |-> 0, end |-> 0]

Init ==
    /\ stamps = << >>
    /\ inserting = {}
    /\ rows = {}
    /\ query = NoQuery
    /\ pc = "idle"
    /\ first = 0
    /\ prev = 0
    /\ blocks = << >>
    /\ next = 0
    /\ seen = {}
    /\ lost = {}

-----------------------------------------------------------------------------
(* The chain and the inserts *)

(* Controller.Accepted: a block is accepted and the goroutine that         *)
(* archives it is started.  Its timestamp is not before its parent's, and  *)
(* may be the same: the smallest gap of the rules may be 0.                *)
Accepted(t) ==
    /\ hght < MaxHeight
    /\ hght > 0 => stamps[hght] <= t
    /\ stamps' = Append(stamps, t)
    /\ inserting' = inserting \cup {hght + 1}
    /\ UNCHANGED <<rows, lost, readVars>>

MutantInsertBlock(h) ==
    /\ h \in inserting
    /\ inserting' = inserting \ {h}
    /\ rows' = IF \E r \in rows : r > h THEN rows ELSE rows \cup {h}
    /\ UNCHANGED <<stamps, lost, readVars>>

(* InsertBlock commits; the unique indices turn a second insert of the     *)
(* block into an error that is rolled back.                                *)
InsertBlock(h) ==
    /\ h \in inserting
    /\ inserting' = inserting \ {h}
    /\ rows' = rows \cup {h}
    /\ UNCHANGED <<stamps, lost, readVars>>

(* The database refuses the insert: rollback, the error is logged. *)
InsertFails(h) ==
    /\ MayFail
    /\ h \in inserting
    /\ inserting' = inserting \ {h}
    /\ lost' = lost \cup {h}
    /\ UNCHANGED <<stamps, rows, readVars>>

(* A crash takes the goroutines and the reader along; on restart hypersdk  *)
(* may hand blocks to Accepted that it has handed over before.             *)
Crash ==
    /\ MayCrash
    /\ \E low \in 1..(hght + 1) : inserting' = low..hght
    /\ lost' = lost \cup inserting
    /\ query' = NoQuery /\ pc' = "idle" /\ first' = 0 /\ prev' = 0
    /\ blocks' = << >> /\ next' = 0 /\ seen' = {}
    /\ UNCHANGED <<stamps, rows>>

-----------------------------------------------------------------------------
(* The header queries *)

Lowest(S) == CHOOSE h \in S : \A g \in S : h <= g

(* A set of rows ordered by height. *)
Ordered(S) ==
    [k \in 1..Cardinality(S) |-> CHOOSE h \in S : Cardinality({g \in S : g < h}) = k - 1]

StampedFrom(S, t) == {h \in S : stamps[h] >= t}

(* A query arrives. *)
Ask(q) ==
    /\ pc = "idle"
    /\ query' = q
    /\ pc' = "first"
    /\ seen' = rows
    /\ UNCHANGED <<storeVars, first, prev, blocks, next>>

(* The query ends with an error. *)
Fail ==
    /\ query' = NoQuery /\ pc' = "idle" /\ first' = 0 /\ prev' = 0
    /\ blocks' = << >> /\ next' = 0 /\ seen' = {}
    /\ UNCHANGED storeVars

(* Ordered by timestamp: among equal ones the key of the row decides,      *)
(* which the database assigned when the goroutines inserted them, so any   *)
(* of them may come first.                                                 *)
Earliest(S) == {h \in S : \A g \in S : stamps[h] <= stamps[g]}

(* The height to start from: the argument itself; that of the row with the *)
(* given identifier, 0 without an error if there is none; or that of an    *)
(* earliest row not before the given time.                                 *)
StartHeights(q) ==
    CASE q.kind = "height" -> {q.arg}
      [] q.kind = "id"     -> {IF q.arg \in rows THEN q.arg ELSE 0}
      [] q.kind = "time"   -> Earliest(StampedFrom(rows, q.arg))

NoStart(q) == q.kind = "time" /\ StampedFrom(rows, q.arg) = {}

ReadFirst ==
    /\ pc = "first"
    /\ query.kind \in HeaderKinds
    /\ ~NoStart(query)
    /\ first' \in StartHeights(query)
    /\ pc' = "prev"
    /\ UNCHANGED <<storeVars, query, prev, blocks, next, seen>>

ReadFirstFails ==
    /\ pc = "first"
    /\ NoStart(query)
    /\ Fail

MutantPrevHeight(h) == IF h > 1 /\ h - 2 \in rows THEN h - 2 ELSE 0

(* The block before the first, the zero BlockInfo if there is no such row. *)
PrevHeight(h) == IF h > 1 /\ h - 1 \in rows THEN h - 1 ELSE 0

ReadPrev ==
    /\ pc = "prev"
    /\ prev' = PrevHeight(first)
    /\ pc' = "blocks"
    /\ UNCHANGED <<storeVars, query, first, blocks, next, seen>>

MutantInRange(h) == h >= first /\ stamps[h] <= query.end

MutantInRangeAfter(h) == h > first /\ stamps[h] < query.end

InRange(h) == h >= first /\ stamps[h] < query.end

RowsInRange == {h \in rows : InRange(h)}

MutantConsecutive(S) == TRUE

(* Ordered by height, every row is the successor of the one before. *)
Consecutive(S) == \A h \in S : h = Lowest(S) \/ h - 1 \in S

ReadBlocks ==
    /\ pc = "blocks"
    /\ Consecutive(RowsInRange)
    /\ blocks' = Ordered(RowsInRange)
    /\ pc' = "next"
    /\ UNCHANGED <<storeVars, query, first, prev, next, seen>>

ReadBlocksFails ==
    /\ pc = "blocks"
    /\ ~Consecutive(RowsInRange)
    /\ Fail

(* The lowest row not before the end of the range, if any. *)
ReadNext ==
    /\ pc = "next"
    /\ next' = LET after == StampedFrom(rows, query.end) IN
               IF after = {} THEN 0 ELSE Lowest(after)
    /\ pc' = "reply"
    /\ UNCHANGED <<storeVars, query, first, prev, blocks, seen>>

(* The database reports an error: any other read makes the query fail, but *)
(* the last one is answered as if no block came after the range.           *)
ReadErrs ==
    /\ MayFail
    /\ pc \in {"first", "prev", "blocks"}
    /\ Fail

ReadNextErrs ==
    /\ MayFail
    /\ pc = "next"
    /\ next' = 0
    /\ pc' = "reply"
    /\ UNCHANGED <<storeVars, query, first, prev, blocks, seen>>

-----------------------------------------------------------------------------
(* The queries for a block and for commitments *)

(* GetBlockByID, GetBlockByHeight: one read. *)
GetBlock ==
    /\ pc = "first"
    /\ query.kind = "block"
    /\ query.arg \in rows
    /\ blocks' = <<query.arg>>
    /\ pc' = "reply"
    /\ UNCHANGED <<storeVars, query, first, prev, next, seen>>

(* Find leaves the zero row, whose bytes are not those of a block. *)
GetBlockFails ==
    /\ pc = "first"
    /\ query.kind = "block"
    /\ query.arg \notin rows
    /\ Fail

MutantCommitmentRows(q) == {h \in rows : q.arg < h /\ h <= q.end}

CommitmentRows(q) == {h \in rows : q.arg <= h /\ h <= q.end}

(* One read, ordered and limited; holes between the rows are not noticed. *)
GetCommitmentBlocks ==
    /\ pc = "first"
    /\ query.kind = "commitments"
    /\ query.arg >= 1
    /\ LET found == Ordered(CommitmentRows(query)) IN
       blocks' = SubSeq(found, 1, IF Len(found) < MaxBlocks THEN Len(found) ELSE MaxBlocks)
    /\ pc' = "reply"
    /\ UNCHANGED <<storeVars, query, first, prev, next, seen>>

GetCommitmentBlocksFails ==
    /\ pc = "first"
    /\ query.kind = "commitments"
    /\ query.arg < 1
    /\ Fail

(* The reply is sent. *)
Reply ==
    /\ pc = "reply"
    /\ Fail

Writer ==
    \/ \E t \in 1..MaxTime : Accepted(t)
    \/ \E h \in Heights : InsertBlock(h) \/ InsertFails(h)

Reader ==
    \/ \E q \in Queries : Ask(q)
    \/ ReadFirst \/ ReadFirstFails
    \/ ReadPrev
    \/ ReadBlocks \/ ReadBlocksFails
    \/ ReadNext
    \/ ReadErrs \/ ReadNextErrs
    \/ GetBlock \/ GetBlockFails
    \/ GetCommitmentBlocks \/ GetCommitmentBlocksFails
    \/ Reply

Next == Writer \/ Reader \/ Crash

Spec == Init /\ [][Next]_vars

(* Every goroutine that inserts a block gets to finish. *)
FairSpec ==
    Spec /\ \A h \in Heights : WF_vars(InsertBlock(h) \/ InsertFails(h))

-----------------------------------------------------------------------------
(* Properties *)

(* Whatever is missing from the table, and however inserts interleave with *)
(* the reads of a query, the headers of a reply are accepted blocks of     *)
(* consecutive heights inside the requested range.                         *)
HeadersConsecutive ==
    pc = "reply" /\ query.kind \in HeaderKinds =>
        \A k \in 1..Len(blocks) :
            /\ blocks[k] = blocks[1] + (k - 1)
            /\ first <= blocks[k] /\ blocks[k] <= hght
            /\ stamps[blocks[k]] < query.end

(* Prev, Blocks and Next of a reply never overlap and are in chain order.  *)
ReplyOrdered ==
    pc = "reply" =>
        \A k \in 1..Len(blocks) :
            prev < blocks[k] /\ (next # 0 => blocks[k] < next)

(* A reply about a stretch the archive held when the query began is joined *)
(* to its predecessor, as the end-to-end test expects of every reply.      *)
PrevAdjacentIfArchived ==
    /\ pc = "reply"
    /\ blocks # << >>
    /\ first > 1
    /\ {first - 1, first} \subseteq seen
    => prev + 1 = blocks[1]

(* The commitments of a stretch of the chain that was archived when the    *)
(* query began start at its first block and leave none out, up to the      *)
(* limit, whatever is missing elsewhere and inserted meanwhile.            *)
CommitmentsGapless ==
    /\ pc = "reply"
    /\ query.kind = "commitments"
    /\ query.arg..query.end \subseteq seen
    => /\ \A k \in 1..Len(blocks) : blocks[k] = query.arg + (k - 1)
       /\ \A h \in query.arg..query.end :
              h < query.arg + MaxBlocks => \E k \in 1..Len(blocks) : blocks[k] = h

(* The query q asks for the header of block h. *)
Requested(q, h) ==
    /\ stamps[h] < q.end
    /\ \/ q.kind = "height" /\ h >= q.arg
       \/ q.kind = "id" /\ q.arg \in seen /\ h >= q.arg
       \/ q.kind = "time" /\ stamps[h] >= q.arg

(* A reply that is no error leaves out no requested block that was in the  *)
(* archive when the query began, though other blocks are inserted between  *)
(* the read of the first block and that of the range, with one exception:  *)
(* a query by time starts from one of the blocks with the earliest         *)
(* timestamp, and leaves out those below it with the same timestamp.  A    *)
(* query by the identifier of a block that was not archived has no such    *)
(* promise: it goes on from height 0.                                      *)
RequestedBlocksFound ==
    pc = "reply" /\ query.kind \in HeaderKinds =>
        \A h \in seen :
            Requested(query, h) =>
                \/ \E k \in 1..Len(blocks) : blocks[k] = h
                \/ query.kind = "time" /\ h < first /\ stamps[h] = stamps[first]

(* Every accepted block reaches the archive, in whatever order the         *)
(* goroutines run, unless its insert failed or a crash cut it short.       *)
EventuallyArchived == \A h \in Heights : (hght >= h) ~> (h \in rows \cup lost)
=============================================================================
