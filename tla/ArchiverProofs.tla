--------------------------- MODULE ArchiverProofs ---------------------------
(***************************************************************************)
(* Proofs about the archive, for any number of blocks, queries, failed     *)
(* inserts and crashes.                                                    *)
(***************************************************************************)
EXTENDS Archiver, FiniteSetTheorems, TLAPS

-----------------------------------------------------------------------------
(* Sets of heights and their order *)

(* A set of naturals has a least element. *)
LEMMA LeastNatural ==
    ASSUME NEW T \in SUBSET Nat, T # {}
    PROVE  \E x \in T : \A y \in T : x <= y
<1> DEFINE R == OpToRel(<, Nat)
<1>1. IsWellFoundedOn(R, Nat)
  BY NatLessThanWellFounded, Zenon
<1> HIDE DEF R
<1>2. PICK x \in T : \A y \in T : ~(<<y, x>> \in R)
  BY <1>1, WFMin
<1>3. \A y \in T : ~(y < x)
  BY <1>2 DEF R, OpToRel
<1> QED
  BY <1>3

LEMMA LowestIs ==
    ASSUME NEW S \in SUBSET Nat, S # {}
    PROVE  Lowest(S) \in S /\ \A h \in S : Lowest(S) <= h
<1>1. \E x \in S : \A y \in S : x <= y
  BY LeastNatural
<1> QED
  BY <1>1 DEF Lowest

(* The number of rows below each row enumerates 0..Cardinality(S)-1, so    *)
(* that Ordered lists the rows.                                            *)
LEMMA OrderedLists ==
    ASSUME NEW S \in SUBSET Nat, IsFiniteSet(S)
    PROVE  /\ Cardinality(S) \in Nat
           /\ Ordered(S) \in Seq(S)
           /\ Len(Ordered(S)) = Cardinality(S)
           /\ \A k \in 1..Cardinality(S) :
                 Cardinality({g \in S : g < Ordered(S)[k]}) = k - 1
<1> DEFINE below(h) == {g \in S : g < h}
           n == Cardinality(S)
           rank == [h \in S |-> Cardinality(below(h))]
<1>1. n \in Nat
  BY FS_CardinalityType
<1>2. ASSUME NEW h \in S
      PROVE  IsFiniteSet(below(h)) /\ Cardinality(below(h)) \in 0..(n - 1)
  <2>1. below(h) \in SUBSET S /\ below(h) # S
    OBVIOUS
  <2> HIDE DEF below
  <2>2. IsFiniteSet(below(h)) /\ Cardinality(below(h)) <= n /\ n # Cardinality(below(h))
    BY <2>1, FS_Subset
  <2>3. Cardinality(below(h)) \in Nat
    BY <2>2, FS_CardinalityType
  <2> HIDE DEF n
  <2> QED
    BY <1>1, <2>2, <2>3
<1>3. ASSUME NEW g \in S, NEW h \in S, g < h
      PROVE  Cardinality(below(g)) # Cardinality(below(h))
  <2>1. below(g) \in SUBSET below(h) /\ below(g) # below(h)
    <3>1. g \in below(h) /\ g \notin below(g)
      BY <1>3
    <3>2. \A x \in S : x < g => x < h
      BY <1>3
    <3>3. below(g) \subseteq below(h)
      BY <3>2
    <3> QED
      BY <3>1, <3>3
  <2>2. IsFiniteSet(below(h))
    BY <1>2
  <2> HIDE DEF below
  <2> QED
    BY <2>1, <2>2, FS_Subset
<1>4. rank \in [S -> 0..(n - 1)]
  BY <1>2
<1>5. \A g, h \in S : rank[g] = rank[h] => g = h
  <2> SUFFICES ASSUME NEW g \in S, NEW h \in S, g # h
               PROVE  rank[g] # rank[h]
    OBVIOUS
  <2>1. g < h \/ h < g
    OBVIOUS
  <2> HIDE DEF below
  <2> QED
    BY <1>3, <2>1
<1> HIDE DEF rank
<1>6. rank \in Injection(S, 0..(n - 1))
  BY <1>4, <1>5 DEF Injection, IsInjective
<1> HIDE DEF n
<1>7. IsFiniteSet(0..(n - 1)) /\ Cardinality(0..(n - 1)) = n
  BY <1>1, FS_Interval
<1>8. rank \in Surjection(S, 0..(n - 1))
  BY <1>6, <1>7, FS_Injection DEF n
<1>9. ASSUME NEW k \in 1..n
      PROVE  \E h \in S : Cardinality(below(h)) = k - 1
  <2>1. k - 1 \in 0..(n - 1)
    BY <1>1
  <2>2. PICK h \in S : rank[h] = k - 1
    BY <1>8, <2>1 DEF Surjection
  <2> QED
    BY <2>2 DEF rank
<1>10. Ordered(S) = [k \in 1..n |-> CHOOSE h \in S : Cardinality(below(h)) = k - 1]
  BY DEF Ordered, n
<1> HIDE DEF below
<1>11. \A k \in 1..n : Ordered(S)[k] \in S /\ Cardinality(below(Ordered(S)[k])) = k - 1
  BY <1>9, <1>10
<1>12. Ordered(S) \in [1..n -> S]
  BY <1>10, <1>11
<1>13. Ordered(S) \in Seq(S) /\ Len(Ordered(S)) = n
  BY <1>1, <1>12
<1> QED
  BY <1>1, <1>11, <1>13 DEF n, below

(* Rows without a gap are listed as consecutive heights. *)
LEMMA OrderedInterval ==
    ASSUME NEW lo \in Nat, NEW hi \in Nat
    PROVE  /\ Ordered(lo..hi) \in Seq(lo..hi)
           /\ Len(Ordered(lo..hi)) = IF lo > hi THEN 0 ELSE hi - lo + 1
           /\ \A k \in 1..Len(Ordered(lo..hi)) : Ordered(lo..hi)[k] = lo + (k - 1)
<1> DEFINE S == lo..hi
           s == Ordered(S)
<1>1. S \in SUBSET Nat
  OBVIOUS
<1>2. IsFiniteSet(S) /\ Cardinality(S) = IF lo > hi THEN 0 ELSE hi - lo + 1
  BY FS_Interval
<1> HIDE DEF S
<1>3. /\ s \in Seq(S) /\ Len(s) = Cardinality(S)
      /\ \A k \in 1..Cardinality(S) : Cardinality({g \in S : g < s[k]}) = k - 1
  BY <1>1, <1>2, OrderedLists
<1> HIDE DEF s
<1>4. ASSUME NEW k \in 1..Len(s)
      PROVE  s[k] = lo + (k - 1)
  <2>1. s[k] \in lo..hi
    BY <1>3 DEF S
  <2>2. {g \in S : g < s[k]} = lo..(s[k] - 1)
    BY <2>1 DEF S
  <2>3. Cardinality(lo..(s[k] - 1)) = s[k] - lo
    <3>1. s[k] - 1 \in Int /\ lo \in Int
      BY <2>1
    <3>2. Cardinality(lo..(s[k] - 1)) =
              IF lo > s[k] - 1 THEN 0 ELSE (s[k] - 1) - lo + 1
      BY <3>1, FS_Interval
    <3> QED
      BY <2>1, <3>2
  <2>4. Cardinality({g \in S : g < s[k]}) = k - 1
    BY <1>3
  <2>5. s[k] - lo = k - 1
    BY <2>2, <2>3, <2>4, Zenon
  <2>6. s[k] \in Nat /\ k \in Nat
    BY <2>1
  <2> QED
    BY <2>5, <2>6
<1> QED
  BY <1>2, <1>3, <1>4 DEF S, s

(* Rows that the gap check lets pass form an interval. *)
LEMMA ConsecutiveInterval ==
    ASSUME NEW n \in Nat, NEW S \in SUBSET (1..n), S # {}, Consecutive(S)
    PROVE  \E hi \in Nat : S = Lowest(S)..hi
<1> DEFINE lo == Lowest(S)
           G == {d \in Nat : n - d \in S}
<1>1. S \in SUBSET Nat
  OBVIOUS
<1>2. lo \in S /\ \A h \in S : lo <= h
  BY <1>1, LowestIs
<1>3. G # {}
  <2> HIDE DEF lo
  <2>1. n - lo \in Nat /\ n - (n - lo) = lo
    BY <1>2
  <2>2. n - lo \in Nat /\ n - (n - lo) \in S
    BY <1>2, <2>1, Zenon
  <2> QED
    BY <2>2
<1>4. PICK d \in G : \A c \in G : d <= c
  BY <1>3, LeastNatural
<1> DEFINE hi == n - d
<1>5. hi \in S /\ \A h \in S : h <= hi
  <2>1. hi \in S
    BY <1>4
  <2>2. \A h \in S : n - h \in G
    OBVIOUS
  <2> HIDE DEF G
  <2> QED
    BY <1>4, <2>1, <2>2 DEF G
<1> HIDE DEF hi, lo, G
<1>6. ASSUME NEW g \in lo..hi, g \notin S
      PROVE  FALSE
  <2> DEFINE D == {m \in Nat : m >= g /\ m \in S}
  <2>1. D \in SUBSET Nat /\ D # {}
    BY <1>1, <1>2, <1>5
  <2>2. PICK m \in D : \A x \in D : m <= x
    BY <2>1, LeastNatural
  <2>3. m \in S /\ m > g
    BY <1>6, <2>2, <1>1, <1>2
  <2>4. m # lo
    BY <1>2, <2>3, <1>1
  <2>5. m - 1 \in S
    BY <2>3, <2>4 DEF Consecutive, lo
  <2>6. m - 1 \in D
    BY <1>1, <1>2, <2>3, <2>5
  <2> QED
    BY <2>2, <2>6
<1>7. S \subseteq lo..hi
  BY <1>1, <1>2, <1>5
<1>8. S = lo..hi
  BY <1>6, <1>7
<1> QED
  BY <1>1, <1>5, <1>8 DEF lo

-----------------------------------------------------------------------------
(* The inductive invariant *)

ArchiveType ==
    /\ stamps \in Seq(Nat)
    /\ inserting \subseteq 1..Len(stamps)
    /\ rows \subseteq 1..Len(stamps)
    /\ seen \subseteq rows
    /\ query \in Query
    /\ pc \in {"idle", "first", "prev", "blocks", "next", "reply"}
    /\ first \in Nat /\ prev \in Nat /\ next \in Nat
    /\ blocks \in Seq(Nat)

(* Timestamps do not fall with the heights. *)
TimeGrows == \A i, j \in 1..Len(stamps) : i < j => stamps[i] <= stamps[j]

(* A field of the reply is empty until the read that fills it. *)
NotYetRead ==
    /\ pc \in {"idle", "first"} => first = 0
    /\ pc \in {"idle", "first", "prev"} => prev = 0
    /\ pc \in {"idle", "first", "prev", "blocks", "next"} => next = 0

(* The reads after the first one belong to a query for headers. *)
OfHeaders ==
    \/ pc \in {"prev", "blocks", "next"}
    \/ pc = "reply" /\ query.kind \in HeaderKinds

HeadersOnly == OfHeaders => query.kind \in HeaderKinds

(* The start of the range is not after a block that was requested and      *)
(* archived when the query began, unless the two have the same timestamp.  *)
StartSound ==
    OfHeaders =>
        /\ query.kind = "time" => first \in rows
        /\ \A h \in seen :
              Requested(query, h) =>
                  \/ first <= h
                  \/ query.kind = "time" /\ h < first /\ stamps[h] = stamps[first]

(* Prev is the block before the first, and is found if it was archived. *)
PrevSound ==
    pc \in {"blocks", "next", "reply"} =>
        /\ prev # 0 => prev + 1 = first
        /\ first > 1 /\ first - 1 \in seen => prev + 1 = first

(* Blocks are consecutive rows of the range, none archived left out. *)
BlocksSound ==
    pc \in {"next", "reply"} /\ query.kind \in HeaderKinds =>
        /\ \A k \in 1..Len(blocks) :
              /\ blocks[k] = blocks[1] + (k - 1)
              /\ blocks[k] \in rows
              /\ first <= blocks[k]
              /\ stamps[blocks[k]] < query.end
        /\ \A h \in seen :
              first <= h /\ stamps[h] < query.end =>
                  \E k \in 1..Len(blocks) : blocks[k] = h

(* Next is a row not before the end of the range. *)
NextSound ==
    pc = "reply" /\ query.kind \in HeaderKinds /\ next # 0 =>
        next \in rows /\ stamps[next] >= query.end

(* Replies to the other queries have rows and nothing before or after. *)
OtherSound ==
    pc = "reply" /\ query.kind \notin HeaderKinds =>
        /\ first = 0 /\ prev = 0 /\ next = 0
        /\ \A k \in 1..Len(blocks) : blocks[k] \in rows

ReplyInv ==
    /\ HeadersOnly
    /\ NotYetRead
    /\ StartSound
    /\ PrevSound
    /\ BlocksSound
    /\ NextSound
    /\ OtherSound
    /\ CommitmentsGapless

ArchiveInv == ArchiveType /\ TimeGrows /\ ReplyInv

LEMMA ArchiveInvInit == Init => ArchiveInv
BY DEF Init, ArchiveInv, ReplyInv, ArchiveType, TimeGrows, HeadersOnly, OfHeaders, NotYetRead,
       StartSound, PrevSound, BlocksSound, NextSound, OtherSound,
       CommitmentsGapless, NoQuery, Query, Kinds, HeaderKinds

(* Accepted blocks and inserts only add to what a reader may see. *)
Grows ==
    /\ UNCHANGED readVars
    /\ rows \subseteq rows'
    /\ \A h \in 1..Len(stamps) : stamps'[h] = stamps[h]

LEMMA GrowsKeepsReply ==
    ASSUME ArchiveInv, Grows
    PROVE  ReplyInv'
<1>1. \A h \in rows : stamps'[h] = stamps[h]
  BY DEF ArchiveInv, ArchiveType, Grows
<1>2. \A h \in seen : stamps'[h] = stamps[h]
  BY <1>1 DEF ArchiveInv, ArchiveType
<1>3. /\ query' = query /\ pc' = pc /\ first' = first /\ prev' = prev
      /\ blocks' = blocks /\ next' = next /\ seen' = seen /\ rows \subseteq rows'
  BY DEF Grows, readVars
<1>4. HeadersOnly' /\ NotYetRead' /\ PrevSound' /\ CommitmentsGapless' /\ OtherSound'
  BY <1>3 DEF ArchiveInv, ReplyInv, HeadersOnly, OfHeaders, NotYetRead, PrevSound,
              CommitmentsGapless, OtherSound
<1>5. StartSound'
  BY <1>1, <1>2, <1>3 DEF ArchiveInv, ReplyInv, StartSound, OfHeaders, Requested
<1>6. BlocksSound'
  BY <1>1, <1>2, <1>3 DEF ArchiveInv, ReplyInv, BlocksSound
<1>7. NextSound'
  BY <1>1, <1>3 DEF ArchiveInv, ReplyInv, NextSound
<1> QED
  BY <1>4, <1>5, <1>6, <1>7 DEF ReplyInv

LEMMA WriterKeepsInv ==
    ASSUME ArchiveInv, Writer
    PROVE  ArchiveInv'
<1>1. ASSUME NEW t \in 1..MaxTime, Accepted(t)
      PROVE  ArchiveType' /\ TimeGrows' /\ Grows
  <2>1. t \in Nat /\ stamps \in Seq(Nat)
    BY ArchiverAssumption DEF ArchiveInv, ArchiveType
  <2>2. /\ stamps' \in Seq(Nat) /\ Len(stamps') = Len(stamps) + 1
        /\ stamps'[Len(stamps) + 1] = t
        /\ \A h \in 1..Len(stamps) : stamps'[h] = stamps[h]
    BY <1>1, <2>1 DEF Accepted
  <2>3. ArchiveType'
    <3>1. inserting' \subseteq 1..Len(stamps') /\ rows' \subseteq 1..Len(stamps')
      <4> DEFINE n == Len(stamps)
      <4>1. n \in Nat /\ inserting \subseteq 1..n /\ rows \subseteq 1..n
        BY <2>1 DEF ArchiveInv, ArchiveType
      <4>2. inserting' = inserting \cup {n + 1} /\ rows' = rows /\ Len(stamps') = n + 1
        BY <1>1, <2>2 DEF Accepted, hght
      <4> HIDE DEF n
      <4>3. 1..n \subseteq 1..(n + 1) /\ n + 1 \in 1..(n + 1)
        BY <4>1
      <4> QED
        BY <4>1, <4>2, <4>3
    <3> QED
      BY <1>1, <2>2, <3>1 DEF Accepted, ArchiveInv, ArchiveType, readVars
  <2>4. \A i \in 1..Len(stamps) : stamps[i] <= t
    <3>1. Len(stamps) > 0 => stamps[Len(stamps)] <= t
      BY <1>1 DEF Accepted, hght
    <3>2. \A i \in 1..Len(stamps) : i < Len(stamps) => stamps[i] <= stamps[Len(stamps)]
      BY <2>1 DEF ArchiveInv, TimeGrows
    <3>3. \A i \in 1..Len(stamps) : stamps[i] \in Nat
      BY <2>1
    <3> QED
      BY <2>1, <3>1, <3>2, <3>3
  <2>5. TimeGrows'
    <3>1. ASSUME NEW i \in 1..Len(stamps'), NEW j \in 1..Len(stamps'), i < j
          PROVE  stamps'[i] <= stamps'[j]
      <4>1. Len(stamps) \in Nat
        BY <2>1
      <4>2. i \in 1..Len(stamps) /\ stamps'[i] = stamps[i]
        BY <2>2, <3>1, <4>1
      <4>3. CASE j = Len(stamps) + 1
        BY <2>2, <2>4, <4>2, <4>3
      <4>4. CASE j \in 1..Len(stamps)
        BY <2>2, <3>1, <4>2, <4>4 DEF ArchiveInv, TimeGrows
      <4> QED
        BY <2>2, <4>1, <4>3, <4>4
    <3> QED
      BY <3>1 DEF TimeGrows
  <2>6. Grows
    BY <1>1, <2>2 DEF Accepted, Grows
  <2> QED
    BY <2>3, <2>5, <2>6
<1>2. ASSUME NEW h \in Heights, InsertBlock(h) \/ InsertFails(h)
      PROVE  ArchiveType' /\ TimeGrows' /\ Grows
  BY <1>2 DEF InsertBlock, InsertFails, ArchiveInv, ArchiveType, TimeGrows, Grows, readVars
<1> QED
  BY <1>1, <1>2, GrowsKeepsReply DEF Writer, ArchiveInv

(* An idle reader has nothing to show. *)
LEMMA IdleInv ==
    ASSUME ArchiveInv, stamps' = stamps, rows' = rows,
           inserting' \subseteq 1..Len(stamps),
           query' = NoQuery, pc' = "idle", first' = 0, prev' = 0,
           blocks' = << >>, next' = 0, seen' = {}
    PROVE  ArchiveInv'
<1>1. ArchiveType'
  BY DEF ArchiveInv, ArchiveType, NoQuery, Query, Kinds, HeaderKinds
<1>2. TimeGrows'
  BY DEF ArchiveInv, TimeGrows
<1>3. ReplyInv'
  BY DEF ReplyInv, HeadersOnly, OfHeaders, NotYetRead, StartSound, PrevSound,
         BlocksSound, NextSound, OtherSound, CommitmentsGapless, NoQuery
<1> QED
  BY <1>1, <1>2, <1>3 DEF ArchiveInv

(* Rows are heights of accepted blocks. *)
LEMMA RowFacts ==
    ASSUME ArchiveInv
    PROVE  /\ Len(stamps) \in Nat
           /\ rows \in SUBSET (1..Len(stamps)) /\ rows \in SUBSET Nat
           /\ \A h \in rows : h \in Nat /\ h >= 1 /\ stamps[h] \in Nat
           /\ \A h \in seen : h \in rows
<1>1. /\ stamps \in Seq(Nat) /\ Len(stamps) \in Nat
      /\ rows \in SUBSET (1..Len(stamps)) /\ seen \subseteq rows
  BY DEF ArchiveInv, ArchiveType
<1>2. \A h \in 1..Len(stamps) : h \in Nat /\ h >= 1 /\ stamps[h] \in Nat
  BY <1>1
<1> QED
  BY <1>1, <1>2

LEMMA AskKeepsInv ==
    ASSUME ArchiveInv, NEW q \in Queries, Ask(q)
    PROVE  ArchiveInv'
<1>1. q \in Query
  BY ArchiverAssumption
<1>2. ArchiveType' /\ TimeGrows'
  BY <1>1 DEF ArchiveInv, ArchiveType, TimeGrows, Ask, storeVars
<1>3. ReplyInv'
  BY DEF ArchiveInv, Ask, storeVars, ReplyInv, HeadersOnly, OfHeaders, NotYetRead, StartSound,
         PrevSound, BlocksSound, NextSound, OtherSound, CommitmentsGapless
<1> QED
  BY <1>2, <1>3 DEF ArchiveInv

LEMMA FailKeepsInv ==
    ASSUME ArchiveInv, Fail
    PROVE  ArchiveInv'
<1>1. inserting' \subseteq 1..Len(stamps) /\ stamps' = stamps /\ rows' = rows
  BY DEF ArchiveInv, ArchiveType, Fail, storeVars
<1> QED
  BY <1>1, IdleInv DEF Fail

LEMMA CrashKeepsInv ==
    ASSUME ArchiveInv, Crash
    PROVE  ArchiveInv'
<1>1. stamps \in Seq(Nat)
  BY DEF ArchiveInv, ArchiveType
<1>2. inserting' \subseteq 1..Len(stamps)
  BY <1>1 DEF Crash, hght
<1> QED
  BY <1>2, IdleInv DEF Crash

(* A start height is not after a requested row, except one of its own time. *)
LEMMA ReadFirstKeepsInv ==
    ASSUME ArchiveInv, ReadFirst
    PROVE  ArchiveInv'
<1> DEFINE late == StampedFrom(rows, query.arg)
<1>0. rows \in SUBSET Nat /\ seen \subseteq rows /\ query.arg \in Nat
  BY DEF ArchiveInv, ArchiveType, Query
<1>1. query.kind = "time" => first' \in late /\ \A h \in late : stamps[first'] <= stamps[h]
  BY DEF ReadFirst, StartHeights, Earliest
<1>2. /\ query.kind = "height" => first' = query.arg
      /\ query.kind = "id" => first' = IF query.arg \in rows THEN query.arg ELSE 0
  BY DEF ReadFirst, StartHeights
<1>3. query.kind \in {"height", "id", "time"}
  BY DEF ReadFirst, HeaderKinds
<1>4. late = {h \in rows : stamps[h] >= query.arg}
  BY DEF StampedFrom
<1> HIDE DEF late
<1>5. query.kind = "time" => first' \in rows
  BY <1>1, <1>4
<1>6. first' \in Nat
  <2>1. query.kind \in {"height", "id"} => first' \in Nat
    BY <1>0, <1>2
  <2> QED
    BY <1>0, <1>3, <1>5, <2>1
<1>7. ASSUME NEW h \in seen, Requested(query, h)
      PROVE  \/ first' <= h
             \/ query.kind = "time" /\ h < first' /\ stamps[h] = stamps[first']
  <2>1. h \in rows /\ h \in Nat
    BY <1>0
  <2>2. CASE query.kind \in {"height", "id"}
    BY <1>0, <1>2, <1>7, <2>1, <2>2 DEF Requested
  <2>3. CASE query.kind = "time"
    <3>1. h \in late
      BY <1>4, <1>7, <2>1, <2>3 DEF Requested
    <3>2. stamps[first'] <= stamps[h]
      BY <1>1, <2>3, <3>1
    <3>3. stamps[first'] \in Nat /\ stamps[h] \in Nat
      BY <1>5, <2>1, <2>3, RowFacts
    <3>4. h < first' => stamps[h] <= stamps[first']
      <4>1. h \in 1..Len(stamps) /\ first' \in 1..Len(stamps)
        BY <1>5, <2>1, <2>3 DEF ArchiveInv, ArchiveType
      <4> QED
        BY <4>1 DEF ArchiveInv, TimeGrows
    <3> QED
      BY <1>6, <2>1, <2>3, <3>2, <3>3, <3>4
  <2> QED
    BY <1>3, <2>2, <2>3
<1>8. ArchiveType' /\ TimeGrows'
  BY <1>6 DEF ArchiveInv, ArchiveType, TimeGrows, ReadFirst, storeVars
<1>9. StartSound'
  <2>1. query' = query /\ rows' = rows /\ seen' = seen /\ stamps' = stamps
    BY DEF ReadFirst, storeVars
  <2>2. \A h \in seen : Requested(query, h)' => Requested(query, h)
    BY <2>1 DEF Requested
  <2>3. \A h \in seen :
           Requested(query, h)' =>
               first' <= h \/ (query.kind = "time" /\ h < first' /\ stamps[h] = stamps[first'])
    BY <1>7, <2>2
  <2> QED
    BY <1>5, <2>1, <2>3 DEF StartSound
<1>10. ReplyInv'
  BY <1>9 DEF ArchiveInv, ReadFirst, storeVars, ReplyInv, HeadersOnly, OfHeaders, NotYetRead,
         PrevSound, BlocksSound, NextSound, OtherSound, CommitmentsGapless
<1> QED
  BY <1>8, <1>10 DEF ArchiveInv

LEMMA ReadPrevKeepsInv ==
    ASSUME ArchiveInv, ReadPrev
    PROVE  ArchiveInv'
<1>1. first \in Nat /\ seen \subseteq rows
  BY DEF ArchiveInv, ArchiveType
<1>2. /\ prev' \in Nat
      /\ prev' # 0 => prev' + 1 = first
      /\ first > 1 /\ first - 1 \in seen => prev' + 1 = first
  BY <1>1 DEF ReadPrev, PrevHeight
<1>3. ArchiveType' /\ TimeGrows'
  BY <1>2 DEF ArchiveInv, ArchiveType, TimeGrows, ReadPrev, storeVars
<1>4. PrevSound'
  BY <1>2 DEF ReadPrev, PrevSound
<1>5. StartSound' /\ HeadersOnly'
  BY DEF ArchiveInv, ReplyInv, ReadPrev, storeVars, StartSound, HeadersOnly, OfHeaders, Requested
<1>6. ReplyInv'
  BY <1>4, <1>5 DEF ArchiveInv, ReadPrev, storeVars, ReplyInv, NotYetRead, BlocksSound, NextSound,
              OtherSound, CommitmentsGapless
<1> QED
  BY <1>3, <1>6 DEF ArchiveInv

(* The rows of the range, once the gap check has passed. *)
LEMMA RangeListed ==
    ASSUME ArchiveInv, Consecutive(RowsInRange)
    PROVE  LET s == Ordered(RowsInRange)
           IN  /\ s \in Seq(Nat)
               /\ \A k \in 1..Len(s) : s[k] = s[1] + (k - 1) /\ s[k] \in RowsInRange
               /\ \A h \in RowsInRange : \E k \in 1..Len(s) : s[k] = h
<1> DEFINE S == RowsInRange
           s == Ordered(S)
           n == Len(stamps)
<1>1. n \in Nat /\ S \in SUBSET (1..n)
  BY RowFacts DEF RowsInRange
<1>2. \E lo, hi \in Nat : S = lo..hi
  <2>1. CASE S = {}
    <3>1. S = 1..0
      BY <2>1
    <3> QED
      BY <3>1
  <2>2. CASE S # {}
    <3> HIDE DEF S, n
    <3>1. PICK hi \in Nat : S = Lowest(S)..hi
      BY <1>1, <2>2, ConsecutiveInterval DEF S
    <3>2. Lowest(S) \in Nat
      <4>1. S \in SUBSET Nat
        BY <1>1
      <4> QED
        BY <1>1, <2>2, <4>1, LowestIs
    <3> QED
      BY <3>1, <3>2
  <2> QED
    BY <2>1, <2>2
<1> HIDE DEF S, n
<1>3. PICK lo \in Nat, hi \in Nat : S = lo..hi
  BY <1>2
<1>4. /\ s \in Seq(lo..hi)
      /\ Len(s) = IF lo > hi THEN 0 ELSE hi - lo + 1
      /\ \A k \in 1..Len(s) : s[k] = lo + (k - 1)
  BY <1>3, OrderedInterval
<1> HIDE DEF s
<1>5. s \in Seq(Nat)
  <2>1. lo..hi \subseteq Nat
    OBVIOUS
  <2> QED
    BY <1>4, <2>1
<1>6. \A k \in 1..Len(s) : s[k] = s[1] + (k - 1) /\ s[k] \in S
  <2> SUFFICES ASSUME NEW k \in 1..Len(s)
               PROVE  s[k] = s[1] + (k - 1) /\ s[k] \in S
    OBVIOUS
  <2>1. 1 \in 1..Len(s) /\ k \in Nat
    BY <1>4
  <2>2. s[1] = lo + (1 - 1) /\ s[k] = lo + (k - 1)
    BY <1>4, <2>1
  <2>3. s[k] \in lo..hi
    BY <1>4, <2>1, <2>2
  <2> QED
    BY <1>3, <2>1, <2>2, <2>3
<1>7. \A h \in S : \E k \in 1..Len(s) : s[k] = h
  <2> SUFFICES ASSUME NEW h \in S
               PROVE  \E k \in 1..Len(s) : s[k] = h
    OBVIOUS
  <2>1. h \in lo..hi
    BY <1>3
  <2>2. h - lo + 1 \in 1..Len(s)
    BY <1>4, <2>1
  <2>3. s[h - lo + 1] = h
    BY <1>4, <2>1, <2>2
  <2> QED
    BY <2>2, <2>3
<1> QED
  BY <1>5, <1>6, <1>7 DEF s, S

LEMMA ReadBlocksKeepsInv ==
    ASSUME ArchiveInv, ReadBlocks
    PROVE  ArchiveInv'
<1>1. /\ blocks' \in Seq(Nat)
      /\ \A k \in 1..Len(blocks') : blocks'[k] = blocks'[1] + (k - 1) /\ blocks'[k] \in RowsInRange
      /\ \A h \in RowsInRange : \E k \in 1..Len(blocks') : blocks'[k] = h
  BY RangeListed DEF ReadBlocks
<1>2. ArchiveType' /\ TimeGrows'
  BY <1>1 DEF ArchiveInv, ArchiveType, TimeGrows, ReadBlocks, storeVars
<1>3. BlocksSound'
  <2>1. \A h \in RowsInRange : h \in rows /\ first <= h /\ stamps[h] < query.end
    BY DEF RowsInRange, InRange, ArchiveInv, ArchiveType
  <2>2. \A h \in seen : first <= h /\ stamps[h] < query.end => h \in RowsInRange
    BY DEF RowsInRange, InRange, ArchiveInv, ArchiveType
  <2>3. /\ rows' = rows /\ stamps' = stamps /\ seen' = seen /\ query' = query
        /\ first' = first
    BY DEF ReadBlocks, storeVars
  <2> HIDE DEF RowsInRange
  <2> QED
    BY <1>1, <2>1, <2>2, <2>3 DEF BlocksSound
<1>4. StartSound' /\ HeadersOnly' /\ PrevSound'
  BY DEF ArchiveInv, ReplyInv, ReadBlocks, storeVars, StartSound, HeadersOnly, OfHeaders, Requested,
         PrevSound
<1>5. ReplyInv'
  BY <1>3, <1>4 DEF ArchiveInv, ReadBlocks, storeVars, ReplyInv, NotYetRead, NextSound,
              OtherSound, CommitmentsGapless
<1> QED
  BY <1>2, <1>5 DEF ArchiveInv

LEMMA ReadNextKeepsInv ==
    ASSUME ArchiveInv, ReadNext
    PROVE  ArchiveInv'
<1> DEFINE after == StampedFrom(rows, query.end)
<1>1. after \in SUBSET Nat /\ \A h \in after : h \in rows /\ stamps[h] >= query.end
  BY RowFacts DEF StampedFrom
<1>2. next' = IF after = {} THEN 0 ELSE Lowest(after)
  BY DEF ReadNext
<1> HIDE DEF after
<1>3. after # {} => Lowest(after) \in after
  BY <1>1, LowestIs
<1>4. next' \in Nat /\ (next' # 0 => next' \in rows /\ stamps[next'] >= query.end)
  BY <1>1, <1>2, <1>3
<1>5. ArchiveType' /\ TimeGrows'
  BY <1>4 DEF ArchiveInv, ArchiveType, TimeGrows, ReadNext, storeVars
<1>6. query.kind \in HeaderKinds
  BY DEF ReadNext, ArchiveInv, ReplyInv, HeadersOnly, OfHeaders
<1>7. NextSound'
  BY <1>4 DEF NextSound, ReadNext, storeVars
<1>8. StartSound' /\ HeadersOnly' /\ PrevSound' /\ BlocksSound'
  BY <1>6 DEF ArchiveInv, ReplyInv, ReadNext, storeVars, StartSound, HeadersOnly, OfHeaders, Requested,
         PrevSound, BlocksSound
<1>9. ReplyInv'
  BY <1>6, <1>7, <1>8 DEF ReadNext, storeVars, ReplyInv, NotYetRead,
              OtherSound, CommitmentsGapless, HeaderKinds
<1> QED
  BY <1>5, <1>9 DEF ArchiveInv

LEMMA ReadNextErrsKeepsInv ==
    ASSUME ArchiveInv, ReadNextErrs
    PROVE  ArchiveInv'
<1>1. ArchiveType' /\ TimeGrows'
  BY DEF ArchiveInv, ArchiveType, TimeGrows, ReadNextErrs, storeVars
<1>2. query.kind \in HeaderKinds
  BY DEF ReadNextErrs, ArchiveInv, ReplyInv, HeadersOnly, OfHeaders
<1>3. StartSound' /\ HeadersOnly' /\ PrevSound' /\ BlocksSound'
  BY <1>2 DEF ArchiveInv, ReplyInv, ReadNextErrs, storeVars, StartSound, HeadersOnly, OfHeaders,
         Requested, PrevSound, BlocksSound
<1>4. ReplyInv'
  BY <1>2, <1>3 DEF ReadNextErrs, storeVars, ReplyInv, NotYetRead, NextSound,
              OtherSound, CommitmentsGapless, HeaderKinds
<1> QED
  BY <1>1, <1>4 DEF ArchiveInv

(* The reply to a query that needs one read only. *)
LEMMA OneReadKeepsInv ==
    ASSUME ArchiveInv, pc = "first", query.kind \notin HeaderKinds, pc' = "reply",
           UNCHANGED <<storeVars, query, first, prev, next, seen>>,
           blocks' \in Seq(Nat),
           \A k \in 1..Len(blocks') : blocks'[k] \in rows,
           CommitmentsGapless'
    PROVE  ArchiveInv'
<1>1. first = 0 /\ prev = 0 /\ next = 0
  BY DEF ArchiveInv, ReplyInv, NotYetRead
<1>2. ArchiveType' /\ TimeGrows'
  BY DEF ArchiveInv, ArchiveType, TimeGrows, storeVars
<1>3. ReplyInv'
  BY <1>1 DEF storeVars, ReplyInv, HeadersOnly, OfHeaders, NotYetRead, StartSound,
         PrevSound, BlocksSound, NextSound, OtherSound
<1> QED
  BY <1>2, <1>3 DEF ArchiveInv

LEMMA GetBlockKeepsInv ==
    ASSUME ArchiveInv, GetBlock
    PROVE  ArchiveInv'
<1>1. query.arg \in rows /\ rows \subseteq Nat
  BY DEF GetBlock, ArchiveInv, ArchiveType
<1>2. /\ blocks' \in Seq(Nat)
      /\ \A k \in 1..Len(blocks') : blocks'[k] \in rows
  <2>1. blocks' = <<query.arg>>
    BY DEF GetBlock
  <2>2. query.arg \in Nat
    BY <1>1
  <2>3. Len(blocks') = 1 /\ blocks'[1] = query.arg /\ blocks' \in Seq(Nat)
    BY <2>1, <2>2
  <2> QED
    BY <1>1, <2>3
<1>3. CommitmentsGapless'
  BY DEF GetBlock, CommitmentsGapless
<1> QED
  BY <1>2, <1>3, OneReadKeepsInv DEF GetBlock, HeaderKinds

LEMMA GetCommitmentBlocksKeepsInv ==
    ASSUME ArchiveInv, GetCommitmentBlocks
    PROVE  ArchiveInv'
<1> DEFINE S == CommitmentRows(query)
           found == Ordered(S)
           m == IF Len(found) < MaxBlocks THEN Len(found) ELSE MaxBlocks
<1>0. query.arg \in Nat /\ query.end \in Nat /\ MaxBlocks \in Nat \ {0}
  BY ArchiverAssumption DEF ArchiveInv, ArchiveType, Query
<1>1. S \in SUBSET rows /\ rows \in SUBSET Nat /\ IsFiniteSet(S)
  <2>1. S \in SUBSET rows /\ rows \in SUBSET (1..Len(stamps)) /\ Len(stamps) \in Nat
    BY DEF CommitmentRows, ArchiveInv, ArchiveType
  <2>2. IsFiniteSet(1..Len(stamps))
    BY <2>1, FS_Interval
  <2>3. S \in SUBSET (1..Len(stamps))
    BY <2>1
  <2>4. IsFiniteSet(S)
    BY <2>2, <2>3, FS_Subset
  <2> QED
    BY <2>1, <2>4
<1>2. (query.arg)..(query.end) \subseteq seen => S = (query.arg)..(query.end)
  <2> SUFFICES ASSUME (query.arg)..(query.end) \subseteq seen
               PROVE  S = (query.arg)..(query.end)
    OBVIOUS
  <2>1. \A h \in rows : h \in Nat
    BY <1>1
  <2>2. \A h \in (query.arg)..(query.end) : h \in rows
    BY RowFacts
  <2>3. \A h : h \in S <=> h \in rows /\ query.arg <= h /\ h <= query.end
    BY DEF CommitmentRows
  <2> HIDE DEF S
  <2>4. \A h \in Nat : h \in (query.arg)..(query.end) <=> query.arg <= h /\ h <= query.end
    BY <1>0
  <2>5. (query.arg)..(query.end) \subseteq Nat
    BY <1>0
  <2>6. \A h : h \in S <=> h \in (query.arg)..(query.end)
    BY <2>1, <2>2, <2>3, <2>4, <2>5, Zenon
  <2> QED
    BY <2>6
<1> HIDE DEF S
<1>3. found \in Seq(S) /\ Len(found) \in Nat
  <2>1. S \in SUBSET Nat
    BY <1>1
  <2> QED
    BY <1>1, <2>1, OrderedLists
<1>4. blocks' = SubSeq(found, 1, m)
  BY DEF GetCommitmentBlocks, S
<1> HIDE DEF found
<1>5. m \in 0..Len(found) /\ m <= MaxBlocks
  BY <1>0, <1>3
<1> HIDE DEF m
<1>6. /\ blocks' \in Seq(S) /\ Len(blocks') = m
      /\ \A k \in 1..m : blocks'[k] = found[k]
  BY <1>3, <1>4, <1>5
<1>7. /\ blocks' \in Seq(Nat)
      /\ \A k \in 1..Len(blocks') : blocks'[k] \in rows
  <2>1. \A k \in 1..Len(blocks') : blocks'[k] \in S
    BY <1>6
  <2>2. S \subseteq Nat
    BY <1>1
  <2>3. blocks' \in Seq(Nat)
    <3>1. Len(blocks') \in Nat /\ blocks' \in [1..Len(blocks') -> S]
      BY <1>6
    <3>2. blocks' \in [1..Len(blocks') -> Nat]
      BY <2>2, <3>1
    <3> QED
      BY <3>1, <3>2
  <2> QED
    BY <1>1, <2>1, <2>3
<1>8. CommitmentsGapless'
  <2>1. query' = query /\ seen' = seen
    BY DEF GetCommitmentBlocks
  <2> SUFFICES ASSUME (query.arg)..(query.end) \subseteq seen
               PROVE  /\ \A k \in 1..Len(blocks') : blocks'[k] = query.arg + (k - 1)
                      /\ \A h \in (query.arg)..(query.end) :
                            h < query.arg + MaxBlocks =>
                                \E k \in 1..Len(blocks') : blocks'[k] = h
    BY <2>1 DEF CommitmentsGapless
  <2>2. /\ Len(found) = IF query.arg > query.end THEN 0 ELSE query.end - query.arg + 1
        /\ \A k \in 1..Len(found) : found[k] = query.arg + (k - 1)
    <3>1. found = Ordered((query.arg)..(query.end))
      BY <1>2 DEF found
    <3> QED
      BY <1>0, <3>1, OrderedInterval
  <2>3. \A k \in 1..Len(blocks') : blocks'[k] = query.arg + (k - 1)
    BY <1>3, <1>5, <1>6, <2>2
  <2>4. ASSUME NEW h \in (query.arg)..(query.end), h < query.arg + MaxBlocks
        PROVE  \E k \in 1..Len(blocks') : blocks'[k] = h
    <3> DEFINE k == h - query.arg + 1
    <3>1. k \in Nat /\ 1 <= k /\ k <= Len(found) /\ k <= MaxBlocks
      <4>1. h \in Nat /\ query.arg <= h /\ h <= query.end
        BY <1>0
      <4>2. Len(found) = query.end - query.arg + 1
        BY <1>0, <2>2, <4>1
      <4> QED
        BY <1>0, <2>4, <4>1, <4>2
    <3>2. k \in 1..Len(blocks')
      BY <1>0, <1>3, <1>6, <3>1 DEF m
    <3>3. blocks'[k] = h
      BY <1>0, <2>3, <3>2
    <3> QED
      BY <3>2, <3>3
  <2> QED
    BY <2>3, <2>4
<1>9. query.kind \notin HeaderKinds
  BY DEF GetCommitmentBlocks, HeaderKinds
<1> QED
  BY <1>7, <1>8, <1>9, OneReadKeepsInv DEF GetCommitmentBlocks

LEMMA ArchiveInvNext == ArchiveInv /\ [Next]_vars => ArchiveInv'
<1> SUFFICES ASSUME ArchiveInv, [Next]_vars
             PROVE  ArchiveInv'
  OBVIOUS
<1>1. CASE Writer
  BY <1>1, WriterKeepsInv
<1>2. CASE Crash
  BY <1>2, CrashKeepsInv
<1>3. CASE Reader
  <2>1. CASE Fail
    BY <2>1, FailKeepsInv
  <2> QED
    BY <1>3, <2>1, AskKeepsInv, ReadFirstKeepsInv, ReadPrevKeepsInv, ReadBlocksKeepsInv,
       ReadNextKeepsInv, ReadNextErrsKeepsInv, GetBlockKeepsInv, GetCommitmentBlocksKeepsInv
    DEF Reader, ReadFirstFails, ReadBlocksFails, ReadErrs, GetBlockFails, GetCommitmentBlocksFails, Reply
<1>4. CASE UNCHANGED vars
  <2>1. ArchiveType' /\ TimeGrows' /\ Grows
    BY <1>4 DEF vars, ArchiveInv, ArchiveType, TimeGrows, Grows, readVars
  <2> QED
    BY <2>1, GrowsKeepsReply DEF ArchiveInv
<1> QED
  BY <1>1, <1>2, <1>3, <1>4 DEF Next

LEMMA ArchiveInvAlways == Spec => []ArchiveInv
BY ArchiveInvInit, ArchiveInvNext, PTL DEF Spec

-----------------------------------------------------------------------------
(* Theorems *)

(* The gap check of the header queries suffices: whatever rows are missing *)
(* and appear between the reads, a reply's headers are consecutive.        *)
THEOREM RepliedHeadersConsecutive == Spec => []HeadersConsecutive
<1>1. ArchiveInv => HeadersConsecutive
  <2> SUFFICES ASSUME ArchiveInv, pc = "reply", query.kind \in HeaderKinds,
                      NEW k \in 1..Len(blocks)
               PROVE  /\ blocks[k] = blocks[1] + (k - 1)
                      /\ first <= blocks[k] /\ blocks[k] <= hght
                      /\ stamps[blocks[k]] < query.end
    BY DEF HeadersConsecutive
  <2> QED
    BY DEF ArchiveInv, ArchiveType, ReplyInv, BlocksSound, hght
<1> QED
  BY <1>1, ArchiveInvAlways, PTL

(* The reads of Prev, Blocks and Next, each of another state of the table, *)
(* give parts of the chain that do not overlap and are in order.           *)
THEOREM RepliesOrdered == Spec => []ReplyOrdered
<1>1. ArchiveInv => ReplyOrdered
  <2> SUFFICES ASSUME ArchiveInv, pc = "reply", NEW k \in 1..Len(blocks)
               PROVE  prev < blocks[k] /\ (next # 0 => blocks[k] < next)
    BY DEF ReplyOrdered
  <2>0. /\ prev \in Nat /\ first \in Nat /\ next \in Nat /\ query.end \in Nat
        /\ blocks[k] \in rows
    BY DEF ArchiveInv, ArchiveType, Query, ReplyInv, BlocksSound, OtherSound
  <2>1. /\ prev \in Nat /\ first \in Nat /\ next \in Nat /\ query.end \in Nat
        /\ blocks[k] \in rows /\ blocks[k] \in Nat /\ blocks[k] >= 1
        /\ blocks[k] \in 1..Len(stamps) /\ stamps[blocks[k]] \in Nat
    BY <2>0, RowFacts
  <2>2. prev < blocks[k]
    <3>1. prev # 0 => query.kind \in HeaderKinds /\ prev + 1 = first
      BY DEF ArchiveInv, ReplyInv, PrevSound, OtherSound
    <3>2. query.kind \in HeaderKinds => first <= blocks[k]
      BY DEF ArchiveInv, ReplyInv, BlocksSound
    <3> QED
      BY <2>1, <3>1, <3>2
  <2>3. ASSUME next # 0
        PROVE  blocks[k] < next
    <3>1. query.kind \in HeaderKinds
      BY <2>3 DEF ArchiveInv, ReplyInv, OtherSound
    <3>2. next \in rows /\ stamps[next] >= query.end /\ stamps[blocks[k]] < query.end
      BY <2>3, <3>1 DEF ArchiveInv, ReplyInv, NextSound, BlocksSound
    <3>3. stamps[next] \in Nat /\ next \in 1..Len(stamps) /\ next # blocks[k]
      BY <2>1, <3>2, RowFacts
    <3>4. ~(next < blocks[k])
      BY <2>1, <3>2, <3>3 DEF ArchiveInv, TimeGrows
    <3> QED
      BY <2>1, <3>3, <3>4
  <2> QED
    BY <2>2, <2>3
<1> QED
  BY <1>1, ArchiveInvAlways, PTL

(* Prev joins a stretch of the chain that was archived when the query began. *)
THEOREM PrevJoinsArchivedBlocks == Spec => []PrevAdjacentIfArchived
<1>1. ArchiveInv => PrevAdjacentIfArchived
  <2> SUFFICES ASSUME ArchiveInv, pc = "reply", blocks # << >>, first > 1,
                      {first - 1, first} \subseteq seen
               PROVE  prev + 1 = blocks[1]
    BY DEF PrevAdjacentIfArchived
  <2>1. /\ first \in Nat /\ blocks \in Seq(Nat) /\ stamps \in Seq(Nat)
        /\ seen \subseteq rows /\ rows \subseteq 1..Len(stamps) /\ query.end \in Nat
    BY DEF ArchiveInv, ArchiveType, Query
  <2>2. query.kind \in HeaderKinds /\ prev + 1 = first
    BY <2>1 DEF ArchiveInv, ReplyInv, OtherSound, PrevSound
  <2>3. 1 \in 1..Len(blocks)
    BY <2>1
  <2>4. blocks[1] \in rows /\ first <= blocks[1] /\ stamps[blocks[1]] < query.end
    BY <2>2, <2>3 DEF ArchiveInv, ReplyInv, BlocksSound
  <2>5. stamps[first] < query.end
    <3>1. first \in 1..Len(stamps) /\ blocks[1] \in 1..Len(stamps)
      BY <2>1, <2>4
    <3>2. stamps[first] <= stamps[blocks[1]]
      BY <2>1, <2>4, <3>1 DEF ArchiveInv, TimeGrows
    <3> QED
      BY <2>1, <2>4, <3>1, <3>2
  <2>6. PICK k \in 1..Len(blocks) : blocks[k] = first
    BY <2>1, <2>2, <2>5 DEF ArchiveInv, ReplyInv, BlocksSound
  <2>7. blocks[k] = blocks[1] + (k - 1)
    BY <2>2 DEF ArchiveInv, ReplyInv, BlocksSound
  <2>8. blocks[1] \in Nat /\ k \in Nat /\ k >= 1
    BY <2>1, <2>3
  <2>9. blocks[1] = first
    BY <2>1, <2>4, <2>6, <2>7, <2>8
  <2> QED
    BY <2>2, <2>9
<1> QED
  BY <1>1, ArchiveInvAlways, PTL

(* GetCommitmentBlocks leaves out no block of a stretch that was archived. *)
THEOREM CommitmentsWithoutGap == Spec => []CommitmentsGapless
BY ArchiveInvAlways, PTL DEF ArchiveInv, ReplyInv

(* A header query that does not fail returns every block it asks for that  *)
(* was archived when it began, but for blocks below the start of a query   *)
(* by time that have the timestamp of the start.                           *)
THEOREM ArchivedBlocksReplied == Spec => []RequestedBlocksFound
<1>1. ArchiveInv => RequestedBlocksFound
  <2> SUFFICES ASSUME ArchiveInv, pc = "reply", query.kind \in HeaderKinds,
                      NEW h \in seen, Requested(query, h),
                      ~(query.kind = "time" /\ h < first /\ stamps[h] = stamps[first])
               PROVE  \E k \in 1..Len(blocks) : blocks[k] = h
    BY DEF RequestedBlocksFound
  <2>1. first <= h
    BY DEF ArchiveInv, ReplyInv, StartSound, OfHeaders
  <2>2. stamps[h] < query.end
    BY DEF Requested
  <2> QED
    BY <2>1, <2>2 DEF ArchiveInv, ReplyInv, BlocksSound
<1> QED
  BY <1>1, ArchiveInvAlways, PTL
=============================================================================
