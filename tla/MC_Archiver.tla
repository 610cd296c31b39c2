---------------------------- MODULE MC_Archiver ----------------------------
(* Model-checking instance of Archiver. *)
EXTENDS Archiver

(* The queries with small arguments; the earliest timestamp is 1, so that  *)
(* a time range ends at 2 or later, and a query for a block has no end.    *)
AllQueries ==
    [kind : HeaderKinds, arg : 0..MaxHeight, end : 2..MaxTime]
        \cup [kind : {"block"}, arg : 0..MaxHeight, end : {0}]
        \cup [kind : {"commitments"}, arg : 0..MaxHeight, end : 1..MaxHeight]
=============================================================================
