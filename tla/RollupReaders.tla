---------------------------- MODULE RollupReaders ----------------------------
(***************************************************************************)
(* The RPC method GetAllRollupInfo against a chain that keeps moving.      *)
(*                                                                         *)
(* The method reads the registry and then, one by one, the record of each  *)
(* namespace in it.  Every read sees the state database as it is at that   *)
(* moment: blocks are accepted between the reads, and what the blocks in   *)
(* process have written is not seen.  The method dereferences every record *)
(* without asking whether there is one.  The reply is kept in the order of *)
(* the reads; the code files it under the records' start epochs.           *)
(***************************************************************************)
EXTENDS RollupRegistration

VARIABLES
    call,      \* "idle", or "reading" while a call is answered
    todo,      \* namespaces whose records are still to be read
    reply,     \* the records read; NoInfo stands for a nil dereference
    listed,    \* history: the registry as the call read it
    began      \* history: the height at which it read it

readerVars == <<call, todo, reply, listed, began>>
allReaderVars == <<chainVars, readerVars>>

NoCall ==
    /\ call = "idle" /\ todo = << >> /\ reply = << >>
    /\ listed = << >> /\ began = 0

ReaderInit == ChainInit /\ NoCall

-----------------------------------------------------------------------------
(* vm.ReadState: the values after the last accepted block. *)

MutantRegistryFromState == blockDB.registry

GetRollupRegistryFromState == accepted.registry

MutantInfoFromState(ns) == txDB.info[ns]

GetRollupInfoFromState(ns) == accepted.info[ns]

-----------------------------------------------------------------------------
(* The call begins by reading the registry; if it is empty, the empty      *)
(* reply follows at once, which changes nothing here.                      *)
GetAllRollupInfo ==
    /\ call = "idle"
    /\ GetRollupRegistryFromState # << >>
    /\ call' = "reading"
    /\ todo' = GetRollupRegistryFromState
    /\ reply' = << >>
    /\ listed' = GetRollupRegistryFromState
    /\ began' = hght
    /\ UNCHANGED chainVars

(* One turn of the loop: read a record and add it to the reply. *)
ReadInfo ==
    /\ call = "reading"
    /\ todo # << >>
    /\ reply' = Append(reply, GetRollupInfoFromState(Head(todo)))
    /\ todo' = Tail(todo)
    /\ UNCHANGED <<chainVars, call, listed, began>>

EndCall ==
    /\ call' = "idle" /\ todo' = << >> /\ reply' = << >>
    /\ listed' = << >> /\ began' = 0
    /\ UNCHANGED chainVars

(* A read of the state fails: the call returns the error. *)
ReadFails == call = "reading" /\ todo # << >> /\ EndCall

(* Every record is read: the reply is sent. *)
SendReply == call = "reading" /\ todo = << >> /\ EndCall

ChainMoves == ChainNext /\ UNCHANGED readerVars

ReaderNext == ChainMoves \/ GetAllRollupInfo \/ ReadInfo \/ ReadFails \/ SendReply

ReaderSpec == ReaderInit /\ [][ReaderNext]_allReaderVars

-----------------------------------------------------------------------------
(* Properties *)

(* The type invariant. *)
ReaderTypeOK ==
    /\ ChainTypeOK
    /\ call \in {"idle", "reading"}
    /\ todo \in Seq(Namespaces)
    /\ reply \in Seq(RollupInfo \cup {NoInfo})
    /\ listed \in Seq(Namespaces)
    /\ began \in Nat /\ began <= hght
    /\ Len(reply) + Len(todo) = Len(listed)

(* However many blocks are accepted between the reads of a call, it meets  *)
(* no missing record, and reads one of each namespace of the registry it   *)
(* began with, filed under that namespace and no other, none twice.        *)
ReplyComplete ==
    \A k \in 1..Len(reply) :
        /\ reply[k] # NoInfo
        /\ reply[k].namespace = listed[k]
        /\ \A j \in 1..Len(reply) : reply[j] = reply[k] => j = k

(* A call during which no block was accepted answers with one state of the *)
(* chain: all its rollups, as they are, whatever the processing block and  *)
(* its transactions have written so far.                                   *)
SnapshotIfQuiet ==
    call = "reading" /\ began = hght =>
        /\ listed = accepted.registry
        /\ \A k \in 1..Len(reply) : reply[k] = accepted.info[accepted.registry[k]]
=============================================================================
