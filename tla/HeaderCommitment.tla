-------------------------- MODULE HeaderCommitment --------------------------
(***************************************************************************)
(* The commitment to a block header: how GetCommitmentBlocks computes it,  *)
(* how it travels as an integer, and how a client of the package types     *)
(* checks a header it received as JSON against it.                         *)
(*                                                                         *)
(* Bytes are the digits 0 .. Base - 1, a uint64 has Width of them and a    *)
(* Commitment DigestLen.  A constant string is one byte of its own and a   *)
(* byte that no valid string holds.  Keccak is an ideal hash: it answers a *)
(* new input with any digest it has not given before.                      *)
(***************************************************************************)
EXTENDS Integers, Sequences

CONSTANTS
    Base,        \* number of bytes; the last eight stand for strings
    Width,       \* bytes of a uint64
    DigestLen,   \* bytes of a Commitment
    Numbers,     \* values of the number fields of a header
    Roots,       \* values of NmtRoot.Root
    Digests,     \* values of the hash
    Absent       \* a JSON member that is missing or null

Byte == 0..(Base - 1)
Commitment == [1..DigestLen -> Byte]

(* The number whose digits are bytes, the most significant first: what     *)
(* Uint64 of encoding/binary and SetBytes of big.Int read.                 *)
Value(bytes) ==
    LET v[i \in 0..Len(bytes)] == IF i = 0 THEN 0 ELSE v[i - 1] * Base + bytes[i]
    IN  v[Len(bytes)]

Uint64Values == {Value(d) : d \in [1..Width -> Byte]}

ASSUME CommitmentAssumption ==
    /\ Base \in Nat /\ Base > 9
    /\ Width \in Nat \ {0}
    /\ DigestLen \in Nat \ {0}
    /\ Numbers \subseteq Uint64Values
    /\ Roots \subseteq Seq(Byte) /\ \A r \in Roots : Len(r) \in Uint64Values
    /\ Digests \subseteq Commitment
    /\ Absent \notin Numbers /\ Absent \notin Roots

Header == [Height : Numbers, Timestamp : Numbers, L1Head : Numbers, Root : Roots]

(* A JSON object a client may be sent for a header. *)
Optional(S) == S \cup {Absent}
HeaderJSON == [height : Optional(Numbers), timestamp : Optional(Numbers),
               l1_head : Optional(Numbers),
               transactions_root : Optional([root : Optional(Roots)])]

VARIABLES
    row,      \* the header of the block, as it is archived
    keccak,   \* the hash: pairs of an input and its digest
    root,     \* SequencerWarpBlock.BlockRoot, or Absent
    obj,      \* the JSON object the client got, or Absent
    h,        \* the client's Header
    client    \* "start", "decoded", "error", "equal", "different"

vars == <<row, keccak, root, obj, h, client>>

-----------------------------------------------------------------------------
(* RawCommitmentBuilder: the bytes written to the hasher *)

Names == <<"BLOCK", "height", "timestamp", "l1_head", "transactions_root",
           "NMTROOT", "root">>
Char(name) == Base - 9 + CHOOSE i \in 1..Len(Names) : Names[i] = name
InvalidUtf8 == Base - 1

FixedSizeBytes(b, bytes) == b \o bytes
ConstantString(b, s) == FixedSizeBytes(b \o <<Char(s)>>, <<InvalidUtf8>>)
NewRawCommitmentBuilder(name) == ConstantString(<< >>, name)

(* The w bytes of n, the most significant first. *)
BigEndian(n, w) == CHOOSE d \in [1..w -> Byte] : Value(d) = n

MutantUint64(b, n) == FixedSizeBytes(b, Tail(BigEndian(n, Width)))

Uint64(b, n) == FixedSizeBytes(b, BigEndian(n, Width))
Uint64Field(b, f, n) == Uint64(ConstantString(b, f), n)
VarSizeBytes(b, bytes) == Uint64(b, Len(bytes)) \o bytes
VarSizeField(b, f, bytes) == VarSizeBytes(ConstantString(b, f), bytes)
Field(b, f, c) == FixedSizeBytes(ConstantString(b, f), c)

(* What NmtRoot.Commit and, with the commitment c to the root, Header.Commit *)
(* write to their hashers.                                                   *)
NmtRootBytes(r) == VarSizeField(NewRawCommitmentBuilder("NMTROOT"), "root", r)

HeaderBytes(hd, c) ==
    LET b1 == Uint64Field(NewRawCommitmentBuilder("BLOCK"), "height", hd.Height)
        b2 == Uint64Field(b1, "timestamp", hd.Timestamp)
        b3 == Uint64Field(b2, "l1_head", hd.L1Head)
    IN  Field(b3, "transactions_root", c)

(* Finalize: the hash answers input b with digest d and now knows k. *)
Finalize(b, d, k, known) ==
    /\ k = known \cup {<<b, d>>}
    /\ \A p \in known : p[1] = b <=> p[2] = d

(* Header.Commit is c; the hash knew the pairs known and then knows k. *)
Commit(hd, c, k, known) ==
    \E r \in Digests :
        LET nmt == known \cup {<<NmtRootBytes(hd.Root), r>>}
        IN  /\ Finalize(NmtRootBytes(hd.Root), r, nmt, known)
            /\ Finalize(HeaderBytes(hd, r), c, k, nmt)

-----------------------------------------------------------------------------
(* Commitments as integers *)

(* Commitment.Uint256, U256.SetBytes. *)
Uint256(c) == Value(c)

(* big.Int.Bytes: no leading zeros. *)
Bytes(n) ==
    LET d == BigEndian(n, DigestLen)
        zeros == CHOOSE z \in 0..DigestLen : /\ \A i \in 1..z : d[i] = 0
                                             /\ z < DigestLen => d[z + 1] # 0
    IN  SubSeq(d, zeros + 1, DigestLen)

MutantCommitmentFromUint256(n) ==
    LET bytes == Bytes(n) IN bytes \o [i \in 1..(DigestLen - Len(bytes)) |-> 0]

(* CommitmentFromUint256, of an integer that fits. *)
CommitmentFromUint256(n) ==
    LET bytes == Bytes(n) IN [i \in 1..(DigestLen - Len(bytes)) |-> 0] \o bytes

-----------------------------------------------------------------------------
(* JSON *)

(* json.Marshal of a Header. *)
MarshalJSON(hd) ==
    [height |-> hd.Height, timestamp |-> hd.Timestamp, l1_head |-> hd.L1Head,
     transactions_root |-> [root |-> hd.Root]]

(* NmtRoot.UnmarshalJSON refuses the object. *)
NmtRootMissing(o) == o.transactions_root # Absent /\ o.transactions_root.root = Absent

(* The leading members of the object that are there, in the order in which *)
(* Header.UnmarshalJSON looks at them.                                      *)
Members == <<"height", "timestamp", "l1_head", "transactions_root">>
Present(o) == CHOOSE n \in 0..4 : /\ \A i \in 1..n : o[Members[i]] # Absent
                                  /\ n < 4 => o[Members[n + 1]] = Absent

MutantUnmarshalJSON(o, old) ==
    LET Member(f) == IF o[f] = Absent THEN 0 ELSE o[f]
        bad == o.transactions_root = Absent \/ NmtRootMissing(o)
    IN  [error |-> bad,
         h |-> IF bad THEN old
               ELSE [Height |-> Member("height"), Timestamp |-> Member("timestamp"),
                     L1Head |-> Member("l1_head"), Root |-> o.transactions_root.root]]

(* Header.UnmarshalJSON into a variable that holds old: the first missing   *)
(* member is an error, after the fields before it were assigned.            *)
UnmarshalJSON(o, old) ==
    LET n == IF NmtRootMissing(o) THEN 0 ELSE Present(o)
    IN  [error |-> n < 4,
         h |-> [Height |-> IF n >= 1 THEN o.height ELSE old.Height,
                Timestamp |-> IF n >= 2 THEN o.timestamp ELSE old.Timestamp,
                L1Head |-> IF n >= 3 THEN o.l1_head ELSE old.L1Head,
                Root |-> IF n = 4 THEN o.transactions_root.root ELSE old.Root]]

-----------------------------------------------------------------------------
ZeroHeader == [Height |-> 0, Timestamp |-> 0, L1Head |-> 0, Root |-> << >>]

Init ==
    /\ row \in Header
    /\ keccak = {}
    /\ root = Absent
    /\ obj = Absent
    /\ h = ZeroHeader
    /\ client = "start"

(* GetCommitmentBlocks: the block's header is committed to. *)
GetCommitmentBlocks ==
    /\ root = Absent
    /\ \E c \in Digests :
          /\ Commit(row, c, keccak', keccak)
          /\ root' = Uint256(c)
    /\ UNCHANGED <<row, obj, h, client>>

(* The client is sent an object for the header and decodes it. *)
Decode(o) ==
    /\ client = "start"
    /\ obj' = o
    /\ LET d == UnmarshalJSON(o, h)
       IN  /\ h' = d.h
           /\ client' = IF d.error THEN "error" ELSE "decoded"
    /\ UNCHANGED <<row, keccak, root>>

(* The client commits to what it decoded and compares. *)
Verify ==
    /\ client = "decoded"
    /\ root # Absent
    /\ \E c \in Digests :
          /\ Commit(h, c, keccak', keccak)
          /\ client' = IF CommitmentFromUint256(root) = c THEN "equal" ELSE "different"
    /\ UNCHANGED <<row, root, obj, h>>

(* The client has its answer. *)
Done == client \in {"error", "equal", "different"} /\ root # Absent /\ UNCHANGED vars

Next ==
    \/ GetCommitmentBlocks
    \/ \E o \in HeaderJSON : Decode(o)
    \/ Verify
    \/ Done

Spec == Init /\ [][Next]_vars

-----------------------------------------------------------------------------
(* Properties *)

(* The commitment binds every field: a header that commits to the root the  *)
(* node published is the header of the block (Header.Commit).               *)
VerifiedIsGenuine == client = "equal" => h = row

(* The root survives its way through an integer, leading zeros included: a  *)
(* client with the header of the block always finds the commitments equal   *)
(* (Commitment.Uint256, CommitmentFromUint256, Equals).                     *)
GenuineVerifies == client = "different" => h # row

(* A header is decoded only from an object with all its members: a missing  *)
(* one is never taken for a zero, and nothing of an earlier header stays    *)
(* (Header.UnmarshalJSON, NmtRoot.UnmarshalJSON).                           *)
DecodedIsComplete == client \notin {"start", "error"} => MarshalJSON(h) = obj
=============================================================================
