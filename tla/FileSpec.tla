------------------------------ MODULE FileSpec ------------------------------
(***************************************************************************)
(* What reading a file promises to a 9P client, with no cache, no block    *)
(* list and no medium: the reply to Tread(off, n) is end of file exactly   *)
(* at the size, an error beyond it, and before it either an I/O error or a *)
(* non-empty run of the file's own bytes.  A byte that no hash protects may *)
(* be read as another.                                                     *)
(***************************************************************************)
EXTENDS Integers

CONSTANTS
    Files,              \* the files the server may be asked for
    Offsets,            \* offsets of the requests
    Counts,             \* byte counts of the requests
    Byte,               \* the values a byte of a reply may have
    May(_, _)           \* May(f, o): what byte o of file f may be read as

VARIABLES
    file,               \* the file being read
    out                 \* the last reply

vars == <<file, out>>

NoData == [i \in 0 .. -1 |-> 0]

NoReply == [kind |-> "none", off |-> 0, req |-> 0, cnt |-> 0, data |-> NoData]

Init == file \in Files /\ out = NoReply

Reply(kind, off, n, c, d) ==
    out' = [kind |-> kind, off |-> off, req |-> n, cnt |-> c, data |-> d]

AtEOF(off, n) == off = file.size /\ Reply("data", off, n, 0, NoData)

PastEOF(off, n) == off > file.size /\ Reply("error", off, n, 0, NoData)

(* An embedded file's reply is the rest of the file, whatever was asked. *)
Bytes(off, n) ==
    /\ off < file.size
    /\ \E c \in 1 .. file.size - off :
          /\ file.direct \/ c <= n
          /\ out' \in [kind : {"data"}, off : {off}, req : {n}, cnt : {c},
                       data : [0 .. c - 1 -> Byte]]
          /\ \A i \in 0 .. c - 1 : out'.data[i] \in May(file, off + i)

IOError(off, n) ==
    off < file.size /\ ~ file.direct /\ Reply("error", off, n, 0, NoData)

Read(off, n) ==
    \/ AtEOF(off, n)
    \/ PastEOF(off, n)
    \/ Bytes(off, n)
    \/ IOError(off, n)

Next == (\E off \in Offsets, n \in Counts : Read(off, n)) /\ UNCHANGED file

Spec == Init /\ [][Next]_vars
=============================================================================
