------------------------------ MODULE FileRead ------------------------------
(***************************************************************************)
(* One opened file fid of the server: fsopen() and fileread() of 9p.c with *)
(* the one-block cache (lastbuf, lastbufoffset, lastbufcount) they keep in *)
(* the fid's Aux.  lib9p runs the handlers of a fid one at a time, so each *)
(* is one action; what varies is the order and the place of the reads and  *)
(* what the medium returns for each block that is loaded.                  *)
(***************************************************************************)
EXTENDS BlockIO, Sequences

CONSTANTS
    Files,      \* files a fid may have been walked to
    Offsets,    \* ifcall.offset of the Treads
    Counts,     \* ifcall.count of the Treads
    EmbedMax,   \* bytes an inode can embed (HAMMER2_EMBEDDED_BYTES)
    IntRange,   \* number of values of an int (2^32)
    MaxFaults   \* bound: reads of the medium that come back damaged

FileType == [size : Nat, direct : BOOLEAN, blocks : Seq(BlockRef)]

ASSUME FilesAssumption == \A f \in Files : f \in FileType

ASSUME RequestsAssumption ==
    /\ Offsets \subseteq Nat
    /\ IntRange \in Nat \ {0}
    /\ \A n \in Counts : n \in Nat /\ 2 * n < IntRange

ASSUME BoundsAssumption == EmbedMax \in Nat /\ MaxFaults \in Nat

VARIABLES
    file,           \* the inode the fid was walked to; no action changes it
    opened,         \* fsopen() has run
    datablocks,     \* the list fsopen() had loaddatablocklist() make
    lastbuf,
    lastbufoffset,
    lastbufcount,
    out,            \* the last reply
    crashed,        \* an assert() ended the server
    faults          \* damaged images returned so far

cache == <<lastbuf, lastbufoffset, lastbufcount>>
vars == <<file, opened, datablocks, cache, out, crashed, faults>>
-----------------------------------------------------------------------------
(* The list of data blocks and what it says of the file.                   *)

(* The end of a list element: the span of the block, clipped to the file.  *)
End(b) == IF b.key + b.len > file.size THEN file.size ELSE b.key + b.len

Covers(b, o) == b.key <= o /\ o < End(b)

BlockAt(i) == datablocks[i]

(* The element at which the search for off ends.                           *)
Stops(i, off) ==
    \/ ~ End(BlockAt(i)) > BlockAt(i).key
    \/ Covers(BlockAt(i), off)
    \/ BlockAt(i).key > off

FirstStop(i, off) ==
    /\ i \in 1 .. Len(datablocks)
    /\ Stops(i, off)
    /\ \A j \in 1 .. i - 1 : ~ Stops(j, off)

NoStop(off) == \A i \in 1 .. Len(datablocks) : ~ Stops(i, off)
-----------------------------------------------------------------------------
NoData == [i \in 0 .. -1 |-> 0]

Init ==
    /\ file \in Files
    /\ opened = FALSE
    /\ datablocks = <<>>
    /\ lastbuf = [i \in 0 .. BufCap - 1 |-> Junk]
    /\ lastbufoffset = 0
    /\ lastbufcount = 0
    /\ out = [kind |-> "none", off |-> 0, req |-> 0, cnt |-> 0, data |-> NoData]
    /\ crashed = FALSE
    /\ faults = 0

Reply(kind, off, n, c, d) ==
    /\ out' = [kind |-> kind, off |-> off, req |-> n, cnt |-> c, data |-> d]
    /\ UNCHANGED <<crashed, file, opened, datablocks>>

Send(off, n, c, d) == Reply("data", off, n, c, d)

(* A failed assertion: no reply is sent and nothing runs any more.         *)
Abort ==
    /\ crashed' = TRUE
    /\ UNCHANGED <<file, opened, datablocks, cache, out, faults>>

(* fsopen.  lib9p refuses to open a fid twice and to read before the open. *)
Open ==
    /\ ~ opened
    /\ ~ crashed
    /\ opened' = TRUE
    /\ datablocks' = IF file.direct THEN datablocks ELSE file.blocks
    /\ UNCHANGED <<file, cache, out, crashed, faults>>

Serving == opened /\ ~ crashed

(* Mistake: the size itself is refused like an offset beyond it. *)
ReadAtEOF_Refused(off, n) ==
    /\ Serving
    /\ off = file.size
    /\ Reply("error", off, n, 0, NoData)
    /\ UNCHANGED <<cache, faults>>

(* Lines 609-617. *)
ReadAtEOF(off, n) ==
    /\ Serving
    /\ off = file.size
    /\ Send(off, n, 0, NoData)
    /\ UNCHANGED <<cache, faults>>

(* Mistake: the count of -1 is sent instead of the error. *)
ReadPastEOF_Sent(off, n) ==
    /\ Serving
    /\ off > file.size
    /\ Send(off, n, -1, NoData)
    /\ UNCHANGED <<cache, faults>>

ReadPastEOF(off, n) ==
    /\ Serving
    /\ off > file.size
    /\ Reply("error", off, n, 0, NoData)
    /\ UNCHANGED <<cache, faults>>

(* Lines 621-629.  The whole rest of the file is sent, however many bytes  *)
(* were asked for; past the embedded area lies another part of the inode.  *)
ReadDirect(off, n) ==
    /\ Serving
    /\ off < file.size
    /\ file.direct
    /\ IF off < EmbedMax
       THEN /\ Send(off, n, file.size - off,
                    [i \in 0 .. file.size - off - 1 |->
                        IF off + i < EmbedMax THEN off + i ELSE Junk])
            /\ UNCHANGED <<cache, faults>>
       ELSE Abort

(* Mistake: the byte after the buffer counts as cached. *)
Hit_Inclusive(off) ==
    /\ lastbufcount > 0
    /\ off >= lastbufoffset
    /\ off <= lastbufcount + lastbufoffset

Hit(off) ==
    /\ lastbufcount > 0
    /\ off >= lastbufoffset
    /\ off < lastbufcount + lastbufoffset

FromDisk(off) == Serving /\ off < file.size /\ ~ file.direct

(* The count of a cache hit: clipped to the file, then to the buffer.      *)
HitCount(off, n) ==
    LET c == IF n + off > file.size THEN file.size - off ELSE n
        s == off - lastbufoffset
    IN  IF c + s > lastbufcount THEN lastbufcount - s ELSE c

(* Lines 633-657. *)
ReadCached(off, n) ==
    /\ FromDisk(off)
    /\ Hit(off)
    /\ LET c == HitCount(off, n)
       IN  IF c > 0
           THEN /\ Send(off, n, c,
                        [i \in 0 .. c - 1 |-> lastbuf[off - lastbufoffset + i]])
                /\ UNCHANGED <<cache, faults>>
           ELSE Abort

(* Mistake: the search never notes the data after the hole. *)
Nearest_IsSize(off) == file.size

(* The first offset after a hole that the search knows of (nearest).       *)
Nearest(off) ==
    LET m == Len(datablocks)
        s == CHOOSE i \in 1 .. m : FirstStop(i, off)
    IN  IF ~ NoStop(off) THEN BlockAt(s).key
        ELSE IF m = 0 THEN file.size ELSE BlockAt(m).key

(* int count = nearest-offset, then clipped to the request's unsigned      *)
(* count: a difference that wraps to a negative int clips as well.         *)
HoleCount(off, n) ==
    LET c == (Nearest(off) - off) % IntRange IN IF c > n THEN n ELSE c

InHole(off) ==
    \/ NoStop(off)
    \/ \E i \in 1 .. Len(datablocks) :
          /\ FirstStop(i, off)
          /\ End(BlockAt(i)) > BlockAt(i).key
          /\ ~ Covers(BlockAt(i), off)

(* Lines 681-693. *)
ReadHole(off, n) ==
    /\ FromDisk(off)
    /\ ~ Hit(off)
    /\ InHole(off)
    /\ LET c == HoleCount(off, n)
       IN  IF Nearest(off) > off /\ c > 0
           THEN /\ Send(off, n, c, [i \in 0 .. c - 1 |-> Zero])
                /\ UNCHANGED <<cache, faults>>
           ELSE Abort

(* Line 667: the search meets an element that ends where it starts.        *)
MeetEmptyBlock(off, n) ==
    /\ FromDisk(off)
    /\ ~ Hit(off)
    /\ \E i \in 1 .. Len(datablocks) :
          FirstStop(i, off) /\ ~ End(BlockAt(i)) > BlockAt(i).key
    /\ Abort

(* Mistake: the count is clipped to the span, not to the file. *)
MissCount_ToSpan(b, off, n) ==
    IF off + n > b.key + b.len THEN b.key + b.len - off ELSE n

(* The count of a miss: clipped to the end of the block, not to the bytes  *)
(* that were decoded.                                                      *)
MissCount(b, off, n) == IF off + n > End(b) THEN End(b) - off ELSE n

(* Mistake: a failed load leaves the count of the load before it. *)
DropCache_KeepsCount == UNCHANGED <<lastbufcount, lastbufoffset>>

DropCache == lastbufcount' = 0 /\ UNCHANGED lastbufoffset

(* Mistake: the cache is named after the request, not after the block. *)
NameCache_ByRequest(b, off, r) ==
    lastbufcount' = r.rsize /\ lastbufoffset' = off

NameCache(b, off, r) == lastbufcount' = r.rsize /\ lastbufoffset' = b.key

(* Lines 695-719, with the image of the block that pread() gave.           *)
Load(b, off, n, image) ==
    /\ faults' = IF image = "damaged" THEN faults + 1 ELSE faults
    /\ \E r \in LoadBlock(b, image, lastbuf, lastbufcount) :
          /\ r.status # "abort"
          /\ lastbuf' = r.dst
          /\ IF r.status = "error"
             THEN /\ DropCache
                  /\ Reply("error", off, n, 0, NoData)
             ELSE /\ NameCache(b, off, r)
                  /\ LET c == MissCount(b, off, n)
                     IN  IF c > 0
                         THEN Send(off, n, c, [i \in 0 .. c - 1 |->
                                                 r.dst[off - b.key + i]])
                         ELSE /\ crashed' = TRUE
                              /\ UNCHANGED <<file, opened, datablocks, out>>

ReadBlock(off, n) ==
    /\ FromDisk(off)
    /\ ~ Hit(off)
    /\ \E i \in 1 .. Len(datablocks), image \in Images :
          /\ FirstStop(i, off)
          /\ End(BlockAt(i)) > BlockAt(i).key
          /\ Covers(BlockAt(i), off)
          /\ image = "damaged" => faults < MaxFaults
          /\ IF BlockAt(i).check = "freemap"
             THEN Abort
             ELSE Load(BlockAt(i), off, n, image)

Read(off, n) ==
    \/ ReadAtEOF(off, n)
    \/ ReadPastEOF(off, n)
    \/ ReadDirect(off, n)
    \/ ReadCached(off, n)
    \/ ReadHole(off, n)
    \/ MeetEmptyBlock(off, n)
    \/ ReadBlock(off, n)

Next == Open \/ \E off \in Offsets, n \in Counts : Read(off, n)

Spec == Init /\ [][Next]_vars
-----------------------------------------------------------------------------
(* What the file on the medium says, by its block references alone.        *)

BlockSet(f) == {f.blocks[i] : i \in 1 .. Len(f.blocks)}

Spans(f, b, o) == b.key <= o /\ o < b.key + b.len /\ o < f.size

(* Byte o of f: the embedded data, the block that spans it, or a hole.     *)
Content(f, o) ==
    IF f.direct \/ \E b \in BlockSet(f) : Spans(f, b, o) THEN o ELSE Zero

Verified(b) == b.check \in Hashes \cup {"unknown"}

(* Properties a file on the medium may have.  Sized: an intact block holds *)
(* what it spans of the file, and no more than its span.                   *)
Sized(f) ==
    /\ f.direct => f.size <= EmbedMax
    /\ \A b \in BlockSet(f) :
          /\ b.dlen <= b.len
          /\ b.key < f.size => f.size <= b.key + b.dlen \/ b.dlen = b.len

(* The blocks are listed in the order of their keys, and do not overlap.   *)
Sorted(f) ==
    \A i, j \in 1 .. Len(f.blocks) :
        i < j => f.blocks[i].key + f.blocks[i].len <= f.blocks[j].key

(* No element of the list is empty, and the file does not end in a hole.   *)
NoTrailingHole(f) ==
    \A i \in 1 .. Len(f.blocks) :
        /\ f.blocks[i].key < f.size
        /\ i = Len(f.blocks) => f.size <= f.blocks[i].key + f.blocks[i].len

AllVerified(f) == \A b \in BlockSet(f) : Verified(b)

NoFreemap(f) == \A b \in BlockSet(f) : b.check # "freemap"
-----------------------------------------------------------------------------
(* The type invariant. *)
TypeOK ==
    /\ file \in Files
    /\ opened \in BOOLEAN
    /\ datablocks = IF opened /\ ~ file.direct THEN file.blocks ELSE <<>>
    /\ lastbuf \in Buffer
    /\ lastbufoffset \in Nat
    /\ lastbufcount \in 0 .. BufCap
    /\ out.kind \in {"none", "data", "error"}
    /\ out.off \in Nat /\ out.req \in Nat /\ out.cnt \in Nat
    /\ out.data \in [0 .. out.cnt - 1 -> Byte]
    /\ crashed \in BOOLEAN
    /\ faults \in Nat

(* The cached bytes are the bytes of the block the cache names: whatever   *)
(* was loaded, refused or half decompressed before, a hit on a block with  *)
(* a hash finds that block's own bytes (lines 633-656 after 695-706).      *)
CacheCoherent ==
    lastbufcount > 0 =>
        \E b \in BlockSet(file) :
            /\ b.key = lastbufoffset
            /\ Verified(b) =>
                  /\ lastbufcount = b.dlen
                  /\ \A i \in 0 .. b.dlen - 1 : lastbuf[i] = b.key + i

(* Byte o may be what an unverified block's damage left of it: o lies      *)
(* within a buffer's length of the key of a block that has no hash.        *)
Exposed(o) ==
    \E b \in BlockSet(file) :
        ~ Verified(b) /\ b.key <= o /\ o < b.key + BufCap

(* Every byte of a reply is the file's byte at that offset: no zero for a  *)
(* data byte, no byte of another block, none of a damaged block.  Only a   *)
(* block without a hash can break this, and only for the bytes after it    *)
(* that its garbled image can cover in the cache (fileread, all replies).  *)
RepliesTrue ==
    out.kind = "data" =>
        \A i \in 0 .. out.cnt - 1 :
            out.data[i] = Content(file, out.off + i) \/ Exposed(out.off + i)

(* RepliesTrue, as far as the search of lines 665-680 can give it: for a   *)
(* file whose block list is in key order.                                  *)
SortedRepliesTrue == Sorted(file) /\ Sized(file) => RepliesTrue

(* A reply stays inside the file, is never longer than was asked for from  *)
(* a file kept in blocks, and is empty only at the end of the file: a      *)
(* client that adds up the counts neither stalls nor overshoots.           *)
RepliesAdvance ==
    out.kind = "data" =>
        /\ out.off + out.cnt <= file.size
        /\ ~ file.direct => out.cnt <= out.req
        /\ out.cnt = 0 <=> out.off = file.size

(* What keeps every assert of fileread and verifycheck true.               *)
Servable(f) ==
    /\ Sized(f) /\ Sorted(f) /\ NoTrailingHole(f) /\ NoFreemap(f)
    /\ f.size < IntRange
    /\ 0 \notin Counts

(* The asserts at lines 622, 623, 649, 667, 683, 688, 714 and 756 hold in  *)
(* every order of reads, hits, misses and failed loads of such a file.     *)
AssertsHold == Servable(file) => ~ crashed

(* What line 683 asserts of a read that finds no block: the search knows of *)
(* data, or the end of the file, further on than the offset.               *)
HoleAhead ==
    \A off \in Offsets :
        FromDisk(off) /\ ~ Hit(off) /\ InHole(off) => Nearest(off) > off

(* The values a byte may be read as: in an ordered list of sound blocks the *)
(* file's own, but where a block without a hash may be garbled.            *)
May(f, o) ==
    IF ~ (Sorted(f) /\ Sized(f)) THEN Byte
    ELSE {Content(f, o)} \cup
         IF \E b \in BlockSet(f) :
                ~ Verified(b) /\ b.key <= o /\ o < b.key + BufCap
         THEN Byte ELSE {}

(* The replies are those of the abstract file.                             *)
Abs == INSTANCE FileSpec
AbsSpec == Abs!Spec
=============================================================================
