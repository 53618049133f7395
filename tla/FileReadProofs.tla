--------------------------- MODULE FileReadProofs ---------------------------
(***************************************************************************)
(* What FileRead keeps for every set of files, requests and bounds.        *)
(***************************************************************************)
EXTENDS FileRead, WellFoundedInduction, TLAPS

USE DEF Byte, Zero, Junk, Buffer, Images

(* loadblock() returns a buffer, and the bytes of the block itself when    *)
(* the block has a hash and the load succeeded.                            *)
LEMMA LoadBlockResult ==
    ASSUME NEW b \in BlockRef, NEW image \in Images, NEW dst \in Buffer,
           NEW n \in 0 .. BufCap, NEW r \in LoadBlock(b, image, dst, n),
           r.status # "abort"
    PROVE  /\ r.dst \in Buffer
           /\ r.rsize \in 0 .. BufCap
           /\ r.status \in {"ok", "error"}
           /\ r.status = "ok" /\ Verified(b) =>
                /\ r.rsize = b.dlen
                /\ \A i \in 0 .. b.dlen - 1 : r.dst[i] = b.key + i
<1> USE BufCapAssumption
<1>1. \A m \in Int : Overlay(b, image, dst, m) \in Buffer
  BY DEF Overlay, Payload, BlockRef
<1>2. CASE ~ VerifyCheck(b, image) \/ b.comp = "unknown"
  BY <1>1, <1>2 DEF LoadBlock, BlockRef
<1>3. CASE /\ b.check # "freemap"
           /\ VerifyCheck(b, image) /\ b.comp # "unknown"
           /\ Plain(b) \/ image = "intact"
  <2>1. r = [status |-> "ok", dst |-> Overlay(b, image, dst, b.dlen),
             rsize |-> b.dlen]
    BY <1>3 DEF LoadBlock
  <2>2. Verified(b) => image = "intact"
    BY <1>3 DEF Verified, VerifyCheck, Hashes
  <2>3. b.dlen \in 1 .. BufCap /\ b.key \in Nat
    BY DEF BlockRef
  <2>4. Verified(b) => \A i \in 0 .. b.dlen - 1 :
                          Overlay(b, image, dst, b.dlen)[i] = b.key + i
    BY <2>2, <2>3 DEF Overlay, Payload
  <2> QED BY <1>1, <2>1, <2>3, <2>4
<1>4. CASE /\ b.check # "freemap"
           /\ VerifyCheck(b, image) /\ b.comp # "unknown"
           /\ ~ (Plain(b) \/ image = "intact")
  <2>1. ~ Verified(b)
    BY <1>4 DEF Verified, VerifyCheck, Hashes
  <2>2. \E m \in 0 .. BufCap :
            \/ r = [status |-> "ok", dst |-> Overlay(b, image, dst, m),
                    rsize |-> m]
            \/ r = [status |-> "error", dst |-> Overlay(b, image, dst, m),
                    rsize |-> n]
    BY <1>4 DEF LoadBlock
  <2> QED BY <1>1, <2>1, <2>2
<1>5. CASE b.check = "freemap"
  BY <1>5 DEF LoadBlock
<1> QED BY <1>2, <1>3, <1>4, <1>5

(* What TypeOK says of the file and of the list made from it. *)
LEMMA FileFacts ==
    ASSUME TypeOK
    PROVE  /\ file.size \in Nat
           /\ file.direct \in BOOLEAN
           /\ datablocks \in Seq(BlockRef)
           /\ \A i \in 1 .. Len(datablocks) : BlockAt(i) \in BlockRef
           /\ \A i \in 1 .. Len(datablocks) : BlockAt(i) \in BlockSet(file)
BY FilesAssumption DEF TypeOK, FileType, BlockAt, BlockSet

(* A remainder lies below the modulus and never exceeds the number. *)
LEMMA Remainder ==
    ASSUME NEW a \in Int, NEW m \in Nat \ {0}
    PROVE  /\ a % m \in 0 .. m - 1
           /\ a >= 0 => a % m <= a
           /\ a >= 0 /\ a < m => a % m = a
OBVIOUS

(* Every non-empty set of naturals has a least element. *)
LEMMA LeastElement ==
    ASSUME NEW S \in SUBSET Nat, S # {}
    PROVE  \E i \in S : \A j \in S : i <= j
<1>1. PICK i \in S : \A j \in S : <<j, i>> \notin OpToRel(<, Nat)
  BY NatLessThanWellFounded, WFMin
<1>2. \A j \in S : ~ (j < i)
  BY <1>1 DEF OpToRel
<1> QED BY <1>2

(* The place where the search stops is unique, and Nearest names its key. *)
LEMMA NearestIs ==
    ASSUME TypeOK, NEW off \in Nat
    PROVE  /\ Nearest(off) \in Nat
           /\ \A i \in 1 .. Len(datablocks) :
                 FirstStop(i, off) => Nearest(off) = BlockAt(i).key
           /\ NoStop(off) /\ Len(datablocks) = 0 => Nearest(off) = file.size
           /\ NoStop(off) /\ Len(datablocks) > 0 =>
                 Nearest(off) = BlockAt(Len(datablocks)).key
<1>1. /\ file.size \in Nat
      /\ Len(datablocks) \in Nat
      /\ \A i \in 1 .. Len(datablocks) : BlockAt(i).key \in Nat
  BY FileFacts DEF BlockRef
<1>2. \A i, j \in 1 .. Len(datablocks) :
         FirstStop(i, off) /\ FirstStop(j, off) => i = j
  BY <1>1 DEF FirstStop
<1>3. \A i \in 1 .. Len(datablocks) : FirstStop(i, off) => ~ NoStop(off)
  BY DEF FirstStop, NoStop
<1>4. \A i \in 1 .. Len(datablocks) :
         FirstStop(i, off) => Nearest(off) = BlockAt(i).key
  BY <1>1, <1>2, <1>3 DEF Nearest
<1>5. ~ NoStop(off) => \E i \in 1 .. Len(datablocks) : FirstStop(i, off)
  <2> SUFFICES ASSUME ~ NoStop(off)
               PROVE  \E i \in 1 .. Len(datablocks) : FirstStop(i, off)
    OBVIOUS
  <2> DEFINE S == {i \in 1 .. Len(datablocks) : Stops(i, off)}
  <2>1. S # {} /\ S \subseteq Nat
    BY <1>1 DEF NoStop
  <2>2. \E i \in S : \A j \in S : i <= j
    <3> HIDE DEF S
    <3> QED BY <2>1, LeastElement
  <2> QED BY <1>1, <2>1, <2>2 DEF FirstStop
<1>6. NoStop(off) => Nearest(off) = IF Len(datablocks) = 0 THEN file.size
                                    ELSE BlockAt(Len(datablocks)).key
  BY DEF Nearest
<1> QED BY <1>1, <1>4, <1>5, <1>6
-----------------------------------------------------------------------------
(* The replies and the abort leave everything else well typed. *)
LEMMA ReplyType ==
    ASSUME TypeOK, NEW kind \in {"data", "error"}, NEW off \in Offsets,
           NEW n \in Counts, NEW c \in Nat, NEW d \in [0 .. c - 1 -> Byte],
           Reply(kind, off, n, c, d),
           lastbuf' \in Buffer, lastbufoffset' \in Nat,
           lastbufcount' \in 0 .. BufCap, faults' \in Nat
    PROVE  TypeOK'
BY RequestsAssumption DEF TypeOK, Reply

LEMMA CacheUnchanged ==
    ASSUME TypeOK, UNCHANGED <<cache, faults>>
    PROVE  /\ lastbuf' \in Buffer
           /\ lastbufoffset' \in Nat
           /\ lastbufcount' \in 0 .. BufCap
           /\ faults' \in Nat
BY DEF TypeOK, cache

LEMMA AbortType == TypeOK /\ Abort => TypeOK'
BY DEF TypeOK, Abort, cache

LEMMA NoDataType == NoData \in [0 .. 0 - 1 -> Byte]
BY DEF NoData

(* What a load leaves behind: a dropped cache and an error, or the block's *)
(* bytes in the cache and a reply copied from them.                        *)
LEMMA ReadBlockResult ==
    ASSUME TypeOK, NEW off \in Offsets, NEW n \in Counts,
           ReadBlock(off, n), ~ Abort
    PROVE  /\ UNCHANGED <<file, opened, datablocks>>
           /\ lastbuf' \in Buffer /\ lastbufoffset' \in Nat
           /\ lastbufcount' \in 0 .. BufCap /\ faults' \in Nat
           /\ \E i \in 1 .. Len(datablocks) : LET b == BlockAt(i) IN
                /\ FirstStop(i, off)
                /\ b.key <= off /\ off < End(b)
                /\ b.check # "freemap"
                /\ \/ lastbufcount' = 0 /\ Reply("error", off, n, 0, NoData)
                   \/ /\ lastbufoffset' = b.key
                      /\ Verified(b) =>
                            /\ lastbufcount' = b.dlen
                            /\ \A j \in 0 .. b.dlen - 1 : lastbuf'[j] = b.key + j
                      /\ IF MissCount(b, off, n) > 0
                         THEN Reply("data", off, n, MissCount(b, off, n),
                                [j \in 0 .. MissCount(b, off, n) - 1 |->
                                    lastbuf'[off - b.key + j]])
                         ELSE crashed' = TRUE /\ UNCHANGED out
<1>1. PICK i \in 1 .. Len(datablocks), image \in Images :
         /\ FirstStop(i, off)
         /\ Covers(BlockAt(i), off)
         /\ BlockAt(i).check # "freemap"
         /\ Load(BlockAt(i), off, n, image)
  BY DEF ReadBlock
<1> DEFINE b == BlockAt(i)
<1>2. b \in BlockRef
  BY FileFacts
<1>3. b.key <= off /\ off < End(b)
  BY <1>1 DEF Covers
<1>4. b.key \in Nat
  BY <1>2 DEF BlockRef
<1>5. lastbuf \in Buffer /\ lastbufoffset \in Nat /\ lastbufcount \in 0 .. BufCap
  BY DEF TypeOK
<1>6. faults' \in Nat
  BY <1>1 DEF Load, TypeOK
<1> HIDE DEF b
<1>7. PICK r \in LoadBlock(b, image, lastbuf, lastbufcount) :
         /\ r.status # "abort"
         /\ lastbuf' = r.dst
         /\ IF r.status = "error"
            THEN /\ lastbufcount' = 0
                 /\ UNCHANGED lastbufoffset
                 /\ Reply("error", off, n, 0, NoData)
            ELSE /\ lastbufcount' = r.rsize
                 /\ lastbufoffset' = b.key
                 /\ LET c == MissCount(b, off, n)
                    IN  IF c > 0
                        THEN Send(off, n, c, [j \in 0 .. c - 1 |->
                                                r.dst[off - b.key + j]])
                        ELSE /\ crashed' = TRUE
                             /\ UNCHANGED <<file, opened, datablocks, out>>
  BY <1>1 DEF Load, DropCache, NameCache, b
<1>8. /\ r.dst \in Buffer /\ r.rsize \in 0 .. BufCap
      /\ r.status \in {"ok", "error"}
      /\ r.status = "ok" /\ Verified(b) =>
            /\ r.rsize = b.dlen
            /\ \A j \in 0 .. b.dlen - 1 : r.dst[j] = b.key + j
  BY <1>2, <1>5, <1>7, LoadBlockResult
<1>9. CASE r.status = "error"
  <2>1. /\ UNCHANGED <<file, opened, datablocks>>
        /\ lastbuf' \in Buffer /\ lastbufoffset' \in Nat
        /\ lastbufcount' \in 0 .. BufCap
    BY <1>5, <1>7, <1>8, <1>9, BufCapAssumption DEF Reply
  <2>2. lastbufcount' = 0 /\ Reply("error", off, n, 0, NoData)
    BY <1>7, <1>9
  <2> QED BY <1>1, <1>3, <1>6, <2>1, <2>2 DEF b
<1>10. CASE r.status = "ok"
  <2>1. /\ UNCHANGED <<file, opened, datablocks>>
        /\ lastbuf' \in Buffer /\ lastbufoffset' \in Nat
        /\ lastbufcount' \in 0 .. BufCap
    BY <1>4, <1>7, <1>8, <1>10 DEF Reply, Send
  <2>2. /\ lastbufoffset' = b.key
        /\ Verified(b) =>
              /\ lastbufcount' = b.dlen
              /\ \A j \in 0 .. b.dlen - 1 : lastbuf'[j] = b.key + j
    BY <1>7, <1>8, <1>10
  <2>3. IF MissCount(b, off, n) > 0
        THEN Reply("data", off, n, MissCount(b, off, n),
               [j \in 0 .. MissCount(b, off, n) - 1 |->
                   lastbuf'[off - b.key + j]])
        ELSE crashed' = TRUE /\ UNCHANGED out
    BY <1>7, <1>10 DEF Send
  <2> QED BY <1>1, <1>3, <1>6, <2>1, <2>2, <2>3 DEF b
<1> QED BY <1>8, <1>9, <1>10

(* Every action of Read preserves the type invariant. *)
LEMMA ReadType ==
    ASSUME TypeOK, NEW off \in Offsets, NEW n \in Counts, Read(off, n)
    PROVE  TypeOK'
<1> USE RequestsAssumption, BufCapAssumption
<1>0. /\ off \in Nat /\ n \in Nat
      /\ file.size \in Nat
      /\ lastbuf \in Buffer /\ lastbufoffset \in Nat
      /\ lastbufcount \in 0 .. BufCap
  BY FileFacts DEF TypeOK
<1>1. CASE ReadAtEOF(off, n)
  BY <1>1, CacheUnchanged, NoDataType, ReplyType DEF ReadAtEOF, Send
<1>2. CASE ReadPastEOF(off, n)
  BY <1>2, CacheUnchanged, NoDataType, ReplyType DEF ReadPastEOF
<1>3. CASE ReadDirect(off, n)
  <2>1. CASE ~ off < EmbedMax
    BY <1>3, <2>1, AbortType DEF ReadDirect
  <2>2. CASE off < EmbedMax
    <3> DEFINE c == file.size - off
               d == [i \in 0 .. c - 1 |-> IF off + i < EmbedMax THEN off + i ELSE Junk]
    <3>1. c \in Nat /\ d \in [0 .. c - 1 -> Byte]
      BY <1>0, <1>3 DEF ReadDirect
    <3>2. Reply("data", off, n, c, d) /\ UNCHANGED <<cache, faults>>
      BY <1>3, <2>2 DEF ReadDirect, Send
    <3> QED BY <3>1, <3>2, CacheUnchanged, ReplyType
  <2> QED BY <2>1, <2>2
<1>4. CASE ReadCached(off, n)
  <2> DEFINE c == HitCount(off, n)
             d == [i \in 0 .. c - 1 |-> lastbuf[off - lastbufoffset + i]]
  <2>1. CASE ~ c > 0
    BY <1>4, <2>1, AbortType DEF ReadCached
  <2>2. CASE c > 0
    <3>1. /\ c \in Nat
          /\ off - lastbufoffset \in Nat
          /\ off - lastbufoffset + c <= lastbufcount
      BY <1>0, <1>4, <2>2 DEF ReadCached, Hit, HitCount
    <3>2. d \in [0 .. c - 1 -> Byte]
      <4> HIDE DEF c
      <4> QED BY <1>0, <3>1
    <3>3. Reply("data", off, n, c, d) /\ UNCHANGED <<cache, faults>>
      BY <1>4, <2>2 DEF ReadCached, Send
    <3> QED BY <3>1, <3>2, <3>3, CacheUnchanged, ReplyType
  <2> QED BY <2>1, <2>2
<1>5. CASE ReadHole(off, n)
  <2> DEFINE c == HoleCount(off, n)
             d == [i \in 0 .. c - 1 |-> Zero]
  <2>1. CASE ~ (Nearest(off) > off /\ c > 0)
    BY <1>5, <2>1, AbortType DEF ReadHole
  <2>2. CASE Nearest(off) > off /\ c > 0
    <3>0. Nearest(off) - off \in Int
      BY <1>0, NearestIs
    <3>1. (Nearest(off) - off) % IntRange \in Nat
      <4> HIDE DEF c, d
      <4>1. PICK a \in Int : a = Nearest(off) - off
        BY <3>0
      <4>2. a % IntRange \in Nat
        BY RequestsAssumption
      <4> QED BY <4>1, <4>2, Zenon
    <3>1a. c \in Nat
      BY <1>0, <3>1 DEF HoleCount
    <3>2. d \in [0 .. c - 1 -> Byte]
      OBVIOUS
    <3>3. Reply("data", off, n, c, d) /\ UNCHANGED <<cache, faults>>
      BY <1>5, <2>2 DEF ReadHole, Send
    <3> QED BY <3>1a, <3>2, <3>3, CacheUnchanged, ReplyType
  <2> QED BY <2>1, <2>2
<1>6. CASE MeetEmptyBlock(off, n)
  BY <1>6, AbortType DEF MeetEmptyBlock
<1>7. CASE ReadBlock(off, n)
  <2>1. CASE Abort
    BY <2>1, AbortType
  <2>2. CASE ~ Abort
    <3>1. PICK i \in 1 .. Len(datablocks) :
             /\ BlockAt(i).key <= off /\ off < End(BlockAt(i))
             /\ \/ lastbufcount' = 0 /\ Reply("error", off, n, 0, NoData)
                \/ IF MissCount(BlockAt(i), off, n) > 0
                   THEN Reply("data", off, n, MissCount(BlockAt(i), off, n),
                          [j \in 0 .. MissCount(BlockAt(i), off, n) - 1 |->
                              lastbuf'[off - BlockAt(i).key + j]])
                   ELSE crashed' = TRUE /\ UNCHANGED out
      BY <1>7, <2>2, ReadBlockResult
    <3>2. /\ UNCHANGED <<file, opened, datablocks>>
          /\ lastbuf' \in Buffer /\ lastbufoffset' \in Nat
          /\ lastbufcount' \in 0 .. BufCap /\ faults' \in Nat
      BY <1>7, <2>2, ReadBlockResult
    <3> DEFINE b == BlockAt(i)
               c == MissCount(b, off, n)
               d == [j \in 0 .. c - 1 |-> lastbuf'[off - b.key + j]]
    <3>3. b.key \in Nat /\ b.len \in 1 .. BufCap
      BY FileFacts DEF BlockRef
    <3>4. CASE Reply("error", off, n, 0, NoData)
      BY <3>2, <3>4, NoDataType, ReplyType
    <3>5. CASE crashed' = TRUE /\ UNCHANGED out
      BY <3>2, <3>5 DEF TypeOK
    <3>6. CASE c > 0 /\ Reply("data", off, n, c, d)
      <4>1. c \in Nat /\ off + c <= End(b) /\ End(b) <= b.key + b.len
        <5> HIDE DEF b, d
        <5>1. End(b) \in Nat /\ End(b) <= b.key + b.len
          BY <1>0, <3>3 DEF End
        <5> QED BY <1>0, <3>1, <3>6, <5>1 DEF MissCount, b
      <4>2. \A j \in 0 .. c - 1 : off - b.key + j \in 0 .. BufCap - 1
        <5> HIDE DEF b, c, d
        <5>1. b.key <= off /\ off \in Nat
          BY <1>0, <3>1 DEF b
        <5>2. \A o, k, l, x, j \in Nat :
                (k <= o /\ l <= BufCap /\ o + x <= k + l /\ j < x) =>
                    o - k + j \in 0 .. BufCap - 1
          BY BufCapAssumption
        <5>3. b.len \in Nat /\ b.len <= BufCap
          BY <3>3, BufCapAssumption
        <5>4. off + c <= b.key + b.len
          <6>1. End(b) \in Nat
            BY <1>0, <3>3 DEF End
          <6> HIDE DEF End
          <6> QED BY <3>3, <4>1, <5>1, <5>3, <6>1
        <5>5. \A j \in 0 .. c - 1 : j \in Nat /\ j < c
          BY <4>1
        <5> QED BY ONLY <3>3, <4>1, <5>1, <5>2, <5>3, <5>4, <5>5
      <4>3. d \in [0 .. c - 1 -> Byte]
        <5> HIDE DEF b, c
        <5> QED BY <3>2, <4>2
      <4> QED BY <3>2, <3>6, <4>1, <4>3, ReplyType
    <3> QED BY <3>1, <3>4, <3>5, <3>6
  <2> QED BY <2>1, <2>2
<1> QED BY <1>1, <1>2, <1>3, <1>4, <1>5, <1>6, <1>7 DEF Read

(* The type invariant, for every set of files and requests. *)
THEOREM TypeCorrect == Spec => []TypeOK
<1>1. Init => TypeOK
  BY BufCapAssumption, NoDataType DEF Init, TypeOK
<1>2. TypeOK /\ [Next]_vars => TypeOK'
  <2> SUFFICES ASSUME TypeOK, [Next]_vars PROVE TypeOK'
    OBVIOUS
  <2>1. CASE Open
    BY <2>1 DEF Open, TypeOK, cache
  <2>2. CASE \E off \in Offsets, n \in Counts : Read(off, n)
    BY <2>2, ReadType
  <2>3. CASE UNCHANGED vars
    BY <2>3 DEF vars, cache, TypeOK
  <2> QED BY <2>1, <2>2, <2>3 DEF Next
<1> QED BY <1>1, <1>2, PTL DEF Spec
-----------------------------------------------------------------------------
(* Only a load changes the cache: it drops it, or makes it the block's.    *)
LEMMA ReadCoherent ==
    ASSUME TypeOK, CacheCoherent, NEW off \in Offsets, NEW n \in Counts,
           Read(off, n)
    PROVE  CacheCoherent'
<1>1. CASE UNCHANGED cache /\ UNCHANGED file
  BY <1>1 DEF CacheCoherent, cache, BlockSet, Verified
<1>2. CASE ReadBlock(off, n) /\ ~ Abort
  <2>1. UNCHANGED file
    BY <1>2, ReadBlockResult
  <2>2. PICK i \in 1 .. Len(datablocks) :
           \/ lastbufcount' = 0
           \/ /\ lastbufoffset' = BlockAt(i).key
              /\ Verified(BlockAt(i)) =>
                    /\ lastbufcount' = BlockAt(i).dlen
                    /\ \A j \in 0 .. BlockAt(i).dlen - 1 :
                          lastbuf'[j] = BlockAt(i).key + j
    BY <1>2, ReadBlockResult
  <2>3. BlockAt(i) \in BlockSet(file')
    BY <2>1, FileFacts
  <2> QED BY <2>2, <2>3 DEF CacheCoherent
<1>3. ~ ReadBlock(off, n) \/ Abort => UNCHANGED cache /\ UNCHANGED file
  BY DEF Read, ReadAtEOF, ReadPastEOF, ReadDirect, ReadCached, ReadHole,
         MeetEmptyBlock, Reply, Send, Abort
<1> QED BY <1>1, <1>2, <1>3

(* A hit always finds the bytes of the block the cache names.              *)
THEOREM CacheIsCoherent == Spec => []CacheCoherent
<1>1. Init => CacheCoherent
  BY DEF Init, CacheCoherent
<1>2. TypeOK /\ CacheCoherent /\ [Next]_vars => CacheCoherent'
  <2> SUFFICES ASSUME TypeOK, CacheCoherent, [Next]_vars PROVE CacheCoherent'
    OBVIOUS
  <2>1. CASE Open \/ UNCHANGED vars
    BY <2>1 DEF Open, vars, cache, CacheCoherent, BlockSet, Verified
  <2>2. CASE \E off \in Offsets, n \in Counts : Read(off, n)
    BY <2>2, ReadCoherent
  <2> QED BY <2>1, <2>2 DEF Next
<1> QED BY <1>1, <1>2, TypeCorrect, PTL DEF Spec
-----------------------------------------------------------------------------
(* The numbers of a cache hit. *)
LEMMA HitFacts ==
    ASSUME TypeOK, NEW off \in Nat, NEW n \in Nat, off < file.size, Hit(off)
    PROVE  /\ HitCount(off, n) \in Int
           /\ HitCount(off, n) <= n
           /\ off + HitCount(off, n) <= file.size
           /\ off - lastbufoffset + HitCount(off, n) <= lastbufcount
           /\ off - lastbufoffset \in Nat
           /\ n > 0 => HitCount(off, n) > 0
<1>1. /\ file.size \in Nat /\ lastbufoffset \in Nat /\ lastbufcount \in Nat
  BY FileFacts, BufCapAssumption DEF TypeOK
<1>2. lastbufoffset <= off /\ off < lastbufcount + lastbufoffset
  BY DEF Hit
<1>3. PICK c \in Int : /\ c = IF n + off > file.size THEN file.size - off ELSE n
                       /\ c <= n /\ off + c <= file.size /\ (n > 0 => c > 0)
  BY <1>1
<1>4. PICK s \in Nat : s = off - lastbufoffset /\ s < lastbufcount
  BY <1>1, <1>2
<1>5. HitCount(off, n) = IF c + s > lastbufcount THEN lastbufcount - s ELSE c
  BY <1>3, <1>4, Zenon DEF HitCount
<1> QED BY <1>1, <1>3, <1>4, <1>5

(* A list element the search leaves behind ends at or before the offset.   *)
LEMMA PassedBy ==
    ASSUME TypeOK, NEW off \in Nat, NEW i \in 1 .. Len(datablocks),
           ~ Stops(i, off)
    PROVE  BlockAt(i).key <= off /\ End(BlockAt(i)) <= off
<1>1. BlockAt(i).key \in Nat /\ BlockAt(i).len \in Nat /\ file.size \in Nat
  BY FileFacts, BufCapAssumption, SMTT(30) DEF BlockRef
<1>2. End(BlockAt(i)) \in Nat
  BY <1>1 DEF End
<1> QED BY <1>1, <1>2 DEF Stops, Covers

(* What the search knows when it has found a hole and data after it.       *)
LEMMA HoleFacts ==
    ASSUME TypeOK, NEW off \in Nat, off < file.size, InHole(off),
           Nearest(off) > off
    PROVE  /\ Nearest(off) \in Nat /\ Nearest(off) <= file.size
           /\ \/ Len(datablocks) = 0
              \/ \E i \in 1 .. Len(datablocks) :
                    FirstStop(i, off) /\ Nearest(off) = BlockAt(i).key
<1>1. Nearest(off) \in Nat /\ file.size \in Nat /\ Len(datablocks) \in Nat
  BY NearestIs, FileFacts
<1>2. CASE NoStop(off)
  <2>1. CASE Len(datablocks) = 0
    BY <1>1, <1>2, <2>1, NearestIs
  <2>2. CASE Len(datablocks) > 0
    <3>1. Len(datablocks) \in 1 .. Len(datablocks)
      BY <1>1, <2>2
    <3>2. Nearest(off) = BlockAt(Len(datablocks)).key
      BY <1>2, <2>2, NearestIs
    <3>3. BlockAt(Len(datablocks)).key <= off
      BY <1>2, <3>1, PassedBy DEF NoStop
    <3> QED BY <1>1, <3>2, <3>3
  <2> QED BY <1>1, <2>1, <2>2
<1>3. CASE ~ NoStop(off)
  <2>1. PICK i \in 1 .. Len(datablocks) :
           FirstStop(i, off) /\ End(BlockAt(i)) > BlockAt(i).key
    BY <1>3 DEF InHole
  <2>2. Nearest(off) = BlockAt(i).key
    BY <2>1, NearestIs
  <2>3. BlockAt(i).key < file.size
    <3>1. BlockAt(i).key \in Nat /\ BlockAt(i).len \in Nat
      BY FileFacts, BufCapAssumption DEF BlockRef
    <3> QED BY <1>1, <2>1, <3>1 DEF End
  <2> QED BY <1>1, <2>1, <2>2, <2>3
<1> QED BY <1>2, <1>3

(* The count of a hole's reply. *)
LEMMA HoleCountFacts ==
    ASSUME NEW off \in Nat, NEW n \in Nat, Nearest(off) \in Nat,
           Nearest(off) > off
    PROVE  /\ HoleCount(off, n) \in Nat
           /\ HoleCount(off, n) <= n
           /\ off + HoleCount(off, n) <= Nearest(off)
           /\ n > 0 /\ Nearest(off) < IntRange => HoleCount(off, n) > 0
<1>1. PICK a \in Nat \ {0} : a = Nearest(off) - off
  OBVIOUS
<1>2. /\ a % IntRange \in Nat
      /\ a % IntRange <= a
      /\ a < IntRange => a % IntRange = a
  BY RequestsAssumption
<1>3. PICK m \in Nat : m = a % IntRange
  BY <1>2
<1>4. HoleCount(off, n) = IF m > n THEN n ELSE m
  BY <1>1, <1>3, Zenon DEF HoleCount
<1>5. m <= a /\ (a < IntRange => m = a)
  BY <1>2, <1>3
<1>6. Nearest(off) < IntRange => a < IntRange
  BY <1>1, RequestsAssumption
<1> QED BY <1>1, <1>3, <1>4, <1>5, <1>6

(* The count of a miss. *)
LEMMA MissFacts ==
    ASSUME TypeOK, NEW off \in Nat, NEW n \in Nat,
           NEW i \in 1 .. Len(datablocks),
           BlockAt(i).key <= off, off < End(BlockAt(i))
    PROVE  LET b == BlockAt(i) IN
           /\ b.key \in Nat /\ b.len \in 1 .. BufCap /\ b.dlen \in 1 .. BufCap
           /\ End(b) \in Nat /\ End(b) <= b.key + b.len /\ End(b) <= file.size
           /\ MissCount(b, off, n) \in Nat
           /\ MissCount(b, off, n) <= n
           /\ off + MissCount(b, off, n) <= End(b)
           /\ n > 0 => MissCount(b, off, n) > 0
<1> DEFINE b == BlockAt(i)
<1>1. b.key \in Nat /\ b.len \in 1 .. BufCap /\ b.dlen \in 1 .. BufCap
  BY FileFacts DEF BlockRef
<1>2. file.size \in Nat
  BY FileFacts
<1> HIDE DEF b
<1>3. End(b) \in Nat /\ End(b) <= b.key + b.len /\ End(b) <= file.size
  BY <1>1, <1>2 DEF End
<1>4. off < End(b)
  BY DEF b
<1>5. /\ MissCount(b, off, n) \in Nat
      /\ MissCount(b, off, n) <= n
      /\ off + MissCount(b, off, n) <= End(b)
      /\ n > 0 => MissCount(b, off, n) > 0
  BY <1>3, <1>4 DEF MissCount
<1> QED BY <1>1, <1>3, <1>5 DEF b
-----------------------------------------------------------------------------
(* Every reply moves its reader on, and none past the end of the file.     *)
LEMMA ReadAdvances ==
    ASSUME TypeOK, RepliesAdvance, NEW off \in Offsets, NEW n \in Counts,
           Read(off, n)
    PROVE  RepliesAdvance'
<1>0. off \in Nat /\ n \in Nat /\ file.size \in Nat
  BY FileFacts, RequestsAssumption
<1>a. ASSUME NEW c \in Int, NEW d, Reply("data", off, n, c, d),
             off + c <= file.size, c <= n, c > 0
      PROVE  RepliesAdvance'
  BY <1>0, <1>a DEF Reply, RepliesAdvance
<1>b. ASSUME UNCHANGED <<file, out>> PROVE RepliesAdvance'
  BY <1>b DEF RepliesAdvance
<1>c. ASSUME NEW d, Reply("error", off, n, 0, d) PROVE RepliesAdvance'
  BY <1>c DEF Reply, RepliesAdvance
<1>d. ASSUME Abort PROVE RepliesAdvance'
  BY <1>b, <1>d DEF Abort
<1>1. CASE ReadAtEOF(off, n)
  BY <1>0, <1>1 DEF ReadAtEOF, Send, Reply, RepliesAdvance
<1>2. CASE ReadPastEOF(off, n)
  BY <1>2, <1>c DEF ReadPastEOF
<1>3. CASE ReadDirect(off, n)
  <2>1. CASE ~ off < EmbedMax
    BY <1>3, <1>d, <2>1 DEF ReadDirect
  <2>2. CASE off < EmbedMax
    <3>1. /\ file.direct /\ off < file.size
          /\ \E d : Reply("data", off, n, file.size - off, d)
      BY <1>3, <2>2 DEF ReadDirect, Send
    <3> QED BY <1>0, <3>1 DEF Reply, RepliesAdvance
  <2> QED BY <2>1, <2>2
<1>4. CASE ReadCached(off, n)
  <2>1. off < file.size /\ Hit(off)
    BY <1>4 DEF ReadCached, FromDisk
  <2>2. Abort \/ /\ HitCount(off, n) > 0
                 /\ \E d : Reply("data", off, n, HitCount(off, n), d)
    BY <1>4 DEF ReadCached, Send
  <2> QED BY <1>0, <1>a, <1>d, <2>1, <2>2, HitFacts
<1>5. CASE ReadHole(off, n)
  <2>1. off < file.size /\ InHole(off)
    BY <1>5 DEF ReadHole, FromDisk
  <2>2. Abort \/ /\ Nearest(off) > off /\ HoleCount(off, n) > 0
                 /\ \E d : Reply("data", off, n, HoleCount(off, n), d)
    BY <1>5 DEF ReadHole, Send
  <2>3. CASE Nearest(off) > off
    <3>1. Nearest(off) \in Nat /\ Nearest(off) <= file.size
      BY <1>0, <2>1, <2>3, HoleFacts
    <3>2. /\ HoleCount(off, n) \in Int /\ HoleCount(off, n) <= n
          /\ off + HoleCount(off, n) <= file.size
      BY <1>0, <2>3, <3>1, HoleCountFacts
    <3> QED BY <1>a, <1>d, <2>2, <3>2
  <2> QED BY <1>d, <2>2, <2>3
<1>6. CASE MeetEmptyBlock(off, n)
  BY <1>6, <1>d DEF MeetEmptyBlock
<1>7. CASE ReadBlock(off, n) /\ ~ Abort
  <2>1. PICK i \in 1 .. Len(datablocks) :
           /\ BlockAt(i).key <= off /\ off < End(BlockAt(i))
           /\ \/ Reply("error", off, n, 0, NoData)
              \/ /\ MissCount(BlockAt(i), off, n) > 0
                 /\ \E d : Reply("data", off, n, MissCount(BlockAt(i), off, n), d)
              \/ UNCHANGED out
    BY <1>7, ReadBlockResult
  <2>2. UNCHANGED file
    BY <1>7, ReadBlockResult
  <2>3. /\ MissCount(BlockAt(i), off, n) \in Int
        /\ MissCount(BlockAt(i), off, n) <= n
        /\ off + MissCount(BlockAt(i), off, n) <= file.size
    <3>1. BlockAt(i).key <= off /\ off < End(BlockAt(i))
      BY <2>1
    <3>2. /\ MissCount(BlockAt(i), off, n) \in Nat
          /\ MissCount(BlockAt(i), off, n) <= n
          /\ End(BlockAt(i)) \in Nat /\ End(BlockAt(i)) <= file.size
          /\ off + MissCount(BlockAt(i), off, n) <= End(BlockAt(i))
      BY <1>0, <3>1, MissFacts
    <3> HIDE DEF BlockAt
    <3> QED BY <1>0, <3>2
  <2> QED BY <1>a, <1>b, <1>c, <2>1, <2>2, <2>3
<1> QED BY <1>1, <1>2, <1>3, <1>4, <1>5, <1>6, <1>7, <1>d DEF Read

(* No reply stalls or overshoots its reader.                               *)
THEOREM RepliesDoAdvance == Spec => []RepliesAdvance
<1>1. Init => RepliesAdvance
  BY DEF Init, RepliesAdvance
<1>2. TypeOK /\ RepliesAdvance /\ [Next]_vars => RepliesAdvance'
  <2> SUFFICES ASSUME TypeOK, RepliesAdvance, [Next]_vars PROVE RepliesAdvance'
    OBVIOUS
  <2>1. CASE Open \/ UNCHANGED vars
    BY <2>1 DEF Open, vars, RepliesAdvance
  <2>2. CASE \E off \in Offsets, n \in Counts : Read(off, n)
    BY <2>2, ReadAdvances
  <2> QED BY <2>1, <2>2 DEF Next
<1> QED BY <1>1, <1>2, TypeCorrect, PTL DEF Spec
-----------------------------------------------------------------------------
(* In a sorted list the bytes from the offset to Nearest belong to no block. *)
LEMMA HoleIsZero ==
    ASSUME TypeOK, opened, ~ file.direct, Sorted(file),
           NEW off \in Nat, off < file.size, InHole(off),
           Nearest(off) > off,
           NEW o \in Nat, off <= o, o < Nearest(off)
    PROVE  Content(file, o) = Zero
<1>0. datablocks = file.blocks /\ Len(datablocks) \in Nat
  BY FileFacts DEF TypeOK
<1>1. SUFFICES ASSUME NEW j \in 1 .. Len(datablocks),
                      Spans(file, BlockAt(j), o)
               PROVE  FALSE
  BY <1>0 DEF Content, BlockSet, BlockAt
<1>2. PICK i \in 1 .. Len(datablocks) :
         FirstStop(i, off) /\ Nearest(off) = BlockAt(i).key
  BY <1>0, <1>1, HoleFacts
<1>3. /\ BlockAt(i).key \in Nat /\ BlockAt(i).len \in Nat
      /\ BlockAt(j).key \in Nat /\ BlockAt(j).len \in Nat
      /\ file.size \in Nat
  <2>1. BlockAt(i) \in BlockRef /\ BlockAt(j) \in BlockRef /\ file.size \in Nat
    BY FileFacts
  <2> QED BY <2>1, BufCapAssumption DEF BlockRef
<1>4. CASE j < i
  <2>1. End(BlockAt(j)) <= off
    BY <1>2, <1>4, PassedBy DEF FirstStop
  <2> QED BY <1>1, <1>3, <2>1 DEF End, Spans
<1>5. CASE j = i
  BY <1>1, <1>2, <1>3, <1>5 DEF Spans
<1>6. CASE j > i
  <2>1. BlockAt(i).key + BlockAt(i).len <= BlockAt(j).key
    BY <1>0, <1>6 DEF Sorted, BlockAt
  <2> QED BY <1>1, <1>2, <1>3, <2>1 DEF Spans
<1> QED BY <1>4, <1>5, <1>6

(* A byte of a verified block's image is the file's byte. *)
LEMMA BlockByte ==
    ASSUME NEW b \in BlockSet(file), NEW o \in Nat, Spans(file, b, o)
    PROVE  Content(file, o) = o
BY DEF Content

(* Every action of Read replies with the file's bytes.                     *)
LEMMA ReadTrue ==
    ASSUME TypeOK, CacheCoherent, RepliesTrue, Sorted(file), Sized(file),
           NEW off \in Offsets, NEW n \in Counts, Read(off, n)
    PROVE  RepliesTrue'
<1>0. off \in Nat /\ n \in Nat /\ file.size \in Nat /\ file' = file
  <2>1. file' = file
    BY ReadBlockResult DEF Read, ReadAtEOF, ReadPastEOF, ReadDirect, ReadCached,
         ReadHole, MeetEmptyBlock, Reply, Send, Abort
  <2> QED BY <2>1, FileFacts, RequestsAssumption
<1>a. ASSUME NEW c \in Nat, NEW d, Reply("data", off, n, c, d),
             \A i \in 0 .. c - 1 :
                d[i] = Content(file, off + i) \/ Exposed(off + i)
      PROVE  RepliesTrue'
  BY <1>0, <1>a, SMTT(30) DEF Reply, RepliesTrue, Content, Exposed, BlockSet, Spans
<1>b. ASSUME UNCHANGED out PROVE RepliesTrue'
  BY <1>0, <1>b DEF RepliesTrue, Content, Exposed, BlockSet, Spans
<1>c. ASSUME NEW d, Reply("error", off, n, 0, d) PROVE RepliesTrue'
  BY <1>c DEF Reply, RepliesTrue
<1>d. ASSUME Abort PROVE RepliesTrue'
  BY <1>b, <1>d DEF Abort
<1>1. CASE ReadAtEOF(off, n)
  BY <1>1, <1>a DEF ReadAtEOF, Send
<1>2. CASE ReadPastEOF(off, n)
  BY <1>2, <1>c DEF ReadPastEOF
<1>3. CASE ReadDirect(off, n)
  <2>1. CASE ~ off < EmbedMax
    BY <1>3, <1>d, <2>1 DEF ReadDirect
  <2>2. CASE off < EmbedMax
    <3> DEFINE c == file.size - off
               d == [i \in 0 .. c - 1 |-> IF off + i < EmbedMax THEN off + i ELSE Junk]
    <3>1. file.direct /\ Reply("data", off, n, c, d) /\ off < file.size
      BY <1>3, <2>2 DEF ReadDirect, Send
    <3>2. file.size <= EmbedMax
      BY <3>1 DEF Sized
    <3>3. \A i \in 0 .. c - 1 : d[i] = off + i
      BY <1>0, <3>2, BoundsAssumption
    <3>4. \A i \in 0 .. c - 1 : d[i] = Content(file, off + i)
      BY <3>1, <3>3 DEF Content
    <3>5. c \in Nat
      BY <1>0, <3>1
    <3> HIDE DEF c, d
    <3> QED BY <1>a, <3>1, <3>4, <3>5
  <2> QED BY <2>1, <2>2
<1>4. CASE ReadCached(off, n)
  <2> DEFINE c == HitCount(off, n)
             d == [i \in 0 .. c - 1 |-> lastbuf[off - lastbufoffset + i]]
  <2>1. off < file.size /\ Hit(off)
    BY <1>4 DEF ReadCached, FromDisk
  <2>2. Abort \/ (c > 0 /\ Reply("data", off, n, c, d))
    BY <1>4 DEF ReadCached, Send
  <2>3. /\ c \in Int /\ off + c <= file.size /\ off - lastbufoffset \in Nat
        /\ off - lastbufoffset + c <= lastbufcount
    BY <1>0, <2>1, HitFacts
  <2>4. PICK b \in BlockSet(file) :
           /\ b.key = lastbufoffset
           /\ Verified(b) =>
                 /\ lastbufcount = b.dlen
                 /\ \A i \in 0 .. b.dlen - 1 : lastbuf[i] = b.key + i
    BY <2>1 DEF CacheCoherent, Hit
  <2>5. b \in BlockRef
    BY FilesAssumption, <2>4 DEF TypeOK, FileType, BlockSet
  <2>6. /\ b.key \in Nat /\ b.len \in Nat /\ b.dlen \in Nat
        /\ lastbufcount \in Nat /\ lastbufcount <= BufCap
    BY <2>5, BufCapAssumption DEF BlockRef, TypeOK
  <2> HIDE DEF c
  <2>7. ASSUME NEW i \in 0 .. c - 1
        PROVE  d[i] = Content(file, off + i) \/ Exposed(off + i)
    <3>1. d[i] = lastbuf[off - b.key + i]
      BY <2>4
    <3>2. /\ off - b.key + i \in 0 .. lastbufcount - 1
          /\ b.key <= off + i /\ off + i < b.key + lastbufcount
          /\ off + i < file.size /\ off + i \in Nat
      <4> HIDE DEF d
      <4> QED BY <1>0, <2>3, <2>4, <2>6
    <3>3. CASE Verified(b)
      <4>1. lastbuf[off - b.key + i] = b.key + (off - b.key + i)
        BY <2>4, <3>2, <3>3
      <4>2. d[i] = off + i
        BY <1>0, <2>6, <3>1, <4>1
      <4>3. b.dlen <= b.len
        BY DEF Sized
      <4>4. Spans(file, b, off + i)
        BY <1>0, <2>4, <2>6, <3>2, <3>3, <4>3 DEF Spans
      <4> QED BY <3>2, <4>2, <4>4, BlockByte
    <3>4. CASE ~ Verified(b)
      <4>1. off + i < b.key + BufCap
        BY <1>0, <2>6, <3>2, BufCapAssumption
      <4> QED BY <3>2, <3>4, <4>1 DEF Exposed
    <3> QED BY <3>3, <3>4
  <2>8. c > 0 => c \in Nat
    BY <2>3
  <2> HIDE DEF d
  <2> QED BY <1>a, <1>d, <2>2, <2>7, <2>8
<1>5. CASE ReadHole(off, n)
  <2> DEFINE c == HoleCount(off, n)
             d == [i \in 0 .. c - 1 |-> Zero]
  <2>1. off < file.size /\ InHole(off) /\ opened /\ ~ file.direct
    BY <1>5 DEF ReadHole, FromDisk, Serving
  <2>2. Abort \/ (Nearest(off) > off /\ Reply("data", off, n, c, d))
    BY <1>5 DEF ReadHole, Send
  <2>3. CASE Nearest(off) > off
    <3>1. Nearest(off) \in Nat
      BY <1>0, <2>1, <2>3, HoleFacts
    <3>2. c \in Nat /\ off + c <= Nearest(off)
      BY <1>0, <2>3, <3>1, HoleCountFacts
    <3> HIDE DEF c
    <3>3. ASSUME NEW i \in 0 .. c - 1
          PROVE  d[i] = Content(file, off + i)
      <4>1. off + i \in Nat /\ off <= off + i /\ off + i < Nearest(off)
        BY <1>0, <3>1, <3>2
      <4>2. Content(file, off + i) = Zero
        BY <1>0, <2>1, <2>3, <4>1, HoleIsZero
      <4> QED BY <4>2
    <3> HIDE DEF d
    <3> QED BY <1>a, <1>d, <2>2, <3>2, <3>3
  <2> QED BY <1>d, <2>2, <2>3
<1>6. CASE MeetEmptyBlock(off, n)
  BY <1>6, <1>d DEF MeetEmptyBlock
<1>7. CASE ReadBlock(off, n) /\ ~ Abort
  <2>1. PICK k \in 1 .. Len(datablocks) :
           /\ BlockAt(k).key <= off /\ off < End(BlockAt(k))
           /\ \/ Reply("error", off, n, 0, NoData)
              \/ /\ Verified(BlockAt(k)) =>
                       \A j \in 0 .. BlockAt(k).dlen - 1 :
                           lastbuf'[j] = BlockAt(k).key + j
                 /\ Reply("data", off, n, MissCount(BlockAt(k), off, n),
                          [j \in 0 .. MissCount(BlockAt(k), off, n) - 1 |->
                             lastbuf'[off - BlockAt(k).key + j]])
              \/ UNCHANGED out
    BY <1>7, ReadBlockResult
  <2> DEFINE b == BlockAt(k)
             c == MissCount(b, off, n)
             d == [j \in 0 .. c - 1 |-> lastbuf'[off - b.key + j]]
  <2>2. b \in BlockSet(file)
    BY FileFacts
  <2>3. /\ b.key \in Nat /\ b.len \in 1 .. BufCap /\ b.dlen \in 1 .. BufCap
        /\ End(b) \in Nat /\ End(b) <= b.key + b.len /\ End(b) <= file.size
        /\ c \in Nat /\ off + c <= End(b)
    <3>1. BlockAt(k).key <= off /\ off < End(BlockAt(k))
      BY <2>1
    <3> QED BY <1>0, <3>1, MissFacts
  <2>4. CASE /\ Verified(b) => \A j \in 0 .. b.dlen - 1 : lastbuf'[j] = b.key + j
             /\ Reply("data", off, n, c, d)
    <3>0. b.key <= off /\ off < End(b)
      BY <2>1
    <3> HIDE DEF b, c
    <3>1. ASSUME NEW i \in 0 .. c - 1
          PROVE  d[i] = Content(file, off + i) \/ Exposed(off + i)
      <4>1. d[i] = lastbuf'[off - b.key + i]
        OBVIOUS
      <4>2. /\ b.key <= off + i /\ off + i < b.key + b.len
            /\ off + i < file.size /\ off + i \in Nat
        BY <1>0, <2>3, <3>0
      <4>3. CASE Verified(b)
        <5>1. b.key < file.size => file.size <= b.key + b.dlen \/ b.dlen = b.len
          BY <2>2 DEF Sized
        <5>a. b.key < file.size
          BY <1>0, <2>3, <3>0, <4>2
        <5>b. off + i < b.key + b.dlen
          BY <1>0, <2>3, <4>2, <5>1, <5>a
        <5>2. off - b.key + i \in 0 .. b.dlen - 1
          <6>1. i \in Nat /\ off - b.key \in Nat
            BY <1>0, <2>3, <3>0
          <6>2. off - b.key + i < b.dlen
            BY <1>0, <2>3, <5>b, <6>1, SMTT(30)
          <6>3. off - b.key + i \in Nat
            BY <6>1
          <6> QED BY <2>3, <6>2, <6>3
        <5>3. lastbuf'[off - b.key + i] = b.key + (off - b.key + i)
          BY <2>4, <4>3, <5>2
        <5>4. d[i] = off + i
          BY <1>0, <2>3, <4>1, <5>3
        <5>5. Spans(file, b, off + i)
          BY <4>2 DEF Spans
        <5> QED BY <2>2, <4>2, <5>4, <5>5, BlockByte
      <4>4. CASE ~ Verified(b)
        <5>1. off + i < b.key + BufCap
          BY <1>0, <2>3, <4>2, BufCapAssumption
        <5> QED BY <2>2, <4>2, <4>4, <5>1 DEF Exposed
      <4> QED BY <4>3, <4>4
    <3> HIDE DEF d
    <3> QED BY <1>a, <2>3, <2>4, <3>1
  <2> QED BY <1>b, <1>c, <2>1, <2>4
<1> QED BY <1>1, <1>2, <1>3, <1>4, <1>5, <1>6, <1>7, <1>d DEF Read

(* No read changes the file.                                               *)
LEMMA FileStays ==
    ASSUME TypeOK, NEW off \in Offsets, NEW n \in Counts, Read(off, n)
    PROVE  file' = file
<1>1. CASE ReadAtEOF(off, n)
  BY <1>1 DEF ReadAtEOF, Send, Reply
<1>2. CASE ReadPastEOF(off, n)
  BY <1>2 DEF ReadPastEOF, Reply
<1>3. CASE ReadDirect(off, n)
  BY <1>3 DEF ReadDirect, Send, Reply, Abort
<1>4. CASE ReadCached(off, n)
  BY <1>4, Zenon DEF ReadCached, Send, Reply, Abort
<1>5. CASE ReadHole(off, n)
  BY <1>5, Zenon DEF ReadHole, Send, Reply, Abort
<1>6. CASE MeetEmptyBlock(off, n)
  BY <1>6, Zenon DEF MeetEmptyBlock, Abort
<1>7. CASE ReadBlock(off, n)
  <2>1. CASE Abort
    BY <2>1 DEF Abort
  <2>2. CASE ~ Abort
    BY <1>7, <2>2, ReadBlockResult
  <2> QED BY <2>1, <2>2
<1> QED BY <1>1, <1>2, <1>3, <1>4, <1>5, <1>6, <1>7 DEF Read

(* The replies of a file whose list is sorted are true.                    *)
THEOREM RepliesAreTrue == Spec => []SortedRepliesTrue
<1>1. Init => SortedRepliesTrue
  BY DEF Init, SortedRepliesTrue, RepliesTrue
<1>2. TypeOK /\ CacheCoherent /\ SortedRepliesTrue /\ [Next]_vars
        => SortedRepliesTrue'
  <2> SUFFICES ASSUME TypeOK, CacheCoherent, SortedRepliesTrue, [Next]_vars
               PROVE  SortedRepliesTrue'
    OBVIOUS
  <2>1. CASE Open \/ UNCHANGED vars
    BY <2>1 DEF Open, vars, SortedRepliesTrue, RepliesTrue, Sorted, Sized,
                Content, Exposed, BlockSet, Spans
  <2>2. CASE \E off \in Offsets, n \in Counts : Read(off, n)
    <3>1. file' = file
      BY <2>2, FileStays
    <3> QED BY <2>2, <3>1, ReadTrue DEF SortedRepliesTrue, Sorted, Sized, BlockSet
  <2> QED BY <2>1, <2>2 DEF Next
<1> QED BY <1>1, <1>2, TypeCorrect, CacheIsCoherent, PTL DEF Spec
-----------------------------------------------------------------------------
(* No action of Read ends the server when the file is servable.            *)
LEMMA ReadServes ==
    ASSUME TypeOK, Servable(file), ~ crashed,
           NEW off \in Offsets, NEW n \in Counts, Read(off, n)
    PROVE  ~ crashed'
<1>0. /\ off \in Nat /\ n \in Nat /\ n > 0 /\ file.size \in Nat
  BY FileFacts, RequestsAssumption DEF Servable
<1>a. ASSUME NEW kind, NEW c, NEW d, Reply(kind, off, n, c, d)
      PROVE  ~ crashed'
  BY <1>a DEF Reply
<1>1. CASE ReadAtEOF(off, n) \/ ReadPastEOF(off, n)
  BY <1>1 DEF ReadAtEOF, ReadPastEOF, Send, Reply
<1>2. CASE ReadDirect(off, n)
  <2>1. off < EmbedMax
    BY <1>0, <1>2, BoundsAssumption DEF ReadDirect, Servable, Sized
  <2> QED BY <1>2, <2>1 DEF ReadDirect, Send, Reply
<1>3. CASE ReadCached(off, n)
  <2>1. off < file.size /\ Hit(off)
    BY <1>3 DEF ReadCached, FromDisk
  <2>2. HitCount(off, n) > 0
    BY <1>0, <2>1, HitFacts
  <2> QED BY <1>3, <2>2 DEF ReadCached, Send, Reply
<1>4. ASSUME FromDisk(off)
      PROVE  /\ datablocks = file.blocks /\ Len(datablocks) \in Nat
             /\ \A i \in 1 .. Len(datablocks) :
                  /\ BlockAt(i).key \in Nat /\ BlockAt(i).len \in Nat \ {0}
                  /\ BlockAt(i).key < End(BlockAt(i))
                  /\ BlockAt(i).check # "freemap"
                  /\ i = Len(datablocks) => End(BlockAt(i)) = file.size
  <2>1. datablocks = file.blocks /\ Len(datablocks) \in Nat
    BY <1>4, FileFacts DEF TypeOK, FromDisk, Serving
  <2>2. SUFFICES ASSUME NEW i \in 1 .. Len(datablocks)
        PROVE  /\ BlockAt(i).key \in Nat /\ BlockAt(i).len \in Nat \ {0}
               /\ BlockAt(i).key < End(BlockAt(i))
               /\ BlockAt(i).check # "freemap"
               /\ i = Len(datablocks) => End(BlockAt(i)) = file.size
    BY <2>1
  <2>3. BlockAt(i).key \in Nat /\ BlockAt(i).len \in Nat \ {0}
    BY FileFacts, BufCapAssumption DEF BlockRef
  <2>4. /\ BlockAt(i).key < file.size
        /\ i = Len(datablocks) => file.size <= BlockAt(i).key + BlockAt(i).len
    BY <2>1 DEF Servable, NoTrailingHole, BlockAt
  <2>5. BlockAt(i).check # "freemap"
    BY FileFacts DEF Servable, NoFreemap
  <2>6. /\ BlockAt(i).key < End(BlockAt(i))
        /\ i = Len(datablocks) => End(BlockAt(i)) = file.size
    BY <1>0, <2>3, <2>4 DEF End
  <2> QED BY <2>3, <2>5, <2>6
<1>5. CASE ReadHole(off, n)
  <2>1. FromDisk(off) /\ InHole(off) /\ off < file.size
    BY <1>5 DEF ReadHole, FromDisk
  <2>2. Nearest(off) > off
    <3>1. CASE NoStop(off) /\ Len(datablocks) = 0
      BY <2>1, <3>1, <1>0, NearestIs
    <3>2. CASE NoStop(off) /\ Len(datablocks) # 0
      <4>1. Len(datablocks) \in 1 .. Len(datablocks)
        BY <1>4, <2>1, <3>2
      <4>2. End(BlockAt(Len(datablocks))) = file.size
        BY <1>4, <2>1, <4>1
      <4>3. End(BlockAt(Len(datablocks))) <= off
        BY <1>0, <3>2, <4>1, PassedBy DEF NoStop
      <4> QED BY <1>0, <2>1, <4>2, <4>3
    <3>3. CASE ~ NoStop(off)
      <4>1. PICK i \in 1 .. Len(datablocks) :
               FirstStop(i, off) /\ ~ Covers(BlockAt(i), off)
        BY <2>1, <3>3 DEF InHole
      <4>2. BlockAt(i).key < End(BlockAt(i))
        BY <1>4, <2>1
      <4>3. BlockAt(i).key > off
        BY <4>1, <4>2 DEF FirstStop, Stops
      <4> QED BY <1>0, <4>1, <4>3, NearestIs
    <3> QED BY <3>1, <3>2, <3>3
  <2>3. Nearest(off) \in Nat /\ Nearest(off) <= file.size
    BY <1>0, <2>1, <2>2, HoleFacts
  <2>4. Nearest(off) < IntRange
    BY <1>0, <2>3, RequestsAssumption DEF Servable
  <2>5. HoleCount(off, n) > 0
    BY <1>0, <2>2, <2>3, <2>4, HoleCountFacts
  <2> QED BY <1>5, <2>2, <2>5 DEF ReadHole, Send, Reply
<1>6. CASE MeetEmptyBlock(off, n)
  <2>1. FromDisk(off)
    BY <1>6 DEF MeetEmptyBlock
  <2>2. PICK i \in 1 .. Len(datablocks) : ~ End(BlockAt(i)) > BlockAt(i).key
    BY <1>6 DEF MeetEmptyBlock
  <2> QED BY <1>4, <2>1, <2>2
<1>7. CASE ReadBlock(off, n)
  <2>1. FromDisk(off)
    BY <1>7 DEF ReadBlock
  <2>2. PICK i \in 1 .. Len(datablocks), image \in Images :
           /\ Covers(BlockAt(i), off)
           /\ Load(BlockAt(i), off, n, image)
    BY <1>4, <1>7, <2>1 DEF ReadBlock
  <2>3. BlockAt(i).key <= off /\ off < End(BlockAt(i))
    BY <2>2 DEF Covers
  <2>4. MissCount(BlockAt(i), off, n) > 0
    BY <1>0, <2>3, MissFacts
  <2> QED BY <2>2, <2>4 DEF Load, Send, Reply
<1> QED BY <1>1, <1>2, <1>3, <1>5, <1>6, <1>7 DEF Read

(* The asserts of fileread and verifycheck hold on every servable file.    *)
THEOREM AssertsDoHold == Spec => []AssertsHold
<1>1. Init => AssertsHold
  BY DEF Init, AssertsHold
<1>2. TypeOK /\ AssertsHold /\ [Next]_vars => AssertsHold'
  <2> SUFFICES ASSUME TypeOK, AssertsHold, [Next]_vars PROVE AssertsHold'
    OBVIOUS
  <2>1. CASE Open \/ UNCHANGED vars
    BY <2>1 DEF Open, vars, AssertsHold, Servable, Sized, Sorted,
                NoTrailingHole, NoFreemap, BlockSet
  <2>2. CASE \E off \in Offsets, n \in Counts : Read(off, n)
    <3>1. file' = file
      BY <2>2, FileStays
    <3> QED BY <2>2, <3>1, ReadServes DEF AssertsHold, Servable, Sized, Sorted,
               NoTrailingHole, NoFreemap, BlockSet
  <2> QED BY <2>1, <2>2 DEF Next
<1> QED BY <1>1, <1>2, TypeCorrect, PTL DEF Spec
-----------------------------------------------------------------------------
(* What one Tread does to the reply, by the kinds of FileSpec.             *)
LEMMA ReadReplies ==
    ASSUME TypeOK, NEW off \in Offsets, NEW n \in Counts, Read(off, n)
    PROVE  /\ file' = file
           /\ \/ UNCHANGED out
              \/ off = file.size /\ Reply("data", off, n, 0, NoData)
              \/ off > file.size /\ Reply("error", off, n, 0, NoData)
              \/ /\ off < file.size /\ ~ file.direct
                 /\ Reply("error", off, n, 0, NoData)
              \/ /\ off < file.size
                 /\ \E c, d : Reply("data", off, n, c, d)
<1>1. CASE ReadAtEOF(off, n) \/ ReadPastEOF(off, n)
  BY <1>1 DEF ReadAtEOF, ReadPastEOF, Send, Reply
<1>2. CASE ReadDirect(off, n)
  BY <1>2 DEF ReadDirect, Send, Reply, Abort
<1>3. CASE ReadCached(off, n)
  BY <1>3 DEF ReadCached, FromDisk, Send, Reply, Abort
<1>4. CASE ReadHole(off, n)
  BY <1>4 DEF ReadHole, FromDisk, Send, Reply, Abort
<1>5. CASE MeetEmptyBlock(off, n)
  BY <1>5 DEF MeetEmptyBlock, Abort
<1>6. CASE ReadBlock(off, n)
  <2>1. off < file.size /\ ~ file.direct
    BY <1>6 DEF ReadBlock, FromDisk
  <2>2. CASE Abort
    BY <2>2 DEF Abort
  <2>3. CASE ~ Abort
    <3>1. /\ file' = file
          /\ \E i \in 1 .. Len(datablocks) :
                \/ Reply("error", off, n, 0, NoData)
                \/ \E d : Reply("data", off, n, MissCount(BlockAt(i), off, n), d)
                \/ UNCHANGED out
      BY <1>6, <2>3, ReadBlockResult
    <3> QED BY <2>1, <3>1
  <2> QED BY <2>2, <2>3
<1> QED BY <1>1, <1>2, <1>3, <1>4, <1>5, <1>6 DEF Read

(* The cache, the list of blocks and the medium are invisible to a client: *)
(* every run of the fid is a run of the abstract file.                     *)
THEOREM ImplementsFile == Spec => AbsSpec
<1> DEFINE Inv == TypeOK /\ RepliesAdvance /\ SortedRepliesTrue
<1>1. Init => Abs!Init
  BY DEF Init, Abs!Init, Abs!NoReply, Abs!NoData, NoData
<1>2. Inv /\ Inv' /\ [Next]_vars => [Abs!Next]_(Abs!vars)
  <2> SUFFICES ASSUME Inv, Inv', [Next]_vars PROVE [Abs!Next]_(Abs!vars)
    OBVIOUS
  <2>1. CASE Open \/ UNCHANGED vars
    BY <2>1 DEF Open, vars, Abs!vars
  <2>2. ASSUME NEW off \in Offsets, NEW n \in Counts, Read(off, n)
        PROVE  [Abs!Next]_(Abs!vars)
    <3>0. off \in Nat /\ n \in Nat /\ file.size \in Nat
      BY FileFacts, RequestsAssumption
    <3>1. file' = file
      BY <2>2, ReadReplies
    <3>2. SUFFICES ASSUME out' # out PROVE Abs!Read(off, n)
      BY <3>1 DEF Abs!Next, Abs!vars
    <3>3. CASE off = file.size /\ Reply("data", off, n, 0, NoData)
      BY <3>3 DEF Abs!Read, Abs!AtEOF, Abs!Reply, Abs!NoData, Reply, NoData
    <3>4. CASE off > file.size /\ Reply("error", off, n, 0, NoData)
      BY <3>4 DEF Abs!Read, Abs!PastEOF, Abs!Reply, Abs!NoData, Reply, NoData
    <3>5. CASE off < file.size /\ ~ file.direct /\ Reply("error", off, n, 0, NoData)
      BY <3>5 DEF Abs!Read, Abs!IOError, Abs!Reply, Abs!NoData, Reply, NoData
    <3>6. ASSUME NEW c, NEW d, off < file.size, Reply("data", off, n, c, d)
          PROVE  Abs!Read(off, n)
      <4>1. out' = [kind |-> "data", off |-> off, req |-> n, cnt |-> c, data |-> d]
        BY <3>6 DEF Reply
      <4>2. c \in Nat /\ d \in [0 .. c - 1 -> Byte]
        BY <4>1 DEF TypeOK
      <4>3. off + c <= file.size /\ c # 0 /\ (file.direct \/ c <= n)
        BY <3>0, <3>1, <3>6, <4>1 DEF RepliesAdvance
      <4>4. c \in 1 .. file.size - off
        BY <3>0, <4>2, <4>3
      <4>5. \A i \in 0 .. c - 1 : out'.data[i] \in May(file, off + i)
        <5> SUFFICES ASSUME NEW i \in 0 .. c - 1
                     PROVE  d[i] \in May(file, off + i)
          BY <4>1
        <5>1. d[i] \in Byte
          BY <4>2
        <5>2. ASSUME Sorted(file), Sized(file)
              PROVE  \/ d[i] = Content(file, off + i)
                     \/ \E b \in BlockSet(file) :
                           /\ ~ Verified(b) /\ b.key <= off + i
                           /\ off + i < b.key + BufCap
          <6>1. RepliesTrue'
            BY <3>1, <5>2 DEF SortedRepliesTrue, Sorted, Sized, BlockSet
          <6> QED BY <3>1, <4>1, <6>1 DEF RepliesTrue, Exposed
        <5> QED BY <5>1, <5>2, Zenon DEF May
      <4>6. out' \in [kind : {"data"}, off : {off}, req : {n}, cnt : {c},
                      data : [0 .. c - 1 -> Byte]]
        BY <4>1, <4>2
      <4>7. Abs!Bytes(off, n)
        BY <3>6, <4>3, <4>4, <4>5, <4>6 DEF Abs!Bytes
      <4> QED BY <4>7 DEF Abs!Read
    <3> QED BY <2>2, <3>2, <3>3, <3>4, <3>5, <3>6, ReadReplies
  <2> QED BY <2>1, <2>2 DEF Next
<1> QED BY <1>1, <1>2, TypeCorrect, RepliesDoAdvance, RepliesAreTrue, PTL
        DEF Spec, AbsSpec, Abs!Spec
=============================================================================
