----------------------------- MODULE Lz4Proofs -----------------------------
(***************************************************************************)
(* What the compressor of lz4.c promises, for a block alone, a row of      *)
(* blocks with one state, and a stream: it refers back only to bytes the   *)
(* decompressor still has, writes and reads within its buffers, does not   *)
(* fail where dst is large enough, and keeps the history that its table    *)
(* speaks of.  And for the calls of one block: what it writes tells what   *)
(* it was given, so that every decompressor gives that back.               *)
(***************************************************************************)
EXTENDS CodecProofs

(* The compressor.  States(D) are those of LZ4_stream_t_internal to which  *)
(* a state of D may be attached; the states of dictionaries have none.     *)
States(D) ==
    [off : Nat, dictionary : Int, dictSize : Nat, dictCtx : SUBSET D,
     type : {"clearedTable", "byU16", "byU32"}, table : [0 .. slots - 1 -> Nat]]
DictStates == States({})

(* What LZ4_loadDict() makes of the dictionary.                            *)
DictOK(d) ==
    /\ d.off = KB64 /\ d.dictSize \in 1 .. KB64 /\ d.dictionary \in Nat
    /\ d.dictionary + d.dictSize = Len(way.dict)
    /\ \A h \in 0 .. slots - 1 :
          \/ d.table[h] = 0
          \/ KB64 - d.dictSize <= d.table[h] /\ d.table[h] + 8 <= KB64

(* No index is among the last eight of what was compressed.                *)
StateOK(c) ==
    /\ c \in States(DictStates)
    /\ c.dictSize <= c.off
    /\ \A h \in 0 .. slots - 1 : c.table[h] = 0 \/ c.table[h] + 8 <= c.off
    /\ \A d \in c.dictCtx : DictOK(d)

(* The indexes from before the block, and what is looked at of them: none, *)
(* or those of the last n bytes, which are in front of the block or in the *)
(* dictionary.                                                             *)
OldLow(tab) ==
    \A h \in 0 .. slots - 1 :
        tab[h] < job.startIndex => tab[h] = 0 \/ tab[h] + 8 <= job.startIndex

OldUnused(tab) ==
    \A h \in 0 .. slots - 1 : tab[h] < job.startIndex =>
        \/ job.dictSmall /\ job.prefixIdxLimit = job.startIndex
        \/ job.type = "byU32" /\ tab[h] + KB64 <= job.startIndex

Reached(n) ==
    /\ n \in Nat /\ n <= job.startIndex /\ job.prefixIdxLimit = job.startIndex - n
    /\ job.dictSmall \/ n >= KB64 \/ n = job.startIndex

OldInPrefix ==
    LET n == job.start - job.lowLimit
    IN  Reached(n) /\ job.lowLimit \in Nat

Elsewhere ==
    /\ job.lowLimit = job.start
    /\ job.dictionary # job.start
    /\ job.dictEnd - job.dictionary \in Nat
    /\ job.dictEnd # job.dictionary => job.dictionary \in Nat

OldInDict(tab) ==
    LET n == job.dictEnd - job.dictionary
    IN  /\ Elsewhere
        /\ job.dictDelta = 0 /\ job.dictBase = job.dictEnd - job.startIndex
        /\ n > 0 => job.startIndex >= 4
        /\ \/ Reached(n)
           \/ /\ job.prefixIdxLimit = job.startIndex - n /\ n \in 1 .. job.startIndex
              /\ \A h \in 0 .. slots - 1 : tab[h] < job.startIndex =>
                    \/ tab[h] >= job.startIndex - n
                    \/ tab[h] + KB64 <= job.startIndex

OldInDictCtx ==
    LET n == job.dictEnd - job.dictionary
    IN  /\ Elsewhere /\ n \in 1 .. KB64
        /\ job.dictDelta = job.startIndex - KB64 /\ job.dictBase = job.dictEnd - KB64
        /\ ~job.dictSmall
        /\ job.dictTable \in [0 .. slots - 1 -> Nat]
        /\ \A h \in 0 .. slots - 1 :
              \/ job.dictTable[h] = 0
              \/ KB64 - n <= job.dictTable[h] /\ job.dictTable[h] + 8 <= KB64

OldFine(tab) ==
    /\ OldLow(tab)
    /\ job.dict = "noDict" => OldUnused(tab) /\ job.lowLimit = job.start
    /\ job.dict = "withPrefix64k" => OldInPrefix
    /\ job.dict = "usingExtDict" => OldInDict(tab)
    /\ job.dict = "usingDictCtx" => OldInDictCtx

Busy == pc \in {"search", "literals", "match", "next", "last", "done"}

JobOK ==
    /\ job.start \in Nat /\ job.size \in Nat /\ iend <= Len(buf)
    /\ job.cap \in Nat /\ job.acceleration \in Nat \ {0}
    /\ job.limit \in {"notLimited", "limitedOutput", "fillOutput"}
    /\ job.type \in {"byU16", "byU32"} /\ job.dictSmall \in BOOLEAN
    /\ job.dict \in {"noDict", "withPrefix64k", "usingExtDict", "usingDictCtx"}
    /\ job.startIndex \in Nat
    /\ job.prefixIdxLimit \in Int /\ job.lowLimit \in Int /\ job.dictionary \in Int
    /\ job.dictEnd \in Int /\ job.dictBase \in Int /\ job.dictDelta \in Int
    /\ job.type = "byU16" =>
          job.dict = "noDict" /\ job.startIndex + job.size < LZ4_64Klimit

Begun ==
    /\ JobOK
    /\ pc # "done" => ctx.off = job.startIndex + job.size /\ OldFine(ctx.table)

(* A match at p with what is at m, which is lo or behind it, bk bytes away *)
(* in the external modes.                                                  *)
Alike(p, m, n) == \A k \in 0 .. n - 1 : B(p + k) = B(m + k)

InDict(lo) == External /\ lo = job.dictionary

Landed(p, m, lo, bk) ==
    /\ m \in Int /\ lo \in Nat /\ lo <= m /\ m + MINMATCH <= Len(buf)
    /\ IF InDict(lo) THEN m + MINMATCH <= job.dictEnd ELSE m < p
    /\ (IF External THEN bk ELSE p - m) \in 1 .. MAX_DISTANCE
    /\ Alike(p, m, MINMATCH)

(* All indexes are below i.                                                *)
Below(tab, i) == \A h \in 0 .. slots - 1 : tab[h] < i

(* dst is so full that the next match will be given up.                    *)
Full == job.limit = "fillOutput" /\ Len(dst) + 8 >= job.cap

(* At a match, n bytes more are known to be equal, and no index is beyond  *)
(* them.                                                                   *)
Ahead(n) ==
    /\ Below(ctx.table, Index(ip) + n + 1)
    /\ ip + n + MFLIMIT <= iend
    /\ Alike(ip, match, n + MINMATCH)
    /\ InDict(low) => match + n + MINMATCH <= job.dictEnd

AtSearch ==
    /\ anchor \in Nat /\ Start <= anchor /\ anchor <= iend
    /\ fwd \in Nat /\ anchor <= fwd /\ Start < fwd
    /\ step \in Nat /\ step >= 1 /\ nb \in Nat /\ nb >= LZ4_skipTrigger
    /\ Full \/ Below(ctx.table, Index(fwd))

AtLiterals ==
    /\ anchor \in Nat /\ Start <= anchor /\ ip \in Nat /\ anchor <= ip /\ Start < ip
    /\ ip + MFLIMIT <= iend
    /\ match \in Int /\ low \in Int
    /\ Full \/ (Below(ctx.table, Index(ip) + 1) /\ Landed(ip, match, low, back))

AtMatch ==
    /\ anchor \in Nat /\ Start <= anchor /\ ip \in Nat /\ anchor <= ip
    /\ ip + MFLIMIT <= iend
    /\ token < Len(dst)
    /\ ~Rewind => Landed(ip, match, low, back) /\ \E n \in Nat : Ahead(n)

AtNext ==
    /\ ip \in Nat /\ anchor = ip /\ Start + 2 <= ip /\ ip + MFLIMIT <= iend
    /\ Full \/ Below(ctx.table, Index(ip))

AtLast == anchor \in Nat /\ Start <= anchor /\ anchor <= iend

LoopOK ==
    /\ pc = "search" => AtSearch
    /\ pc = "literals" => AtLiterals
    /\ pc = "match" => AtMatch
    /\ pc = "next" => AtNext
    /\ pc = "last" => AtLast

(* The caller's memory, and where the stream's next block and the          *)
(* dictionary are in it.                                                   *)
Laid(ends) ==
    /\ ends \in [0 .. Len(sizes) -> Nat]
    /\ ends[0] = iend
    /\ \A k \in 1 .. Len(sizes) : ends[k] = ends[k - 1] + sizes[k]
    /\ \A k \in 0 .. Len(sizes) : ends[k] <= Len(buf)

BlocksOK ==
    /\ sizes \in Seq(Nat) /\ \E ends : Laid(ends)
    /\ job.start \in Nat /\ job.size \in Nat
    /\ ctx.dictCtx = {}
    /\ ctx.type = "clearedTable" => ctx.off = 0
    /\ Busy => job.dict = "noDict"

PlaceOK ==
    /\ at \in Nat
    /\ CASE way.sender = "ring" -> /\ way.origin <= at
                                   /\ at + MaxBlock <= way.origin + way.ring
         [] way.sender = "double" -> at \in {way.origin, way.origin + MaxBlock + 1}
         [] way.sender = "save" -> at = way.origin

(* The dictionary is in front of the next block or behind its end.         *)
DictPlaceOK(c) ==
    c.dictSize > 0 =>
        /\ c.dictionary \in Nat
        /\ c.dictionary + c.dictSize <= at \/ at + MaxBlock < c.dictionary + c.dictSize

StreamOK ==
    /\ way \in Ways /\ Documented(way)
    /\ Len(buf) = Extent(way.sender, way.origin, way.ring)
    /\ text = way.text /\ sent \in Nat /\ (Busy => job.size <= sent)
    /\ sizes # << >> => sizes = << sizes[1] >> /\ sizes[1] \in 1 .. MaxBlock
    /\ pc # "idle" => sizes = << >>
    /\ pc # "fresh" => PlaceOK
    /\ pc = "idle" => DictPlaceOK(ctx)
    /\ Busy => /\ job.start = at /\ job.size \in 1 .. MaxBlock
               /\ job.dict # "noDict"
    /\ Busy => /\ ctx.dictionary \in Nat
               /\ ctx.dictionary + ctx.dictSize = iend

CoreOK ==
    /\ slots \in Nat \ {0}
    /\ buf \in Seq(Nat)
    /\ dst \in Seq(Int) /\ token \in Nat
    /\ pc \in {"idle", "fresh", "search", "literals", "match", "next", "last", "done"}
    /\ StateOK(ctx)
    /\ Busy => Begun
    /\ LoopOK

EncInv ==
    /\ CoreOK
    /\ IF InBlocks THEN BlocksOK ELSE StreamOK

-----------------------------------------------------------------------------
LEMMA SizesOK ==
    /\ KB64 \in Nat /\ KB64 >= 16 /\ KB4 \in Nat /\ GB1 \in Nat
    /\ MaxBlock \in Nat /\ GB2 \in Nat /\ GB2 >= KB64 + MaxBlock
    /\ LZ4_64Klimit = KB64 + 11 /\ MAX_DISTANCE = KB64 - 1
  BY EncodeAssumption, StreamAssumption
     DEF LZ4_64Klimit, MFLIMIT, MAX_DISTANCE

LEMMA ByteIs ==
    ASSUME buf \in Seq(Nat), NEW p \in Nat, p < Len(buf)
    PROVE  B(p) \in Nat
<1>1. p + 1 \in 1 .. Len(buf)
  OBVIOUS
<1> QED BY <1>1, ElementOfSeq DEF B

LEMMA HashIs ==
    ASSUME buf \in Seq(Nat), slots \in Nat \ {0}, NEW p \in Nat, p + 5 <= Len(buf),
           NEW type
    PROVE  LZ4_hashPosition(p, type) \in 0 .. slots - 1
<1> DEFINE b0 == B(p)
           b1 == B(p + 1)
           b2 == B(p + 2)
           b3 == B(p + 3)
           b4 == B(p + 4)
           low4 == b0 + 3 * b1 + 9 * b2 + 27 * b3
           w == IF type = "byU16" THEN low4 ELSE low4 + 81 * b4
<1>1. b0 \in Nat /\ b1 \in Nat /\ b2 \in Nat /\ b3 \in Nat /\ b4 \in Nat
  <2>1. /\ p \in Nat /\ p + 1 \in Nat /\ p + 2 \in Nat /\ p + 3 \in Nat /\ p + 4 \in Nat
        /\ p < Len(buf) /\ p + 1 < Len(buf) /\ p + 2 < Len(buf) /\ p + 3 < Len(buf)
        /\ p + 4 < Len(buf)
    OBVIOUS
  <2> QED BY <2>1, ByteIs
<1>2. LZ4_hashPosition(p, type) = w % slots
  BY DEF LZ4_hashPosition
<1> HIDE DEF b0, b1, b2, b3, b4
<1>3. w \in Nat
  BY <1>1
<1> HIDE DEF w
<1>4. w % slots \in 0 .. slots - 1
  BY <1>3
<1> QED BY <1>2, <1>4

(* How far two stretches are equal.                                        *)
LEMMA CountIs ==
    ASSUME NEW p \in Int, NEW m \in Int, NEW limit \in Int, p <= limit
    PROVE  LET c == LZ4_count(p, m, limit)
           IN  /\ c \in 0 .. limit - p
               /\ \A k \in 0 .. c - 1 : B(p + k) = B(m + k)
               /\ c < limit - p => B(p + c) # B(m + c)
<1> DEFINE T == {k \in 0 .. limit - p - 1 : B(p + k) # B(m + k)}
           c == LZ4_count(p, m, limit)
<1>0. /\ c = IF T = {} THEN limit - p ELSE Min(T)
      /\ \A k \in 0 .. limit - p - 1 : k \in T <=> B(p + k) # B(m + k)
      /\ T \subseteq Nat /\ T \subseteq 0 .. limit - p - 1
  BY DEF LZ4_count
<1> HIDE DEF T, c
<1>1. CASE T = {}
  BY <1>0, <1>1 DEF c
<1>2. CASE T # {}
  <2>1. c \in T /\ \A y \in T : c <= y
    BY <1>0, <1>2, LeastTaken, Zenon
  <2>2. c \in 0 .. limit - p - 1 /\ B(p + c) # B(m + c)
    BY <1>0, <2>1
  <2>3. ASSUME NEW k \in 0 .. c - 1 PROVE B(p + k) = B(m + k)
    <3>1. k \in 0 .. limit - p - 1 /\ ~(c <= k)
      BY <2>2
    <3> QED BY <1>0, <2>1, <3>1
  <2> QED BY <2>2, <2>3 DEF c
<1> QED BY <1>1, <1>2

LEMMA CountAtLeast ==
    ASSUME NEW p \in Int, NEW m \in Int, NEW limit \in Int, NEW n \in Nat,
           p + n <= limit, Alike(p, m, n)
    PROVE  LZ4_count(p, m, limit) >= n
<1> DEFINE c == LZ4_count(p, m, limit)
<1>1. /\ c \in 0 .. limit - p
      /\ c < limit - p => B(p + c) # B(m + c)
  <2>1. p <= limit
    OBVIOUS
  <2> QED BY <2>1, CountIs
<1> HIDE DEF c
<1>2. c < n => c \in 0 .. n - 1 /\ c < limit - p
  BY <1>1
<1>3. c < n => FALSE
  BY <1>1, <1>2 DEF Alike
<1> QED BY <1>1, <1>3 DEF c

(* Four bytes that equal four in memory are in memory.                     *)
LEMMA ReadIs ==
    ASSUME buf \in Seq(Nat), NEW p \in Nat, p + 4 <= Len(buf), NEW m \in Int
    PROVE  /\ Read32(m) = Read32(p) =>
                 0 <= m /\ m + 4 <= Len(buf) /\ Alike(p, m, MINMATCH)
           /\ 0 <= m /\ m + 4 <= Len(buf) /\ Alike(p, m, MINMATCH) =>
                 Read32(m) = Read32(p)
<1> DEFINE In4(q) == 0 <= q /\ q + 4 <= Len(buf)
<1>1. ASSUME NEW q \in Int, In4(q)
      PROVE  /\ Read32(q) \in Seq(Nat) /\ Len(Read32(q)) = 4
             /\ \A k \in 0 .. 3 : Read32(q)[k + 1] = B(q + k)
  <2> DEFINE s == SubSeq(buf, q + 1, q + 4)
  <2>1. /\ q + 1 \in Int /\ q + 4 \in Int /\ q + 1 <= q + 4
        /\ (q + 4) - (q + 1) + 1 = 4
        /\ \A i \in q + 1 .. q + 4 : i \in 1 .. Len(buf)
    BY <1>1
  <2>2. \A i \in q + 1 .. q + 4 : buf[i] \in Nat
    BY <2>1, ElementOfSeq
  <2>3. /\ s \in Seq(Nat) /\ Len(s) = 4
        /\ \A i \in 1 .. 4 : s[i] = buf[q + 1 + i - 1]
    <3> DEFINE u == q + 1
               v == q + 4
    <3>1. u \in Int /\ v \in Int /\ u <= v /\ v - u + 1 = 4 /\ \A i \in u .. v : buf[i] \in Nat
      BY <2>1, <2>2
    <3> HIDE DEF u, v
    <3>2. /\ SubSeq(buf, u, v) \in Seq(Nat)
          /\ Len(SubSeq(buf, u, v)) = IF u <= v THEN v - u + 1 ELSE 0
          /\ \A i \in 1 .. v - u + 1 : SubSeq(buf, u, v)[i] = buf[u + i - 1]
      BY <3>1, SubSeqProperties
    <3> QED BY <3>1, <3>2 DEF u, v
  <2>4. Read32(q) = s
    BY <1>1 DEF Read32
  <2> HIDE DEF s
  <2>5. ASSUME NEW k \in 0 .. 3 PROVE s[k + 1] = B(q + k)
    <3>1. k + 1 \in 1 .. 4 /\ q + 1 + (k + 1) - 1 = (q + k) + 1
      OBVIOUS
    <3>2. s[k + 1] = buf[q + 1 + (k + 1) - 1]
      BY <2>3, <3>1
    <3> QED BY <3>1, <3>2, Zenon DEF B
  <2> QED BY <2>3, <2>4, <2>5
<1>2. /\ Read32(p) \in Seq(Nat) /\ Len(Read32(p)) = 4
      /\ \A k \in 0 .. 3 : Read32(p)[k + 1] = B(p + k)
  BY <1>1
<1>3. ASSUME Read32(m) = Read32(p) PROVE In4(m)
  <2>1. ~In4(m) => Read32(m) = << >>
    BY DEF Read32
  <2>2. Read32(p) # << >>
    <3>1. Len(<< >>) = 0
      BY EmptySeq
    <3>2. 4 # 0
      OBVIOUS
    <3> QED BY <1>2, <3>1, <3>2, Zenon
  <2> QED BY <1>3, <2>1, <2>2
<1>4. ASSUME In4(m)
      PROVE  Read32(m) = Read32(p) <=> \A k \in 0 .. 3 : B(p + k) = B(m + k)
  <2> DEFINE s == Read32(m)
             t == Read32(p)
  <2>1. s \in Seq(Nat) /\ Len(s) = 4 /\ \A k \in 0 .. 3 : s[k + 1] = B(m + k)
    BY <1>1, <1>4
  <2>2. t \in Seq(Nat) /\ Len(t) = 4 /\ \A k \in 0 .. 3 : t[k + 1] = B(p + k)
    BY <1>2
  <2> HIDE DEF s, t
  <2>3. s = t => \A k \in 0 .. 3 : B(p + k) = B(m + k)
    BY <2>1, <2>2
  <2>4. ASSUME \A k \in 0 .. 3 : B(p + k) = B(m + k) PROVE s = t
    <3>1. ASSUME NEW i \in 1 .. Len(s) PROVE s[i] = t[i]
      <4>1. i - 1 \in 0 .. 3 /\ (i - 1) + 1 = i
        BY <2>1
      <4> QED BY <2>1, <2>2, <2>4, <4>1
    <3>2. s \in Seq(Nat) /\ t \in Seq(Nat) /\ Len(s) = Len(t)
      BY <2>1, <2>2
    <3> QED BY ONLY <3>1, <3>2, SeqEqual
  <2> QED BY <2>3, <2>4 DEF s, t
<1>5. Alike(p, m, MINMATCH) <=> \A k \in 0 .. 3 : B(p + k) = B(m + k)
  BY DEF Alike, MINMATCH
<1> QED BY <1>3, <1>4, <1>5

(* Whatever a slot holds, a candidate that is taken is a match.            *)
LEMMA Accepted ==
    ASSUME buf \in Seq(Nat), JobOK,
           NEW tab \in [0 .. slots - 1 -> Nat], OldFine(tab),
           NEW slot \in 0 .. slots - 1,
           NEW p \in Nat, Start < p, p + MFLIMIT <= iend, tab[slot] < Index(p),
           Matches(Candidate(tab, slot), p)
    PROVE  LET c == Candidate(tab, slot)
           IN  Landed(p, c.match, c.low, Index(p) - c.index)
<1> DEFINE c == Candidate(tab, slot)
           x == tab[slot]
           s == job.start
           si == job.startIndex
           pos == p - s + si
           m == c.match
           n == job.dictEnd - job.dictionary
           t == IF job.dict = "usingDictCtx" THEN job.dictTable[slot] ELSE x
<1>1. /\ s \in Nat /\ si \in Nat /\ x \in Nat /\ x < pos /\ s < p
      /\ p + 12 <= s + job.size /\ s + job.size <= Len(buf) /\ job.size \in Nat
      /\ Index(p) = pos /\ pos \in Nat /\ p + 4 <= Len(buf) /\ Len(buf) \in Nat
  <2>1. Index(p) = pos
    BY DEF Index, Start
  <2>2. s \in Nat /\ si \in Nat /\ job.size \in Nat /\ s + job.size <= Len(buf)
    BY DEF JobOK, iend
  <2>3. x \in Nat /\ x < pos
    BY <2>1
  <2>4. s < p /\ p + 12 <= s + job.size
    BY DEF Start, iend, MFLIMIT
  <2>5. Len(buf) \in Nat
    BY LenProperties
  <2> HIDE DEF x, s, si
  <2>6. pos \in Nat /\ p + 4 <= Len(buf)
    BY <2>2, <2>4, <2>5
  <2> QED BY <2>1, <2>2, <2>3, <2>4, <2>5, <2>6
<1>2. /\ job.dictSmall => c.index >= job.prefixIdxLimit
      /\ job.type # "byU16" => c.index + (KB64 - 1) >= pos
      /\ Read32(m) = Read32(p)
  BY <1>1, SizesOK DEF Matches
<1>3. IF External /\ x < si
      THEN c.index = t + job.dictDelta /\ m = job.dictBase + t /\ c.low = job.dictionary
      ELSE c.index = x /\ m = x + s - si /\ c.low = job.lowLimit
  BY DEF Candidate, Position, Start
<1>4. External <=> job.dict \in {"usingExtDict", "usingDictCtx"}
  BY DEF External
<1>5. /\ job.lowLimit \in Int /\ job.dictionary \in Int /\ job.dictEnd \in Int
      /\ job.dictBase \in Int /\ job.dictDelta \in Int /\ job.prefixIdxLimit \in Int
      /\ job.dict \in {"noDict", "withPrefix64k", "usingExtDict", "usingDictCtx"}
      /\ job.type \in {"byU16", "byU32"}
      /\ job.type = "byU16" => job.dict = "noDict" /\ si + job.size < KB64 + 11
  BY SizesOK DEF JobOK
<1>6. KB64 \in Nat /\ KB64 >= 16 /\ MAX_DISTANCE = KB64 - 1
  BY SizesOK
<1>7. x < si => x = 0 \/ x + 8 <= si
  BY DEF OldFine, OldLow
<1>8. job.dict = "noDict" => /\ job.lowLimit = s
                             /\ x < si => \/ job.dictSmall /\ job.prefixIdxLimit = si
                                          \/ job.type = "byU32" /\ x + KB64 <= si
  BY DEF OldFine, OldUnused
<1>9. job.dict = "withPrefix64k" =>
         /\ job.lowLimit \in Nat /\ s - job.lowLimit \in Nat
         /\ job.prefixIdxLimit = si - (s - job.lowLimit)
         /\ job.dictSmall \/ s - job.lowLimit >= KB64 \/ s - job.lowLimit = si
  BY DEF OldFine, OldInPrefix, Reached, Start
<1>10. job.dict \in {"usingExtDict", "usingDictCtx"} =>
         /\ job.lowLimit = s /\ job.dictionary # s /\ n \in Nat
         /\ n # 0 => job.dictionary \in Nat
  <2>1. job.dict \in {"usingExtDict", "usingDictCtx"} => Elsewhere
    BY DEF OldFine, OldInDict, OldInDictCtx
  <2> QED BY <1>5, <2>1 DEF Elsewhere
<1>11. job.dict = "usingExtDict" =>
         /\ job.dictDelta = 0 /\ job.dictBase = job.dictEnd - si
         /\ n > 0 => si >= 4
         /\ job.prefixIdxLimit = si - n
         /\ \/ job.dictSmall \/ n >= KB64 \/ n = si
            \/ x < si => x >= si - n \/ x + KB64 <= si
  BY DEF OldFine, OldInDict, Reached
<1>12. job.dict = "usingDictCtx" =>
         /\ n \in 1 .. KB64 /\ job.dictDelta = si - KB64
         /\ job.dictBase = job.dictEnd - KB64
         /\ t \in Nat
         /\ t = 0 \/ (KB64 - n <= t /\ t + 8 <= KB64)
  BY DEF OldFine, OldInDictCtx
<1>13. Index(p) - c.index = pos - c.index
  BY <1>1
<1> DEFINE bk == Index(p) - c.index
           lo == c.low
<1>14. bk = pos - c.index
  BY <1>13
<1> HIDE DEF c, bk
<1>15. t = IF job.dict = "usingDictCtx" THEN job.dictTable[slot] ELSE x
  OBVIOUS
<1> DEFINE ix == c.index
           dn == job.dictionary
           de == job.dictEnd
           db == job.dictBase
           dd == job.dictDelta
           px == job.prefixIdxLimit
           ll == job.lowLimit
           K == KB64
           small == job.dictSmall
<1>16. n = de - dn
  OBVIOUS
<1> HIDE DEF t, x, si, s, pos, n, m, lo
<1>17. /\ small => ix >= px
       /\ job.type # "byU16" => ix + (K - 1) >= pos
  BY <1>2
<1>18. /\ External /\ x < si => ix = t + dd /\ m = db + t /\ lo = dn
       /\ ~(External /\ x < si) => ix = x /\ m = x + s - si /\ lo = ll
  BY <1>3 DEF lo
<1>19. /\ dn \in Int /\ de \in Int /\ db \in Int /\ dd \in Int /\ px \in Int
       /\ ll \in Int /\ K \in Nat /\ K >= 16
  BY <1>5, <1>6
<1>20. job.dict = "noDict" =>
         /\ ll = s
         /\ x < si => (small /\ px = si) \/ (job.type = "byU32" /\ x + K <= si)
  BY <1>8
<1>21. job.dict = "withPrefix64k" =>
         /\ ll \in Nat /\ s - ll \in Nat /\ px = si - (s - ll)
         /\ small \/ s - ll >= K \/ s - ll = si
  BY <1>9
<1>22. External => ll = s /\ dn # s /\ n \in Nat /\ (n # 0 => dn \in Nat)
  BY <1>4, <1>10
<1>23. job.dict = "usingExtDict" =>
         /\ dd = 0 /\ db = de - si
         /\ n > 0 => si >= 4
         /\ px = si - n
         /\ small \/ n >= K \/ n = si \/ (x < si => x >= si - n \/ x + K <= si)
  BY <1>11
<1>24. job.dict = "usingDictCtx" =>
         /\ n \in 1 .. K /\ dd = si - K /\ db = de - K
         /\ t \in Nat
         /\ t = 0 \/ (K - n <= t /\ t + 8 <= K)
  BY <1>12
<1>25. job.type = "byU16" => job.dict = "noDict" /\ si + job.size < K + 11
  BY <1>5
<1>26. bk = pos - ix
  BY <1>14
<1>27. External /\ lo = dn <=> InDict(lo)
  BY DEF InDict
<1>28. pos = p - s + si
  BY DEF pos
<1> HIDE DEF ix, dn, de, db, dd, px, ll, K, small
<1>29. m \in Int /\ ix \in Int
  <2>1. CASE ~(External /\ x < si)
    BY <1>1, <1>18, <2>1
  <2>2. CASE External /\ x < si /\ job.dict = "usingExtDict"
    <3>1. t = x
      BY <1>15, <2>2
    <3> QED BY <1>1, <1>18, <1>19, <2>2, <3>1
  <2>3. CASE External /\ x < si /\ job.dict = "usingDictCtx"
    BY <1>18, <1>19, <1>24, <2>3
  <2> QED BY <1>4, <2>1, <2>2, <2>3
<1>30. 0 <= m /\ m + 4 <= Len(buf) /\ Alike(p, m, MINMATCH)
  BY <1>1, <1>2, <1>29, ReadIs
<1> SUFFICES /\ lo \in Nat /\ lo <= m
             /\ IF InDict(lo) THEN m + 4 <= de ELSE m < p
             /\ (IF External THEN bk ELSE p - m) \in 1 .. K - 1
  BY <1>6, <1>29, <1>30, Zenon DEF Landed, MINMATCH, m, lo, c, bk, de, K
<1>31. CASE External /\ x < si
  <2>1. ix = t + dd /\ m = db + t /\ lo = dn /\ InDict(lo)
    BY <1>18, <1>27, <1>31
  <2>2. job.type = "byU32" /\ ix + (K - 1) >= pos
    BY <1>4, <1>5, <1>17, <1>31
  <2>3. CASE job.dict = "usingExtDict"
    <3>1. t = x
      BY <1>15, <2>3
    <3>0. x \in Nat /\ si \in Nat /\ n \in Nat /\ de \in Int /\ x < si
      BY <1>1, <1>19, <1>22, <1>31
    <3>2. ix = x /\ m = de - si + x
      <4>1. dd = 0 /\ db = de - si
        BY <1>23, <2>3
      <4> QED BY <2>1, <3>0, <3>1, <4>1
    <3>3. x >= si - n
      <4>1. /\ px = si - n
            /\ small \/ n >= K \/ n = si \/ x >= si - n \/ x + K <= si
        BY <1>23, <1>31, <2>3
      <4>2. (small => x >= px) /\ x + (K - 1) >= pos /\ pos \in Nat /\ si < pos
        <5>1. si < pos
          BY <1>1, <1>28
        <5> QED BY <1>1, <1>17, <2>2, <3>2, <5>1
      <4> QED BY <1>19, <3>0, <4>1, <4>2
    <3>4. n > 0 /\ n \in Nat /\ dn \in Nat /\ si >= 4
      <4>1. n > 0
        BY <3>0, <3>3
      <4> QED BY <1>22, <1>23, <1>31, <2>3, <3>0, <4>1
    <3>5. m + 4 <= de
      <4>1. x = 0 \/ x + 8 <= si
        BY <1>7, <1>31
      <4> QED BY <3>0, <3>2, <3>4, <4>1
    <3>6. dn \in Nat /\ dn <= m
      BY <1>1, <1>16, <1>19, <3>2, <3>3, <3>4
    <3>7. bk \in 1 .. K - 1
      BY <1>1, <1>19, <1>26, <2>2, <3>2
    <3> QED BY <1>31, <2>1, <3>5, <3>6, <3>7
  <2>4. CASE job.dict = "usingDictCtx"
    <3>1. ix = t + si - K /\ m = de - K + t /\ t \in Nat
      BY <1>1, <1>19, <1>24, <2>1, <2>4
    <3>2. t # 0
      BY <1>1, <1>19, <1>28, <2>2, <3>1
    <3>3. dn \in Nat /\ n \in 1 .. K
      BY <1>19, <1>22, <1>24, <1>31, <2>4
    <3>4. K - n <= t /\ t + 8 <= K
      BY <1>24, <2>4, <3>2
    <3>5. dn <= m /\ m + 4 <= de
      BY <1>16, <1>19, <3>1, <3>3, <3>4
    <3>6. bk \in 1 .. K - 1
      BY <1>1, <1>19, <1>26, <1>28, <2>2, <3>1, <3>4
    <3> QED BY <1>31, <2>1, <3>3, <3>5, <3>6
  <2> QED BY <1>4, <1>31, <2>3, <2>4
<1>32. CASE ~(External /\ x < si)
  <2>1. ix = x /\ m = x + s - si /\ lo = ll
    BY <1>18, <1>32
  <2>2. job.type = "byU32" => pos - x \in 1 .. K - 1
    BY <1>1, <1>17, <1>19, <2>1
  <2>3. CASE job.dict = "noDict"
    <3>1. x >= si
      BY <1>1, <1>17, <1>19, <1>20, <1>28, <2>1, <2>2, <2>3
    <3>2. pos - x \in 1 .. K - 1
      <4>1. CASE job.type = "byU32"
        BY <2>2, <4>1
      <4>2. CASE job.type = "byU16"
        <5>1. si + job.size < K + 11
          BY <1>25, <4>2
        <5>2. /\ x \in Nat /\ si \in Nat /\ pos \in Nat /\ x < pos /\ K \in Nat
              /\ pos + 12 <= si + job.size
          BY <1>1, <1>19, <1>28, SMTT(30)
        <5> QED BY <1>1, <3>1, <5>1, <5>2, SMTT(30)
      <4> QED BY <1>5, <4>1, <4>2
    <3>3. ll = s /\ ~External
      BY <1>4, <1>20, <2>3
    <3> QED BY <1>1, <1>27, <1>28, <2>1, <3>1, <3>2, <3>3
  <2>4. CASE job.dict = "withPrefix64k"
    <3>1. pos - x \in 1 .. K - 1 /\ ~External
      BY <1>4, <1>5, <1>25, <2>2, <2>4
    <3>2. x >= si - (s - ll)
      BY <1>1, <1>17, <1>19, <1>21, <1>28, <2>1, <2>4, <3>1
    <3>3. ll \in Nat
      BY <1>21, <2>4
    <3> QED BY <1>1, <1>27, <1>28, <2>1, <3>1, <3>2, <3>3
  <2>5. CASE External
    <3>1. pos - x \in 1 .. K - 1
      BY <1>4, <1>5, <1>25, <2>2, <2>5
    <3>2. ll = s /\ dn # s /\ x >= si
      BY <1>1, <1>22, <1>32, <2>5
    <3> QED BY <1>1, <1>19, <1>26, <1>27, <1>28, <2>1, <2>5, <3>1, <3>2
  <2> QED BY <1>4, <1>5, <2>3, <2>4, <2>5
<1> QED BY <1>31, <1>32

LEMMA IndexIs ==
    ASSUME JobOK, NEW p \in Int
    PROVE  Index(p) = p - job.start + job.startIndex /\ Index(p) \in Int
  BY SMTT(30) DEF Index, Start, JobOK

LEMMA BoundsAre ==
    ASSUME JobOK
    PROVE  /\ Start \in Nat /\ iend \in Nat /\ iend <= Len(buf) /\ Start <= iend
           /\ iend = Start + job.size /\ job.size \in Nat
           /\ mflimitPlusOne = iend - 11 /\ matchlimit = iend - 5
<1>1. /\ job.start \in Nat /\ job.size \in Nat /\ iend <= Len(buf)
  BY DEF JobOK
<1>2. Start = job.start /\ iend = job.start + job.size
  BY DEF Start, iend
<1>3. iend \in Nat
  BY <1>1, <1>2
<1>4. mflimitPlusOne = iend - 11 /\ matchlimit = iend - 5
  <2> DEFINE e == iend
  <2>1. mflimitPlusOne = e - 12 + 1 /\ matchlimit = e - 5 /\ e \in Nat
    BY <1>3 DEF mflimitPlusOne, matchlimit, MFLIMIT, LASTLITERALS
  <2> HIDE DEF e
  <2>2. mflimitPlusOne = e - 11 /\ matchlimit = e - 5
    BY <2>1
  <2> QED BY <2>2 DEF e
<1> QED BY <1>1, <1>2, <1>3, <1>4

LEMMA EntryIs ==
    ASSUME JobOK, NEW p \in Nat, Start <= p, p + MFLIMIT <= iend
    PROVE  /\ Entry(Index(p), job.type) = Index(p) /\ Index(p) \in Nat
           /\ job.startIndex <= Index(p)
           /\ Index(p) + 12 <= job.startIndex + job.size
<1> DEFINE i == p - job.start + job.startIndex
           K == KB64
<1>1. /\ Index(p) = i /\ i \in Nat /\ job.startIndex <= i
      /\ i + 12 <= job.startIndex + job.size
  <2>1. /\ job.start \in Nat /\ job.startIndex \in Nat /\ job.size \in Nat
        /\ job.start <= p /\ p + 12 <= job.start + job.size
    BY DEF Start, JobOK, iend, MFLIMIT
  <2>2. Index(p) = i
    BY DEF Index, Start
  <2> QED BY <2>1, <2>2
<1>2. job.type = "byU16" => job.startIndex + job.size < K + 11
  BY SizesOK DEF JobOK
<1>3. Entry(i, job.type) = IF job.type = "byU16" THEN i % ((K - 1) + 1) ELSE i
  BY SizesOK DEF Entry
<1>4. K \in Nat /\ (K - 1) + 1 = K /\ job.startIndex \in Nat /\ job.size \in Nat
  BY SizesOK DEF JobOK
<1> HIDE DEF i, K
<1>5. job.type = "byU16" => i < K
  BY <1>1, <1>2, <1>4
<1>6. i < K => i % K = i
  BY <1>1, <1>4
<1> QED BY <1>1, <1>3, <1>4, <1>5, <1>6

(* Only indexes of the block are entered while it is compressed.           *)
LEMMA TableGrows ==
    ASSUME StateOK(ctx), Begun, pc # "done",
           NEW tab \in [0 .. slots - 1 -> Nat],
           \A h \in 0 .. slots - 1 :
              \/ tab[h] = ctx.table[h]
              \/ job.startIndex <= tab[h] /\ tab[h] + 8 <= ctx.off,
           ctx' = [ctx EXCEPT !.table = tab],
           UNCHANGED << buf, slots, job, way >>
    PROVE  /\ StateOK(ctx)' /\ Begun'
           /\ ctx'.table = tab /\ ctx'.off = ctx.off /\ ctx'.dictCtx = ctx.dictCtx
           /\ ctx'.dictionary = ctx.dictionary /\ ctx'.dictSize = ctx.dictSize
           /\ ctx'.type = ctx.type
<1>1. ctx \in States(DictStates) /\ DictStates = DictStates'
  BY DEF StateOK, States, DictStates
<1>2. /\ ctx'.table = tab /\ ctx'.off = ctx.off /\ ctx'.dictCtx = ctx.dictCtx
      /\ ctx'.dictionary = ctx.dictionary /\ ctx'.dictSize = ctx.dictSize
      /\ ctx'.type = ctx.type /\ ctx' \in States(DictStates)'
  <2> HIDE DEF DictStates
  <2> QED BY <1>1 DEF States
<1>3. StateOK(ctx)'
  <2>1. \A d \in ctx'.dictCtx : DictOK(d)'
    BY <1>2 DEF StateOK, DictOK
  <2>2. ctx.off \in Nat /\ \A h \in 0 .. slots - 1 : ctx.table[h] = 0 \/ ctx.table[h] + 8 <= ctx.off
    BY <1>1 DEF StateOK, States
  <2>3. \A h \in 0 .. slots - 1 : tab[h] = 0 \/ tab[h] + 8 <= ctx.off
    BY <2>2
  <2>4. ctx.dictSize <= ctx.off
    BY DEF StateOK
  <2> QED BY <1>2, <2>1, <2>3, <2>4 DEF StateOK
<1>4. JobOK' /\ ctx'.off = job'.startIndex + job'.size
  BY <1>2 DEF Begun, JobOK, iend
<1>5. OldFine(ctx.table)'
  <2>1. \A h \in 0 .. slots - 1 : tab[h] < job.startIndex => tab[h] = ctx.table[h]
    <3>1. job.startIndex \in Nat
      BY DEF Begun, JobOK
    <3> QED BY <3>1
  <2>2. OldFine(ctx.table)
    BY DEF Begun
  <2>3. OldLow(ctx.table)'
    BY <1>2, <2>1, <2>2 DEF OldFine, OldLow
  <2>4. job'.dict = "noDict" => OldUnused(ctx.table)' /\ job'.lowLimit = job'.start
    BY <1>2, <2>1, <2>2 DEF OldFine, OldUnused
  <2>5. job'.dict = "withPrefix64k" => OldInPrefix'
    BY <2>2 DEF OldFine, OldInPrefix, Reached
  <2>6. job'.dict = "usingExtDict" => OldInDict(ctx.table)'
    BY <1>2, <2>1, <2>2 DEF OldFine, OldInDict, Elsewhere, Reached
  <2>7. job'.dict = "usingDictCtx" => OldInDictCtx'
    BY <2>2 DEF OldFine, OldInDictCtx, Elsewhere
  <2> QED BY <2>3, <2>4, <2>5, <2>6, <2>7 DEF OldFine
<1> QED BY <1>2, <1>3, <1>4, <1>5 DEF Begun

LEMMA TableStays ==
    ASSUME StateOK(ctx), Begun, UNCHANGED << ctx, buf, slots, job, way >>,
           pc' # "done" => pc # "done"
    PROVE  StateOK(ctx)' /\ Begun'
<1>1. StateOK(ctx)'
  BY DEF StateOK, States, DictStates, DictOK
<1>2. JobOK'
  BY DEF Begun, JobOK, iend
<1>3. OldFine(ctx.table) => OldFine(ctx.table)'
  BY DEF OldFine, OldLow, OldUnused, OldInPrefix, OldInDict, OldInDictCtx, Elsewhere,
         Reached
<1> QED BY <1>1, <1>2, <1>3 DEF Begun

-----------------------------------------------------------------------------
(* The steps of compress_generic().                                        *)
TableOnly ==
    /\ ctx'.off = ctx.off /\ ctx'.dictCtx = ctx.dictCtx /\ ctx'.type = ctx.type
    /\ ctx'.dictionary = ctx.dictionary /\ ctx'.dictSize = ctx.dictSize

LEMMA SameBlock ==
    ASSUME UNCHANGED << buf, slots, job >>
    PROVE  /\ Landed(ip, match, low, back)' <=> Landed(ip', match', low', back')
           /\ InDict(low)' <=> InDict(low')
           /\ \A n : Alike(ip, match, n)' <=> Alike(ip', match', n)
           /\ Index(ip)' = Index(ip') /\ Index(fwd)' = Index(fwd')
           /\ \A i : Below(ctx.table, i)' <=> Below(ctx'.table, i)
           /\ Start' = Start /\ iend' = iend
           /\ Len(dst') = Len(dst) => (Full' <=> Full)
  BY DEF Landed, InDict, External, Alike, B, Index, Start, iend, Below, Full

LEMMA SameAhead ==
    ASSUME UNCHANGED << buf, slots, job >>, NEW q
    PROVE  Ahead(q)' <=> /\ Below(ctx'.table, Index(ip') + q + 1)
                         /\ ip' + q + MFLIMIT <= iend
                         /\ Alike(ip', match', q + MINMATCH)
                         /\ InDict(low') => match' + q + MINMATCH <= job.dictEnd
  BY DEF Ahead, InDict, External, Alike, B, Index, Start, iend, Below

LEMMA BelowIs ==
    ASSUME NEW tab, NEW i \in Int, Below(tab, i), \A h \in 0 .. slots - 1 : tab[h] \in Int,
           NEW j \in Int, i <= j
    PROVE  Below(tab, j)
  BY DEF Below

LEMMA SearchKeeps ==
    ASSUME CoreOK, Search, UNCHANGED way
    PROVE  CoreOK' /\ TableOnly
<1> DEFINE slot == LZ4_hashPosition(fwd, job.type)
           c == Candidate(ctx.table, slot)
           found == Matches(c, fwd)
           i == Index(fwd)
           tab == [ctx.table EXCEPT ![slot] = Entry(i, job.type)]
<1>1. /\ pc = "search" /\ ip' = fwd /\ fwd' = fwd + step
      /\ step' = nb \div LZ4_skipTrigger /\ nb' = nb + 1
      /\ UNCHANGED << anchor, dst, token, high, ret, buf, sizes, slots, job >>
  BY DEF Search, Unmoved
<1>2. IF fwd' > mflimitPlusOne
      THEN pc' = "last" /\ UNCHANGED << ctx, match, low, back >>
      ELSE /\ ctx' = [ctx EXCEPT !.table = tab]
           /\ IF found
              THEN match' = c.match /\ low' = c.low /\ back' = i - c.index
              ELSE UNCHANGED << match, low, back >>
           /\ pc' = IF found THEN "literals" ELSE "search"
  BY DEF Search
<1> HIDE DEF slot, found, tab, c
<1>3. /\ StateOK(ctx) /\ Begun /\ AtSearch /\ JobOK /\ OldFine(ctx.table)
      /\ ctx.off = job.startIndex + job.size
      /\ slots \in Nat \ {0} /\ buf \in Seq(Nat) /\ dst \in Seq(Int) /\ token \in Nat
  BY <1>1 DEF CoreOK, Busy, LoopOK, Begun
<1>4. /\ slots' \in Nat \ {0} /\ buf' \in Seq(Nat) /\ dst' \in Seq(Int) /\ token' \in Nat
  BY <1>1, <1>3
<1>5. /\ anchor \in Nat /\ Start <= anchor /\ anchor <= iend
      /\ fwd \in Nat /\ anchor <= fwd /\ Start < fwd
      /\ step \in Nat /\ step >= 1 /\ nb \in Nat /\ nb >= 64
  BY <1>3 DEF AtSearch, LZ4_skipTrigger
<1>6. Start \in Nat /\ iend \in Nat /\ mflimitPlusOne = iend - 11 /\ iend <= Len(buf)
  BY <1>3, BoundsAre
<1>7. /\ Start' = Start /\ iend' = iend /\ (Full' <=> Full)
      /\ Index(ip)' = Index(ip') /\ Index(fwd)' = Index(fwd')
      /\ \A j : Below(ctx.table, j)' <=> Below(ctx'.table, j)
      /\ Landed(ip, match, low, back)' <=> Landed(ip', match', low', back')
  BY <1>1, SameBlock
<1>8. CASE fwd' > mflimitPlusOne
  <2>1. pc' = "last" /\ UNCHANGED << ctx, match, low, back >>
    BY <1>2, <1>8
  <2>2. StateOK(ctx)' /\ Begun'
    BY <1>1, <1>3, <2>1, TableStays
  <2>3. LoopOK'
    BY <1>1, <1>5, <1>7, <2>1 DEF LoopOK, AtLast
  <2> QED BY <1>4, <2>1, <2>2, <2>3 DEF CoreOK, TableOnly
<1>9. CASE ~(fwd' > mflimitPlusOne)
  <2>1. fwd + MFLIMIT <= iend
    BY <1>1, <1>5, <1>6, <1>9 DEF MFLIMIT
  <2>2. slot \in 0 .. slots - 1
    <3>1. fwd + 5 <= Len(buf)
      BY <1>3, <1>5, <1>6, <2>1, LenProperties DEF MFLIMIT
    <3> QED BY <1>3, <1>5, <3>1, HashIs DEF slot
  <2>3. /\ Entry(i, job.type) = i /\ i \in Nat /\ job.startIndex <= i
        /\ i + 12 <= job.startIndex + job.size
    BY <1>3, <1>5, <1>6, <2>1, EntryIs
  <2>4. ctx.table \in [0 .. slots - 1 -> Nat]
    BY <1>3 DEF StateOK, States
  <2>5. /\ tab \in [0 .. slots - 1 -> Nat]
        /\ \A h \in 0 .. slots - 1 : tab[h] = IF h = slot THEN i ELSE ctx.table[h]
    <3> HIDE DEF i
    <3> QED BY <2>2, <2>3, <2>4 DEF tab
  <2>6. /\ StateOK(ctx)' /\ Begun' /\ ctx'.table = tab /\ TableOnly
    <3>1. \A h \in 0 .. slots - 1 :
             \/ tab[h] = ctx.table[h]
             \/ job.startIndex <= tab[h] /\ tab[h] + 8 <= ctx.off
      <4>1. job.startIndex \in Nat /\ job.size \in Nat
        BY <1>3 DEF JobOK
      <4> HIDE DEF i
      <4> QED BY <1>3, <2>3, <2>5, <4>1
    <3>2. ctx' = [ctx EXCEPT !.table = tab]
      BY <1>2, <1>9
    <3> QED BY <1>1, <1>3, <2>5, <3>1, <3>2, TableGrows DEF TableOnly
  <2>7. Full \/ Below(ctx.table, i)
    BY <1>3 DEF AtSearch
  <2>8. Below(ctx.table, i) => Below(tab, i + 1)
    <3> HIDE DEF i
    <3> QED BY <2>3, <2>4, <2>5 DEF Below
  <2>9. LoopOK'
    <3>1. CASE found
      <4>1. /\ pc' = "literals" /\ match' = c.match /\ low' = c.low
            /\ back' = i - c.index
        BY <1>2, <1>9, <3>1
      <4>2. Below(ctx.table, i) => Landed(fwd, c.match, c.low, i - c.index)
        <5>1. ASSUME Below(ctx.table, i) PROVE ctx.table[slot] < Index(fwd)
          BY <2>2, <5>1 DEF Below
        <5>2. Matches(Candidate(ctx.table, slot), fwd)
          BY <3>1 DEF found, c
        <5> HIDE DEF i
        <5> QED BY <1>3, <1>5, <2>1, <2>2, <2>4, <5>1, <5>2, Accepted DEF c, i
      <4>3. match' \in Int /\ low' \in Int
        <5> DEFINE t == IF job.dict = "usingDictCtx" THEN job.dictTable[slot] ELSE ctx.table[slot]
        <5>1. /\ ctx.table[slot] \in Nat
              /\ External => t \in Nat
          <6>1. job.dict = "usingDictCtx" => job.dictTable[slot] \in Nat
            BY <1>3, <2>2 DEF OldFine, OldInDictCtx
          <6> QED BY <2>2, <2>4, <6>1 DEF External
        <5>2. /\ job.dictBase \in Int /\ job.dictionary \in Int /\ job.lowLimit \in Int
              /\ job.start \in Int /\ job.startIndex \in Int
          BY <1>3 DEF JobOK
        <5>3. /\ External => c.match \in {job.dictBase + t, Position(ctx.table[slot])}
              /\ ~External => c.match = Position(ctx.table[slot])
              /\ c.low \in {job.dictionary, job.lowLimit}
          BY DEF c, Candidate
        <5>4. Position(ctx.table[slot]) \in Int
          BY <5>1, <5>2 DEF Position, Start
        <5> HIDE DEF t
        <5>5. External => job.dictBase + t \in Int
          BY <5>1, <5>2
        <5>6. c.match \in Int
          BY <5>3, <5>4, <5>5
        <5> QED BY <4>1, <5>2, <5>3, <5>6
      <4>4. Full' \/ (Below(ctx.table, Index(ip) + 1)' /\ Landed(ip, match, low, back)')
        <5>1. Index(ip)' = i
          BY <1>1, <1>7
        <5>2. Below(ctx.table, i) => Below(ctx.table, Index(ip) + 1)'
          BY <1>7, <2>6, <2>8, <5>1
        <5>3. Landed(ip, match, low, back)' <=> Landed(fwd, c.match, c.low, i - c.index)
          BY <1>1, <1>7, <4>1
        <5> QED BY <1>7, <2>7, <4>2, <5>2, <5>3
      <4>5. AtLiterals'
        <5>1. ip' + MFLIMIT <= iend'
          BY <1>1, <1>7, <2>1
        <5> QED BY <1>1, <1>5, <1>7, <4>3, <4>4, <5>1 DEF AtLiterals, MFLIMIT
      <4> QED BY <4>1, <4>5 DEF LoopOK
    <3>2. CASE ~found
      <4>1. pc' = "search"
        BY <1>2, <1>9, <3>2
      <4>2. /\ fwd' \in Nat /\ anchor' <= fwd' /\ Start' < fwd'
            /\ step' \in Nat /\ step' >= 1 /\ nb' \in Nat /\ nb' >= LZ4_skipTrigger
        BY <1>1, <1>5, <1>6, <1>7 DEF LZ4_skipTrigger
      <4>3. Below(ctx.table, i) => Below(ctx.table, Index(fwd))'
        <5>1. Index(fwd') \in Int /\ i + 1 <= Index(fwd')
          <6>1. fwd' \in Int /\ fwd \in Int
            BY <1>5, <4>2
          <6>2. /\ Index(fwd') = fwd' - job.start + job.startIndex
                /\ i = fwd - job.start + job.startIndex
            BY <1>3, <6>1, IndexIs
          <6>3. job.start \in Nat /\ job.startIndex \in Nat
            BY <1>3 DEF JobOK
          <6> QED BY <1>1, <1>5, <6>1, <6>2, <6>3
        <5>2. \A h \in 0 .. slots - 1 : tab[h] \in Int
          BY <2>5
        <5> HIDE DEF i
        <5>3. i + 1 \in Int
          BY <2>3
        <5>4. Below(tab, i + 1) => Below(tab, Index(fwd'))
          BY <5>1, <5>2, <5>3, BelowIs
        <5> QED BY <1>7, <2>6, <2>8, <5>4
      <4>4. AtSearch'
        BY <1>1, <1>5, <1>7, <2>7, <4>2, <4>3 DEF AtSearch
      <4> QED BY <4>1, <4>4 DEF LoopOK
    <3> QED BY <3>1, <3>2
  <2>10. pc' \in {"literals", "search"}
    BY <1>2, <1>9
  <2> QED BY <1>4, <2>6, <2>9, <2>10 DEF CoreOK
<1> QED BY <1>8, <1>9

LEMMA GreatestTaken ==
    ASSUME NEW top \in Nat, NEW T, T \subseteq 0 .. top, T # {}
    PROVE  Max(T) \in T /\ \A y \in T : Max(T) >= y
<1> DEFINE D == {top - x : x \in T}
<1>1. D \subseteq Nat /\ D # {}
  <2>1. \A x \in T : top - x \in Nat
    OBVIOUS
  <2> QED BY <2>1
<1>2. PICK z \in D : \A y \in D : z <= y
  <2> HIDE DEF D
  <2> QED BY <1>1, LeastIs
<1>3. PICK x \in T : z = top - x
  OBVIOUS
<1>4. \A y \in T : x >= y
  <2>1. ASSUME NEW y \in T PROVE x >= y
    <3>1. top - y \in D
      OBVIOUS
    <3>2. z <= top - y /\ x \in Nat /\ y \in Nat
      BY <1>2, <3>1
    <3> QED BY <1>3, <3>2
  <2> QED BY <2>1
<1> QED BY <1>3, <1>4 DEF Max

LEMMA CatchIs ==
    ASSUME ip \in Int, anchor \in Int, anchor <= ip, match \in Int, low \in Int
    PROVE  /\ CatchUp \in 0 .. ip - anchor
           /\ low <= match => CatchUp <= match - low
           /\ \A k \in 1 .. CatchUp : B(ip - k) = B(match - k)
<1> DEFINE x == Max({0, match - low})
           top == ip - anchor
           T == {n \in 0 .. top : n <= x /\ \A k \in 1 .. n : B(ip - k) = B(match - k)}
<1>1. CatchUp = Max(T)
  BY DEF CatchUp
<1>2. x = IF 0 >= match - low THEN 0 ELSE match - low
  <2>1. match - low \in Int
    OBVIOUS
  <2> QED BY <2>1, TwoMax
<1>3. top \in Nat
  OBVIOUS
<1> HIDE DEF x, top
<1>4. x \in Nat
  BY <1>2
<1>5. 0 \in T /\ T \subseteq 0 .. top
  BY <1>3, <1>4
<1>6. \A n \in T : n \in 0 .. top /\ n <= x /\ \A k \in 1 .. n : B(ip - k) = B(match - k)
  OBVIOUS
<1> HIDE DEF T
<1>7. CatchUp \in T
  <2>1. T # {}
    BY <1>5
  <2> QED BY <1>1, <1>3, <1>5, <2>1, GreatestTaken
<1>8. CatchUp \in 0 .. top /\ CatchUp <= x
  BY <1>6, <1>7
<1>9. low <= match => CatchUp <= match - low
  <2> DEFINE n == CatchUp
  <2>1. n \in Nat /\ n <= x
    BY <1>3, <1>8
  <2> HIDE DEF n
  <2>2. low <= match => n <= match - low
    BY <1>2, <2>1
  <2> QED BY <2>2 DEF n
<1> QED BY <1>6, <1>7, <1>8, <1>9 DEF top

LEMMA LengthBytesAre ==
    ASSUME NEW n \in Nat
    PROVE  /\ LengthBytes(n) \in Seq(Int) /\ Len(LengthBytes(n)) = n \div 255 + 1
           /\ \A k \in 1 .. n \div 255 : LengthBytes(n)[k] = 255
           /\ LengthBytes(n)[n \div 255 + 1] = n % 255
<1> DEFINE q == n \div 255
           r == n % 255
           s == [k \in 1 .. q |-> 255]
           t == << r >>
<1>1. q \in Nat /\ r \in Int
  OBVIOUS
<1>2. LengthBytes(n) = s \o t
  BY DEF LengthBytes
<1> HIDE DEF q, r
<1>3. s \in Seq(Int) /\ Len(s) = q /\ \A k \in 1 .. q : s[k] = 255
  BY <1>1
<1>4. t \in Seq(Int) /\ Len(t) = 1 /\ t[1] = r
  BY <1>1
<1> HIDE DEF s, t
<1>5. /\ s \o t \in Seq(Int) /\ Len(s \o t) = q + 1
      /\ \A k \in 1 .. q + 1 : (s \o t)[k] = IF k <= q THEN s[k] ELSE t[k - q]
  <2>1. s \in Seq(Int) /\ t \in Seq(Int)
    BY <1>3, <1>4
  <2>2. /\ s \o t \in Seq(Int) /\ Len(s \o t) = Len(s) + Len(t)
        /\ \A k \in 1 .. Len(s) + Len(t) :
              (s \o t)[k] = IF k <= Len(s) THEN s[k] ELSE t[k - Len(s)]
    BY ONLY <2>1, ConcatProperties
  <2> QED BY <1>3, <1>4, <2>2
<1> DEFINE u == s \o t
<1>6. /\ u \in Seq(Int) /\ Len(u) = q + 1 /\ LengthBytes(n) = u
      /\ \A k \in 1 .. q + 1 : u[k] = IF k <= q THEN s[k] ELSE t[k - q]
  BY <1>2, <1>5
<1> HIDE DEF u
<1>7. \A k \in 1 .. q : u[k] = 255
  BY <1>1, <1>3, <1>6
<1>8. u[q + 1] = r
  <2>1. q + 1 \in 1 .. q + 1 /\ ~(q + 1 <= q) /\ (q + 1) - q = 1
    BY <1>1
  <2> QED BY <1>4, <1>6, <2>1
<1> QED BY <1>6, <1>7, <1>8 DEF q, r

(* The token of a run of literals, with the bytes of its length.           *)
RunHead(n) ==
    IF n >= RUN_MASK THEN << RUN_MASK * 16 >> \o LengthBytes(n - RUN_MASK)
                     ELSE << n * 16 >>

LEMMA RunHeadIs ==
    ASSUME NEW n \in Nat
    PROVE  /\ RunHead(n) \in Seq(Int) /\ Len(RunHead(n)) = 1 + Extras(n)
           /\ Extras(n) \in Nat
           /\ n < 15 => Extras(n) = 0
           /\ n >= 15 => Extras(n) = (n - 15) \div 255 + 1
<1>1. /\ n < 15 => Extras(n) = 0
      /\ n >= 15 => Extras(n) = (n - 15) \div 255 + 1
      /\ Extras(n) \in Nat
  BY DEF Extras
<1>2. CASE n < 15
  <2>1. RunHead(n) = << n * 16 >>
    BY <1>2 DEF RunHead, RUN_MASK
  <2> DEFINE t == n * 16
  <2>2. t \in Int
    OBVIOUS
  <2> HIDE DEF t
  <2>3. << t >> \in Seq(Int) /\ Len(<< t >>) = 1
    BY <2>2
  <2> QED BY <1>1, <1>2, <2>1, <2>3 DEF t
<1>3. CASE n >= 15
  <2> DEFINE m == n - 15
             s == << 240 >>
             u == LengthBytes(m)
  <2>1. RunHead(n) = s \o u
    BY <1>3 DEF RunHead, RUN_MASK
  <2>2. m \in Nat
    BY <1>3
  <2>3. u \in Seq(Int) /\ Len(u) = m \div 255 + 1
    BY <2>2, LengthBytesAre
  <2>4. s \in Seq(Int) /\ Len(s) = 1
    OBVIOUS
  <2> HIDE DEF s, u
  <2>5. s \o u \in Seq(Int) /\ Len(s \o u) = Len(s) + Len(u)
    BY <2>3, <2>4, ConcatProperties
  <2>6. 1 + (m \div 255 + 1) = 1 + Extras(n)
    BY <1>1, <1>3
  <2> QED BY <1>1, <1>3, <2>1, <2>3, <2>4, <2>5, <2>6
<1> QED BY <1>2, <1>3

(* What is in memory from p on, n bytes.                                   *)
LEMMA PieceOfBuf ==
    ASSUME buf \in Seq(Nat), NEW p \in Nat, NEW e \in Nat, p <= e, e <= Len(buf)
    PROVE  /\ SubSeq(buf, p + 1, e) \in Seq(Nat) /\ SubSeq(buf, p + 1, e) \in Seq(Int)
           /\ Len(SubSeq(buf, p + 1, e)) = e - p
           /\ \A k \in 1 .. e - p : SubSeq(buf, p + 1, e)[k] = B(p + k - 1)
<1> DEFINE u == p + 1
           s == SubSeq(buf, u, e)
<1>1. u \in Int /\ e \in Int /\ (IF u <= e THEN e - u + 1 ELSE 0) = e - p /\ e - u + 1 = e - p
  OBVIOUS
<1>2. \A i \in u .. e : buf[i] \in Nat
  <2>1. \A i \in u .. e : i \in 1 .. Len(buf)
    BY LenProperties
  <2> QED BY <2>1, ElementOfSeq
<1>a. u = p + 1
  OBVIOUS
<1> HIDE DEF u
<1>3. /\ s \in Seq(Nat) /\ Len(s) = IF u <= e THEN e - u + 1 ELSE 0
      /\ \A i \in 1 .. e - u + 1 : s[i] = buf[u + i - 1]
  BY <1>1, <1>2, SubSeqProperties
<1> HIDE DEF s
<1>4. s \in Seq(Int)
  BY <1>3, SeqMonotonic, Nat \subseteq Int
<1>5. ASSUME NEW k \in 1 .. e - p PROVE s[k] = B(p + k - 1)
  <2>1. u + k - 1 = (p + k - 1) + 1 /\ k \in 1 .. e - u + 1
    BY <1>1, <1>a
  <2>2. s[k] = buf[u + k - 1]
    BY <1>3, <2>1
  <2> QED BY <2>1, <2>2, Zenon DEF B
<1> QED BY <1>1, <1>3, <1>4, <1>5 DEF s, u

LEMMA LiteralsPut ==
    ASSUME buf \in Seq(Nat), dst \in Seq(Int), NEW p \in Nat, NEW e \in Nat, p <= e,
           e <= Len(buf)
    PROVE  LET head == RunHead(e - p)
               out == dst \o head \o SubSeq(buf, p + 1, e)
           IN  /\ dst \o head \in Seq(Int) /\ out \in Seq(Int)
               /\ Len(dst \o head) = Len(dst) + 1 + Extras(e - p)
               /\ Len(out) = Len(dst) + 1 + Extras(e - p) + (e - p)
<1> DEFINE n == e - p
           head == RunHead(n)
           s == SubSeq(buf, p + 1, e)
           b == dst \o head
<1>1. n \in Nat
  OBVIOUS
<1>2. head \in Seq(Int) /\ Len(head) = 1 + Extras(n) /\ Extras(n) \in Nat
  <2> HIDE DEF n
  <2> QED BY <1>1, RunHeadIs
<1>3. s \in Seq(Int) /\ Len(s) = n
  BY PieceOfBuf
<1>4. Len(dst) \in Nat
  BY LenProperties
<1> HIDE DEF n, head, s
<1>5. b \in Seq(Int) /\ Len(b) = Len(dst) + Len(head)
  BY <1>2, ConcatProperties, ZenonT(30)
<1> HIDE DEF b
<1>6. b \o s \in Seq(Int) /\ Len(b \o s) = Len(b) + Len(s)
  BY <1>3, <1>5, ConcatProperties, ZenonT(30)
<1>7. Len(b) = Len(dst) + 1 + Extras(n) /\ Len(b \o s) = Len(dst) + 1 + Extras(n) + n
  BY <1>1, <1>2, <1>3, <1>4, <1>5, <1>6, SMTT(30)
<1> QED BY <1>5, <1>6, <1>7 DEF b, s, head, n

(* What EncodeLiterals does, with the bytes of the literals as one run.    *)
LEMMA LiteralsStep ==
    ASSUME EncodeLiterals
    PROVE  LET there == ip - CatchUp
               litLength == there - anchor
               tight == LiteralsTight(Len(dst) + 1, litLength)
               head == RunHead(litLength)
           IN  /\ pc = "literals"
               /\ ip' = there /\ match' = match - CatchUp /\ token' = Len(dst)
               /\ \/ /\ tight /\ job.limit = "limitedOutput" /\ GiveUp
                     /\ UNCHANGED << dst, high >>
                  \/ /\ tight /\ job.limit = "fillOutput" /\ pc' = "last"
                     /\ UNCHANGED << dst, high, ret >>
                  \/ /\ ~tight /\ pc' = "match"
                     /\ dst' = dst \o head \o SubSeq(buf, anchor + 1, there)
                     /\ high' = Max({high, WildEnd(Len(dst \o head), litLength)})
                     /\ UNCHANGED ret
               /\ UNCHANGED << ctx, anchor, fwd, step, nb, low, back,
                               buf, sizes, slots, job >>
  BY Zenon DEF EncodeLiterals, Unmoved, RunHead

LEMMA EncodeLiteralsKeeps ==
    ASSUME CoreOK, EncodeLiterals, UNCHANGED way
    PROVE  CoreOK' /\ TableOnly
<1> DEFINE n == CatchUp
           there == ip - n
           lit == there - anchor
           tight == LiteralsTight(Len(dst) + 1, lit)
           i == Index(ip)
<1>1. /\ pc = "literals" /\ ip' = there /\ match' = match - n /\ token' = Len(dst)
      /\ UNCHANGED << ctx, anchor, fwd, step, nb, low, back, buf, sizes, slots, job >>
      /\ \/ tight /\ pc' = "done" /\ dst' = dst
         \/ tight /\ pc' = "last" /\ dst' = dst
         \/ /\ ~tight /\ pc' = "match"
            /\ dst' = dst \o RunHead(lit) \o SubSeq(buf, anchor + 1, there)
  BY LiteralsStep, Zenon DEF GiveUp
<1>2. /\ StateOK(ctx) /\ Begun /\ AtLiterals /\ JobOK
      /\ slots \in Nat \ {0} /\ buf \in Seq(Nat) /\ dst \in Seq(Int)
      /\ ctx.table \in [0 .. slots - 1 -> Nat]
  BY <1>1 DEF CoreOK, Busy, LoopOK, Begun, StateOK, States
<1>3. /\ anchor \in Nat /\ Start <= anchor /\ ip \in Nat /\ anchor <= ip /\ Start < ip
      /\ ip + 12 <= iend /\ match \in Int /\ low \in Int
      /\ Full \/ (Below(ctx.table, i + 1) /\ Landed(ip, match, low, back))
  BY <1>2 DEF AtLiterals, MFLIMIT
<1>4. /\ n \in 0 .. ip - anchor
      /\ low <= match => n <= match - low
      /\ \A k \in 1 .. n : B(ip - k) = B(match - k)
  BY <1>3, CatchIs
<1>5. Start \in Nat /\ iend \in Nat /\ iend <= Len(buf)
  BY <1>2, BoundsAre
<1>6. /\ Start' = Start /\ iend' = iend
      /\ Index(ip)' = Index(ip')
      /\ \A j : Below(ctx.table, j)' <=> Below(ctx'.table, j)
      /\ Landed(ip, match, low, back)' <=> Landed(ip', match', low', back')
      /\ InDict(low)' <=> InDict(low')
      /\ \A m : Alike(ip, match, m)' <=> Alike(ip', match', m)
  BY <1>1, SameBlock
<1>7. StateOK(ctx)' /\ Begun'
  BY <1>1, <1>2, TableStays
<1>8. n \in Nat /\ there \in Nat /\ anchor <= there /\ there <= iend /\ lit \in Nat
      /\ there <= Len(buf) /\ Len(buf) \in Nat
  <2>1. Len(buf) \in Nat
    BY <1>2, LenProperties
  <2> HIDE DEF n
  <2> QED BY <1>3, <1>4, <1>5, <2>1
<1>9. Len(dst) \in Nat
  BY <1>2, LenProperties
<1>10. token' \in Nat /\ slots' \in Nat \ {0} /\ buf' \in Seq(Nat) /\ TableOnly
  BY <1>1, <1>2, <1>9 DEF TableOnly
<1> HIDE DEF n, there, lit, tight
<1>11. CASE pc' \in {"done", "last"}
  <2>1. dst' = dst
    BY <1>1, <1>11
  <2>2. LoopOK'
    <3>1. AtLast'
      BY <1>1, <1>3, <1>5, <1>6 DEF AtLast
    <3> QED BY <1>11, <3>1 DEF LoopOK
  <2> QED BY <1>2, <1>7, <1>10, <1>11, <2>1, <2>2 DEF CoreOK
<1>12. CASE pc' = "match"
  <2>1. ~tight /\ dst' = dst \o RunHead(lit) \o SubSeq(buf, anchor + 1, there)
    BY <1>1, <1>12
  <2>2. dst' \in Seq(Int)
    BY <1>2, <1>3, <1>8, <2>1, LiteralsPut DEF lit
  <2>3. Full => FALSE
    <3>1. Full => /\ job.limit = "fillOutput" /\ Len(dst) + 8 >= job.cap
      BY DEF Full
    <3>2. ~(/\ job.limit = "fillOutput"
            /\ Len(dst) + 1 + Extras(lit) + lit + 2 + 1 + 12 - 4 > job.cap)
      BY <2>1, Zenon DEF tight, LiteralsTight, Extras, MFLIMIT, MINMATCH
    <3>3. Extras(lit) \in Nat
      BY <1>8, RunHeadIs
    <3>4. job.cap \in Nat
      BY <1>2 DEF JobOK
    <3> QED BY <1>8, <1>9, <3>1, <3>2, <3>3, <3>4
  <2>4. Below(ctx.table, i + 1) /\ Landed(ip, match, low, back)
    BY <1>3, <2>3
  <2> DEFINE m == match - n
  <2>5. /\ m \in Int /\ low \in Nat /\ low <= m
        /\ IF InDict(low) THEN match + 4 <= job.dictEnd ELSE m < there
        /\ (IF External THEN back ELSE there - m) \in 1 .. MAX_DISTANCE
        /\ job.dictEnd \in Int /\ m + 4 <= Len(buf)
    <3>1. /\ low \in Nat /\ low <= match /\ match + 4 <= Len(buf)
          /\ IF InDict(low) THEN match + 4 <= job.dictEnd ELSE match < ip
          /\ (IF External THEN back ELSE ip - match) \in 1 .. MAX_DISTANCE
      BY <2>4 DEF Landed, MINMATCH
    <3>2. there - m = ip - match
      BY <1>3, <1>8 DEF there
    <3>3. job.dictEnd \in Int
      BY <1>2 DEF JobOK
    <3> QED BY <1>3, <1>4, <1>8, <3>1, <3>2, <3>3 DEF there
  <2>6. Alike(there, m, n + 4)
    <3>1. ASSUME NEW k \in 0 .. (n + 4) - 1 PROVE B(there + k) = B(m + k)
      <4>1. CASE k < n
        <5> DEFINE q == n - k
        <5>1. q \in 1 .. n /\ there + k = ip - q /\ m + k = match - q
          BY <1>3, <1>8, <4>1 DEF there
        <5> HIDE DEF q
        <5> QED BY <1>4, <5>1
      <4>2. CASE ~(k < n)
        <5> DEFINE q == k - n
        <5>1. q \in 0 .. 3 /\ there + k = ip + q /\ m + k = match + q
          BY <1>3, <1>8, <4>2 DEF there
        <5>2. \A l \in 0 .. 3 : B(ip + l) = B(match + l)
          BY <2>4 DEF Landed, Alike, MINMATCH
        <5> HIDE DEF q
        <5> QED BY <5>1, <5>2
      <4> QED BY <4>1, <4>2
    <3> HIDE DEF m
    <3> QED BY <3>1, Zenon DEF Alike
  <2>7. Landed(there, m, low, back)
    <3>1. Alike(there, m, 4)
      <4>1. \A k \in 0 .. 4 - 1 : k \in 0 .. (n + 4) - 1
        BY <1>8
      <4> HIDE DEF m
      <4> QED BY <2>6, <4>1, Zenon DEF Alike
    <3>2. IF InDict(low) THEN m + 4 <= job.dictEnd ELSE m < there
      BY <1>3, <1>8, <2>5
    <3> HIDE DEF m
    <3> QED BY <2>5, <3>1, <3>2, Zenon DEF Landed, MINMATCH
  <2>8. /\ Below(ctx'.table, Index(ip') + n + 1)
        /\ ip' + n + MFLIMIT <= iend
        /\ Alike(ip', match', n + MINMATCH)
        /\ InDict(low') => match' + n + MINMATCH <= job.dictEnd
    <3>1. Index(ip') + n + 1 = i + 1
      <4>1. ip \in Int /\ there \in Int
        BY <1>3, <1>8
      <4>2. /\ Index(ip) = ip - job.start + job.startIndex
            /\ Index(there) = there - job.start + job.startIndex
        BY <1>2, <4>1, IndexIs
      <4>3. job.start \in Nat /\ job.startIndex \in Nat
        BY <1>2 DEF JobOK
      <4> QED BY <1>1, <1>3, <1>8, <4>1, <4>2, <4>3 DEF there
    <3>2. there + n = ip /\ m + n = match
      BY <1>3, <1>8 DEF there
    <3>3. match' = m /\ ip' = there /\ low' = low /\ ctx' = ctx
      BY <1>1
    <3>4. Below(ctx'.table, Index(ip') + n + 1)
      BY <2>4, <3>1, <3>3
    <3>5. Alike(ip', match', n + MINMATCH)
      BY <2>6, <3>3 DEF MINMATCH
    <3>6. ip' + n + MFLIMIT <= iend
      BY <1>3, <3>2, <3>3 DEF MFLIMIT
    <3>7. InDict(low') => match' + n + MINMATCH <= job.dictEnd
      <4>1. InDict(low) => match + 4 <= job.dictEnd
        BY <2>5
      <4> HIDE DEF m
      <4> QED BY <3>2, <3>3, <4>1 DEF MINMATCH
    <3> QED BY <3>4, <3>5, <3>6, <3>7
  <2>9. \E q \in Nat : Ahead(q)'
    <3>1. \A q : Ahead(q)' <=> /\ Below(ctx'.table, Index(ip') + q + 1)
                               /\ ip' + q + MFLIMIT <= iend
                               /\ Alike(ip', match', q + MINMATCH)
                               /\ InDict(low') => match' + q + MINMATCH <= job.dictEnd
      BY <1>1, SameAhead, Zenon
    <3>2. \E q \in Nat : q = n
      BY <1>8
    <3> QED BY <2>8, <3>1, <3>2, Zenon
  <2>10. AtMatch'
    <3>1. Landed(ip, match, low, back)'
      BY <1>1, <1>6, <2>7
    <3>2. anchor' \in Nat /\ Start' <= anchor' /\ ip' \in Nat /\ anchor' <= ip'
      BY <1>1, <1>3, <1>6, <1>8
    <3>3. ip' + MFLIMIT <= iend'
      <4>1. there <= ip /\ ip \in Nat
        BY <1>3, <1>8 DEF there
      <4> QED BY <1>1, <1>3, <1>5, <1>6, <1>8, <4>1 DEF MFLIMIT
    <3>4. token' < Len(dst')
      <4>1. Len(dst') = Len(dst) + 1 + Extras(lit) + lit
        BY <1>2, <1>3, <1>8, <2>1, LiteralsPut DEF lit
      <4>2. Extras(lit) \in Nat
        BY <1>8, RunHeadIs
      <4> QED BY <1>1, <1>8, <1>9, <4>1, <4>2
    <3> QED BY <2>9, <3>1, <3>2, <3>3, <3>4, Zenon DEF AtMatch
  <2>11. LoopOK'
    BY <1>12, <2>10 DEF LoopOK
  <2> QED BY <1>7, <1>10, <1>12, <2>2, <2>11 DEF CoreOK
<1> QED BY <1>1, <1>11, <1>12

(* The match found is extended over all that is known to be equal, and not *)
(* into the last literals.                                                 *)
LEMMA MatchCodeIs ==
    ASSUME CoreOK, pc = "match", NEW n \in Nat, Ahead(n), Landed(ip, match, low, back)
    PROVE  MatchCode \in Nat /\ n <= MatchCode /\ ip + 4 + MatchCode + 5 <= iend
<1>1. JobOK /\ AtMatch
  BY DEF CoreOK, Busy, LoopOK, Begun
<1>2. /\ ip \in Nat /\ match \in Int /\ Start \in Nat /\ iend \in Nat
      /\ matchlimit = iend - 5 /\ job.dictEnd \in Int
      /\ ip + n + 12 <= iend
      /\ InDict(low) => match + n + 4 <= job.dictEnd
  BY <1>1, BoundsAre DEF AtMatch, Landed, Ahead, MFLIMIT, MINMATCH, JobOK
<1> DEFINE a == ip + 4
           b == match + 4
           ml == matchlimit
           x == ip + (job.dictEnd - match)
           limit == Min({x, ml})
           e == LZ4_count(a, b, limit)
           f == LZ4_count(limit, Start, ml)
           g == LZ4_count(a, b, ml)
<1>3. MatchCode = IF InDict(low) THEN IF a + e = limit THEN e + f ELSE e ELSE g
  BY Zenon DEF MatchCode, MINMATCH, InDict
<1>4. /\ a \in Int /\ b \in Int /\ ml \in Int /\ a + n <= ml /\ x \in Int
      /\ InDict(low) => a + n <= x
  BY <1>2
<1>5. \A k \in 0 .. n - 1 : B(a + k) = B(b + k)
  <2>1. ASSUME NEW k \in 0 .. n - 1 PROVE B(a + k) = B(b + k)
    <3> DEFINE q == k + 4
    <3>1. q \in 0 .. (n + 4) - 1 /\ a + k = ip + q /\ b + k = match + q
      BY <1>2
    <3>2. \A l \in 0 .. (n + 4) - 1 : B(ip + l) = B(match + l)
      BY Zenon DEF Ahead, Alike, MINMATCH
    <3> HIDE DEF q, a, b
    <3> QED BY <3>1, <3>2
  <2> QED BY <2>1
<1>6. a = ip + 4 /\ ml = iend - 5
  BY <1>2
<1> HIDE DEF a, b, x, ml, limit, e, f, g
<1>7. Alike(a, b, n)
  BY <1>5, Zenon DEF Alike
<1>8. CASE InDict(low)
  <2>1. limit \in Int /\ limit <= ml /\ limit <= x /\ limit \in {x, ml}
    <3>1. limit = IF x <= ml THEN x ELSE ml
      <4> DEFINE m == IF x <= ml THEN x ELSE ml
      <4>1. m \in {x, ml} /\ \A y \in {x, ml} : m <= y
        BY <1>4
      <4>2. \A z \in {x, ml} : (\A y \in {x, ml} : z <= y) => z = m
        BY <1>4
      <4> HIDE DEF m
      <4>3. Min({x, ml}) = m
        BY <4>1, <4>2 DEF Min
      <4> QED BY <4>3 DEF m, limit
    <3> QED BY <1>4, <3>1
  <2>2. a + n <= limit
    BY <1>4, <1>8, <2>1
  <2>3. e \in 0 .. limit - a
    <3>1. a <= limit
      BY <1>4, <2>1, <2>2
    <3> QED BY <1>4, <2>1, <3>1, CountIs DEF e
  <2>4. e >= n
    BY <1>4, <1>7, <2>1, <2>2, CountAtLeast DEF e
  <2>5. f \in 0 .. ml - limit
    <3>1. limit \in Int /\ Start \in Int /\ ml \in Int /\ limit <= ml
      BY <1>2, <1>4, <2>1
    <3> QED BY ONLY <3>1, CountIs DEF f
  <2> QED BY <1>2, <1>3, <1>4, <1>6, <1>8, <2>1, <2>2, <2>3, <2>4, <2>5
<1>9. CASE ~InDict(low)
  <2>1. g \in 0 .. ml - a
    <3>1. a <= ml
      BY <1>4
    <3> QED BY <1>4, <3>1, CountIs DEF g
  <2>2. g >= n
    BY <1>4, <1>7, CountAtLeast DEF g
  <2> QED BY <1>2, <1>3, <1>4, <1>6, <1>9, <2>1, <2>2
<1> QED BY <1>8, <1>9

(* An offset and a length, put behind what dst has.                        *)
MatchOut(code, off) ==
    [dst EXCEPT ![token + 1] = @ + Min({code, ML_MASK})]
        \o << off % 256, off \div 256 >>
        \o (IF code >= ML_MASK THEN LengthBytes(code - ML_MASK) ELSE << >>)

LEMMA MatchPut ==
    ASSUME dst \in Seq(Int), token \in Nat, token < Len(dst), NEW code \in Nat,
           NEW off \in Int
    PROVE  /\ MatchOut(code, off) \in Seq(Int)
           /\ Len(MatchOut(code, off)) = Len(dst) + 2 + Extras(code)
<1> DEFINE v == dst[token + 1] + Min({code, ML_MASK})
           d == [dst EXCEPT ![token + 1] = v]
           o == << off % 256, off \div 256 >>
           t == IF code >= ML_MASK THEN LengthBytes(code - ML_MASK) ELSE << >>
<1>1. v \in Int
  <2>1. token + 1 \in 1 .. Len(dst)
    BY LenProperties
  <2>2. dst[token + 1] \in Int
    BY <2>1, ElementOfSeq
  <2>3. Min({code, ML_MASK}) \in Int
    <3>1. {code, ML_MASK} \subseteq Nat /\ {code, ML_MASK} # {}
      BY DEF ML_MASK
    <3>2. Min({code, ML_MASK}) \in {code, ML_MASK}
      BY <3>1, LeastTaken, Zenon
    <3> QED BY <3>1, <3>2
  <2> QED BY <2>2, <2>3
<1>2. d \in Seq(Int) /\ Len(d) = Len(dst)
  <2> HIDE DEF v
  <2>1. token + 1 \in 1 .. Len(dst)
    BY LenProperties
  <2> QED BY <1>1, <2>1, ExceptSeq
<1>3. o \in Seq(Int) /\ Len(o) = 2
  <2>1. off % 256 \in Int /\ off \div 256 \in Int
    OBVIOUS
  <2> QED BY <2>1
<1>4. t \in Seq(Int) /\ Len(t) = Extras(code)
  <2>1. CASE code >= 15
    <3> DEFINE m == code - 15
    <3>1. m \in Nat /\ t = LengthBytes(m)
      BY <2>1 DEF ML_MASK
    <3> HIDE DEF m
    <3>2. LengthBytes(m) \in Seq(Int) /\ Len(LengthBytes(m)) = m \div 255 + 1
      BY <3>1, LengthBytesAre
    <3>3. Extras(code) = m \div 255 + 1
      BY <2>1, RunHeadIs DEF m
    <3> QED BY <3>1, <3>2, <3>3
  <2>2. CASE ~(code >= 15)
    <3>1. t = << >>
      BY <2>2 DEF ML_MASK
    <3>2. Extras(code) = 0
      BY <2>2, RunHeadIs
    <3>3. << >> \in Seq(Int) /\ Len(<< >>) = 0
      BY EmptySeq
    <3> QED BY <3>1, <3>2, <3>3
  <2> QED BY <2>1, <2>2
<1>5. MatchOut(code, off) = d \o o \o t
  BY Zenon DEF MatchOut
<1>6. Len(dst) \in Nat /\ Extras(code) \in Nat
  BY LenProperties, RunHeadIs
<1> HIDE DEF d, o, t
<1> DEFINE u == d \o o
<1>7. u \in Seq(Int) /\ Len(u) = Len(d) + Len(o)
  BY <1>2, <1>3, ConcatProperties
<1> HIDE DEF u
<1>8. u \o t \in Seq(Int) /\ Len(u \o t) = Len(u) + Len(t)
  BY <1>4, <1>7, ConcatProperties
<1>9. MatchOut(code, off) = u \o t
  BY <1>5 DEF u
<1> QED BY <1>2, <1>3, <1>4, <1>6, <1>7, <1>8, <1>9

(* What EncodeMatch does, by cases: the match is given up, dst has no room *)
(* for it, or it is put.                                                   *)
LEMMA MatchStep ==
    ASSUME EncodeMatch
    PROVE  LET op == Len(dst) + 2
               tight == /\ job.limit # "notLimited"
                        /\ op + (1 + LASTLITERALS) + MatchCode \div 256 > job.cap
               code == IF tight THEN ReducedMatchCode(op) ELSE MatchCode
           IN  /\ pc = "match"
               /\ \/ /\ Rewind
                     /\ dst' = SubSeq(dst, 1, token) /\ pc' = "last"
                     /\ UNCHANGED << ip, anchor, high, ret >>
                  \/ /\ job.limit = "limitedOutput" /\ tight /\ GiveUp
                     /\ ip' = ip + MINMATCH + MatchCode
                     /\ dst' = dst \o << Offset % 256, Offset \div 256 >>
                     /\ high' = Max({high, op})
                     /\ UNCHANGED anchor
                  \/ /\ ~Rewind /\ ~(job.limit = "limitedOutput" /\ tight)
                     /\ ip' = ip + MINMATCH + code
                     /\ anchor' = ip'
                     /\ dst' = MatchOut(code, Offset)
                     /\ high' = Max({high, Len(dst')} \cup
                           {op + 4 + 4 * (k \div 1020) : k \in {code - ML_MASK} \cap Nat})
                     /\ pc' = IF ip' >= mflimitPlusOne THEN "last" ELSE "next"
                     /\ UNCHANGED ret
               /\ UNCHANGED << ctx, match, fwd, step, nb, low, back, token,
                               buf, sizes, slots, job >>
  BY Zenon DEF EncodeMatch, Unmoved, MatchOut

(* A match that is cut short fills dst up to the last eight bytes.         *)
LEMMA CutShort ==
    ASSUME NEW D \in Nat, NEW cap \in Nat, NEW count \in Nat,
           D + 11 <= cap, D + 2 + 6 + count \div 256 > cap
    PROVE  LET r == 14 + (cap - (D + 2) - 8) * 255
           IN  /\ r \in Nat /\ r < count /\ r >= 15
               /\ D + 2 + Extras(r) = cap - 8
<1> DEFINE z == cap - D - 10
           r == 14 + 255 * z
           q == count \div 256
<1>1. z \in Nat /\ z >= 1 /\ (cap - (D + 2) - 8) * 255 = 255 * z
  OBVIOUS
<1>2. q \in Nat /\ 256 * q <= count
  OBVIOUS
<1>3. q >= z + 3
  OBVIOUS
<1>4. D + 10 + z = cap
  OBVIOUS
<1> HIDE DEF z, q
<1>5. r \in Nat /\ r < count /\ r >= 15
  BY <1>1, <1>2, <1>3
<1>6. Extras(r) = z
  <2>1. r + 240 = 255 * z + 254
    BY <1>1
  <2>2. (255 * z + 254) \div 255 = z
    BY <1>1
  <2> QED BY <2>1, <2>2 DEF Extras
<1>7. 14 + (cap - (D + 2) - 8) * 255 = r
  BY <1>1
<1> HIDE DEF r
<1> QED BY <1>1, <1>4, <1>5, <1>6, <1>7

LEMMA CodeIs ==
    ASSUME CoreOK, pc = "match", ~Rewind,
           ~(/\ job.limit = "limitedOutput"
             /\ Len(dst) + 2 + (1 + LASTLITERALS) + MatchCode \div 256 > job.cap)
    PROVE  LET op == Len(dst) + 2
               tight == /\ job.limit # "notLimited"
                        /\ op + (1 + LASTLITERALS) + MatchCode \div 256 > job.cap
               code == IF tight THEN ReducedMatchCode(op) ELSE MatchCode
           IN  /\ code \in Nat /\ code <= MatchCode
               /\ MatchCode \in Nat /\ ip + 4 + MatchCode + 5 <= iend
               /\ tight => /\ job.limit = "fillOutput" /\ Len(dst) + 11 <= job.cap
                           /\ op + Extras(code) = job.cap - 8 /\ code >= 15
               /\ ~tight => Below(ctx.table, Index(ip) + MatchCode + 1)
<1> DEFINE D == Len(dst)
           cap == job.cap
           count == MatchCode
           tight == /\ job.limit # "notLimited"
                    /\ D + 2 + (1 + LASTLITERALS) + count \div 256 > cap
           r == ReducedMatchCode(D + 2)
<1>1. /\ JobOK /\ AtMatch /\ D \in Nat /\ cap \in Nat /\ iend \in Nat
      /\ ip \in Nat /\ ctx.table \in [0 .. slots - 1 -> Nat]
  BY LenProperties, BoundsAre
     DEF CoreOK, Busy, LoopOK, Begun, JobOK, AtMatch, StateOK, States
<1>2. PICK n \in Nat : Ahead(n)
  BY <1>1 DEF AtMatch
<1>3. count \in Nat /\ n <= count /\ ip + 4 + count + 5 <= iend
  BY <1>1, <1>2, MatchCodeIs DEF AtMatch
<1>4. Below(ctx.table, Index(ip) + count + 1)
  <2>1. Below(ctx.table, Index(ip) + n + 1)
    BY <1>2 DEF Ahead
  <2>2. Index(ip) \in Int
    BY <1>1, IndexIs
  <2>3. \A h \in 0 .. slots - 1 : ctx.table[h] \in Int
    <3>1. ctx.table \in [0 .. slots - 1 -> Nat]
      BY <1>1
    <3>2. \A h \in 0 .. slots - 1 : ctx.table[h] \in Nat
      BY <3>1, Zenon
    <3> QED BY <3>2
  <2> DEFINE i == Index(ip) + n + 1
             j == Index(ip) + count + 1
  <2>4. i \in Int /\ j \in Int /\ i <= j
    <3> HIDE DEF count
    <3> QED BY <1>3, <2>2
  <2> HIDE DEF i, j
  <2> QED BY <2>1, <2>3, <2>4, BelowIs DEF i, j
<1>5. r = 14 + (cap - (D + 2) - 8) * 255
  <2> DEFINE e == cap - (D + 2)
  <2>1. r = 15 - 1 + (e - 2 - 1 - 5) * 255
    BY DEF ReducedMatchCode, LASTLITERALS
  <2>2. e \in Int
    <3> HIDE DEF D, cap
    <3> QED BY <1>1
  <2> HIDE DEF e, r
  <2>3. r = 14 + (e - 8) * 255
    BY <2>1, <2>2
  <2> QED BY <2>3 DEF e
<1>6. tight => job.limit = "fillOutput"
  BY <1>1 DEF JobOK
<1>7. job.limit = "fillOutput" => D + 11 <= cap
  <2>1. job.limit = "fillOutput" => ~(D + 2 + 1 + 12 - 4 > cap)
    BY DEF Rewind, MFLIMIT, MINMATCH
  <2> HIDE DEF D, cap
  <2> QED BY <1>1, <2>1
<1>8. tight => /\ r \in Nat /\ r < count /\ r >= 15 /\ D + 2 + Extras(r) = cap - 8
               /\ D + 11 <= cap
  <2>1. ASSUME tight
        PROVE  /\ r \in Nat /\ r < count /\ r >= 15 /\ D + 2 + Extras(r) = cap - 8
               /\ D + 11 <= cap
    <3>1. D + 11 <= cap /\ D + 2 + 6 + count \div 256 > cap
      <4>1. D + 2 + (1 + LASTLITERALS) + count \div 256 > cap
        BY <2>1
      <4>2. 1 + LASTLITERALS = 6
        BY DEF LASTLITERALS
      <4> QED BY <1>6, <1>7, <2>1, <4>1, <4>2
    <3> HIDE DEF D, cap, count, r
    <3> QED BY <1>1, <1>3, <1>5, <3>1, CutShort
  <2> QED BY <2>1
<1> HIDE DEF D, cap, count, r
<1>9. CASE tight
  <2>1. job.limit = "fillOutput" /\ D + 11 <= cap /\ r \in Nat /\ r <= count /\ r >= 15
        /\ D + 2 + Extras(r) = cap - 8
    BY <1>3, <1>6, <1>8, <1>9
  <2> QED BY <1>3, <1>9, <2>1, Zenon DEF D, cap, count, r
<1>10. CASE ~tight
  <2>1. count <= count
    BY <1>3
  <2> QED BY <1>3, <1>4, <1>10, <2>1, Zenon DEF D, cap, count, r
<1> QED BY <1>9, <1>10

LEMMA EncodeMatchKeeps ==
    ASSUME CoreOK, EncodeMatch, UNCHANGED way
    PROVE  CoreOK' /\ TableOnly
<1> DEFINE D == Len(dst)
           count == MatchCode
           tight == /\ job.limit # "notLimited"
                    /\ D + 2 + (1 + LASTLITERALS) + count \div 256 > job.cap
           code == IF tight THEN ReducedMatchCode(D + 2) ELSE count
<1>1. /\ pc = "match"
      /\ UNCHANGED << ctx, match, fwd, step, nb, low, back, token, buf, sizes, slots, job >>
      /\ \/ dst' = SubSeq(dst, 1, token) /\ pc' = "last" /\ anchor' = anchor
         \/ /\ job.limit = "limitedOutput" /\ pc' = "done"
            /\ dst' = dst \o << Offset % 256, Offset \div 256 >>
         \/ /\ ~Rewind /\ ~(job.limit = "limitedOutput" /\ tight)
            /\ ip' = ip + MINMATCH + code /\ anchor' = ip'
            /\ dst' = MatchOut(code, Offset)
            /\ pc' = IF ip' >= mflimitPlusOne THEN "last" ELSE "next"
  BY MatchStep, Zenon DEF GiveUp
<1>2. /\ StateOK(ctx) /\ Begun /\ AtMatch /\ JobOK
      /\ slots \in Nat \ {0} /\ buf \in Seq(Nat) /\ dst \in Seq(Int) /\ token \in Nat
      /\ ctx.table \in [0 .. slots - 1 -> Nat] /\ D \in Nat
  BY <1>1, LenProperties DEF CoreOK, Busy, LoopOK, Begun, StateOK, States
<1>3. /\ anchor \in Nat /\ Start <= anchor /\ ip \in Nat /\ anchor <= ip
      /\ ip + 12 <= iend /\ token < D
  BY <1>2 DEF AtMatch, MFLIMIT
<1>4. Start \in Nat /\ iend \in Nat /\ iend <= Len(buf) /\ mflimitPlusOne = iend - 11
  BY <1>2, BoundsAre
<1>5. /\ Start' = Start /\ iend' = iend
      /\ Index(ip)' = Index(ip')
      /\ \A j : Below(ctx.table, j)' <=> Below(ctx'.table, j)
  BY <1>1, SameBlock
<1>6. StateOK(ctx)' /\ Begun'
  BY <1>1, <1>2, TableStays
<1>7. slots' \in Nat \ {0} /\ buf' \in Seq(Nat) /\ token' \in Nat /\ TableOnly
  BY <1>1, <1>2 DEF TableOnly
<1>8. ~Rewind => Landed(ip, match, low, back) /\ Offset \in Int
  <2>1. ~Rewind => Landed(ip, match, low, back)
    BY <1>2 DEF AtMatch
  <2>2. Landed(ip, match, low, back) => Offset \in 1 .. MAX_DISTANCE
    BY Zenon DEF Landed, Offset
  <2>3. MAX_DISTANCE \in Int
    BY SizesOK
  <2> QED BY <2>1, <2>2, <2>3
<1> HIDE DEF D, count, tight, code
<1>9. CASE dst' = SubSeq(dst, 1, token) /\ pc' = "last" /\ anchor' = anchor
  <2>1. dst' \in Seq(Int)
    <3>1. \A k \in 1 .. token : dst[k] \in Int
      <4>1. \A k \in 1 .. token : k \in 1 .. Len(dst)
        BY <1>2, <1>3 DEF D
      <4> QED BY <1>2, <4>1, ElementOfSeq
    <3>2. token \in Int
      BY <1>2
    <3>3. SubSeq(dst, 1, token) \in Seq(Int)
      BY <3>1, <3>2, SubSeqProperties
    <3> QED BY <1>9, <3>3
  <2>2. AtLast'
    BY <1>3, <1>4, <1>5, <1>9 DEF AtLast
  <2>3. LoopOK'
    BY <1>9, <2>2 DEF LoopOK
  <2> QED BY <1>6, <1>7, <1>9, <2>1, <2>3 DEF CoreOK
<1>10. CASE /\ job.limit = "limitedOutput" /\ pc' = "done"
            /\ dst' = dst \o << Offset % 256, Offset \div 256 >>
  <2>1. Offset \in Int
    BY <1>8, <1>10 DEF Rewind
  <2> DEFINE o == << Offset % 256, Offset \div 256 >>
  <2>2. o \in Seq(Int)
    <3>1. Offset % 256 \in Int /\ Offset \div 256 \in Int
      BY <2>1
    <3> QED BY <3>1
  <2> HIDE DEF o
  <2>3. dst \o o \in Seq(Int)
    BY <1>2, <2>2, ConcatProperties
  <2>4. dst' \in Seq(Int)
    BY <1>10, <2>3 DEF o
  <2>5. LoopOK'
    BY <1>10 DEF LoopOK
  <2> QED BY <1>6, <1>7, <1>10, <2>4, <2>5 DEF CoreOK
<1>11. CASE /\ ~Rewind /\ ~(job.limit = "limitedOutput" /\ tight)
            /\ ip' = ip + MINMATCH + code /\ anchor' = ip'
            /\ dst' = MatchOut(code, Offset)
            /\ pc' = IF ip' >= mflimitPlusOne THEN "last" ELSE "next"
  <2>1. /\ code \in Nat /\ code <= count
        /\ count \in Nat /\ ip + 4 + count + 5 <= iend
        /\ tight => /\ job.limit = "fillOutput" /\ D + 11 <= job.cap
                    /\ D + 2 + Extras(code) = job.cap - 8 /\ code >= 15
        /\ ~tight => Below(ctx.table, Index(ip) + count + 1)
        /\ ~tight => code = count
    <3>1. ~(/\ job.limit = "limitedOutput"
            /\ Len(dst) + 2 + (1 + LASTLITERALS) + MatchCode \div 256 > job.cap)
      BY <1>11 DEF tight, D, count
    <3> QED BY <1>1, <1>11, <3>1, CodeIs, Zenon DEF tight, D, count, code
  <2>2. dst' \in Seq(Int) /\ Len(dst') = D + 2 + Extras(code)
    BY <1>2, <1>3, <1>8, <1>11, <2>1, MatchPut DEF D
  <2>3. ip' = ip + 4 + code /\ ip' \in Nat /\ ip' + 5 <= iend /\ ip < ip'
    <3>1. /\ code \in Nat /\ count \in Nat /\ code <= count
          /\ ip + 4 + count + 5 <= iend /\ ip \in Nat /\ iend \in Nat
      BY <1>3, <1>4, <2>1
    <3>2. ip' = ip + 4 + code
      BY <1>11 DEF MINMATCH
    <3> DEFINE e == iend
    <3> HIDE DEF e
    <3>3. ip + 4 + count + 5 <= e /\ e \in Nat
      BY <3>1 DEF e
    <3>4. ip' \in Nat /\ ip' + 5 <= e /\ ip < ip'
      BY <3>1, <3>2, <3>3
    <3> QED BY <3>2, <3>4 DEF e
  <2>4. CASE pc' = "last"
    <3>1. AtLast'
      BY <1>3, <1>4, <1>5, <1>11, <2>3 DEF AtLast
    <3>2. LoopOK'
      BY <2>4, <3>1 DEF LoopOK
    <3> QED BY <1>6, <1>7, <2>2, <2>4, <3>2 DEF CoreOK
  <2>5. CASE pc' = "next"
    <3>1. ip' + 12 <= iend
      <4>1. ~(ip' >= mflimitPlusOne)
        BY <1>11, <2>5
      <4> QED BY <1>4, <2>3, <4>1
    <3>2. tight => Full'
      <4>1. tight => job.limit = "fillOutput" /\ D + 2 + Extras(code) = job.cap - 8
        BY <2>1
      <4>2. job.cap \in Nat /\ job' = job
        BY <1>1, <1>2 DEF JobOK
      <4>3. tight => Len(dst') + 8 >= job.cap
        BY <2>2, <4>1, <4>2
      <4> QED BY <4>1, <4>2, <4>3 DEF Full
    <3>3. ~tight => Below(ctx.table, Index(ip))'
      <4>1. ASSUME ~tight PROVE Below(ctx.table, Index(ip'))
        <5>1. Below(ctx.table, Index(ip) + count + 1) /\ ip' = ip + 4 + count
          BY <2>1, <2>3, <4>1
        <5> DEFINE i == Index(ip) + count + 1
                   j == Index(ip')
        <5>2. i \in Int /\ j \in Int /\ i <= j
          <6>1. ip \in Int /\ ip' \in Int
            BY <1>3, <2>3
          <6>2. /\ Index(ip) = ip - job.start + job.startIndex
                /\ Index(ip') = ip' - job.start + job.startIndex
            BY <1>2, <6>1, IndexIs
          <6>3. job.start \in Nat /\ job.startIndex \in Nat
            BY <1>2 DEF JobOK
          <6> QED BY <2>1, <5>1, <6>1, <6>2, <6>3
        <5>3. \A h \in 0 .. slots - 1 : ctx.table[h] \in Int
          <6>1. \A h \in 0 .. slots - 1 : ctx.table[h] \in Nat
            BY <1>2, Zenon
          <6> QED BY <6>1
        <5> HIDE DEF i, j
        <5>4. Below(ctx.table, j)
          BY <5>1, <5>2, <5>3, BelowIs DEF i
        <5> QED BY <5>4 DEF j
      <4> QED BY <1>1, <1>5, <4>1
    <3>4. AtNext'
      <4>1. Start' + 2 <= ip'
        BY <1>3, <1>4, <1>5, <2>1, <2>3
      <4> QED BY <1>5, <1>11, <2>3, <3>1, <3>2, <3>3, <4>1 DEF AtNext, MFLIMIT
    <3>5. LoopOK'
      BY <2>5, <3>4 DEF LoopOK
    <3> QED BY <1>6, <1>7, <2>2, <2>5, <3>5 DEF CoreOK
  <2> QED BY <1>11, <2>4, <2>5
<1> QED BY <1>1, <1>9, <1>10, <1>11

LEMMA OldGrows ==
    ASSUME JobOK, NEW tab, OldFine(tab), NEW new,
           \A h \in 0 .. slots - 1 :
              new[h] = tab[h] \/ (new[h] \in Nat /\ job.startIndex <= new[h])
    PROVE  OldFine(new)
<1>1. \A h \in 0 .. slots - 1 : new[h] < job.startIndex => new[h] = tab[h]
  <2>1. job.startIndex \in Nat
    BY DEF JobOK
  <2> QED BY <2>1
<1>2. OldLow(new)
  BY <1>1 DEF OldFine, OldLow
<1>3. job.dict = "noDict" => OldUnused(new) /\ job.lowLimit = job.start
  BY <1>1 DEF OldFine, OldUnused
<1>4. job.dict = "usingExtDict" => OldInDict(new)
  BY <1>1 DEF OldFine, OldInDict
<1> QED BY <1>2, <1>3, <1>4 DEF OldFine

(* Putting a position of the block into the table.                         *)
LEMMA PutIs ==
    ASSUME JobOK, buf \in Seq(Nat), slots \in Nat \ {0},
           NEW tab \in [0 .. slots - 1 -> Nat],
           NEW p \in Nat, Start <= p, p + MFLIMIT <= iend
    PROVE  LET slot == LZ4_hashPosition(p, job.type)
               new == [tab EXCEPT ![slot] = Entry(Index(p), job.type)]
           IN  /\ slot \in 0 .. slots - 1 /\ new \in [0 .. slots - 1 -> Nat]
               /\ LZ4_putPosition(p, tab, job.type) = new
               /\ Index(p) \in Nat /\ job.startIndex <= Index(p)
               /\ Index(p) + 12 <= job.startIndex + job.size
               /\ \A h \in 0 .. slots - 1 :
                     new[h] = IF h = slot THEN Index(p) ELSE tab[h]
<1> DEFINE slot == LZ4_hashPosition(p, job.type)
           i == Index(p)
           v == Entry(i, job.type)
           new == [tab EXCEPT ![slot] = v]
<1>1. v = i /\ i \in Nat /\ job.startIndex <= i /\ i + 12 <= job.startIndex + job.size
  BY EntryIs
<1>2. slot \in 0 .. slots - 1
  <2>1. p + 5 <= Len(buf)
    <3>1. iend <= Len(buf) /\ iend \in Nat /\ Len(buf) \in Nat
      BY BoundsAre, LenProperties
    <3> DEFINE e == iend
               l == Len(buf)
    <3>2. p + 12 <= e
      BY DEF MFLIMIT
    <3>3. e <= l /\ e \in Nat /\ l \in Nat
      BY <3>1
    <3> HIDE DEF e, l
    <3>4. p + 5 <= l
      BY <3>2, <3>3
    <3> QED BY <3>4 DEF l
  <2> QED BY <2>1, HashIs
<1>3. LZ4_putPosition(p, tab, job.type) = new
  BY Zenon DEF LZ4_putPosition
<1> HIDE DEF slot, v
<1>4. new \in [0 .. slots - 1 -> Nat] /\ \A h \in 0 .. slots - 1 : new[h] = IF h = slot THEN i ELSE tab[h]
  <2> HIDE DEF i
  <2> QED BY <1>1, <1>2
<1> HIDE DEF new, i
<1> QED BY <1>1, <1>2, <1>3, <1>4 DEF new, i, v, slot

LEMMA TestNextKeeps ==
    ASSUME CoreOK, TestNext, UNCHANGED way
    PROVE  CoreOK' /\ TableOnly
<1> DEFINE filled == LZ4_putPosition(ip - 2, ctx.table, job.type)
           slot == LZ4_hashPosition(ip, job.type)
           c == Candidate(filled, slot)
           found == Matches(c, ip)
           i == Index(ip)
           tab == [filled EXCEPT ![slot] = Entry(i, job.type)]
<1>1. /\ pc = "next" /\ ctx' = [ctx EXCEPT !.table = tab]
      /\ match' = c.match /\ low' = c.low /\ back' = i - c.index
      /\ \/ /\ found /\ pc' = "match" /\ token' = Len(dst) /\ dst' = dst \o << 0 >>
            /\ ip' = ip
         \/ /\ ~found /\ pc' = "search" /\ ip' = ip + 1 /\ fwd' = ip + 1
            /\ step' = 1 /\ nb' = job.acceleration * LZ4_skipTrigger
            /\ dst' = dst /\ token' = token
      /\ UNCHANGED << anchor, ret, buf, sizes, slots, job >>
  BY Zenon DEF TestNext, Unmoved
<1>2. /\ StateOK(ctx) /\ Begun /\ AtNext /\ JobOK /\ OldFine(ctx.table)
      /\ ctx.off = job.startIndex + job.size
      /\ slots \in Nat \ {0} /\ buf \in Seq(Nat) /\ dst \in Seq(Int) /\ token \in Nat
      /\ ctx.table \in [0 .. slots - 1 -> Nat]
  BY <1>1 DEF CoreOK, Busy, LoopOK, Begun, StateOK, States
<1>3. /\ ip \in Nat /\ anchor = ip /\ Start + 2 <= ip /\ ip + 12 <= iend
      /\ Full \/ Below(ctx.table, i)
  BY <1>2 DEF AtNext, MFLIMIT
<1>4. Start \in Nat /\ iend \in Nat
  BY <1>2, BoundsAre
<1>5. /\ Start' = Start /\ iend' = iend
      /\ Index(ip)' = Index(ip') /\ Index(fwd)' = Index(fwd')
      /\ \A j : Below(ctx.table, j)' <=> Below(ctx'.table, j)
      /\ Landed(ip, match, low, back)' <=> Landed(ip', match', low', back')
      /\ Len(dst') = Len(dst) => (Full' <=> Full)
  BY <1>1, SameBlock
<1> DEFINE p == ip - 2
           i2 == Index(p)
           slot2 == LZ4_hashPosition(p, job.type)
<1>6. /\ filled \in [0 .. slots - 1 -> Nat] /\ i2 \in Nat /\ job.startIndex <= i2
      /\ i2 + 12 <= job.startIndex + job.size
      /\ \A h \in 0 .. slots - 1 : filled[h] = IF h = slot2 THEN i2 ELSE ctx.table[h]
  <2>1. p \in Nat /\ Start <= p /\ p + MFLIMIT <= iend
    BY <1>3, <1>4 DEF MFLIMIT
  <2>2. p = ip - 2
    OBVIOUS
  <2> HIDE DEF p
  <2> DEFINE new == [ctx.table EXCEPT ![slot2] = Entry(i2, job.type)]
  <2>3. /\ new \in [0 .. slots - 1 -> Nat] /\ LZ4_putPosition(p, ctx.table, job.type) = new
        /\ i2 \in Nat /\ job.startIndex <= i2
        /\ i2 + 12 <= job.startIndex + job.size
        /\ \A h \in 0 .. slots - 1 : new[h] = IF h = slot2 THEN i2 ELSE ctx.table[h]
    BY <1>2, <2>1, PutIs
  <2> HIDE DEF new, i2, slot2
  <2>4. filled = new
    BY <2>2, <2>3
  <2> HIDE DEF filled
  <2> QED BY <2>3, <2>4
<1>7. /\ slot \in 0 .. slots - 1 /\ tab \in [0 .. slots - 1 -> Nat]
      /\ i \in Nat /\ job.startIndex <= i /\ i + 12 <= job.startIndex + job.size
      /\ \A h \in 0 .. slots - 1 : tab[h] = IF h = slot THEN i ELSE filled[h]
  <2>1. Start <= ip /\ ip + MFLIMIT <= iend
    BY <1>3, <1>4 DEF MFLIMIT
  <2> HIDE DEF filled
  <2> QED BY <1>2, <1>3, <1>6, <2>1, PutIs
<1>8. i2 + 2 = i
  <2>1. i2 = (ip - 2) - job.start + job.startIndex /\ i = ip - job.start + job.startIndex
    <3>1. ip - 2 \in Int /\ ip \in Int /\ p = ip - 2
      BY <1>3
    <3> HIDE DEF p
    <3>2. Index(p) = p - job.start + job.startIndex /\ i = ip - job.start + job.startIndex
      BY <1>2, <3>1, IndexIs
    <3> QED BY <3>1, <3>2
  <2>2. job.start \in Nat /\ job.startIndex \in Nat
    BY <1>2 DEF JobOK
  <2> HIDE DEF i2, i
  <2> QED BY <1>3, <2>1, <2>2
<1> HIDE DEF filled, slot, c, found, tab, i2, slot2, p
<1>9. Below(ctx.table, i) => Below(filled, i) /\ Below(tab, i + 1)
  <2> HIDE DEF i
  <2>1. \A h \in 0 .. slots - 1 : ctx.table[h] \in Nat
    BY <1>2, Zenon
  <2>2. i \in Nat /\ i2 \in Nat /\ i2 < i /\ i < i + 1
    BY <1>6, <1>7, <1>8
  <2>3. Below(ctx.table, i) => Below(filled, i)
    BY <1>6, <2>2, Zenon DEF Below
  <2>4. \A h \in 0 .. slots - 1 : filled[h] \in Nat
    BY <1>6, Zenon
  <2>5. ASSUME Below(filled, i), NEW h \in 0 .. slots - 1 PROVE tab[h] < i + 1
    <3>1. filled[h] < i /\ filled[h] \in Nat
      BY <2>4, <2>5 DEF Below
    <3> QED BY <1>7, <2>2, <3>1
  <2> QED BY <2>3, <2>5 DEF Below
<1>10. OldFine(filled)
  BY <1>2, <1>6, OldGrows
<1>11. StateOK(ctx)' /\ Begun' /\ ctx'.table = tab /\ TableOnly
  <2>1. \A h \in 0 .. slots - 1 :
           \/ tab[h] = ctx.table[h]
           \/ job.startIndex <= tab[h] /\ tab[h] + 8 <= ctx.off
    <3>1. job.startIndex \in Nat /\ job.size \in Nat
      BY <1>2 DEF JobOK
    <3> HIDE DEF i
    <3>2. ASSUME NEW h \in 0 .. slots - 1
          PROVE  \/ tab[h] = ctx.table[h]
                 \/ job.startIndex <= tab[h] /\ tab[h] + 8 <= ctx.off
      <4>1. tab[h] \in {i, i2, ctx.table[h]}
        BY <1>6, <1>7
      <4>2. /\ job.startIndex <= i /\ i + 8 <= ctx.off /\ job.startIndex <= i2
            /\ i2 + 8 <= ctx.off
        <5>1. i2 \in Nat /\ job.startIndex <= i2 /\ i2 + 12 <= job.startIndex + job.size
          BY <1>6, Zenon
        <5>2. i \in Nat /\ job.startIndex <= i /\ i + 12 <= job.startIndex + job.size
          BY <1>7, Zenon
        <5>3. ctx.off = job.startIndex + job.size
          BY <1>2, Zenon
        <5>4. PICK s, z : s = job.startIndex /\ z = job.size
          OBVIOUS
        <5>5. s \in Nat /\ z \in Nat /\ ctx.off = s + z
          BY ONLY <3>1, <5>3, <5>4
        <5>6. s <= i /\ i + 12 <= s + z /\ s <= i2 /\ i2 + 12 <= s + z
          BY ONLY <5>1, <5>2, <5>4
        <5> QED BY ONLY <5>1, <5>2, <5>4, <5>5, <5>6
      <4>3. CASE tab[h] = ctx.table[h]
        BY ONLY <4>3
      <4>4. CASE tab[h] \in {i, i2}
        BY ONLY <4>2, <4>4
      <4> QED BY ONLY <4>1, <4>3, <4>4, Zenon
    <3> QED BY <3>2
  <2>2. pc # "done"
    BY <1>1
  <2> QED BY <1>1, <1>2, <1>7, <2>1, <2>2, TableGrows DEF TableOnly
<1>12. Below(ctx.table, i) /\ found => Landed(ip, c.match, c.low, i - c.index)
  <2>1. ASSUME Below(ctx.table, i), found PROVE Landed(ip, c.match, c.low, i - c.index)
    <3>1. filled[slot] < Index(ip)
      BY <1>7, <1>9, <2>1 DEF Below
    <3>2. Start < ip /\ ip + MFLIMIT <= iend
      BY <1>3, <1>4 DEF MFLIMIT
    <3>3. Matches(Candidate(filled, slot), ip)
      BY <2>1 DEF found, c
    <3> QED BY <1>2, <1>3, <1>6, <1>7, <1>10, <3>1, <3>2, <3>3, Accepted DEF c
  <2> QED BY <2>1
<1>13. Len(dst) \in Nat /\ slots' \in Nat \ {0} /\ buf' \in Seq(Nat)
  BY <1>1, <1>2, LenProperties
<1>14. CASE /\ found /\ pc' = "match" /\ token' = Len(dst) /\ dst' = dst \o << 0 >>
            /\ ip' = ip
  <2>1. dst' \in Seq(Int) /\ Len(dst') = Len(dst) + 1
    <3> DEFINE o == << 0 >>
    <3>1. o \in Seq(Int) /\ Len(o) = 1
      OBVIOUS
    <3> HIDE DEF o
    <3>2. dst \o o \in Seq(Int) /\ Len(dst \o o) = Len(dst) + Len(o)
      BY <1>2, <3>1, ConcatProperties
    <3> QED BY <1>14, <3>1, <3>2 DEF o
  <2>2. Full => Rewind'
    <3>1. job.cap \in Nat /\ job' = job
      BY <1>1, <1>2 DEF JobOK
    <3>2. Full => job.limit = "fillOutput" /\ Len(dst) + 8 >= job.cap
      BY DEF Full
    <3>3. Full => Len(dst') + 2 + 1 + 12 - 4 > job.cap
      BY <1>13, <2>1, <3>1, <3>2
    <3> QED BY <3>1, <3>2, <3>3 DEF Rewind, MFLIMIT, MINMATCH
  <2>3. ASSUME ~Rewind'
        PROVE  Landed(ip, match, low, back)' /\ \E n \in Nat : Ahead(n)'
    <3>1. Below(ctx.table, i)
      BY <1>3, <2>2, <2>3
    <3>2. Landed(ip', match', low', back')
      BY <1>1, <1>12, <1>14, <3>1
    <3>3. /\ Below(ctx'.table, Index(ip') + 0 + 1)
          /\ ip' + 0 + MFLIMIT <= iend
          /\ Alike(ip', match', 0 + MINMATCH)
          /\ InDict(low') => match' + 0 + MINMATCH <= job.dictEnd
      <4>1. Index(ip') + 0 + 1 = i + 1
        <5>1. Index(ip') = i
          BY <1>14 DEF i
        <5> HIDE DEF i
        <5> QED BY <1>7, <5>1
      <4>2. 0 + MINMATCH = MINMATCH
        BY DEF MINMATCH
      <4>3. InDict(low') => match' + MINMATCH <= job.dictEnd
        BY <3>2 DEF Landed
      <4>4. Alike(ip', match', MINMATCH) /\ match' \in Int
        BY <3>2 DEF Landed
      <4>5. ip' + 0 + MFLIMIT <= iend
        BY <1>3, <1>14 DEF MFLIMIT
      <4>6. Below(ctx'.table, Index(ip') + 0 + 1)
        <5> HIDE DEF i
        <5> QED BY <1>9, <1>11, <3>1, <4>1
      <4>7. match' + 0 + MINMATCH = match' + MINMATCH
        BY <4>4 DEF MINMATCH
      <4> QED BY <4>2, <4>3, <4>4, <4>5, <4>6, <4>7
    <3>4. Ahead(0)'
      <4>1. Ahead(0)' <=> /\ Below(ctx'.table, Index(ip') + 0 + 1)
                          /\ ip' + 0 + MFLIMIT <= iend
                          /\ Alike(ip', match', 0 + MINMATCH)
                          /\ InDict(low') => match' + 0 + MINMATCH <= job.dictEnd
        BY <1>1, SameAhead, Zenon
      <4> QED BY <3>3, <4>1, Zenon
    <3> QED BY <1>5, <3>2, <3>4
  <2>4. AtMatch'
    <3>1. /\ anchor' \in Nat /\ Start' <= anchor' /\ ip' \in Nat /\ anchor' <= ip'
          /\ ip' + MFLIMIT <= iend' /\ token' < Len(dst')
      BY <1>1, <1>3, <1>4, <1>5, <1>13, <1>14, <2>1, SMTT(30) DEF MFLIMIT
    <3> QED BY <2>3, <3>1, Zenon DEF AtMatch
  <2>5. LoopOK'
    BY <1>14, <2>4 DEF LoopOK
  <2>6. token' \in Nat
    BY <1>13, <1>14
  <2> QED BY <1>11, <1>13, <1>14, <2>1, <2>5, <2>6 DEF CoreOK
<1>15. CASE /\ ~found /\ pc' = "search" /\ ip' = ip + 1 /\ fwd' = ip + 1
            /\ step' = 1 /\ nb' = job.acceleration * LZ4_skipTrigger
            /\ dst' = dst /\ token' = token
  <2>1. Full \/ Below(tab, i + 1)
    BY <1>3, <1>9
  <2>2. Index(fwd)' = i + 1
    <3>1. fwd' \in Int /\ fwd' = ip + 1
      BY <1>3, <1>15
    <3>a. ip \in Int
      BY <1>3
    <3>2. Index(fwd') = fwd' - job.start + job.startIndex /\ i = ip - job.start + job.startIndex
      BY <1>2, <3>1, <3>a, IndexIs
    <3>3. job.start \in Nat /\ job.startIndex \in Nat
      BY <1>2 DEF JobOK
    <3> HIDE DEF i
    <3>4. Index(fwd') = i + 1
      BY <1>3, <3>1, <3>2, <3>3
    <3> QED BY <1>5, <3>4
  <2>3. step' \in Nat /\ step' >= 1 /\ nb' \in Nat /\ nb' >= LZ4_skipTrigger
    <3>1. job.acceleration \in Nat \ {0}
      BY <1>2 DEF JobOK
    <3> DEFINE a == job.acceleration
    <3>2. a \in Nat \ {0} /\ nb' = a * 64
      BY <1>15, <3>1 DEF LZ4_skipTrigger
    <3> HIDE DEF a
    <3>3. nb' \in Nat /\ nb' >= 64
      BY <3>2
    <3> QED BY <1>15, <3>3 DEF LZ4_skipTrigger
  <2>4. /\ anchor' \in Nat /\ Start' <= anchor' /\ anchor' <= iend'
        /\ fwd' \in Nat /\ anchor' <= fwd' /\ Start' < fwd'
    BY <1>1, <1>3, <1>4, <1>5, <1>15
  <2>5. Full' \/ Below(ctx.table, Index(fwd))'
    <3>1. Full => Full'
      BY <1>5, <1>15
    <3> HIDE DEF i
    <3> QED BY <1>5, <1>11, <2>1, <2>2, <3>1
  <2>6. AtSearch'
    BY <2>3, <2>4, <2>5 DEF AtSearch
  <2>7. LoopOK'
    BY <1>15, <2>6 DEF LoopOK
  <2> QED BY <1>2, <1>11, <1>13, <1>15, <2>7 DEF CoreOK
<1> QED BY <1>1, <1>14, <1>15

LEMMA ExtrasMonotonic ==
    ASSUME NEW m \in Int, NEW n \in Int, m <= n
    PROVE  Extras(m) \in Int /\ Extras(m) <= Extras(n)
  BY DEF Extras

(* What a dst to be filled takes of the last literals.                     *)
LastRoom == job.cap - Len(dst) - 1
LastTight ==
    /\ job.limit # "notLimited"
    /\ Len(dst) + (iend - anchor) + 1 + (iend - anchor + 255 - RUN_MASK) \div 255 > job.cap
LastTaken == IF LastTight THEN LastRoom - Extras(LastRoom) ELSE iend - anchor

LEMMA LastTakenIs ==
    ASSUME JobOK, dst \in Seq(Int), anchor \in Nat, anchor <= iend
    PROVE  /\ LastTaken \in Int /\ LastTaken <= iend - anchor /\ iend - anchor \in Nat
           /\ LastTight <=> /\ job.limit # "notLimited"
                            /\ Len(dst) + (iend - anchor) + 1 + Extras(iend - anchor) > job.cap
           /\ LastRoom = job.cap - Len(dst) - 1 /\ LastRoom \in Int
<1> DEFINE all == iend - anchor
           D == Len(dst)
           cap == job.cap
           room == LastRoom
<1>1. all \in Nat /\ D \in Nat /\ cap \in Nat
  <2>1. iend \in Nat
    BY BoundsAre
  <2>2. D \in Nat /\ cap \in Nat
    BY LenProperties DEF JobOK
  <2> HIDE DEF D, cap
  <2> QED BY <2>1, <2>2
<1>2. room = cap - D - 1
  BY DEF LastRoom
<1>3. LastTight <=> /\ job.limit # "notLimited"
                    /\ D + all + 1 + (all + 255 - 15) \div 255 > cap
  BY DEF LastTight, RUN_MASK
<1>4. LastTaken = IF LastTight THEN room - Extras(room) ELSE all
  BY DEF LastTaken
<1> HIDE DEF all, D, cap, room
<1>5. Extras(all) = (all + 255 - 15) \div 255
  BY <1>1 DEF Extras
<1>6. room \in Int
  BY <1>1, <1>2
<1>7. Extras(room) \in Int /\ Extras(all) \in Int
  BY <1>1, <1>6 DEF Extras
<1>8. LastTight => room - Extras(room) <= all
  <2>1. SUFFICES ASSUME LastTight, ~(room - Extras(room) <= all) PROVE FALSE
    OBVIOUS
  <2>2. D + all + 1 + Extras(all) > cap
    BY <1>3, <1>5, <2>1
  <2>3. all <= room => Extras(all) <= Extras(room)
    BY <1>1, <1>6, ExtrasMonotonic
  <2>4. ~(all <= room) => Extras(room) >= 0 \/ room < 0
    BY <1>1, <1>6 DEF Extras
  <2>5. room < 0 => Extras(room) >= room
    BY <1>6 DEF Extras
  <2> QED BY <1>1, <1>2, <1>6, <1>7, <2>1, <2>2, <2>3, <2>4, <2>5
<1> QED BY <1>1, <1>2, <1>3, <1>4, <1>5, <1>6, <1>7, <1>8 DEF all, D, cap, room

(* What LastLiterals does.                                                 *)
LEMMA LastStep ==
    ASSUME LastLiterals
    PROVE  /\ pc = "last" /\ pc' = "done"
           /\ IF LastTight /\ job.limit = "limitedOutput"
              THEN GiveUp /\ UNCHANGED << ip, dst, high >>
              ELSE /\ ip' = anchor + LastTaken
                   /\ dst' = dst \o RunHead(LastTaken)
                                 \o SubSeq(buf, anchor + 1, anchor + LastTaken)
                   /\ high' = Max({high, Len(dst')})
                   /\ ret' = [written |-> Len(dst'), consumed |->
                                IF job.limit = "fillOutput" THEN ip' - Start ELSE job.size]
           /\ UNCHANGED << ctx, anchor, match, fwd, step, nb, low, back, token,
                           buf, sizes, slots, job >>
<1>1. pc = "last" /\ pc' = "done"
  BY Zenon DEF LastLiterals
<1>2. UNCHANGED << ctx, anchor, match, fwd, step, nb, low, back, token,
                   buf, sizes, slots, job >>
  BY Zenon DEF LastLiterals, Unmoved
<1>3. CASE LastTight /\ job.limit = "limitedOutput"
  <2>1. GiveUp /\ UNCHANGED << ip, dst, high >>
    BY <1>3, Zenon DEF LastLiterals, LastTight
  <2> QED BY <1>1, <1>2, <1>3, <2>1
<1>4. CASE ~(LastTight /\ job.limit = "limitedOutput")
  <2>1. /\ ip' = anchor + LastTaken
        /\ dst' = dst \o RunHead(LastTaken)
                      \o SubSeq(buf, anchor + 1, anchor + LastTaken)
        /\ high' = Max({high, Len(dst')})
        /\ ret' = [written |-> Len(dst'), consumed |->
                     IF job.limit = "fillOutput" THEN ip' - Start ELSE job.size]
    <3> DEFINE out == dst \o RunHead(LastTaken) \o SubSeq(buf, anchor + 1, anchor + LastTaken)
    <3>1. LastLiterals /\ ~(LastTight /\ job.limit = "limitedOutput")
          => /\ ip' = anchor + LastTaken
             /\ dst' = out
             /\ high' = Max({high, Len(out)})
             /\ ret' = [written |-> Len(out), consumed |->
                          IF job.limit = "fillOutput" THEN ip' - Start ELSE job.size]
      BY Zenon DEF LastLiterals, LastTight, LastTaken, LastRoom, RunHead, Extras
    <3> HIDE DEF out
    <3> QED BY <1>4, <3>1, Zenon DEF out
  <2> QED BY <1>1, <1>2, <1>4, <2>1
<1> QED BY <1>3, <1>4

LEMMA LastLiteralsKeeps ==
    ASSUME CoreOK, LastLiterals, UNCHANGED way
    PROVE  CoreOK' /\ TableOnly
<1>1. /\ pc = "last" /\ pc' = "done"
      /\ UNCHANGED << ctx, anchor, match, fwd, step, nb, low, back, token,
                      buf, sizes, slots, job >>
      /\ \/ dst' = dst
         \/ dst' = dst \o RunHead(LastTaken) \o SubSeq(buf, anchor + 1, anchor + LastTaken)
  BY LastStep
<1>2. /\ StateOK(ctx) /\ Begun /\ AtLast /\ JobOK
      /\ slots \in Nat \ {0} /\ buf \in Seq(Nat) /\ dst \in Seq(Int) /\ token \in Nat
  BY <1>1 DEF CoreOK, Busy, LoopOK, Begun
<1>3. anchor \in Nat /\ Start <= anchor /\ anchor <= iend
  BY <1>2 DEF AtLast
<1>4. StateOK(ctx)' /\ Begun'
  BY <1>1, <1>2, TableStays
<1> DEFINE taken == LastTaken
<1>5. taken \in Int /\ taken <= iend - anchor /\ iend \in Nat /\ iend <= Len(buf)
  BY <1>2, <1>3, LastTakenIs, BoundsAre
<1> HIDE DEF taken
<1>6. RunHead(taken) \in Seq(Int)
  <2>1. CASE taken \in Nat
    BY <2>1, RunHeadIs
  <2>2. CASE taken \notin Nat
    <3>1. RunHead(taken) = << taken * 16 >>
      BY <1>5, <2>2 DEF RunHead, RUN_MASK
    <3>2. taken * 16 \in Int
      BY <1>5
    <3> QED BY <3>1, <3>2
  <2> QED BY <2>1, <2>2
<1>7. SubSeq(buf, anchor + 1, anchor + taken) \in Seq(Int)
  <2> DEFINE u == anchor + 1
             v == anchor + taken
  <2>1. u \in Int /\ v \in Int /\ \A k \in u .. v : k \in 1 .. Len(buf)
    <3>1. Len(buf) \in Nat
      BY <1>2, LenProperties
    <3> DEFINE l == Len(buf)
               e == iend
    <3>2. e \in Nat /\ l \in Nat /\ e <= l /\ taken <= e - anchor
      BY <1>5, <3>1
    <3> HIDE DEF l, e
    <3>3. u \in Int /\ v \in Int /\ \A k \in u .. v : k \in 1 .. l
      BY <1>3, <1>5, <3>2
    <3> QED BY <3>3 DEF l
  <2>2. \A k \in u .. v : buf[k] \in Int
    <3>1. \A k \in u .. v : buf[k] \in Nat
      BY <1>2, <2>1, ElementOfSeq
    <3> QED BY <3>1
  <2> HIDE DEF u, v
  <2>3. SubSeq(buf, u, v) \in Seq(Int)
    BY <2>1, <2>2, SubSeqProperties
  <2> QED BY <2>3 DEF u, v
<1>8. dst' \in Seq(Int)
  <2> DEFINE a == RunHead(taken)
             b == SubSeq(buf, anchor + 1, anchor + taken)
             d == dst \o a
  <2> HIDE DEF a, b
  <2>1. d \in Seq(Int)
    BY <1>2, <1>6, ConcatProperties DEF a
  <2> HIDE DEF d
  <2>2. d \o b \in Seq(Int)
    BY <1>7, <2>1, ConcatProperties DEF b
  <2> QED BY <1>1, <1>2, <2>2 DEF a, b, d, taken
<1>9. LoopOK'
  BY <1>1 DEF LoopOK
<1> QED BY <1>1, <1>2, <1>4, <1>8, <1>9 DEF CoreOK, TableOnly

LEMMA LoopKeeps ==
    ASSUME CoreOK, EncNext, UNCHANGED way
    PROVE  CoreOK' /\ TableOnly
  BY SearchKeeps, EncodeLiteralsKeeps, EncodeMatchKeeps, TestNextKeeps,
     LastLiteralsKeeps DEF EncNext

-----------------------------------------------------------------------------
(* The calls.  The state whose dictionary a call uses.                     *)
CtxOf(c, dict) == IF dict = "usingDictCtx" THEN CHOOSE x \in c.dictCtx : TRUE ELSE c

(* A call's arguments, but for the dictionary.                             *)
ArgsOK(c, args) ==
    /\ args.start \in Nat /\ args.size \in Nat /\ args.start + args.size <= Len(buf)
    /\ args.cap \in Nat /\ args.acceleration \in Nat \ {0}
    /\ args.limit \in {"notLimited", "limitedOutput", "fillOutput"}
    /\ args.type \in {"byU16", "byU32"} /\ args.dictSmall \in BOOLEAN
    /\ args.dict \in {"noDict", "withPrefix64k", "usingExtDict", "usingDictCtx"}
    /\ args.type = "byU16" =>
          args.dict = "noDict" /\ c.off + args.size < LZ4_64Klimit

Deep(c, small) == small \/ c.dictSize >= KB64 \/ c.dictSize = c.off

(* What the state's indexes from before may be, in each of the modes.      *)
Fitting(c, args) ==
    /\ args.dict = "noDict" =>
          \A h \in 0 .. slots - 1 : c.table[h] < c.off =>
              \/ args.dictSmall /\ c.dictSize = 0
              \/ args.type = "byU32" /\ c.table[h] + KB64 <= c.off
    /\ args.dict = "withPrefix64k" =>
          /\ Deep(c, args.dictSmall) /\ c.dictionary + c.dictSize = args.start
          /\ c.dictSize > 0 => c.dictionary \in Nat
    /\ args.dict = "usingExtDict" =>
          /\ c.dictionary # args.start
          /\ c.dictSize > 0 => c.dictionary \in Nat /\ c.off >= 4
          /\ Deep(c, args.dictSmall) \/ DictOK(c)
    /\ args.dict = "usingDictCtx" =>
          /\ c.dictCtx # {} /\ \A d \in c.dictCtx : d.dictionary # args.start
          /\ ~args.dictSmall

LEMMA JobIs ==
    ASSUME NEW c, NEW args, Compress(c, args)
    PROVE  LET d == CtxOf(c, args.dict)
           IN  /\ job'.start = args.start /\ job'.size = args.size /\ job'.cap = args.cap
               /\ job'.limit = args.limit /\ job'.type = args.type
               /\ job'.acceleration = args.acceleration /\ job'.dict = args.dict
               /\ job'.dictSmall = args.dictSmall /\ job'.startIndex = c.off
               /\ job'.prefixIdxLimit = c.off - d.dictSize
               /\ job'.lowLimit = (IF args.dict = "withPrefix64k"
                                   THEN args.start - d.dictSize ELSE args.start)
               /\ job'.dictionary = d.dictionary
               /\ job'.dictEnd = d.dictionary + d.dictSize
               /\ job'.dictBase = d.dictionary + d.dictSize - d.off
               /\ job'.dictDelta = c.off - d.off
               /\ args.dict = "usingDictCtx" => job'.dictTable = d.table
               /\ job'.api = args.api
               /\ UNCHANGED slots
  BY DEF Compress, CtxOf

(* The state when the main loop begins.                                    *)
Used(c, args) ==
    LET external == args.dict \in {"usingExtDict", "usingDictCtx"}
    IN  [c EXCEPT !.dictionary = IF external THEN args.start ELSE @,
                  !.dictSize = IF external THEN args.size ELSE @ + args.size,
                  !.dictCtx = IF args.dict = "usingDictCtx" THEN {} ELSE @,
                  !.off = @ + args.size, !.type = args.type]

LEMMA CompressIs ==
    ASSUME NEW c, NEW args, Compress(c, args)
    PROVE  /\ dst' = << >> /\ high' = 0 /\ token' = 0 /\ anchor' = args.start
           /\ step' = 1 /\ nb' = args.acceleration * LZ4_skipTrigger
           /\ \/ /\ args.limit = "fillOutput" /\ args.cap < 1 /\ pc' = "done"
                 /\ ctx' = c /\ ret' = [written |-> 0, consumed |-> args.size]
              \/ /\ args.size < LZ4_minLength
                 /\ ~(args.limit = "fillOutput" /\ args.cap < 1)
                 /\ pc' = "last" /\ ctx' = Used(c, args)
              \/ /\ ~(args.size < LZ4_minLength) /\ pc' = "search"
                 /\ ~(args.limit = "fillOutput" /\ args.cap < 1)
                 /\ ctx' = [Used(c, args) EXCEPT
                               !.table[LZ4_hashPosition(args.start, args.type)] =
                                  Entry(c.off, args.type)]
                 /\ fwd' = args.start + 1
  BY DEF Compress, Used

LEMMA CtxIs ==
    ASSUME NEW c, StateOK(c), NEW dict, dict = "usingDictCtx" => c.dictCtx # {}
    PROVE  LET d == CtxOf(c, dict)
           IN  /\ c.off \in Nat /\ c.dictionary \in Int /\ c.dictSize \in Nat
               /\ c.dictSize <= c.off /\ c.table \in [0 .. slots - 1 -> Nat]
               /\ c.dictCtx \subseteq DictStates
               /\ d.off \in Nat /\ d.dictionary \in Int /\ d.dictSize \in Nat
               /\ d.table \in [0 .. slots - 1 -> Nat]
               /\ dict # "usingDictCtx" => d = c
               /\ dict = "usingDictCtx" => d \in c.dictCtx /\ DictOK(d)
<1> DEFINE d == CtxOf(c, dict)
<1>1. /\ c.off \in Nat /\ c.dictionary \in Int /\ c.dictSize \in Nat
      /\ c.dictSize <= c.off /\ c.table \in [0 .. slots - 1 -> Nat]
      /\ c.dictCtx \subseteq DictStates /\ \A x \in c.dictCtx : DictOK(x)
  <2> HIDE DEF DictStates
  <2> QED BY DEF StateOK, States
<1>2. /\ dict # "usingDictCtx" => d = c
      /\ dict = "usingDictCtx" => d \in c.dictCtx
  BY DEF CtxOf
<1> HIDE DEF d
<1>3. /\ d.off \in Nat /\ d.dictionary \in Int /\ d.dictSize \in Nat
      /\ d.table \in [0 .. slots - 1 -> Nat]
  <2>1. CASE dict = "usingDictCtx"
    <3>1. d \in DictStates
      BY <1>1, <1>2, <2>1
    <3> QED BY <3>1 DEF DictStates, States
  <2>2. CASE dict # "usingDictCtx"
    BY <1>1, <1>2, <2>2
  <2> QED BY <2>1, <2>2
<1> QED BY <1>1, <1>2, <1>3, Zenon DEF d

LEMMA JobStarts ==
    ASSUME NEW c, StateOK(c), NEW args, ArgsOK(c, args), Compress(c, args),
           args.dict = "usingDictCtx" => c.dictCtx # {}, buf' = buf
    PROVE  JobOK'
<1> DEFINE d == CtxOf(c, args.dict)
           do == d.off
           dd == d.dictionary
           ds == d.dictSize
           s == args.start
           z == args.size
           o == c.off
<1>1. /\ o \in Nat /\ do \in Nat /\ dd \in Int /\ ds \in Nat
  BY CtxIs
<1>2. /\ job'.start = s /\ job'.size = z /\ job'.cap = args.cap
      /\ job'.limit = args.limit /\ job'.type = args.type
      /\ job'.acceleration = args.acceleration /\ job'.dict = args.dict
      /\ job'.dictSmall = args.dictSmall /\ job'.startIndex = o
      /\ job'.prefixIdxLimit = o - ds
      /\ job'.lowLimit = (IF args.dict = "withPrefix64k" THEN s - ds ELSE s)
      /\ job'.dictionary = dd /\ job'.dictEnd = dd + ds
      /\ job'.dictBase = dd + ds - do /\ job'.dictDelta = o - do
  BY JobIs
<1>3. /\ s \in Nat /\ z \in Nat /\ s + z <= Len(buf)
      /\ args.cap \in Nat /\ args.acceleration \in Nat \ {0}
      /\ args.limit \in {"notLimited", "limitedOutput", "fillOutput"}
      /\ args.type \in {"byU16", "byU32"} /\ args.dictSmall \in BOOLEAN
      /\ args.dict \in {"noDict", "withPrefix64k", "usingExtDict", "usingDictCtx"}
      /\ args.type = "byU16" => args.dict = "noDict" /\ o + z < LZ4_64Klimit
  BY DEF ArgsOK
<1> HIDE DEF d, do, dd, ds, s, z, o
<1>4. /\ job'.startIndex \in Nat /\ job'.prefixIdxLimit \in Int /\ job'.lowLimit \in Int
      /\ job'.dictionary \in Int /\ job'.dictEnd \in Int /\ job'.dictBase \in Int
      /\ job'.dictDelta \in Int
  <2>1. /\ o - ds \in Int /\ s - ds \in Int /\ s \in Int /\ dd + ds \in Int
        /\ dd + ds - do \in Int /\ o - do \in Int
    BY <1>1, <1>3
  <2> QED BY <1>1, <1>2, <2>1
<1>5. iend' = s + z
  BY <1>2 DEF iend
<1>6. LZ4_64Klimit' = LZ4_64Klimit
  BY DEF LZ4_64Klimit, MFLIMIT
<1> QED BY <1>2, <1>3, <1>4, <1>5, <1>6 DEF JobOK

LEMMA OldStarts ==
    ASSUME NEW c, StateOK(c), NEW args, ArgsOK(c, args), Fitting(c, args), Compress(c, args),
           UNCHANGED << buf, way >>
    PROVE  OldFine(c.table)'
<1> DEFINE d == CtxOf(c, args.dict)
           do == d.off
           dd == d.dictionary
           ds == d.dictSize
           s == args.start
           o == c.off
           t == c.table
           K == KB64
<1>1. args.dict = "usingDictCtx" => c.dictCtx # {}
  BY DEF Fitting
<1>2. /\ o \in Nat /\ c.dictionary \in Int /\ c.dictSize \in Nat
      /\ c.dictSize <= o /\ t \in [0 .. slots - 1 -> Nat]
      /\ do \in Nat /\ dd \in Int /\ ds \in Nat /\ d.table \in [0 .. slots - 1 -> Nat]
      /\ args.dict # "usingDictCtx" => d = c
      /\ args.dict = "usingDictCtx" => d \in c.dictCtx /\ DictOK(d)
  BY <1>1, CtxIs
<1>3. /\ job'.start = s /\ job'.size = args.size /\ job'.type = args.type
      /\ job'.dict = args.dict
      /\ job'.dictSmall = args.dictSmall /\ job'.startIndex = o
      /\ job'.prefixIdxLimit = o - ds
      /\ job'.lowLimit = (IF args.dict = "withPrefix64k" THEN s - ds ELSE s)
      /\ job'.dictionary = dd /\ job'.dictEnd = dd + ds
      /\ job'.dictBase = dd + ds - do /\ job'.dictDelta = o - do
      /\ args.dict = "usingDictCtx" => job'.dictTable = d.table
      /\ slots' = slots
  BY JobIs
<1>4. s \in Nat /\ K \in Nat /\ K >= 16
  BY SizesOK DEF ArgsOK
<1>5. \A h \in 0 .. slots - 1 : t[h] = 0 \/ t[h] + 8 <= o
  BY DEF StateOK
<1>6. OldLow(c.table)'
  BY <1>3, <1>5 DEF OldLow
<1>7. ASSUME args.dict = "noDict" PROVE OldUnused(c.table)' /\ job'.lowLimit = job'.start
  <2>1. \A h \in 0 .. slots - 1 : t[h] < o =>
              \/ args.dictSmall /\ c.dictSize = 0
              \/ args.type = "byU32" /\ t[h] + K <= o
    BY <1>7 DEF Fitting
  <2>2. ds = c.dictSize
    BY <1>2, <1>7
  <2>3. c.dictSize = 0 => o - ds = o
    BY <1>2, <2>2
  <2>4. job'.lowLimit = job'.start
    BY <1>3, <1>7
  <2> HIDE DEF d, o, t, ds, s
  <2>5. ASSUME NEW h \in 0 .. slots - 1, t[h] < o
        PROVE  \/ job'.dictSmall /\ job'.prefixIdxLimit = job'.startIndex
               \/ job'.type = "byU32" /\ t[h] + K <= job'.startIndex
    BY <1>3, <2>1, <2>3, <2>5
  <2>6. OldUnused(c.table)'
    BY <1>3, <2>5 DEF OldUnused, t, o
  <2> QED BY <2>4, <2>6
<1>8. ASSUME args.dict = "withPrefix64k" PROVE OldInPrefix'
  <2>1. /\ Deep(c, args.dictSmall) /\ c.dictionary + c.dictSize = s
        /\ c.dictSize > 0 => c.dictionary \in Nat
    BY <1>8 DEF Fitting
  <2>2. ds = c.dictSize /\ dd = c.dictionary
    BY <1>2, <1>8
  <2>3. args.dictSmall \/ ds >= K \/ ds = o
    BY <2>1, <2>2 DEF Deep
  <2>4. job'.lowLimit = s - ds
    BY <1>3, <1>8
  <2> HIDE DEF d, o, t, ds, dd, s, K
  <2>5. s - ds \in Nat /\ s - (s - ds) = ds /\ ds <= o
    BY <1>2, <1>4, <2>1, <2>2
  <2>6. Reached(ds)'
    BY <1>2, <1>3, <2>3, <2>5 DEF Reached, K
  <2>7. job'.start - job'.lowLimit = ds
    BY <1>3, <2>4, <2>5
  <2> QED BY <2>4, <2>5, <2>6, <2>7 DEF OldInPrefix
<1>9. ASSUME args.dict = "usingExtDict" PROVE OldInDict(c.table)'
  <2>1. /\ c.dictionary # s
        /\ c.dictSize > 0 => c.dictionary \in Nat /\ c.off >= 4
        /\ Deep(c, args.dictSmall) \/ DictOK(c)
    BY <1>9 DEF Fitting
  <2>2. ds = c.dictSize /\ dd = c.dictionary /\ do = o
    BY <1>2, <1>9
  <2>3. DictOK(c) => /\ o = K /\ ds \in 1 .. K
                     /\ \A h \in 0 .. slots - 1 : t[h] = 0 \/ t[h] >= K - ds
    <3>1. DictOK(c) => /\ c.off = K /\ c.dictSize \in 1 .. K
                       /\ \A h \in 0 .. slots - 1 :
                             \/ t[h] = 0
                             \/ K - c.dictSize <= t[h] /\ t[h] + 8 <= K
      BY DEF DictOK
    <3>2. \A h \in 0 .. slots - 1 : t[h] \in Nat
      BY <1>2, Zenon
    <3> HIDE DEF d, t, ds, dd, do, K
    <3> QED BY <1>4, <2>2, <3>1, <3>2
  <2>4. Deep(c, args.dictSmall) => args.dictSmall \/ ds >= K \/ ds = o
    BY <2>2 DEF Deep
  <2>5. job'.lowLimit = s
    BY <1>3, <1>9
  <2> HIDE DEF d, o, t, ds, dd, do, s, K
  <2>6. /\ (dd + ds) - dd = ds /\ dd + ds - do = (dd + ds) - o /\ o - do = 0
        /\ dd + ds # dd => dd \in Nat /\ ds > 0
        /\ ds > 0 => o >= 4
    BY <1>2, <2>1, <2>2 DEF o
  <2>7. Elsewhere'
    BY <1>2, <1>3, <2>1, <2>2, <2>5, <2>6 DEF Elsewhere
  <2>8. \/ Reached(ds)'
        \/ /\ job'.prefixIdxLimit = job'.startIndex - ds /\ ds \in 1 .. job'.startIndex
           /\ \A h \in 0 .. slots' - 1 : t[h] < job'.startIndex =>
                    \/ t[h] >= job'.startIndex - ds
                    \/ t[h] + K <= job'.startIndex
    <3>1. CASE Deep(c, args.dictSmall)
      BY <1>2, <1>3, <2>2, <2>4, <3>1 DEF Reached, K
    <3>2. CASE DictOK(c)
      <4>1. o = K /\ ds \in 1 .. K /\ \A h \in 0 .. slots - 1 : t[h] = 0 \/ t[h] >= K - ds
        BY <2>3, <3>2
      <4>2. \A h \in 0 .. slots - 1 : t[h] = 0 => t[h] + K <= o
        BY <1>4, <4>1
      <4> QED BY <1>3, <4>1, <4>2
    <3> QED BY <2>1, <3>1, <3>2
  <2>9. job'.dictEnd - job'.dictionary = ds
    BY <1>3, <2>6
  <2>10. /\ job'.dictDelta = 0 /\ job'.dictBase = job'.dictEnd - job'.startIndex
         /\ ds > 0 => job'.startIndex >= 4
    BY <1>3, <2>6
  <2> QED BY <2>7, <2>8, <2>9, <2>10 DEF OldInDict, t, K
<1>10. ASSUME args.dict = "usingDictCtx" PROVE OldInDictCtx'
  <2>1. dd # s /\ ~args.dictSmall
    BY <1>2, <1>10 DEF Fitting
  <2>2. /\ do = K /\ ds \in 1 .. K /\ dd \in Nat
        /\ \A h \in 0 .. slots - 1 :
              \/ d.table[h] = 0
              \/ K - ds <= d.table[h] /\ d.table[h] + 8 <= K
    BY <1>2, <1>10 DEF DictOK
  <2>3. job'.lowLimit = s
    BY <1>3, <1>10
  <2>4. job'.dictTable = d.table
    BY <1>3, <1>10
  <2> HIDE DEF d, o, t, ds, dd, do, s, K
  <2>5. (dd + ds) - dd = ds /\ ds \in Nat /\ dd + ds # dd
    BY <1>2, <2>2
  <2>6. Elsewhere'
    BY <1>2, <1>3, <2>1, <2>2, <2>3, <2>5 DEF Elsewhere
  <2>7. job'.dictEnd - job'.dictionary = ds
    BY <1>3, <2>5
  <2>8. job'.dictDelta = job'.startIndex - K /\ job'.dictBase = job'.dictEnd - K
    <3>1. job'.dictDelta = o - do /\ job'.dictBase = dd + ds - do /\ do = K
      BY <1>3, <2>2
    <3> QED BY <1>2, <1>3, <2>2, <3>1, SizesOK DEF K
  <2>9. job'.dictTable \in [0 .. slots' - 1 -> Nat] /\ ~job'.dictSmall
    BY <1>2, <1>3, <2>1, <2>4
  <2>10. \A h \in 0 .. slots' - 1 :
              \/ job'.dictTable[h] = 0
              \/ K - ds <= job'.dictTable[h] /\ job'.dictTable[h] + 8 <= K
    BY <1>3, <2>2, <2>4
  <2> QED BY <2>2, <2>6, <2>7, <2>8, <2>9, <2>10 DEF OldInDictCtx, K
<1> QED BY <1>3, <1>6, <1>7, <1>8, <1>9, <1>10 DEF OldFine

(* The state that a call leaves.                                           *)
Left(c, args, new) ==
    /\ new.off = c.off + args.size /\ new.type = args.type
    /\ IF args.dict \in {"usingExtDict", "usingDictCtx"}
       THEN new.dictionary = args.start /\ new.dictSize = args.size
       ELSE new.dictionary = c.dictionary /\ new.dictSize = c.dictSize + args.size
    /\ new.dictCtx = IF args.dict = "usingDictCtx" THEN {} ELSE c.dictCtx

LEMMA UsedIs ==
    ASSUME NEW c, StateOK(c), NEW args, ArgsOK(c, args)
    PROVE  /\ Used(c, args) \in States(DictStates) /\ Used(c, args).table = c.table
           /\ Left(c, args, Used(c, args)) /\ StateOK(Used(c, args))
<1> DEFINE u == Used(c, args)
           z == args.size
           D == DictStates
           T == [0 .. slots - 1 -> Nat]
<1>1. /\ z \in Nat /\ args.start \in Nat /\ args.type \in {"byU16", "byU32"}
  BY DEF ArgsOK
<1>2. c \in [off : Nat, dictionary : Int, dictSize : Nat, dictCtx : SUBSET D,
             type : {"clearedTable", "byU16", "byU32"}, table : T]
  <2> HIDE DEF D
  <2> QED BY DEF StateOK, States, D
<1>3. u = LET external == args.dict \in {"usingExtDict", "usingDictCtx"}
          IN  [c EXCEPT !.dictionary = IF external THEN args.start ELSE @,
                  !.dictSize = IF external THEN z ELSE @ + z,
                  !.dictCtx = IF args.dict = "usingDictCtx" THEN {} ELSE @,
                  !.off = @ + z, !.type = args.type]
  BY DEF Used
<1>4. c.dictSize <= c.off /\ c.off \in Nat /\ c.dictSize \in Nat
  BY <1>2 DEF StateOK
<1> HIDE DEF u, z, D, T
<1>5. /\ u \in [off : Nat, dictionary : Int, dictSize : Nat, dictCtx : SUBSET D,
                type : {"clearedTable", "byU16", "byU32"}, table : T]
      /\ u.table = c.table /\ u.off = c.off + z /\ u.type = args.type
      /\ IF args.dict \in {"usingExtDict", "usingDictCtx"}
         THEN u.dictionary = args.start /\ u.dictSize = z
         ELSE u.dictionary = c.dictionary /\ u.dictSize = c.dictSize + z
      /\ u.dictCtx = IF args.dict = "usingDictCtx" THEN {} ELSE c.dictCtx
  <2> DEFINE e == args.dict \in {"usingExtDict", "usingDictCtx"}
             v1 == IF e THEN args.start ELSE c.dictionary
             v2 == IF e THEN z ELSE c.dictSize + z
             v3 == IF args.dict = "usingDictCtx" THEN {} ELSE c.dictCtx
             v4 == c.off + z
             v5 == args.type
  <2>1. u = [c EXCEPT !.dictionary = v1, !.dictSize = v2, !.dictCtx = v3, !.off = v4,
                      !.type = v5]
    BY <1>3
  <2>2. v1 \in Int /\ v2 \in Nat /\ v4 \in Nat /\ v5 \in {"clearedTable", "byU16", "byU32"}
    BY <1>1, <1>2
  <2>3. v3 \in SUBSET D
    BY <1>2
  <2>4. /\ IF e THEN v1 = args.start /\ v2 = z ELSE v1 = c.dictionary /\ v2 = c.dictSize + z
        /\ v3 = IF args.dict = "usingDictCtx" THEN {} ELSE c.dictCtx
        /\ v4 = c.off + z /\ v5 = args.type
    OBVIOUS
  <2> HIDE DEF v1, v2, v3, v4, v5
  <2>5. /\ u \in [off : Nat, dictionary : Int, dictSize : Nat, dictCtx : SUBSET D,
                   type : {"clearedTable", "byU16", "byU32"}, table : T]
        /\ u.table = c.table /\ u.off = v4 /\ u.type = v5 /\ u.dictionary = v1
        /\ u.dictSize = v2 /\ u.dictCtx = v3
    BY <1>2, <2>1, <2>2, <2>3
  <2> QED BY <2>4, <2>5
<1>6. u.dictSize <= u.off
  BY <1>1, <1>4, <1>5
<1>7. \A h \in 0 .. slots - 1 : u.table[h] = 0 \/ u.table[h] + 8 <= u.off
  <2>1. \A h \in 0 .. slots - 1 : c.table[h] = 0 \/ c.table[h] + 8 <= c.off
    BY DEF StateOK
  <2>2. \A h \in 0 .. slots - 1 : c.table[h] \in Nat
    BY <1>2, Zenon DEF T
  <2> QED BY <1>1, <1>4, <1>5, <2>1, <2>2
<1>8. \A d \in u.dictCtx : DictOK(d)
  BY <1>5 DEF StateOK
<1>9. u \in States(D)
  BY <1>5 DEF States, T
<1>10. StateOK(u)
  BY <1>6, <1>7, <1>8, <1>9, Zenon DEF StateOK, D
<1>11. Left(c, args, u)
  BY <1>5, Zenon DEF Left, z
<1> QED BY <1>5, <1>9, <1>10, <1>11 DEF u, D

LEMMA StateMoves ==
    ASSUME NEW c, StateOK(c), UNCHANGED << slots, way >>
    PROVE  StateOK(c)' /\ c \in States(DictStates)'
<1>1. DictStates' = DictStates
  BY DEF DictStates, States
<1>2. c \in States(DictStates) <=> (c \in States(DictStates))'
  BY <1>1 DEF States
<1>3. \A d \in c.dictCtx : DictOK(d)'
  BY DEF StateOK, DictOK
<1> HIDE DEF DictStates
<1> QED BY <1>2, <1>3 DEF StateOK

LEMMA OldGrowsNext ==
    ASSUME JobOK', NEW tab, OldFine(tab)', NEW new,
           \A h \in 0 .. slots' - 1 :
              new[h] = tab[h] \/ (new[h] \in Nat /\ job'.startIndex <= new[h])
    PROVE  OldFine(new)'
<1>1. \A h \in 0 .. slots' - 1 : new[h] < job'.startIndex => new[h] = tab[h]
  <2>1. job'.startIndex \in Nat
    BY DEF JobOK
  <2> QED BY <2>1
<1>2. OldLow(new)'
  BY <1>1 DEF OldFine, OldLow
<1>3. job'.dict = "noDict" => OldUnused(new)' /\ job'.lowLimit = job'.start
  BY <1>1 DEF OldFine, OldUnused
<1>4. job'.dict = "usingExtDict" => OldInDict(new)'
  BY <1>1 DEF OldFine, OldInDict
<1> QED BY <1>2, <1>3, <1>4 DEF OldFine

LEMMA CompressStarts ==
    ASSUME buf \in Seq(Nat), slots \in Nat \ {0},
           NEW c, StateOK(c), NEW args, ArgsOK(c, args), Fitting(c, args), Compress(c, args),
           UNCHANGED << buf, way >>
    PROVE  /\ CoreOK' /\ pc' \in {"done", "last", "search"}
           /\ job'.start = args.start /\ job'.size = args.size /\ job'.dict = args.dict
           /\ \/ args.limit = "fillOutput" /\ pc' = "done" /\ ctx' = c
              \/ Left(c, args, ctx')
<1> DEFINE o == c.off
           z == args.size
           s == args.start
           u == Used(c, args)
           slot == LZ4_hashPosition(s, args.type)
           v == Entry(o, args.type)
           tab == [c.table EXCEPT ![slot] = v]
<1>1. /\ dst' = << >> /\ token' = 0 /\ anchor' = s
      /\ step' = 1 /\ nb' = args.acceleration * LZ4_skipTrigger
      /\ \/ args.limit = "fillOutput" /\ pc' = "done" /\ ctx' = c
         \/ pc' = "last" /\ ctx' = u
         \/ /\ ~(z < LZ4_minLength) /\ pc' = "search"
            /\ ctx' = [u EXCEPT !.table[slot] = v]
            /\ fwd' = s + 1
  BY CompressIs
<1>2. args.dict = "usingDictCtx" => c.dictCtx # {}
  BY DEF Fitting
<1>3. JobOK' /\ OldFine(c.table)'
  BY <1>2, JobStarts, OldStarts
<1>4. /\ job'.start = s /\ job'.size = z /\ job'.dict = args.dict
      /\ job'.startIndex = o /\ slots' = slots
  BY JobIs
<1>5. /\ o \in Nat /\ c.table \in [0 .. slots - 1 -> Nat] /\ s \in Nat /\ z \in Nat
      /\ s + z <= Len(buf) /\ args.acceleration \in Nat \ {0}
      /\ args.type \in {"byU16", "byU32"}
      /\ args.type = "byU16" => o + z < LZ4_64Klimit
  BY <1>2, CtxIs DEF ArgsOK
<1>6. /\ u \in States(DictStates) /\ u.table = c.table /\ u.off = o + z
      /\ Left(c, args, u) /\ StateOK(u)
  BY UsedIs DEF Left
<1>7. iend' = s + z /\ Start' = s
  BY <1>4 DEF iend, Start
<1>8. /\ dst' \in Seq(Int) /\ token' \in Nat /\ slots' \in Nat \ {0} /\ buf' \in Seq(Nat)
      /\ pc' \in {"done", "last", "search"}
  BY <1>1, <1>4, EmptySeq
<1> HIDE DEF u
<1>9. CASE args.limit = "fillOutput" /\ pc' = "done" /\ ctx' = c
  <2>1. StateOK(ctx)'
    BY <1>4, <1>9, StateMoves
  <2>2. Begun' /\ LoopOK'
    BY <1>3, <1>9 DEF Begun, LoopOK
  <2> QED BY <1>4, <1>8, <1>9, <2>1, <2>2 DEF CoreOK
<1>10. CASE pc' = "last" /\ ctx' = u
  <2>1. StateOK(ctx)'
    BY <1>4, <1>6, <1>10, StateMoves
  <2>2. ctx'.table = c.table /\ ctx'.off = o + z
    BY <1>6, <1>10
  <2>3. Begun'
    BY <1>3, <1>4, <2>2 DEF Begun
  <2>4. LoopOK'
    <3>1. AtLast'
      BY <1>1, <1>5, <1>7 DEF AtLast
    <3> QED BY <1>10, <3>1 DEF LoopOK
  <2> QED BY <1>4, <1>6, <1>8, <1>10, <2>1, <2>3, <2>4 DEF CoreOK
<1>11. CASE /\ ~(z < LZ4_minLength) /\ pc' = "search"
            /\ ctx' = [u EXCEPT !.table[slot] = v]
            /\ fwd' = s + 1
  <2>1. z >= 13
    BY <1>5, <1>11 DEF LZ4_minLength, MFLIMIT
  <2>2. slot \in 0 .. slots - 1
    <3>1. Len(buf) \in Nat
      BY LenProperties
    <3> DEFINE l == Len(buf)
    <3>2. l \in Nat /\ s + z <= l
      BY <1>5, <3>1
    <3> HIDE DEF l, s, z
    <3>3. s + 5 <= l
      BY <1>5, <2>1, <3>2
    <3> QED BY <1>5, <3>3, HashIs DEF l, s
  <2>3. v = o
    <3>1. args.type = "byU16" => o < KB64
      <4>1. KB64 \in Nat /\ LZ4_64Klimit = KB64 + 11
        BY SizesOK
      <4> HIDE DEF o, z
      <4> QED BY <1>5, <2>1, <4>1
    <3>2. v = IF args.type = "byU16" THEN o % (KB64 - 1 + 1) ELSE o
      BY SizesOK DEF Entry
    <3>3. KB64 \in Nat /\ KB64 - 1 + 1 = KB64 /\ (o < KB64 => o % KB64 = o)
      <4> DEFINE K == KB64
      <4>1. K \in Nat /\ K > 0 /\ o \in Nat
        BY <1>5, SizesOK
      <4> HIDE DEF o, K
      <4>2. o < K => o % K = o
        BY <4>1
      <4>3. K - 1 + 1 = K
        BY <4>1
      <4> QED BY <4>1, <4>2, <4>3 DEF K
    <3> QED BY <3>1, <3>2, <3>3
  <2> HIDE DEF slot, v, o, z, s
  <2>4. /\ tab \in [0 .. slots - 1 -> Nat]
        /\ \A h \in 0 .. slots - 1 : tab[h] = IF h = slot THEN o ELSE c.table[h]
    BY <1>5, <2>2, <2>3
  <2>5. /\ ctx' = [u EXCEPT !.table = tab]
    BY <1>6, <1>11
  <2> HIDE DEF tab
  <2>6. /\ ctx' \in States(DictStates) /\ ctx'.table = tab /\ ctx'.off = o + z
        /\ ctx'.dictSize = u.dictSize /\ ctx'.dictCtx = u.dictCtx
        /\ ctx'.dictionary = u.dictionary /\ ctx'.type = u.type
    <3> HIDE DEF DictStates
    <3> QED BY <1>6, <2>4, <2>5 DEF States
  <2>7. \A h \in 0 .. slots - 1 : c.table[h] = 0 \/ c.table[h] + 8 <= o
    BY DEF StateOK, o
  <2>8. \A h \in 0 .. slots - 1 : c.table[h] \in Nat
    BY <1>5, Zenon
  <2>9. \A h \in 0 .. slots - 1 : /\ tab[h] = 0 \/ tab[h] + 8 <= o + z
                                  /\ tab[h] < o + 1
    <3>1. o \in Nat /\ z \in Nat /\ z >= 13
      BY <1>5, <2>1
    <3>2. ASSUME NEW h \in 0 .. slots - 1
          PROVE  (tab[h] = 0 \/ tab[h] + 8 <= o + z) /\ tab[h] < o + 1
      <4> DEFINE x == tab[h]
      <4>1. x = o \/ (x \in Nat /\ (x = 0 \/ x + 8 <= o))
        BY <2>4, <2>7, <2>8
      <4> HIDE DEF x
      <4>2. (x = 0 \/ x + 8 <= o + z) /\ x < o + 1
        BY <3>1, <4>1
      <4> QED BY <4>2 DEF x
    <3> QED BY <3>2
  <2>10. StateOK(ctx')
    <3>1. u.dictSize <= u.off /\ \A d \in u.dictCtx : DictOK(d)
      BY <1>6 DEF StateOK
    <3>2. \A h \in 0 .. slots - 1 : ctx'.table[h] = 0 \/ ctx'.table[h] + 8 <= ctx'.off
      BY <2>6, <2>9
    <3> QED BY <1>6, <2>6, <3>1, <3>2, Zenon DEF StateOK
  <2>11. StateOK(ctx)'
    <3>1. PICK n : n = ctx'
      OBVIOUS
    <3>2. StateOK(n)'
      BY <1>4, <2>10, <3>1, StateMoves
    <3> QED BY <3>1, <3>2
  <2>12. OldFine(ctx.table)'
    <3>1. PICK n : n = tab
      OBVIOUS
    <3>2. /\ job'.startIndex \in Nat /\ job'.startIndex = o
          /\ \A h \in 0 .. slots - 1 :
                n[h] = c.table[h] \/ (n[h] \in Nat /\ job'.startIndex <= n[h])
      BY <1>3, <1>4, <1>5, <2>4, <3>1 DEF JobOK
    <3>3. OldFine(n)'
      BY <1>3, <1>4, <3>2, OldGrowsNext
    <3> QED BY <2>6, <3>1, <3>3
  <2>13. Begun'
    BY <1>3, <1>4, <2>6, <2>12 DEF Begun, z, o
  <2>14. AtSearch'
    <3>1. anchor' \in Nat /\ Start' <= anchor' /\ anchor' <= iend'
      BY <1>1, <1>5, <1>7 DEF s, z
    <3>2. fwd' \in Nat /\ anchor' <= fwd' /\ Start' < fwd'
      BY <1>1, <1>5, <1>7, <1>11 DEF s
    <3>3. step' \in Nat /\ step' >= 1 /\ nb' \in Nat /\ nb' >= LZ4_skipTrigger
      <4> DEFINE a == args.acceleration
      <4>1. a \in Nat \ {0} /\ nb' = a * 64
        BY <1>1, <1>5 DEF LZ4_skipTrigger
      <4> HIDE DEF a
      <4>2. nb' \in Nat /\ nb' >= 64
        BY <4>1
      <4> QED BY <1>1, <4>2 DEF LZ4_skipTrigger
    <3>4. Below(ctx.table, Index(fwd))'
      <4>1. Index(fwd)' = o + 1
        <5>1. Index(fwd)' = fwd' - job'.start + job'.startIndex
          BY DEF Index, Start
        <5> QED BY <1>4, <1>5, <1>11, <5>1 DEF s, o
      <4> QED BY <1>4, <2>6, <2>9, <4>1 DEF Below
    <3> QED BY <3>1, <3>2, <3>3, <3>4 DEF AtSearch
  <2>15. LoopOK'
    BY <1>11, <2>14 DEF LoopOK
  <2>16. Left(c, args, ctx')
    BY <1>6, <2>6, Zenon DEF Left, o, z
  <2> QED BY <1>4, <1>8, <1>11, <2>11, <2>13, <2>15, <2>16 DEF CoreOK, s, z
<1> QED BY <1>1, <1>9, <1>10, <1>11

-----------------------------------------------------------------------------
(* Blocks of one buffer, one behind the other.                             *)
LEMMA CatType ==
    ASSUME NEW Z, NEW s \in Seq(Z), NEW t \in Seq(Z)
    PROVE  Cat(s, t) \in Seq(Z)
  BY ConcatProperties DEF Cat

LEMMA CatEmpty ==
    ASSUME NEW Z, NEW s \in Seq(Z)
    PROVE  Cat(<<>>, s) = s /\ Cat(s, <<>>) = s
  BY ConcatEmptySeq DEF Cat

(* Sequences put one behind the other.  g has what is there after each.    *)
Joins(g, ss) ==
    /\ g[0] = <<>>
    /\ \A k \in 1 .. Len(ss) : g[k] = Cat(g[k - 1], ss[k])

LEMMA JoinsOver ==
    ASSUME NEW V, NEW ss \in Seq(V), <<>> \in V, \A s, t \in V : Cat(s, t) \in V
    PROVE  \E g \in [0 .. Len(ss) -> V] : Joins(g, ss)
<1> DEFINE Upto(n, g) == g[0] = <<>> /\ \A k \in 1 .. n : g[k] = Cat(g[k - 1], ss[k])
           N == Len(ss)
           Good == {n \in Nat : n <= N => \E g \in [0 .. n -> V] : Upto(n, g)}
<1>1. 0 \in Good
  <2>1. [k \in 0 .. 0 |-> <<>>] \in [0 .. 0 -> V]
    OBVIOUS
  <2>2. Upto(0, [k \in 0 .. 0 |-> <<>>])
    OBVIOUS
  <2>3. QED
    BY <2>1, <2>2
<1>2. ASSUME NEW n \in Nat, n \in Good
      PROVE  n + 1 \in Good
  <2>1. SUFFICES ASSUME n + 1 <= N
                 PROVE  \E g \in [0 .. n + 1 -> V] : Upto(n + 1, g)
    OBVIOUS
  <2>2. PICK g \in [0 .. n -> V] : Upto(n, g)
    BY <1>2, <2>1
  <2> DEFINE last == Cat(g[n], ss[n + 1])
             h == [k \in 0 .. n + 1 |-> IF k <= n THEN g[k] ELSE last]
  <2>3. n \in 0 .. n /\ n + 1 \in 1 .. N
    BY <2>1
  <2>4. g[n] \in V /\ ss[n + 1] \in V
    BY <2>3
  <2>5. last \in V
    BY <2>4
  <2>6. last = Cat(g[n], ss[n + 1])
    OBVIOUS
  <2> HIDE DEF last
  <2>7. h \in [0 .. n + 1 -> V]
    BY <2>5
  <2>8. h[0] = <<>>
    BY <2>2
  <2>9. ASSUME NEW k \in 1 .. n + 1 PROVE h[k] = Cat(h[k - 1], ss[k])
    <3>1. CASE k <= n
      <4>1. k \in 1 .. n /\ k \in 0 .. n + 1 /\ k - 1 \in 0 .. n + 1 /\ k - 1 <= n
        BY <3>1
      <4>2. QED
        BY <3>1, <4>1, <2>2
    <3>2. CASE k = n + 1
      <4>1. k \in 0 .. n + 1 /\ ~ k <= n /\ k - 1 = n /\ n \in 0 .. n + 1
        BY <3>2
      <4>2. h[k] = last /\ h[k - 1] = g[n]
        BY <4>1
      <4>3. QED
        BY <4>2, <3>2, <2>6
    <3>3. QED
      BY <3>1, <3>2
  <2>10. QED
    BY <2>7, <2>8, <2>9
<1> HIDE DEF Good
<1>3. Nat \subseteq Good
  BY <1>1, <1>2, CountUp, Zenon
<1>4. N \in Good
  BY <1>3
<1>5. QED
  BY <1>4 DEF Good, Joins

LEMMA JoinsExist ==
    ASSUME NEW Z, NEW ss \in Seq(Seq(Z))
    PROVE  \E g \in [0 .. Len(ss) -> Seq(Z)] : Joins(g, ss)
<1>1. <<>> \in Seq(Z) /\ \A s, t \in Seq(Z) : Cat(s, t) \in Seq(Z)
  BY CatType
<1> DEFINE V == Seq(Z)
<1>2. <<>> \in V /\ (\A s, t \in V : Cat(s, t) \in V) /\ ss \in Seq(V)
  BY <1>1
<1>3. QED
  BY <1>2, JoinsOver, Zenon

LEMMA FlattenIs ==
    ASSUME NEW Z, NEW ss \in Seq(Seq(Z)), NEW g \in [0 .. Len(ss) -> Seq(Z)], Joins(g, ss)
    PROVE  FlattenSeq(ss) = g[Len(ss)]
<1> DEFINE N == Len(ss)
           F(f) == [i \in 1 .. N |-> IF i = 1 THEN ss[i] ELSE Cat(f[i - 1], ss[i])]
           f0 == CHOOSE f : f = F(f)
<1>1. CASE N = 0
  <2>1. FlattenSeq(ss) = ss /\ ss = <<>>
    BY <1>1 DEF FlattenSeq
  <2>2. QED
    BY <2>1, <1>1 DEF Joins
<1>2. CASE N # 0
  <2>1. FlattenSeq(ss) = f0[N]
    BY <1>2, Zenon DEF FlattenSeq, Cat
  <2> DEFINE h == [i \in 1 .. N |-> g[i]]
  <2>2. h = F(h)
    <3>1. ASSUME NEW i \in 1 .. N PROVE h[i] = F(h)[i]
      <4>1. CASE i = 1
        <5>1. g[1] = Cat(<<>>, ss[1])
          BY <4>1 DEF Joins
        <5>2. ss[1] \in Seq(Z)
          BY <4>1
        <5>3. Cat(<<>>, ss[1]) = ss[1]
          BY <5>2, CatEmpty
        <5>4. QED
          BY <4>1, <5>1, <5>3
      <4>2. CASE i # 1
        <5>1. i - 1 \in 1 .. N
          BY <4>2
        <5>2. QED
          BY <4>2, <5>1 DEF Joins
      <4>3. QED
        BY <4>1, <4>2
    <3>2. QED
      BY <3>1
  <2>3. f0 = F(f0)
    <3> HIDE DEF h, F
    <3>1. QED
      BY <2>2, Zenon
  <2> HIDE DEF f0
  <2>a. \A i \in 1 .. N : i # 1 => f0[i] = Cat(f0[i - 1], ss[i])
    BY <2>3
  <2> DEFINE Good == {n \in Nat : n + 1 <= N => f0[n + 1] = g[n + 1]}
  <2>4. 0 \in Good
    <3>1. f0[1] = ss[1]
      BY <1>2, <2>3
    <3>2. g[1] = Cat(<<>>, ss[1]) /\ ss[1] \in Seq(Z)
      BY <1>2 DEF Joins
    <3>3. Cat(<<>>, ss[1]) = ss[1]
      BY <3>2, CatEmpty
    <3>4. QED
      BY <3>1, <3>2, <3>3
  <2>5. ASSUME NEW n \in Nat, n \in Good
        PROVE  n + 1 \in Good
    <3>1. SUFFICES ASSUME n + 2 <= N PROVE f0[n + 2] = g[n + 2]
      BY \A m \in Nat : m + 1 + 1 = m + 2
    <3>2. n + 2 \in 1 .. N /\ n + 2 # 1 /\ n + 2 - 1 = n + 1 /\ n + 1 <= N
      BY <3>1
    <3>3. f0[n + 2] = Cat(f0[n + 1], ss[n + 2])
      BY ONLY <2>a, <3>2
    <3>4. g[n + 2] = Cat(g[n + 1], ss[n + 2])
      BY <3>2 DEF Joins
    <3>5. QED
      BY <3>2, <3>3, <3>4, <2>5
  <2> HIDE DEF Good
  <2>6. Nat \subseteq Good
    BY <2>4, <2>5, CountUp, Zenon
  <2>7. N - 1 \in Nat /\ N - 1 + 1 = N /\ N <= N
    BY <1>2
  <2>8. f0[N] = g[N]
    <3>1. N - 1 \in Good
      BY <2>6, <2>7
    <3>2. N - 1 + 1 <= N => f0[N - 1 + 1] = g[N - 1 + 1]
      BY <3>1, Zenon DEF Good
    <3>3. QED
      BY <3>2, <2>7, Zenon
  <2>9. QED
    BY <2>1, <2>8
<1>3. QED
  BY <1>1, <1>2

LEMMA FlattenType ==
    ASSUME NEW Z, NEW ss \in Seq(Seq(Z))
    PROVE  FlattenSeq(ss) \in Seq(Z)
<1>1. PICK g \in [0 .. Len(ss) -> Seq(Z)] : Joins(g, ss)
  BY JoinsExist
<1>2. FlattenSeq(ss) = g[Len(ss)]
  BY <1>1, FlattenIs
<1>3. QED
  BY <1>2

(* Where blocks put one behind the other end.                              *)
LEMMA EndsAre ==
    ASSUME NEW ss \in Seq(Seq(Nat))
    PROVE  \E ends \in [0 .. Len(ss) -> Nat] :
              /\ ends[0] = 0 /\ ends[Len(ss)] = Len(FlattenSeq(ss))
              /\ \A k \in 1 .. Len(ss) : ends[k] = ends[k - 1] + Len(ss[k])
              /\ \A k \in 0 .. Len(ss) : ends[k] <= Len(FlattenSeq(ss))
<1> DEFINE N == Len(ss)
<1>1. PICK g \in [0 .. N -> Seq(Nat)] : Joins(g, ss)
  BY JoinsExist
<1>2. FlattenSeq(ss) = g[N]
  BY <1>1, FlattenIs
<1> DEFINE ends == [k \in 0 .. N |-> Len(g[k])]
<1>3. N \in Nat /\ \A k \in 1 .. N : ss[k] \in Seq(Nat)
  BY LenProperties, ElementOfSeq
<1>4. ends \in [0 .. N -> Nat] /\ \A k \in 0 .. N : ends[k] = Len(g[k])
  <2>1. \A k \in 0 .. N : Len(g[k]) \in Nat
    BY LenProperties
  <2> QED BY <2>1
<1>5. \A k \in 1 .. N : ends[k] = ends[k - 1] + Len(ss[k]) /\ ends[k - 1] <= ends[k]
  <2>1. ASSUME NEW k \in 1 .. N
        PROVE  ends[k] = ends[k - 1] + Len(ss[k]) /\ ends[k - 1] <= ends[k]
    <3>1. k - 1 \in 0 .. N /\ k \in 0 .. N
      BY <1>3
    <3>2. g[k] = g[k - 1] \o ss[k]
      BY <1>1, Zenon DEF Joins, Cat
    <3>3. g[k - 1] \in Seq(Nat) /\ ss[k] \in Seq(Nat)
      BY <1>3, <3>1
    <3>4. Len(g[k - 1] \o ss[k]) = Len(g[k - 1]) + Len(ss[k])
      BY <3>3, ConcatProperties
    <3>5. Len(ss[k]) \in Nat
      BY <3>3, LenProperties
    <3>6. ends[k] = ends[k - 1] + Len(ss[k]) /\ ends[k - 1] \in Nat
      BY <1>4, <3>1, <3>2, <3>4
    <3> HIDE DEF ends, N
    <3> QED BY <3>5, <3>6
  <2> QED BY <2>1
<1>6. ends[0] = 0
  <2>1. g[0] = << >> /\ Len(<< >>) = 0 /\ 0 \in 0 .. N
    BY <1>1, <1>3, EmptySeq DEF Joins
  <2> QED BY <1>4, <2>1
<1>7. ends[N] = Len(FlattenSeq(ss))
  <2>1. N \in 0 .. N
    BY <1>3
  <2> QED BY <1>2, <1>4, <2>1
<1> HIDE DEF ends, N
<1> DEFINE T == {n \in Nat : n <= N => ends[N - n] <= ends[N]}
<1>8. 0 \in T
  BY <1>3, <1>4
<1>9. ASSUME NEW n \in Nat, n \in T PROVE n + 1 \in T
  <2>1. SUFFICES ASSUME n + 1 <= N PROVE ends[N - (n + 1)] <= ends[N]
    OBVIOUS
  <2> DEFINE k == N - n
  <2>2. k \in 1 .. N /\ k - 1 = N - (n + 1) /\ k \in 0 .. N /\ k - 1 \in 0 .. N /\ N \in 0 .. N
    BY <1>3, <2>1
  <2>3. ends[k] <= ends[N]
    BY <1>9, <2>1, <1>3
  <2> HIDE DEF k
  <2>4. ends[k - 1] <= ends[k] /\ ends[k - 1] \in Nat /\ ends[k] \in Nat /\ ends[N] \in Nat
    BY <1>4, <1>5, <2>2
  <2> QED BY <2>2, <2>3, <2>4
<1> HIDE DEF T
<1>10. Nat \subseteq T
  BY <1>8, <1>9, CountUp, Zenon
<1>11. ASSUME NEW k \in 0 .. N PROVE ends[k] <= ends[N]
  <2>1. N - k \in Nat /\ N - k <= N /\ N - (N - k) = k
    BY <1>3
  <2>2. N - k \in T
    BY <1>10, <2>1
  <2>3. N - k <= N => ends[N - (N - k)] <= ends[N]
    BY <2>2, Zenon DEF T
  <2> QED BY <2>1, <2>3, Zenon
<1> QED BY <1>4, <1>5, <1>6, <1>7, <1>11 DEF N

-----------------------------------------------------------------------------
(* What the steps of a call leave alone.                                   *)
LEMMA LoopFrame ==
    ASSUME EncNext
    PROVE  /\ UNCHANGED << buf, sizes, slots, job >>
           /\ pc \in {"search", "literals", "match", "next", "last"}
           /\ pc' \in {"search", "literals", "match", "next", "last", "done"}
<1>1. CASE Search
  BY <1>1, Zenon DEF Search, Unmoved
<1>2. CASE EncodeLiterals
  BY <1>2, Zenon DEF EncodeLiterals, Unmoved, GiveUp
<1>3. CASE EncodeMatch
  BY <1>3, Zenon DEF EncodeMatch, Unmoved, GiveUp
<1>4. CASE TestNext
  BY <1>4, Zenon DEF TestNext, Unmoved
<1>5. CASE LastLiterals
  BY <1>5, Zenon DEF LastLiterals, Unmoved
<1> QED BY <1>1, <1>2, <1>3, <1>4, <1>5 DEF EncNext

LEMMA StateStays ==
    ASSUME StateOK(ctx), UNCHANGED << ctx, slots, way >>
    PROVE  StateOK(ctx)'
  BY DEF StateOK, States, DictStates, DictOK

LEMMA LoopStays ==
    ASSUME LoopOK, UNCHANGED << encvars, way >>
    PROVE  LoopOK'
<1> USE DEF encvars
<1>1. UNCHANGED << buf, slots, job, ctx, pc, ip, anchor, match, low, back, fwd, step, nb,
                   token, dst >>
  OBVIOUS
<1>2. /\ Start' = Start /\ iend' = iend /\ Full' = Full /\ Rewind' = Rewind
      /\ \A i : Below(ctx.table, i)' <=> Below(ctx.table, i)
      /\ Index(ip)' = Index(ip) /\ Index(fwd)' = Index(fwd)
      /\ Landed(ip, match, low, back)' <=> Landed(ip, match, low, back)
  BY <1>1 DEF Start, iend, Full, Rewind, Below, Index, Landed, Alike, B, InDict, External
<1>3. \A n : Ahead(n)' <=> Ahead(n)
  BY <1>1 DEF Ahead, Below, Index, Start, iend, Alike, B, InDict, External
<1>4. AtSearch => AtSearch'
  BY <1>1, <1>2 DEF AtSearch
<1>5. AtLiterals => AtLiterals'
  BY <1>1, <1>2 DEF AtLiterals
<1>6. AtMatch => AtMatch'
  BY <1>1, <1>2, <1>3 DEF AtMatch
<1>7. AtNext => AtNext'
  BY <1>1, <1>2 DEF AtNext
<1>8. AtLast => AtLast'
  BY <1>1, <1>2 DEF AtLast
<1> QED BY <1>1, <1>4, <1>5, <1>6, <1>7, <1>8 DEF LoopOK

LEMMA CoreStays ==
    ASSUME CoreOK, UNCHANGED << encvars, way >>
    PROVE  CoreOK'
<1>1. UNCHANGED << buf, slots, job, ctx, pc, token, dst >>
  BY DEF encvars
<1>2. LoopOK'
  BY LoopStays DEF CoreOK
<1>3. StateOK(ctx)'
  BY <1>1, StateStays DEF CoreOK
<1>4. ASSUME Busy' PROVE Begun'
  <2>1. Busy
    BY <1>1, <1>4 DEF Busy
  <2> QED BY <1>1, <2>1, TableStays DEF CoreOK
<1> QED BY <1>1, <1>2, <1>3, <1>4 DEF CoreOK

(* Where no call is under way, the state is all there is to say.           *)
LEMMA CoreRests ==
    ASSUME buf' \in Seq(Nat), slots' \in Nat \ {0}, dst' \in Seq(Int), token' \in Nat,
           pc' \in {"idle", "fresh"}, StateOK(ctx)'
    PROVE  CoreOK'
  BY DEF CoreOK, Busy, LoopOK

LEMMA BlocksStay ==
    ASSUME BlocksOK, UNCHANGED << buf, sizes, job >>, Busy' => Busy,
           ctx'.dictCtx = ctx.dictCtx, ctx'.type = ctx.type, ctx'.off = ctx.off
    PROVE  BlocksOK'
<1>1. \A ends : Laid(ends)' <=> Laid(ends)
  BY DEF Laid, iend
<1> QED BY <1>1 DEF BlocksOK

LEMMA StreamStays ==
    ASSUME StreamOK, UNCHANGED << encvars, way, at, text, sent >>
    PROVE  StreamOK'
  BY DEF StreamOK, encvars, Extent, PlaceOK, DictPlaceOK, Busy, iend, Documented

LEMMA InvStays ==
    ASSUME EncInv, UNCHANGED << encvars, way, at, text, sent >>
    PROVE  EncInv'
<1>1. CoreOK'
  BY CoreStays DEF EncInv
<1>2. InBlocks' <=> InBlocks
  BY DEF InBlocks
<1>3. InBlocks => BlocksOK'
  BY BlocksStay DEF EncInv, encvars, Busy
<1>4. ~InBlocks => StreamOK'
  BY StreamStays DEF EncInv
<1> QED BY <1>1, <1>2, <1>3, <1>4 DEF EncInv

LEMMA EncNextKeeps ==
    ASSUME EncInv, EncNext, UNCHANGED << decvars, streamvars >>
    PROVE  EncInv'
<1>1. CoreOK' /\ TableOnly
  BY LoopKeeps DEF EncInv, streamvars
<1>2. /\ UNCHANGED << buf, sizes, slots, job >>
      /\ pc \in {"search", "literals", "match", "next", "last"}
      /\ pc' \in {"search", "literals", "match", "next", "last", "done"}
  BY LoopFrame
<1>3. Busy /\ Busy' /\ pc # "idle" /\ pc' # "idle" /\ pc # "fresh" /\ pc' # "fresh"
  BY <1>2 DEF Busy
<1>4. way' = way /\ at' = at /\ text' = text /\ sent' = sent /\ (InBlocks' <=> InBlocks)
  BY DEF streamvars, InBlocks
<1>5. InBlocks => BlocksOK'
  BY <1>1, <1>2, <1>3, BlocksStay DEF EncInv, TableOnly
<1>6. ~InBlocks => StreamOK'
  BY <1>1, <1>2, <1>3, <1>4
     DEF EncInv, TableOnly, StreamOK, Extent, PlaceOK, iend, Documented
<1> QED BY <1>1, <1>4, <1>5, <1>6 DEF EncInv

LEMMA NextBlockKeeps ==
    ASSUME EncInv, NextBlock
    PROVE  EncInv'
<1>1. /\ InBlocks /\ pc' = "idle" /\ dst' = << >>
      /\ UNCHANGED << buf, sizes, slots, ctx, job, token, way >>
  BY DEF NextBlock, streamvars
<1>2. StateOK(ctx)'
  BY <1>1, StateStays DEF EncInv, CoreOK
<1>3. CoreOK'
  BY <1>1, <1>2, CoreRests, EmptySeq DEF EncInv, CoreOK
<1>4. BlocksOK'
  BY <1>1, BlocksStay DEF EncInv, Busy
<1> QED BY <1>1, <1>3, <1>4 DEF EncInv, InBlocks

LEMMA ClearedIs ==
    ASSUME slots \in Nat \ {0}
    PROVE  /\ StateOK(Cleared) /\ Cleared.off = 0 /\ Cleared.dictSize = 0
           /\ Cleared.dictCtx = {} /\ Cleared.type = "clearedTable"
           /\ Cleared.dictionary = Nil
           /\ \A h \in 0 .. slots - 1 : Cleared.table[h] = 0
<1>1. Nil \in Int
  BY DEF Nil
<1>2. /\ Cleared.off = 0 /\ Cleared.dictSize = 0 /\ Cleared.dictCtx = {}
      /\ Cleared.type = "clearedTable" /\ Cleared \in States(DictStates)
      /\ Cleared.dictionary = Nil
      /\ \A h \in 0 .. slots - 1 : Cleared.table[h] = 0
  <2> HIDE DEF DictStates
  <2> QED BY <1>1 DEF Cleared, States
<1> QED BY <1>2 DEF StateOK

(* A state that is fit for a call with nothing in front of the block.      *)
Prepared(c, size, type, p) ==
    /\ StateOK(p) /\ p.dictCtx = {} /\ p.dictSize = 0 /\ p.dictionary = Nil
    /\ (c.type = "clearedTable" => c.off = 0) =>
          (p.type = "clearedTable" => p.off = 0)
    /\ type = "byU32" => \A h \in 0 .. slots - 1 :
                            p.table[h] < p.off => p.table[h] + KB64 <= p.off
    /\ type = "byU16" =>
          \/ p.off = 0
          \/ c.type # "clearedTable" /\ p.off + size < MAX_DISTANCE
          \/ c.type = "clearedTable" /\ p.off = c.off

LEMMA PrepareIs ==
    ASSUME slots \in Nat \ {0}, NEW c, StateOK(c), NEW size \in Nat, NEW type \in {"byU16", "byU32"}
    PROVE  Prepared(c, size, type, LZ4_prepareTable(c, size, type))
<1> DEFINE unfit == /\ c.type # "clearedTable"
                    /\ \/ c.type # type
                       \/ type = "byU16" /\ c.off + size >= MAX_DISTANCE
                       \/ type = "byU32" /\ c.off > GB1
                       \/ size >= KB4
           kept == IF unfit THEN Cleared ELSE c
           gap == IF kept.off # 0 /\ type = "byU32" THEN KB64 ELSE 0
           p == LZ4_prepareTable(c, size, type)
<1>1. p = [kept EXCEPT !.off = @ + gap, !.dictionary = Nil, !.dictSize = 0,
                       !.dictCtx = {}]
  BY DEF LZ4_prepareTable
<1>2. unfit => kept = Cleared
  OBVIOUS
<1>3. ~unfit => kept = c
  OBVIOUS
<1>4. type = "byU16" /\ ~unfit /\ c.type # "clearedTable" => c.off + size < MAX_DISTANCE
  <2>1. c.off \in Nat /\ MAX_DISTANCE \in Int
    BY SizesOK DEF StateOK, States
  <2> QED BY <2>1
<1>5. kept.off # 0 => ~unfit
  BY <1>2, ClearedIs
<1> HIDE DEF unfit, kept, p
<1>6. StateOK(kept)
  BY <1>2, <1>3, ClearedIs
<1>7. gap = (IF kept.off # 0 /\ type = "byU32" THEN KB64 ELSE 0) /\ gap \in Nat
  BY SizesOK
<1> HIDE DEF gap
<1> DEFINE D == DictStates
           T == [0 .. slots - 1 -> Nat]
           R == [off : Nat, dictionary : Int, dictSize : Nat, dictCtx : SUBSET D,
                 type : {"clearedTable", "byU16", "byU32"}, table : T]
<1>8. kept \in R
  <2> HIDE DEF DictStates
  <2> QED BY <1>6 DEF StateOK, States
<1>9. /\ p \in R /\ p.off = kept.off + gap /\ p.dictSize = 0 /\ p.dictCtx = {}
      /\ p.type = kept.type /\ p.table = kept.table /\ p.dictionary = Nil
  <2> HIDE DEF D, T
  <2>1. Nil \in Int /\ {} \in SUBSET D
    BY DEF Nil
  <2> DEFINE v == kept.off + gap
             e == {}
             n == Nil
  <2>2. p = [kept EXCEPT !.off = v, !.dictionary = n, !.dictSize = 0, !.dictCtx = e]
    BY <1>1
  <2>3. v \in Nat /\ n \in Int /\ e \in SUBSET D
    BY <1>7, <1>8, <2>1
  <2> HIDE DEF v, n, e
  <2>4. /\ p \in R /\ p.off = v /\ p.dictSize = 0 /\ p.dictCtx = e
        /\ p.type = kept.type /\ p.table = kept.table /\ p.dictionary = n
    BY <1>8, <2>2, <2>3
  <2> QED BY <2>4 DEF v, e, n
<1>10. kept.off \in Nat /\ \A h \in 0 .. slots - 1 : kept.table[h] \in Nat
  BY <1>8
<1>11. \A h \in 0 .. slots - 1 : kept.table[h] = 0 \/ kept.table[h] + 8 <= kept.off
  BY <1>6 DEF StateOK
<1>12. StateOK(p)
  <2>1. \A h \in 0 .. slots - 1 : p.table[h] = 0 \/ p.table[h] + 8 <= p.off
    BY <1>7, <1>9, <1>10, <1>11
  <2>2. p \in States(DictStates)
    BY <1>9, Zenon DEF States
  <2>3. p.dictSize <= p.off
    BY <1>7, <1>9, <1>10
  <2> QED BY <1>9, <2>1, <2>2, <2>3, Zenon DEF StateOK
<1>13. type = "byU32" => \A h \in 0 .. slots - 1 :
                            p.table[h] < p.off => p.table[h] + KB64 <= p.off
  <2>1. SUFFICES ASSUME type = "byU32", NEW h \in 0 .. slots - 1, p.table[h] < p.off
                 PROVE  p.table[h] + KB64 <= p.off
    OBVIOUS
  <2> DEFINE x == kept.table[h]
  <2>2. x \in Nat /\ (x = 0 \/ x + 8 <= kept.off) /\ x < kept.off + gap
    BY <1>9, <1>10, <1>11, <2>1
  <2>3. kept.off # 0
    BY <1>7, <2>1, <2>2, <1>10
  <2>4. gap = KB64 /\ KB64 \in Nat
    BY <1>7, <2>1, <2>3
  <2>5. p.table[h] = x /\ p.off = kept.off + gap
    BY <1>9
  <2> HIDE DEF x
  <2> QED BY <1>10, <2>2, <2>3, <2>4, <2>5
<1>14. type = "byU16" => p.off = kept.off
  BY <1>7, <1>9, <1>10
<1>15. type = "byU16" =>
          \/ p.off = 0
          \/ c.type # "clearedTable" /\ p.off + size < MAX_DISTANCE
          \/ c.type = "clearedTable" /\ p.off = c.off
  BY <1>3, <1>4, <1>5, <1>14
<1>16. (c.type = "clearedTable" => c.off = 0) => (p.type = "clearedTable" => p.off = 0)
  <2>1. unfit => kept.off = 0
    BY <1>2, ClearedIs
  <2>2. kept.off = 0 => p.off = 0
    BY <1>7, <1>9
  <2> QED BY <1>3, <1>9, <2>1, <2>2
<1>17. Prepared(c, size, type, p)
  BY <1>9, <1>12, <1>13, <1>15, <1>16, Zenon DEF Prepared
<1> QED BY <1>17 DEF p

LEMMA BoundIs ==
    ASSUME NEW size \in Nat
    PROVE  LZ4_compressBound(size) \in Nat
  BY DEF LZ4_compressBound

LEMMA CallBlockKeeps ==
    ASSUME EncInv, InBlocks, CallBlock, UNCHANGED << decvars, streamvars >>
    PROVE  EncInv'
<1>1. /\ CoreOK /\ BlocksOK /\ pc = "idle" /\ sizes # << >> /\ way' = way
  BY DEF EncInv, CallBlock, streamvars
<1>2. PICK api \in {"extState", "fastReset", "force", "destSize"},
           cap \in Capacities \cup {LZ4_compressBound(Head(sizes))},
           acceleration \in Accelerations : Call(api, cap, acceleration)
  BY DEF CallBlock
<1>3. PICK ends : Laid(ends)
  BY <1>1 DEF BlocksOK
<1>4. /\ buf \in Seq(Nat) /\ slots \in Nat \ {0} /\ StateOK(ctx) /\ sizes \in Seq(Nat)
      /\ job.start \in Nat /\ job.size \in Nat /\ ctx.dictCtx = {}
      /\ ctx.type = "clearedTable" => ctx.off = 0
  BY <1>1 DEF CoreOK, BlocksOK
<1>5. PICK size : size = Head(sizes)
  OBVIOUS
<1>6. /\ Len(sizes) \in Nat /\ Len(sizes) >= 1 /\ size = sizes[1] /\ size \in Nat
      /\ Tail(sizes) \in Seq(Nat) /\ Len(Tail(sizes)) = Len(sizes) - 1
      /\ \A k \in 1 .. Len(Tail(sizes)) : Tail(sizes)[k] = sizes[k + 1]
  <2>1. Len(sizes) \in Nat /\ Len(sizes) # 0
    BY <1>1, <1>4, LenProperties, EmptySeq
  <2>2. size \in Nat /\ size = sizes[1]
    BY <1>1, <1>4, <1>5, HeadTailProperties
  <2> QED BY <1>1, <1>4, <2>1, <2>2, HeadTailProperties
<1> DEFINE type == IF size < LZ4_64Klimit THEN "byU16" ELSE "byU32"
           c0 == IF api = "fastReset" THEN LZ4_prepareTable(ctx, size, type) ELSE Cleared
<1>7. PICK c : c = c0
  OBVIOUS
<1> DEFINE small == api = "fastReset" /\ type = "byU16" /\ c.off # 0
           limit == Directive(api, size, cap)
           start == job.start + job.size
           args0 == [api |-> api, start |-> start, size |-> size,
                     cap |-> cap, limit |-> limit, type |-> type,
                     acceleration |-> acceleration, dict |-> "noDict",
                     dictSmall |-> small]
<1>8. PICK args : args = args0
  OBVIOUS
<1>9. /\ sizes' = Tail(sizes) /\ buf' = buf
      /\ Compress(c, args)
  BY <1>2, <1>5, <1>7, <1>8 DEF Call
<1>10. /\ args.api = api /\ args.start = start /\ args.size = size /\ args.cap = cap
       /\ args.limit = limit /\ args.type = type
       /\ args.acceleration = acceleration /\ args.dict = "noDict"
       /\ args.dictSmall = small
  BY <1>8
<1>11. type \in {"byU16", "byU32"} /\ (type = "byU16" => size < LZ4_64Klimit)
  OBVIOUS
<1>12. /\ StateOK(c) /\ c.dictCtx = {} /\ c.dictSize = 0
       /\ c.type = "clearedTable" => c.off = 0
       /\ type = "byU32" => \A h \in 0 .. slots - 1 :
                               c.table[h] < c.off => c.table[h] + KB64 <= c.off
       /\ type = "byU16" => c.off = 0 \/ (api = "fastReset" /\ c.off + size < MAX_DISTANCE)
  <2>1. CASE api = "fastReset"
    <3>1. c = LZ4_prepareTable(ctx, size, type)
      BY <1>7, <2>1
    <3> HIDE DEF type
    <3> DEFINE p == LZ4_prepareTable(ctx, size, type)
    <3>2. Prepared(ctx, size, type, p)
      BY <1>4, <1>6, <1>11, PrepareIs, Zenon
    <3>3. c = p
      BY <3>1
    <3> HIDE DEF p
    <3> QED BY <1>4, <2>1, <3>2, <3>3 DEF Prepared
  <2>2. CASE api # "fastReset"
    <3>1. c = Cleared
      BY <1>7, <2>2
    <3> QED BY <1>4, <3>1, ClearedIs
  <2> QED BY <2>1, <2>2
<1>13. limit \in {"notLimited", "limitedOutput", "fillOutput"} /\ small \in BOOLEAN
  BY DEF Directive
<1>14. start \in Nat /\ start = iend /\ ends[0] = start
  BY <1>3, <1>4 DEF iend, Laid
<1> HIDE DEF type, small, limit, start, args0, c0
<1>15. start + size <= Len(buf)
  <2>1. /\ ends[1] = ends[1 - 1] + sizes[1] /\ ends[1] <= Len(buf)
    <3>1. 1 \in 1 .. Len(sizes) /\ 1 \in 0 .. Len(sizes)
      BY <1>6
    <3> QED BY <1>3, <3>1, Zenon DEF Laid
  <2> QED BY <1>6, <1>14, <2>1
<1>16. cap \in Nat /\ acceleration \in Nat \ {0}
  <2>1. LZ4_compressBound(Head(sizes)) \in Nat
    BY <1>5, <1>6, BoundIs
  <2> QED BY <2>1, EncodeAssumption
<1>17. ArgsOK(c, args)
  <2>1. type = "byU16" => c.off + size < LZ4_64Klimit
    <3>1. c.off \in Nat
      BY <1>12 DEF StateOK, States
    <3>2. LZ4_64Klimit = KB64 + 11 /\ MAX_DISTANCE = KB64 - 1 /\ KB64 \in Nat
      BY SizesOK
    <3> QED BY <1>6, <1>11, <1>12, <3>1, <3>2
  <2> QED BY <1>6, <1>10, <1>11, <1>13, <1>14, <1>15, <1>16, <2>1 DEF ArgsOK
<1>18. Fitting(c, args)
  <2>1. ASSUME NEW h \in 0 .. slots - 1, c.table[h] < c.off
        PROVE  \/ args.dictSmall /\ c.dictSize = 0
               \/ args.type = "byU32" /\ c.table[h] + KB64 <= c.off
    <3>1. CASE type = "byU32"
      BY <1>10, <1>12, <2>1, <3>1
    <3>2. CASE type = "byU16"
      <4>1. c.off # 0
        <5>1. c.table[h] \in Nat /\ c.off \in Nat
          BY <1>12 DEF StateOK, States
        <5> QED BY <2>1, <5>1
      <4> QED BY <1>10, <1>12, <3>2, <4>1 DEF small
    <3> QED BY <1>11, <3>1, <3>2
  <2> QED BY <1>10, <2>1 DEF Fitting
<1>19. /\ CoreOK' /\ pc' \in {"done", "last", "search"}
       /\ job'.start = start /\ job'.size = size /\ job'.dict = "noDict"
       /\ \/ ctx' = c
          \/ Left(c, args, ctx')
  BY <1>4, <1>1, <1>9, <1>10, <1>12, <1>17, <1>18, CompressStarts
<1>20. ctx'.dictCtx = {} /\ (ctx'.type = "clearedTable" => ctx'.off = 0)
  BY <1>10, <1>11, <1>12, <1>19 DEF Left
<1>21. \E e : Laid(e)'
  <2> DEFINE N == Len(sizes)
             e == [k \in 0 .. N - 1 |-> ends[k + 1]]
  <2>1. Len(sizes') = N - 1 /\ N \in Nat /\ N >= 1
    BY <1>6, <1>9
  <2>2. ends \in [0 .. N -> Nat] /\ (\A k \in 1 .. N : ends[k] = ends[k - 1] + sizes[k])
        /\ (\A k \in 0 .. N : ends[k] <= Len(buf))
    BY <1>3 DEF Laid
  <2>3. \A k \in 1 .. N - 1 : sizes'[k] = sizes[k + 1]
    BY <1>6, <1>9
  <2> HIDE DEF N
  <2>4. e \in [0 .. N - 1 -> Nat]
    <3>1. \A k \in 0 .. N - 1 : k + 1 \in 0 .. N
      BY <2>1
    <3> QED BY <2>2, <3>1
  <2>5. e[0] = iend'
    <3>1. e[0] = ends[1] /\ ends[1] = start + size
      <4>1. 0 \in 0 .. N - 1 /\ 0 + 1 = 1 /\ 1 \in 1 .. N /\ 1 - 1 = 0
        BY <2>1
      <4>2. ends[1] = ends[1 - 1] + sizes[1]
        BY <2>2, <4>1, Zenon
      <4> QED BY <1>6, <1>14, <4>1, <4>2
    <3> QED BY <1>19, <3>1 DEF iend
  <2>6. ASSUME NEW k \in 1 .. N - 1 PROVE e[k] = e[k - 1] + sizes'[k]
    <3>1. k \in 0 .. N - 1 /\ k - 1 \in 0 .. N - 1 /\ (k - 1) + 1 = k /\ k + 1 \in 1 .. N
          /\ (k + 1) - 1 = k
      BY <2>1
    <3>2. e[k] = ends[k + 1] /\ e[k - 1] = ends[k]
      BY <3>1
    <3>3. ends[k + 1] = ends[(k + 1) - 1] + sizes[k + 1]
      BY <2>2, <3>1, Zenon
    <3>4. sizes'[k] = sizes[k + 1]
      BY <2>3
    <3> HIDE DEF e
    <3> QED BY <3>1, <3>2, <3>3, <3>4
  <2>7. ASSUME NEW k \in 0 .. N - 1 PROVE e[k] <= Len(buf')
    <3>1. k + 1 \in 0 .. N /\ e[k] = ends[k + 1]
      BY <2>1
    <3> HIDE DEF e
    <3> QED BY <1>9, <2>2, <3>1
  <2> HIDE DEF e
  <2> QED BY <2>1, <2>4, <2>5, <2>6, <2>7 DEF Laid
<1>22. sizes' \in Seq(Nat)
  BY <1>6, <1>9
<1>23. BlocksOK'
  BY <1>6, <1>14, <1>19, <1>20, <1>21, <1>22 DEF BlocksOK
<1> QED BY <1>1, <1>19, <1>23 DEF EncInv, InBlocks

-----------------------------------------------------------------------------
LEMMA InvGivesMatch ==
    ASSUME EncInv
    PROVE  MatchInWindow
<1> SUFFICES ASSUME pc = "match", ~Rewind
             PROVE  /\ Offset \in 1 .. MAX_DISTANCE
                    /\ low <= match
                    /\ IF External /\ low = job.dictionary
                       THEN match + MINMATCH <= job.dictEnd ELSE match < ip
                    /\ Read32(match) = Read32(ip)
  BY DEF MatchInWindow
<1>1. /\ Landed(ip, match, low, back) /\ buf \in Seq(Nat) /\ JobOK
      /\ ip \in Nat /\ ip + 12 <= iend
  BY DEF EncInv, CoreOK, LoopOK, AtMatch, Busy, Begun, MFLIMIT
<1>2. iend <= Len(buf) /\ iend \in Int /\ Len(buf) \in Nat
  BY <1>1, LenProperties DEF JobOK, iend
<1>3. /\ match \in Int /\ low \in Nat /\ low <= match /\ match + 4 <= Len(buf)
      /\ IF InDict(low) THEN match + 4 <= job.dictEnd ELSE match < ip
      /\ (IF External THEN back ELSE ip - match) \in 1 .. MAX_DISTANCE
      /\ Alike(ip, match, MINMATCH)
  BY <1>1 DEF Landed, MINMATCH
<1>4. Read32(match) = Read32(ip)
  <2>1. ip + 4 <= Len(buf) /\ 0 <= match
    BY <1>1, <1>2, <1>3
  <2> QED BY <1>1, <1>3, <2>1, ReadIs
<1> QED BY <1>3, <1>4 DEF Offset, InDict, MINMATCH

LEMMA BlocksStart ==
    ASSUME EncInit, DecInit, BlocksInit
    PROVE  EncInv
<1>1. PICK input \in Inputs :
        /\ buf = FlattenSeq(input)
        /\ sizes = [k \in DOMAIN input |-> Len(input[k])]
        /\ way = [sender |-> "blocks"] /\ pc = "idle"
  BY DEF BlocksInit
<1>2. /\ slots \in Nat \ {0} /\ ctx = Cleared /\ job.start = 0 /\ job.size = 0
      /\ dst = << >> /\ token = 0
  BY EncodeAssumption DEF EncInit
<1>3. input \in Seq(Seq(Nat))
  BY BlocksAssumption
<1>4. /\ buf \in Seq(Nat) /\ Len(input) \in Nat /\ DOMAIN input = 1 .. Len(input)
      /\ \A k \in 1 .. Len(input) : Len(input[k]) \in Nat
  <2>1. \A k \in 1 .. Len(input) : input[k] \in Seq(Nat)
    BY <1>3, ElementOfSeq
  <2>2. FlattenSeq(input) \in Seq(Nat)
    BY <1>3, FlattenType
  <2> QED BY <1>1, <1>3, <2>1, <2>2, LenProperties
<1>5. /\ sizes \in Seq(Nat) /\ Len(sizes) = Len(input)
      /\ \A k \in 1 .. Len(input) : sizes[k] = Len(input[k])
  <2> DEFINE N == Len(input)
             F(k) == Len(input[k])
  <2>1. sizes = [k \in 1 .. N |-> F(k)] /\ N \in Nat /\ \A k \in 1 .. N : F(k) \in Nat
    BY <1>1, <1>4
  <2> HIDE DEF N, F
  <2>2. sizes \in Seq(Nat) /\ Len(sizes) = N /\ \A k \in 1 .. N : sizes[k] = F(k)
    BY <2>1
  <2> QED BY <2>2 DEF N, F
<1>6. PICK ends \in [0 .. Len(input) -> Nat] :
              /\ ends[0] = 0 /\ ends[Len(input)] = Len(FlattenSeq(input))
              /\ \A k \in 1 .. Len(input) : ends[k] = ends[k - 1] + Len(input[k])
              /\ \A k \in 0 .. Len(input) : ends[k] <= Len(FlattenSeq(input))
  BY <1>3, EndsAre
<1>7. Laid(ends)
  BY <1>1, <1>2, <1>5, <1>6 DEF Laid, iend
<1>8. StateOK(ctx) /\ ctx.dictCtx = {} /\ ctx.off = 0
  BY <1>2, ClearedIs
<1>9. CoreOK
  BY <1>1, <1>2, <1>4, <1>8, EmptySeq DEF CoreOK, Busy, LoopOK
<1>10. BlocksOK
  BY <1>1, <1>2, <1>5, <1>7, <1>8 DEF BlocksOK, Busy
<1> QED BY <1>1, <1>9, <1>10 DEF EncInv, InBlocks

LEMMA WayIs ==
    ASSUME way \in Ways
    PROVE  /\ way.sender \in {"ring", "double", "save"}
           /\ way.origin \in Nat /\ way.ring \in Nat /\ way.keep \in Nat
           /\ way.how \in {"none", "load", "attach"}
           /\ way.dict \in Seq(Nat) /\ way.text \in Seq(Nat)
           /\ way.sizes \subseteq 1 .. MaxBlock /\ way.caps \subseteq Nat
           /\ Len(way.dict) \in Nat /\ MaxBlock \in Nat
  BY StreamAssumption, LenProperties

LEMMA ExtentIs ==
    ASSUME way \in Ways
    PROVE  /\ Extent(way.sender, way.origin, way.ring) \in Nat
           /\ Extent(way.sender, way.origin, way.ring) =
                 way.origin + (IF way.sender = "ring" THEN way.ring
                               ELSE IF way.sender = "double" THEN 2 * MaxBlock + 1
                               ELSE MaxBlock)
<1> DEFINE o == way.origin
           r == way.ring
           s == way.sender
<1>1. o \in Nat /\ r \in Nat /\ MaxBlock \in Nat /\ s \in {"ring", "double", "save"}
  BY WayIs
<1> HIDE DEF o, r, s
<1>2. /\ Extent(s, o, r) \in Nat
      /\ Extent(s, o, r) =
           o + (IF s = "ring" THEN r ELSE IF s = "double" THEN 2 * MaxBlock + 1 ELSE MaxBlock)
  BY <1>1 DEF Extent
<1> QED BY <1>2 DEF o, r, s

LEMMA StreamStart ==
    ASSUME EncInit, DecInit, StreamInit, Documented(way)
    PROVE  EncInv
<1>1. /\ way \in Ways /\ text = way.text /\ sizes = << >> /\ pc = "fresh" /\ sent = 0
      /\ buf = [p \in 1 .. Extent(way.sender, way.origin, way.ring) |->
                  IF p <= Len(way.dict) THEN way.dict[p] ELSE 0]
  BY DEF StreamInit
<1>2. slots \in Nat \ {0} /\ ctx = Cleared /\ dst = << >> /\ token = 0
  BY EncodeAssumption DEF EncInit
<1>3. buf \in Seq(Nat) /\ Len(buf) = Extent(way.sender, way.origin, way.ring)
  <2> DEFINE N == Extent(way.sender, way.origin, way.ring)
             F(p) == IF p <= Len(way.dict) THEN way.dict[p] ELSE 0
  <2>1. N \in Nat
    BY <1>1, ExtentIs
  <2>2. ASSUME NEW p \in 1 .. N PROVE F(p) \in Nat
    <3>1. way.dict \in Seq(Nat) /\ Len(way.dict) \in Nat
      BY <1>1, WayIs
    <3>2. p <= Len(way.dict) => way.dict[p] \in Nat
      <4>1. p <= Len(way.dict) => p \in 1 .. Len(way.dict)
        BY <2>1, <3>1
      <4> QED BY <3>1, <4>1, ElementOfSeq
    <3> QED BY <3>2
  <2>3. buf = [p \in 1 .. N |-> F(p)]
    BY <1>1
  <2> HIDE DEF N, F
  <2>4. buf \in Seq(Nat) /\ Len(buf) = N
    BY <2>1, <2>2, <2>3
  <2> QED BY <2>4 DEF N
<1>4. StateOK(ctx)
  BY <1>2, ClearedIs
<1>5. CoreOK
  BY <1>1, <1>2, <1>3, <1>4, EmptySeq DEF CoreOK, Busy, LoopOK
<1>6. StreamOK
  BY <1>1, <1>3 DEF StreamOK, Busy
<1>7. ~InBlocks
  BY <1>1, WayIs DEF InBlocks
<1> QED BY <1>5, <1>6, <1>7 DEF EncInv

-----------------------------------------------------------------------------
(* The dictionary's own state.                                             *)
LEMMA LoadedIs ==
    ASSUME slots \in Nat \ {0}, way \in Ways
    PROVE  LET d == Loaded(0, Len(way.dict))
           IN  /\ StateOK(d) /\ d.dictCtx = {} /\ d \in DictStates
               /\ d.dictionary \in Nat /\ d.dictionary + d.dictSize = Len(way.dict)
               /\ Len(way.dict) > 0 => DictOK(d)
<1> DEFINE n == Len(way.dict)
           K == KB64
           first == Max({0, n - K})
           Put(h) == {p - (n - K) : p \in {q \in first .. n - HASH_UNIT :
                        (q - first) % 3 = 0 /\ LZ4_hashPosition(q, "byU32") = h}}
           d == Loaded(0, n)
           v == n - first
           tab == [h \in DOMAIN Cleared.table |-> Max(Put(h) \cup {0})]
<1>1. n \in Nat /\ K \in Nat /\ K >= 16
  BY WayIs, SizesOK
<1>2. first = (IF 0 >= n - K THEN 0 ELSE n - K)
  <2>1. n - K \in Int /\ 0 \in Int
    BY <1>1
  <2> HIDE DEF n, K
  <2> QED BY <2>1, TwoMax
<1>3. first \in Nat /\ v \in 0 .. K /\ first + v = n /\ (n > 0 => v >= 1)
  <2> HIDE DEF n, K, first
  <2> QED BY <1>1, <1>2
<1>4. d = [Cleared EXCEPT !.dictionary = first, !.dictSize = v, !.off = K,
                          !.type = "byU32", !.table = tab]
  <2>1. 0 + n = n
    BY <1>1
  <2> QED BY <2>1 DEF Loaded
<1>5. DOMAIN Cleared.table = 0 .. slots - 1
  BY DEF Cleared
<1>6. ASSUME NEW h \in 0 .. slots - 1
      PROVE  /\ tab[h] \in Nat
             /\ tab[h] = 0 \/ (K - v <= tab[h] /\ tab[h] + 8 <= K)
  <2> DEFINE P == Put(h)
             T == P \cup {0}
  <2>1. \A x \in P : x \in Int /\ K - v <= x /\ x + 8 <= K
    <3>1. ASSUME NEW q \in first .. n - HASH_UNIT
          PROVE  /\ q - (n - K) \in Int /\ K - v <= q - (n - K)
                 /\ (q - (n - K)) + 8 <= K
      <4> HIDE DEF n, K, first
      <4> QED BY <1>1, <1>3 DEF HASH_UNIT
    <3> HIDE DEF n, K, first, v
    <3> QED BY <3>1
  <2> HIDE DEF P, v, K, n
  <2>2. T \subseteq 0 .. K /\ T # {}
    <3>1. \A x \in P : x \in Int /\ 0 <= x /\ x <= K
      BY <1>1, <1>3, <2>1
    <3> QED BY <1>1, <3>1
  <2>3. Max(T) \in T
    <3> HIDE DEF T
    <3> QED BY <1>1, <2>2, GreatestTaken
  <2>4. tab[h] = Max(T)
    BY <1>5 DEF P, n, K
  <2> HIDE DEF tab
  <2>5. tab[h] \in P \/ tab[h] = 0
    BY <2>3, <2>4
  <2> QED BY <1>1, <1>3, <2>1, <2>5
<1>7. tab \in [0 .. slots - 1 -> Nat]
  <2>1. tab = [h \in 0 .. slots - 1 |-> tab[h]]
    BY <1>5
  <2> HIDE DEF tab
  <2> QED BY <1>6, <2>1
<1> HIDE DEF tab, v, first, n, K, d
<1>8. /\ d.off = K /\ d.dictionary = first /\ d.dictSize = v /\ d.dictCtx = {}
      /\ d.table = tab /\ \A D : d \in States(D)
  <2>1. /\ Cleared.dictCtx = {}
        /\ \A D : Cleared \in [off : Nat, dictionary : Int, dictSize : Nat, dictCtx : SUBSET D,
                         type : {"clearedTable", "byU16", "byU32"},
                         table : [0 .. slots - 1 -> Nat]]
    BY DEF Cleared, Nil
  <2> DEFINE TT == [0 .. slots - 1 -> Nat]
  <2>2. tab \in TT /\ v \in Nat /\ first \in Int /\ K \in Nat
    BY <1>1, <1>3, <1>7
  <2>3. \A D : Cleared \in [off : Nat, dictionary : Int, dictSize : Nat, dictCtx : SUBSET D,
                         type : {"clearedTable", "byU16", "byU32"}, table : TT]
    BY <2>1
  <2> HIDE DEF TT
  <2>4. /\ d.off = K /\ d.dictionary = first /\ d.dictSize = v /\ d.dictCtx = Cleared.dictCtx
        /\ d.table = tab
        /\ \A D : d \in [off : Nat, dictionary : Int, dictSize : Nat, dictCtx : SUBSET D,
                         type : {"clearedTable", "byU16", "byU32"}, table : TT]
    BY <1>4, <2>2, <2>3
  <2> QED BY <2>1, <2>4 DEF States, TT
<1>9. DictOK(d) \/ ~(n > 0)
  <2>1. n > 0 => d.dictSize \in 1 .. KB64
    BY <1>1, <1>3, <1>8 DEF K
  <2>2. \A h \in 0 .. slots - 1 :
          \/ d.table[h] = 0
          \/ KB64 - d.dictSize <= d.table[h] /\ d.table[h] + 8 <= KB64
    BY <1>6, <1>8 DEF K
  <2>3. d.off = KB64 /\ d.dictionary \in Nat /\ d.dictionary + d.dictSize = Len(way.dict)
    BY <1>3, <1>8 DEF K, n
  <2> QED BY <2>1, <2>2, <2>3 DEF DictOK
<1>10. StateOK(d)
  <2>1. \A h \in 0 .. slots - 1 : d.table[h] = 0 \/ d.table[h] + 8 <= d.off
    BY <1>6, <1>8
  <2>2. d.dictSize <= d.off
    BY <1>1, <1>3, <1>8
  <2>3. d \in States(DictStates)
    BY <1>8, Zenon
  <2> QED BY <1>8, <2>1, <2>2, <2>3 DEF StateOK
<1>11. d \in DictStates
  BY <1>8, Zenon DEF DictStates
<1>12. d.dictionary \in Nat /\ d.dictionary + d.dictSize = n
  BY <1>3, <1>8
<1> QED BY <1>8, <1>9, <1>10, <1>11, <1>12 DEF d, n

LEMMA AttachedIs ==
    ASSUME slots \in Nat \ {0}, NEW c, StateOK(c), c.dictSize = 0,
           NEW d, d \in DictStates, DictOK(d)
    PROVE  /\ StateOK(Attached(c, d)) /\ Attached(c, d).dictSize = 0
           /\ Attached(c, d).dictionary = c.dictionary
           /\ Attached(c, d).dictCtx = {d}
<1> DEFINE v == IF c.off = 0 THEN KB64 ELSE c.off
           e == {d}
           a == Attached(c, d)
           TT == [0 .. slots - 1 -> Nat]
           D == DictStates
<1>1. a = [c EXCEPT !.off = v, !.dictCtx = e]
  BY DEF Attached
<1>2. KB64 \in Nat /\ e \in SUBSET D
  BY SizesOK
<1>3. /\ c \in [off : Nat, dictionary : Int, dictSize : Nat, dictCtx : SUBSET D,
                type : {"clearedTable", "byU16", "byU32"}, table : TT]
      /\ \A h \in 0 .. slots - 1 : c.table[h] = 0 \/ c.table[h] + 8 <= c.off
  <2> HIDE DEF D
  <2>1. c \in States(DictStates)
    BY DEF StateOK
  <2>2. c \in States(D)
    BY <2>1 DEF D
  <2> QED BY <2>2 DEF States, StateOK
<1> HIDE DEF D, TT
<1>4. v \in Nat /\ c.off \in Nat /\ c.off <= v
  BY <1>2, <1>3
<1> HIDE DEF v, e, a
<1>5. /\ a.off = v /\ a.dictCtx = e /\ a.dictSize = c.dictSize /\ a.table = c.table
      /\ a.dictionary = c.dictionary
      /\ a \in [off : Nat, dictionary : Int, dictSize : Nat, dictCtx : SUBSET D,
                type : {"clearedTable", "byU16", "byU32"}, table : TT]
  BY <1>1, <1>2, <1>3, <1>4
<1>6. a \in States(DictStates)
  BY <1>5 DEF States, TT, D
<1>7. \A h \in 0 .. slots - 1 : a.table[h] = 0 \/ a.table[h] + 8 <= a.off
  <2>1. ASSUME NEW h \in 0 .. slots - 1 PROVE c.table[h] \in Nat
    BY <1>3 DEF TT
  <2> QED BY <1>3, <1>4, <1>5, <2>1
<1>8. \A x \in a.dictCtx : DictOK(x)
  BY <1>5 DEF e
<1>9. a.dictSize <= a.off
  BY <1>4, <1>5
<1>10. StateOK(a)
  BY <1>6, <1>7, <1>8, <1>9 DEF StateOK
<1> QED BY <1>5, <1>10 DEF a, e

LEMMA DictStays ==
    ASSUME NEW c, UNCHANGED << slots, way >>
    PROVE  StateOK(c)' <=> StateOK(c')
  BY DEF StateOK, States, DictStates, DictOK

LEMMA BeginKeeps ==
    ASSUME EncInv, ~InBlocks, Begin
    PROVE  EncInv'
<1> DEFINE d == Loaded(0, Len(way.dict))
<1>1. PICK fast \in BOOLEAN :
          ctx' = CASE way.how = "load" -> d
                   [] way.how = "attach" ->
                         Attached(IF fast THEN LZ4_prepareTable(ctx, 0, "byU32") ELSE Cleared, d)
                   [] OTHER -> IF fast THEN LZ4_prepareTable(ctx, 0, "byU32") ELSE Cleared
  BY DEF Begin
<1>2. /\ pc = "fresh" /\ at' = way.origin /\ pc' = "idle"
      /\ UNCHANGED << buf, sizes, slots, job, dst, token, way, text, sent >>
  BY DEF Begin
<1>3. /\ CoreOK /\ StreamOK /\ buf \in Seq(Nat) /\ slots \in Nat \ {0} /\ StateOK(ctx)
      /\ dst \in Seq(Int) /\ token \in Nat /\ way \in Ways /\ Documented(way)
  BY DEF EncInv, CoreOK, StreamOK
<1> DEFINE c == IF fast THEN LZ4_prepareTable(ctx, 0, "byU32") ELSE Cleared
<1>4. StateOK(c) /\ c.dictSize = 0
  <2> DEFINE p == LZ4_prepareTable(ctx, 0, "byU32")
  <2>1. Prepared(ctx, 0, "byU32", p)
    <3>1. 0 \in Nat /\ "byU32" \in {"byU16", "byU32"}
      OBVIOUS
    <3> QED BY <1>3, <3>1, PrepareIs, Zenon
  <2>2. StateOK(p) /\ p.dictSize = 0
    BY <2>1, Zenon DEF Prepared
  <2> HIDE DEF p
  <2>3. StateOK(Cleared) /\ Cleared.dictSize = 0
    BY <1>3, ClearedIs
  <2>4. c = p \/ c = Cleared
    BY DEF p
  <2> HIDE DEF c
  <2> QED BY <2>2, <2>3, <2>4
<1>5. ctx' = (CASE way.how = "load" -> d [] way.how = "attach" -> Attached(c, d) [] OTHER -> c)
  BY <1>1
<1> HIDE DEF c
<1>6. /\ StateOK(d) /\ d \in DictStates
      /\ d.dictionary \in Nat /\ d.dictionary + d.dictSize = Len(way.dict)
      /\ Len(way.dict) > 0 => DictOK(d)
  <2> HIDE DEF d
  <2> QED BY <1>3, LoadedIs DEF d
<1> HIDE DEF d
<1>7. way.how = "attach" => DictOK(d)
  <2>1. way.how = "attach" => way.dict # << >> /\ way.dict \in Seq(Nat) /\ Len(way.dict) \in Nat
    BY <1>3, WayIs DEF Documented
  <2>2. way.how = "attach" => Len(way.dict) # 0
    BY <2>1, EmptySeq
  <2> QED BY <1>6, <2>1, <2>2
<1>8. StateOK(ctx') /\ (ctx'.dictSize > 0 => /\ ctx'.dictionary \in Nat
                                             /\ ctx'.dictionary + ctx'.dictSize = Len(way.dict))
  <2>1. CASE way.how = "load"
    BY <1>5, <1>6, <2>1
  <2>2. CASE way.how = "attach"
    <3>1. StateOK(Attached(c, d)) /\ Attached(c, d).dictSize = 0
      BY <1>3, <1>4, <1>6, <1>7, <2>2, AttachedIs
    <3> QED BY <1>5, <2>2, <3>1
  <2>3. CASE way.how \notin {"load", "attach"}
    BY <1>4, <1>5, <2>3
  <2> QED BY <2>1, <2>2, <2>3
<1>9. StateOK(ctx)'
  BY <1>2, <1>8, DictStays
<1>10. CoreOK'
  BY <1>2, <1>3, <1>9, CoreRests
<1>11. PlaceOK'
  <2>1. /\ way.origin \in Nat /\ way.sender \in {"ring", "double", "save"} /\ MaxBlock \in Nat
        /\ way.sender = "ring" => way.ring >= 2 * MaxBlock /\ way.ring \in Nat
    BY <1>3, WayIs DEF Documented
  <2> DEFINE o == way.origin
             r == way.ring
  <2>2. CASE way.sender = "ring"
    <3>1. o \in Nat /\ r \in Nat /\ r >= 2 * MaxBlock /\ MaxBlock \in Nat
      BY <2>1, <2>2
    <3> HIDE DEF o, r
    <3>2. o <= o /\ o + MaxBlock <= o + r
      BY <3>1
    <3> QED BY <1>2, <2>2, <3>1, <3>2 DEF PlaceOK, o, r
  <2>3. CASE way.sender # "ring"
    BY <1>2, <2>1, <2>3 DEF PlaceOK
  <2> QED BY <2>2, <2>3
<1>12. DictPlaceOK(ctx)'
  <2>1. Len(way.dict) <= way.origin
    BY <1>3 DEF Documented
  <2> QED BY <1>2, <1>8, <2>1 DEF DictPlaceOK
<1>13. ~Busy' /\ sizes' = << >> /\ sizes = << >>
  BY <1>2, <1>3 DEF StreamOK, Busy
<1>14. StreamOK'
  BY <1>2, <1>3, <1>11, <1>12, <1>13 DEF StreamOK, Extent, Documented
<1> QED BY <1>2, <1>10, <1>14 DEF EncInv, InBlocks

LEMMA WriteBlockKeeps ==
    ASSUME EncInv, ~InBlocks, NEW size \in way.sizes, WriteBlock(size)
    PROVE  EncInv'
<1>1. /\ pc = "idle" /\ sizes = << >> /\ sent + size <= Len(text)
      /\ buf' = [p \in DOMAIN buf |-> IF p - 1 \in at .. at + size - 1
                                    THEN text[sent + p - at] ELSE buf[p]]
      /\ sizes' = << size >>
      /\ UNCHANGED << slots, ctx, job, dst, token, pc, way, text, sent, at >>
  BY DEF WriteBlock, streamvars
<1>2. /\ CoreOK /\ StreamOK /\ buf \in Seq(Nat) /\ slots \in Nat \ {0} /\ StateOK(ctx)
      /\ dst \in Seq(Int) /\ token \in Nat /\ way \in Ways /\ Documented(way)
      /\ text = way.text /\ sent \in Nat /\ at \in Nat
  BY <1>1 DEF EncInv, CoreOK, StreamOK, PlaceOK
<1>3. text \in Seq(Nat) /\ Len(text) \in Nat /\ size \in 1 .. MaxBlock /\ MaxBlock \in Nat
  BY <1>2, WayIs, LenProperties
<1>4. buf' \in Seq(Nat) /\ Len(buf') = Len(buf)
  <2> DEFINE F(p) == IF p - 1 \in at .. at + size - 1 THEN text[sent + p - at] ELSE buf[p]
             N == Len(buf)
  <2>1. N \in Nat /\ DOMAIN buf = 1 .. N /\ \A p \in 1 .. N : buf[p] \in Nat
    BY <1>2, LenProperties, ElementOfSeq
  <2>2. ASSUME NEW p \in 1 .. N PROVE F(p) \in Nat
    <3>1. CASE p - 1 \in at .. at + size - 1
      <4> DEFINE L == Len(text)
      <4>1. sent + p - at \in 1 .. L
        <5>1. /\ sent \in Nat /\ at \in Nat /\ size \in Nat /\ L \in Nat /\ p \in Int
              /\ at <= p - 1 /\ p - 1 <= at + size - 1 /\ sent + size <= L
          BY <1>1, <1>2, <1>3, <2>1, <3>1
        <5> HIDE DEF L
        <5> QED BY <5>1
      <4>2. text[sent + p - at] \in Nat
        BY <1>3, <4>1, ElementOfSeq
      <4> QED BY <3>1, <4>2
    <3>2. CASE ~(p - 1 \in at .. at + size - 1)
      BY <2>1, <3>2
    <3> QED BY <3>1, <3>2
  <2>3. buf' = [p \in 1 .. N |-> F(p)]
    BY <1>1, <2>1
  <2> HIDE DEF N, F
  <2>4. buf' \in Seq(Nat) /\ Len(buf') = N
    BY <2>1, <2>2, <2>3
  <2> QED BY <2>4 DEF N
<1>5. StateOK(ctx)'
  BY <1>1, <1>2, StateStays
<1>6. CoreOK'
  BY <1>1, <1>2, <1>4, <1>5, CoreRests
<1>7. sizes' = << sizes'[1] >> /\ sizes'[1] \in 1 .. MaxBlock /\ ~Busy'
  BY <1>1, <1>3 DEF Busy
<1>8. PlaceOK' /\ DictPlaceOK(ctx)'
  BY <1>1, <1>2 DEF StreamOK, PlaceOK, DictPlaceOK
<1>9. Extent(way.sender, way.origin, way.ring)' = Extent(way.sender, way.origin, way.ring)
  BY <1>1 DEF Extent
<1>10. StreamOK'
  BY <1>1, <1>2, <1>4, <1>7, <1>8, <1>9 DEF StreamOK, Documented
<1> QED BY <1>1, <1>6, <1>10 DEF EncInv, InBlocks

-----------------------------------------------------------------------------
(* What a call makes of the state before it compresses.                    *)
End(c) == c.dictionary + c.dictSize

(* The state c becomes r, the same but for its dictionary and indexes.     *)
Turned(c, r) ==
    /\ StateOK(r) /\ r.dictCtx = c.dictCtx
    /\ c.dictSize > 0 /\ c.dictionary \in Nat /\ r.dictSize > 0 => r.dictionary \in Nat

LEMMA StateIs ==
    ASSUME NEW c, StateOK(c)
    PROVE  /\ c.off \in Nat /\ c.dictionary \in Int /\ c.dictSize \in Nat
           /\ c.dictSize <= c.off /\ c.table \in [0 .. slots - 1 -> Nat]
           /\ c.type \in {"clearedTable", "byU16", "byU32"}
           /\ c.dictCtx \subseteq DictStates
<1> HIDE DEF DictStates
<1> QED BY DEF StateOK, States

WithDict(c, a, z) == [c EXCEPT !.dictSize = z, !.dictionary = a]

LEMMA DictMoves ==
    ASSUME NEW c, StateOK(c), NEW a \in Int, NEW z \in Nat, z <= c.off
    PROVE  LET r == WithDict(c, a, z)
           IN  /\ StateOK(r) /\ r.dictCtx = c.dictCtx /\ r.off = c.off
               /\ r.dictSize = z /\ r.dictionary = a
<1> DEFINE r == WithDict(c, a, z)
           D == DictStates
           TT == [0 .. slots - 1 -> Nat]
<1>1. c \in [off : Nat, dictionary : Int, dictSize : Nat, dictCtx : SUBSET D,
             type : {"clearedTable", "byU16", "byU32"}, table : TT]
  <2> HIDE DEF D
  <2>1. c \in States(D)
    BY DEF StateOK, D
  <2> QED BY <2>1 DEF States
<1> HIDE DEF D, TT
<1>2. /\ r.dictCtx = c.dictCtx /\ r.off = c.off /\ r.dictSize = z /\ r.dictionary = a
      /\ r.table = c.table
      /\ r \in [off : Nat, dictionary : Int, dictSize : Nat, dictCtx : SUBSET D,
                type : {"clearedTable", "byU16", "byU32"}, table : TT]
  BY <1>1 DEF WithDict
<1> HIDE DEF r
<1>3. r \in States(DictStates)
  BY <1>2 DEF States, TT, D
<1>4. StateOK(r)
  BY <1>2, <1>3 DEF StateOK
<1> QED BY <1>2, <1>4 DEF r

LEMMA RenormedIs ==
    ASSUME slots \in Nat \ {0}, NEW c, StateOK(c), NEW size \in Nat, size <= MaxBlock
    PROVE  LET r == Renormed(c, size)
           IN  /\ StateOK(r) /\ r.dictCtx = c.dictCtx /\ End(r) = End(c)
               /\ r.dictSize <= c.dictSize /\ c.dictionary <= r.dictionary
<1> DEFINE r == Renormed(c, size)
           delta == c.off - KB64
           z == Min({c.dictSize, KB64})
           a == c.dictionary + c.dictSize - z
           tab == [h \in DOMAIN c.table |-> IF c.table[h] < delta THEN 0
                                            ELSE c.table[h] - delta]
           K == KB64
<1>0. /\ c.off \in Nat /\ c.dictionary \in Int /\ c.dictSize \in Nat
      /\ c.dictSize <= c.off /\ c.table \in [0 .. slots - 1 -> Nat]
      /\ \A h \in 0 .. slots - 1 : c.table[h] = 0 \/ c.table[h] + 8 <= c.off
  <2>1. \A h \in 0 .. slots - 1 : c.table[h] = 0 \/ c.table[h] + 8 <= c.off
    BY DEF StateOK
  <2> QED BY <2>1, StateIs
<1>1. CASE c.off + size <= GB2
  <2>1. r = c
    BY <1>1 DEF Renormed
  <2> QED BY <1>0, <2>1 DEF End
<1>2. CASE ~(c.off + size <= GB2)
  <2>1. r = [c EXCEPT !.table = tab, !.off = K, !.dictSize = z, !.dictionary = a]
    BY <1>2 DEF Renormed
  <2>2. K \in Nat /\ K >= 16 /\ MaxBlock \in Nat /\ GB2 \in Nat /\ GB2 >= K + MaxBlock
    BY SizesOK
  <2>3. delta \in Nat /\ delta + K = c.off
    <3> HIDE DEF K
    <3>1. delta = c.off - K
      BY DEF K
    <3> HIDE DEF delta
    <3> QED BY <1>0, <1>2, <2>2, <3>1
  <2>4. z = IF c.dictSize <= K THEN c.dictSize ELSE K
    <3> DEFINE x == c.dictSize
               T == {x, K}
    <3>1. x \in Nat /\ K \in Nat
      BY <1>0, <2>2
    <3> HIDE DEF x, K
    <3>2. T \subseteq Nat /\ T # {}
      BY <3>1
    <3>3. Min(T) \in T /\ \A y \in T : Min(T) <= y
      BY <3>2, LeastTaken, Zenon
    <3>4. Min(T) = IF x <= K THEN x ELSE K
      BY <3>1, <3>3
    <3> QED BY <3>4 DEF x, K
  <2> HIDE DEF delta, z, K
  <2>5. z \in Nat /\ z <= K /\ z <= c.dictSize
    BY <1>0, <2>2, <2>4
  <2>6. a \in Int /\ a + z = c.dictionary + c.dictSize /\ c.dictionary <= a
    BY <1>0, <2>5
  <2>7. /\ tab \in [0 .. slots - 1 -> Nat]
        /\ \A h \in 0 .. slots - 1 : tab[h] = 0 \/ tab[h] + 8 <= K
    <3>1. DOMAIN c.table = 0 .. slots - 1
      BY <1>0
    <3>2. \A h \in 0 .. slots - 1 : c.table[h] \in Nat
      BY <1>0
    <3>3. ASSUME NEW h \in 0 .. slots - 1
          PROVE  tab[h] \in Nat /\ (tab[h] = 0 \/ tab[h] + 8 <= K)
      <4> DEFINE x == c.table[h]
      <4>1. x \in Nat /\ (x = 0 \/ x + 8 <= c.off)
        BY <1>0, <3>2
      <4>2. tab[h] = IF x < delta THEN 0 ELSE x - delta
        BY <3>1
      <4> HIDE DEF x, tab
      <4> QED BY <1>0, <2>2, <2>3, <4>1, <4>2
    <3>4. tab = [h \in 0 .. slots - 1 |-> tab[h]]
      BY <3>1
    <3> HIDE DEF tab
    <3> QED BY <3>3, <3>4
  <2> DEFINE D == DictStates
             TT == [0 .. slots - 1 -> Nat]
  <2>8. c \in [off : Nat, dictionary : Int, dictSize : Nat, dictCtx : SUBSET D,
               type : {"clearedTable", "byU16", "byU32"}, table : TT]
    <3> HIDE DEF D
    <3>1. c \in States(D)
      BY DEF StateOK, D
    <3> QED BY <3>1 DEF States
  <2>9. tab \in TT
    BY <2>7
  <2> HIDE DEF D, TT, tab, a
  <2>10. /\ r.dictCtx = c.dictCtx /\ r.off = K /\ r.dictSize = z /\ r.dictionary = a
         /\ r.table = tab
         /\ r \in [off : Nat, dictionary : Int, dictSize : Nat, dictCtx : SUBSET D,
                   type : {"clearedTable", "byU16", "byU32"}, table : TT]
    BY <2>1, <2>2, <2>5, <2>6, <2>8, <2>9
  <2> HIDE DEF r
  <2>11. r \in States(DictStates)
    BY <2>10 DEF States, TT, D
  <2>12. \A x \in r.dictCtx : DictOK(x)
    BY <2>10 DEF StateOK
  <2>13. StateOK(r)
    BY <2>5, <2>7, <2>10, <2>11, <2>12 DEF StateOK
  <2>14. End(r) = End(c) /\ r.dictSize <= c.dictSize /\ c.dictionary <= r.dictionary
    BY <2>5, <2>6, <2>10 DEF End
  <2> QED BY <2>10, <2>13, <2>14 DEF r
<1> QED BY <1>1, <1>2

LEMMA TidiedIs ==
    ASSUME NEW c, StateOK(c), NEW source \in Nat
    PROVE  LET r == Tidied(c, source)
           IN  /\ StateOK(r) /\ r.dictCtx = c.dictCtx
               /\ r = c \/ (r.dictSize = 0 /\ r.dictionary = source)
               /\ c.dictSize = 0 => r = c
               /\ End(r) # source => r.dictSize \notin 1 .. 4
<1> DEFINE r == Tidied(c, source)
<1>1. CASE c.dictSize \in 1 .. 4 /\ c.dictionary + c.dictSize # source
  <2>1. r = WithDict(c, source, 0)
    BY <1>1 DEF Tidied, WithDict
  <2>2. 0 \in Nat /\ source \in Int /\ 0 <= c.off
    BY StateIs
  <2>3. StateOK(r) /\ r.dictCtx = c.dictCtx /\ r.dictSize = 0 /\ r.dictionary = source
    <3> HIDE DEF r
    <3> QED BY <2>1, <2>2, DictMoves
  <2>4. c.dictSize # 0
    BY <1>1
  <2> HIDE DEF r
  <2> QED BY <2>3, <2>4 DEF r
<1>2. CASE ~(c.dictSize \in 1 .. 4 /\ c.dictionary + c.dictSize # source)
  <2>1. r = c
    BY <1>2 DEF Tidied
  <2> QED BY <1>2, <2>1 DEF End
<1> QED BY <1>1, <1>2

LEMMA UnoverlappedIs ==
    ASSUME NEW c, StateOK(c), NEW source \in Nat, NEW size \in Nat \ {0},
           End(c) # source => c.dictSize \notin 1 .. 4,
           c.dictSize > 0 =>
              /\ c.dictionary \in Nat
              /\ End(c) <= source \/ source + size < End(c)
    PROVE  LET r == Unoverlapped(c, source, size)
           IN  /\ StateOK(r) /\ r.dictCtx = c.dictCtx
               /\ r.dictSize > 0 => r.dictionary \in Nat
               /\ End(r) # source =>
                     /\ r.dictionary # source
                     /\ r.dictSize > 0 => r.off >= 4
               /\ r.dictSize <= c.dictSize /\ End(r) = End(c)
               /\ r.dictSize > 0 => End(r) <= source \/ source + size <= r.dictionary
               /\ c.dictSize = 0 /\ c.dictionary < 0 => r = c
<1> DEFINE r == Unoverlapped(c, source, size)
           end == c.dictionary + c.dictSize
           left == Min({end - (source + size), KB64})
           kept == IF left < 4 THEN 0 ELSE left
           K == KB64
<1>0. /\ c.off \in Nat /\ c.dictionary \in Int /\ c.dictSize \in Nat
      /\ c.dictSize <= c.off
  BY StateIs
<1>1. CASE source + size > c.dictionary /\ source + size < end
  <2> DEFINE a == end - kept
             m == end - (source + size)
  <2>1. r = WithDict(c, a, kept)
    BY <1>1 DEF Unoverlapped, WithDict
  <2>2. K \in Nat /\ K >= 16 /\ m \in Nat /\ m >= 1 /\ m <= c.dictSize
    <3>1. K \in Nat /\ K >= 16
      BY SizesOK
    <3> HIDE DEF K
    <3> QED BY <1>0, <1>1, <3>1
  <2>3. left \in Nat /\ left <= m
    <3> DEFINE T == {m, K}
    <3> HIDE DEF m, K
    <3>1. T \subseteq Nat /\ T # {}
      BY <2>2
    <3>2. Min(T) \in T /\ \A y \in T : Min(T) <= y
      BY <3>1, LeastTaken, Zenon
    <3>3. Min(T) \in Nat /\ Min(T) <= m
      BY <2>2, <3>2
    <3> QED BY <3>3 DEF m, K
  <2> HIDE DEF left
  <2>4. kept \in Nat /\ kept <= m /\ (kept = 0 \/ kept >= 4)
    <3> HIDE DEF m
    <3> QED BY <2>2, <2>3
  <2> HIDE DEF kept
  <2>5. a \in Int /\ a >= source + size /\ a \in Nat /\ a + kept = end /\ kept <= c.off
    BY <1>0, <2>2, <2>4
  <2>6. StateOK(r) /\ r.dictCtx = c.dictCtx /\ r.off = c.off /\ r.dictSize = kept
        /\ r.dictionary = a
    <3> HIDE DEF a
    <3> HIDE DEF r
    <3> QED BY <2>1, <2>4, <2>5, DictMoves
  <2>7. a # source
    <3> HIDE DEF a
    <3> QED BY <2>5
  <2>8. kept > 0 => c.off >= 4
    <3> HIDE DEF a
    <3> QED BY <1>0, <2>4, <2>5
  <2>9. kept <= c.dictSize /\ End(r) = End(c) /\ source + size <= r.dictionary
        /\ ~(c.dictSize = 0 /\ c.dictionary < 0)
    <3> HIDE DEF r, a
    <3>1. kept <= c.dictSize /\ source + size <= a
      BY <1>0, <2>2, <2>4, <2>5
    <3>2. ~(c.dictSize = 0 /\ c.dictionary < 0)
      BY <1>0, <1>1
    <3> QED BY <2>5, <2>6, <3>1, <3>2 DEF End
  <2> HIDE DEF r, a
  <2> QED BY <2>5, <2>6, <2>7, <2>8, <2>9 DEF r
<1>2. CASE ~(source + size > c.dictionary /\ source + size < end)
  <2>1. r = c
    BY <1>2 DEF Unoverlapped
  <2>2. ASSUME End(c) # source
        PROVE  c.dictionary # source /\ (c.dictSize > 0 => c.off >= 4)
    <3>1. CASE c.dictSize = 0
      BY <1>0, <2>2, <3>1 DEF End
    <3>2. CASE c.dictSize > 0
      <4>1. c.dictSize > 4
        BY <1>0, <2>2, <3>2
      <4>2. c.dictionary \in Nat /\ (end <= source \/ source + size < end)
        BY <3>2 DEF End
      <4>3. c.dictionary # source
        <5> DEFINE dn == c.dictionary
                   z == c.dictSize
        <5>1. dn \in Nat /\ z \in Nat /\ z > 4 /\ (dn + z <= source \/ source + size < dn + z)
              /\ ~(source + size > dn /\ source + size < dn + z)
          BY <1>0, <1>2, <4>1, <4>2
        <5> HIDE DEF dn, z
        <5>2. dn # source
          BY <5>1
        <5> QED BY <5>2 DEF dn
      <4> QED BY <1>0, <4>1, <4>3
    <3> QED BY <1>0, <3>1, <3>2
  <2>3. c.dictSize > 0 => End(c) <= source \/ source + size <= c.dictionary
    <3> DEFINE dn == c.dictionary
               z == c.dictSize
    <3>1. /\ dn \in Int /\ z \in Nat /\ End(c) = dn + z
          /\ z > 0 => End(c) <= source \/ source + size < End(c)
          /\ ~(source + size > dn /\ source + size < dn + z)
      BY <1>0, <1>2 DEF End
    <3> HIDE DEF dn, z
    <3>2. z > 0 => End(c) <= source \/ source + size <= dn
      BY <3>1
    <3> QED BY <3>2 DEF dn, z
  <2> HIDE DEF r
  <2> QED BY <1>0, <2>1, <2>2, <2>3 DEF r
<1> QED BY <1>1, <1>2

(* The state that compress_fast_continue() makes of its own.               *)
Ready(c, source, r) ==
    /\ StateOK(r) /\ r.dictCtx = c.dictCtx
    /\ r.dictSize > 0 => r.dictionary \in Nat
    /\ End(r) # source =>
          /\ r.dictionary # source
          /\ r.dictSize > 0 => r.off >= 4

Prior(c, source, size) == Unoverlapped(Tidied(Renormed(c, size), source), source, size)

(* What is left of the dictionary is the end of it, and not where the      *)
(* block is.                                                               *)
Rest(c, source, size, r) ==
    /\ r.dictSize <= c.dictSize
    /\ r.dictSize > 0 =>
          /\ End(r) = End(c)
          /\ End(r) <= source \/ source + size <= r.dictionary
    /\ c.dictSize = 0 /\ c.dictionary < 0 => r.dictSize = 0 /\ r.dictionary < 0

LEMMA ReadyIs ==
    ASSUME slots \in Nat \ {0}, NEW c, StateOK(c), NEW source \in Nat,
           NEW size \in 1 .. MaxBlock,
           c.dictSize > 0 =>
              /\ c.dictionary \in Nat
              /\ End(c) <= source \/ source + MaxBlock < End(c)
    PROVE  /\ Ready(c, source, Prior(c, source, size))
           /\ Rest(c, source, size, Prior(c, source, size))
<1> DEFINE r0 == Renormed(c, size)
<1>0. size \in Nat \ {0} /\ size <= MaxBlock /\ MaxBlock \in Nat
  BY SizesOK
<1>1. PICK r : r = r0
  OBVIOUS
<1>2. /\ StateOK(r) /\ r.dictCtx = c.dictCtx /\ End(r) = End(c)
      /\ r.dictSize <= c.dictSize /\ c.dictionary <= r.dictionary
  BY <1>0, <1>1, RenormedIs
<1>3. PICK t : t = Tidied(r, source)
  OBVIOUS
<1>4. /\ StateOK(t) /\ t.dictCtx = r.dictCtx
      /\ t = r \/ (t.dictSize = 0 /\ t.dictionary = source)
      /\ r.dictSize = 0 => t = r
      /\ End(t) # source => t.dictSize \notin 1 .. 4
  BY <1>2, <1>3, TidiedIs
<1>5. t.dictSize > 0 =>
              /\ t.dictionary \in Nat
              /\ End(t) <= source \/ source + size < End(t)
  <2>1. SUFFICES ASSUME t.dictSize > 0
                 PROVE  /\ t.dictionary \in Nat
                        /\ End(t) <= source \/ source + size < End(t)
    OBVIOUS
  <2>2. t = r
    BY <1>4, <2>1
  <2>3. /\ c.dictionary \in Int /\ c.dictSize \in Nat
        /\ r.dictionary \in Int /\ r.dictSize \in Nat
    BY <1>2, StateIs
  <2> DEFINE e == End(c)
  <2>4. e \in Int
    BY <2>3 DEF End
  <2>5. c.dictionary \in Nat /\ (e <= source \/ source + MaxBlock < e)
    BY <1>2, <2>1, <2>2, <2>3
  <2> HIDE DEF e
  <2>6. e <= source \/ source + size < e
    BY <1>0, <2>4, <2>5
  <2> QED BY <1>2, <2>2, <2>3, <2>5, <2>6 DEF e
<1>6. PICK u : u = Unoverlapped(t, source, size)
  OBVIOUS
<1>7. /\ StateOK(u) /\ u.dictCtx = t.dictCtx
      /\ u.dictSize > 0 => u.dictionary \in Nat
      /\ End(u) # source =>
            /\ u.dictionary # source
            /\ u.dictSize > 0 => u.off >= 4
      /\ u.dictSize <= t.dictSize /\ End(u) = End(t)
      /\ u.dictSize > 0 => End(u) <= source \/ source + size <= u.dictionary
      /\ t.dictSize = 0 /\ t.dictionary < 0 => u = t
  BY <1>0, <1>4, <1>5, <1>6, UnoverlappedIs
<1>8. Ready(c, source, u)
  BY <1>2, <1>4, <1>7, Zenon DEF Ready
<1>9. Rest(c, source, size, u)
  <2>1. /\ c.dictionary \in Int /\ c.dictSize \in Nat
        /\ r.dictionary \in Int /\ r.dictSize \in Nat
        /\ t.dictionary \in Int /\ t.dictSize \in Nat
        /\ u.dictionary \in Int /\ u.dictSize \in Nat
    BY <1>2, <1>4, <1>7, StateIs
  <2>2. t.dictSize <= r.dictSize
    BY <1>4, <2>1
  <2>3. u.dictSize <= c.dictSize
    <3> HIDE DEF r0
    <3> QED BY <1>2, <1>7, <2>1, <2>2
  <2>4. u.dictSize > 0 => End(u) = End(c)
    <3>1. u.dictSize > 0 => t.dictSize # 0
      BY <1>7, <2>1
    <3> QED BY <1>2, <1>4, <1>7, <3>1
  <2>5. c.dictSize = 0 /\ c.dictionary < 0 => u.dictSize = 0 /\ u.dictionary < 0
    <3>1. SUFFICES ASSUME c.dictSize = 0, c.dictionary < 0
                   PROVE  u.dictSize = 0 /\ u.dictionary < 0
      OBVIOUS
    <3>2. r.dictSize = 0 /\ r.dictionary = c.dictionary
      BY <1>2, <2>1, <3>1 DEF End
    <3> QED BY <1>4, <1>7, <3>1, <3>2
  <2> QED BY <1>7, <2>3, <2>4, <2>5 DEF Rest
<1> QED BY <1>1, <1>3, <1>6, <1>8, <1>9 DEF Prior

LEMMA PlaceIs ==
    ASSUME way \in Ways, Documented(way), PlaceOK
    PROVE  /\ at \in Nat /\ Len(way.dict) <= at
           /\ at + MaxBlock <= Extent(way.sender, way.origin, way.ring)
<1> DEFINE o == way.origin
           r == way.ring
           s == way.sender
           n == Len(way.dict)
           x == Extent(way.sender, way.origin, way.ring)
<1>1. /\ o \in Nat /\ r \in Nat /\ MaxBlock \in Nat /\ s \in {"ring", "double", "save"}
      /\ n \in Nat /\ n <= o
  BY WayIs DEF Documented
<1>2. /\ at \in Nat
      /\ s = "ring" => o <= at /\ at + MaxBlock <= o + r
      /\ s = "double" => at = o \/ at = o + MaxBlock + 1
      /\ s = "save" => at = o
  <2> HIDE DEF o, r
  <2>1. at \in Nat /\ CASE s = "ring" -> /\ o <= at
                                   /\ at + MaxBlock <= o + r
         [] s = "double" -> at \in {o, o + MaxBlock + 1}
         [] s = "save" -> at = o
    BY Zenon DEF PlaceOK, o, r
  <2> HIDE DEF s
  <2> QED BY <2>1
<1>3. x = o + (IF s = "ring" THEN r ELSE IF s = "double" THEN 2 * MaxBlock + 1 ELSE MaxBlock)
  BY ExtentIs, Zenon
<1> HIDE DEF o, r, s, n, x
<1>4. at \in Nat /\ n <= at /\ at + MaxBlock <= x
  BY <1>1, <1>2, <1>3
<1> QED BY <1>4 DEF n, x

LEMMA DictIsState ==
    ASSUME slots \in Nat \ {0}, NEW d \in DictStates, DictOK(d)
    PROVE  StateOK(d) /\ d.off >= 4
<1>1. d \in States({})
  BY DEF DictStates
<1>2. d.dictCtx = {} /\ d \in States(DictStates)
  BY <1>1 DEF States
<1>3. KB64 \in Nat /\ KB64 >= 16
  BY SizesOK
<1>4. /\ d.dictSize <= d.off /\ d.off >= 4
      /\ \A h \in 0 .. slots - 1 : d.table[h] = 0 \/ d.table[h] + 8 <= d.off
  BY <1>3 DEF DictOK
<1> QED BY <1>2, <1>4 DEF StateOK

(* A call of the stream, whichever mode it is in, compresses b.            *)
StreamArgs(b, args, size) ==
    /\ StateOK(b) /\ ArgsOK(b, args) /\ Fitting(b, args)
    /\ args.start = at /\ args.size = size
    /\ args.limit = "limitedOutput" /\ args.api = "continue"
    /\ args.dict \in {"withPrefix64k", "usingExtDict", "usingDictCtx"}

Passed(source, size, cap, dict, small) ==
    [api |-> "continue", start |-> source, size |-> size, cap |-> cap,
     limit |-> "limitedOutput", type |-> "byU32", acceleration |-> 1,
     dict |-> dict, dictSmall |-> small]

LEMMA PassedIs ==
    ASSUME NEW b, StateOK(b), NEW size \in Nat, NEW cap \in Nat, NEW small \in BOOLEAN,
           NEW dict \in {"withPrefix64k", "usingExtDict", "usingDictCtx"},
           at \in Nat, at + size <= Len(buf),
           Fitting(b, Passed(at, size, cap, dict, small))
    PROVE  StreamArgs(b, Passed(at, size, cap, dict, small), size)
<1> DEFINE a == Passed(at, size, cap, dict, small)
<1>1. /\ a.api = "continue" /\ a.start = at /\ a.size = size /\ a.cap = cap
      /\ a.limit = "limitedOutput" /\ a.type = "byU32" /\ a.acceleration = 1
      /\ a.dict = dict /\ a.dictSmall = small
  BY DEF Passed
<1> HIDE DEF a
<1>2. ArgsOK(b, a)
  BY <1>1 DEF ArgsOK
<1> QED BY <1>1, <1>2 DEF StreamArgs, a

(* Which state's dictionary the block is compressed with, c being the one  *)
(* that was made ready.                                                    *)
Picked(c, b, args) ==
    \/ b = c /\ args.dict = "withPrefix64k"
    \/ b \in c.dictCtx /\ args.dict = "usingExtDict"
    \/ b = c /\ c.dictCtx # {} /\ args.dict = "usingDictCtx"
    \/ b = c /\ c.dictCtx = {} /\ args.dict = "usingExtDict"

LEMMA ContinueIs ==
    ASSUME StreamOK, pc = "idle", slots \in Nat \ {0}, StateOK(ctx),
           NEW size \in 1 .. MaxBlock, NEW cap \in Nat, Continue(at, size, cap)
    PROVE  \E b, args : /\ StreamArgs(b, args, size) /\ Compress(b, args)
                        /\ Picked(Prior(ctx, at, size), b, args)
<1>0. /\ way \in Ways /\ Documented(way) /\ PlaceOK /\ DictPlaceOK(ctx)
      /\ Len(buf) = Extent(way.sender, way.origin, way.ring)
  BY DEF StreamOK
<1>1. /\ at \in Nat /\ Len(way.dict) <= at /\ at + MaxBlock <= Len(buf)
      /\ size \in Nat /\ size >= 1 /\ size <= MaxBlock /\ MaxBlock \in Nat
      /\ Len(way.dict) \in Nat /\ Len(buf) \in Nat
  BY <1>0, PlaceIs, SizesOK, WayIs, ExtentIs
<1>2. at + size <= Len(buf)
  BY <1>1
<1>3. PICK c : c = Prior(ctx, at, size)
  OBVIOUS
<1>4. Ready(ctx, at, c)
  <2>1. ctx.dictSize > 0 =>
              /\ ctx.dictionary \in Nat
              /\ End(ctx) <= at \/ at + MaxBlock < End(ctx)
    BY <1>0, Zenon DEF DictPlaceOK, End
  <2>2. Ready(ctx, at, Prior(ctx, at, size))
    BY <1>1, <2>1, ReadyIs, Zenon
  <2> QED BY <1>3, <2>2
<1>5. /\ StateOK(c) /\ c.dictCtx = ctx.dictCtx
      /\ c.dictSize > 0 => c.dictionary \in Nat
      /\ End(c) # at => c.dictionary # at /\ (c.dictSize > 0 => c.off >= 4)
      /\ \A d \in c.dictCtx : d \in DictStates /\ DictOK(d)
  <2>1. StateOK(c) /\ c.dictCtx = ctx.dictCtx
    BY <1>4 DEF Ready
  <2>2. \A d \in c.dictCtx : d \in DictStates /\ DictOK(d)
    <3>1. c.dictCtx \subseteq DictStates
      BY <2>1, StateIs
    <3> QED BY <2>1, <3>1 DEF StateOK
  <2> QED BY <1>4, <2>1, <2>2 DEF Ready
<1>6. /\ Small(c) \in BOOLEAN
      /\ Deep(c, Small(c))
  BY <1>5, StateIs, SizesOK DEF Small, Deep
<1>7. \A d \in c.dictCtx :
         /\ StateOK(d) /\ d.off >= 4 /\ d.dictionary \in Nat /\ d.dictionary # at
  <2>1. SUFFICES ASSUME NEW d \in c.dictCtx
                 PROVE  /\ StateOK(d) /\ d.off >= 4 /\ d.dictionary \in Nat
                        /\ d.dictionary # at
    OBVIOUS
  <2>2. StateOK(d) /\ d.off >= 4
    BY <1>5, DictIsState
  <2>3. d.dictionary \in Nat /\ d.dictSize \in 1 .. KB64 /\ End(d) = Len(way.dict)
    BY <1>5 DEF DictOK, End
  <2>4. d.dictionary # at
    <3> DEFINE dn == d.dictionary
               z == d.dictSize
               n == Len(way.dict)
    <3>1. dn \in Nat /\ z \in Nat /\ z >= 1 /\ dn + z = n /\ n <= at /\ at \in Nat /\ n \in Nat
      BY <1>1, <2>3, SizesOK DEF End
    <3> HIDE DEF dn, z, n
    <3>2. dn # at
      BY <3>1
    <3> QED BY <3>2 DEF dn
  <2> QED BY <2>2, <2>3, <2>4
<1>8. CASE End(c) = at /\ StreamCall(c, at, size, cap, "withPrefix64k", Small(c))
  <2> DEFINE a == Passed(at, size, cap, "withPrefix64k", Small(c))
  <2>1. Compress(c, a)
    BY <1>8 DEF StreamCall, Passed
  <2>2. Fitting(c, a)
    <3>1. a.dict = "withPrefix64k" /\ a.dictSmall = Small(c) /\ a.start = at
      BY DEF Passed
    <3> HIDE DEF a
    <3> QED BY <1>5, <1>6, <1>8, <3>1 DEF Fitting, End
  <2>3. StreamArgs(c, a, size)
    BY <1>1, <1>2, <1>5, <1>6, <2>2, PassedIs
  <2>4. Picked(c, c, a)
    BY DEF Picked, Passed
  <2> HIDE DEF a
  <2> QED BY <1>3, <2>1, <2>3, <2>4, Zenon
<1>9. CASE \E d \in c.dictCtx : StreamCall(d, at, size, cap, "usingExtDict", FALSE)
  <2>1. PICK d \in c.dictCtx : StreamCall(d, at, size, cap, "usingExtDict", FALSE)
    BY <1>9
  <2> DEFINE a == Passed(at, size, cap, "usingExtDict", FALSE)
  <2>2. Compress(d, a)
    BY <2>1 DEF StreamCall, Passed
  <2>3. Fitting(d, a)
    <3>1. a.dict = "usingExtDict" /\ a.dictSmall = FALSE /\ a.start = at
      BY DEF Passed
    <3> HIDE DEF a
    <3> QED BY <1>5, <1>7, <3>1 DEF Fitting
  <2>4. StreamArgs(d, a, size)
    BY <1>1, <1>2, <1>7, <2>3, PassedIs
  <2>5. Picked(c, d, a)
    BY DEF Picked, Passed
  <2> HIDE DEF a
  <2> QED BY <1>3, <2>2, <2>4, <2>5, Zenon
<1>10. CASE c.dictCtx # {} /\ StreamCall(c, at, size, cap, "usingDictCtx", FALSE)
  <2> DEFINE a == Passed(at, size, cap, "usingDictCtx", FALSE)
  <2>1. Compress(c, a)
    BY <1>10 DEF StreamCall, Passed
  <2>2. Fitting(c, a)
    <3>1. a.dict = "usingDictCtx" /\ a.dictSmall = FALSE /\ a.start = at
      BY DEF Passed
    <3> HIDE DEF a
    <3> QED BY <1>7, <1>10, <3>1 DEF Fitting
  <2>3. StreamArgs(c, a, size)
    BY <1>1, <1>2, <1>5, <2>2, PassedIs
  <2>4. Picked(c, c, a)
    BY <1>10 DEF Picked, Passed
  <2> HIDE DEF a
  <2> QED BY <1>3, <2>1, <2>3, <2>4, Zenon
<1>11. CASE End(c) # at /\ c.dictCtx = {} /\ StreamCall(c, at, size, cap, "usingExtDict", Small(c))
  <2> DEFINE a == Passed(at, size, cap, "usingExtDict", Small(c))
  <2>1. Compress(c, a)
    BY <1>11 DEF StreamCall, Passed
  <2>2. Fitting(c, a)
    <3>1. a.dict = "usingExtDict" /\ a.dictSmall = Small(c) /\ a.start = at
      BY DEF Passed
    <3> HIDE DEF a
    <3> QED BY <1>5, <1>6, <1>11, <3>1 DEF Fitting
  <2>3. StreamArgs(c, a, size)
    BY <1>1, <1>2, <1>5, <1>6, <2>2, PassedIs
  <2>4. Picked(c, c, a)
    BY <1>11 DEF Picked, Passed
  <2> HIDE DEF a
  <2> QED BY <1>3, <2>1, <2>3, <2>4, Zenon
<1>12. \/ End(c) = at /\ StreamCall(c, at, size, cap, "withPrefix64k", Small(c))
       \/ \E d \in c.dictCtx : StreamCall(d, at, size, cap, "usingExtDict", FALSE)
       \/ c.dictCtx # {} /\ StreamCall(c, at, size, cap, "usingDictCtx", FALSE)
       \/ End(c) # at /\ c.dictCtx = {} /\ StreamCall(c, at, size, cap, "usingExtDict", Small(c))
  BY <1>3 DEF Continue, End, Prior
<1> QED BY <1>8, <1>9, <1>10, <1>11, <1>12

LEMMA CallStreamKeeps ==
    ASSUME EncInv, ~InBlocks, CallStream
    PROVE  EncInv'
<1>1. /\ pc = "idle" /\ sizes # << >> /\ sent' = sent + sizes[1] /\ sizes' = << >>
      /\ UNCHANGED << buf, way, text, at >>
      /\ \/ \E cap \in {LZ4_compressBound(sizes[1])} \cup way.caps :
                Continue(at, sizes[1], cap)
         \/ way.forced
  BY DEF CallStream
<1>2. /\ CoreOK /\ StreamOK /\ buf \in Seq(Nat) /\ slots \in Nat \ {0} /\ StateOK(ctx)
      /\ way \in Ways /\ Documented(way) /\ sent \in Nat /\ PlaceOK
      /\ sizes[1] \in 1 .. MaxBlock /\ at \in Nat
  BY <1>1 DEF EncInv, CoreOK, StreamOK, PlaceOK
<1>3. PICK size \in 1 .. MaxBlock : size = sizes[1]
  BY <1>2
<1>4. PICK cap \in Nat : Continue(at, size, cap)
  <2>1. PICK cap \in {LZ4_compressBound(sizes[1])} \cup way.caps : Continue(at, sizes[1], cap)
    BY <1>1, <1>2 DEF Documented
  <2>2. LZ4_compressBound(sizes[1]) \in Nat /\ way.caps \subseteq Nat
    <3>1. sizes[1] \in Nat
      BY <1>2, SizesOK
    <3> QED BY <1>2, <3>1, BoundIs, WayIs
  <2>3. cap \in Nat
    BY <2>2
  <2> QED BY <1>3, <2>1, <2>3, Zenon
<1>5. PICK b, args : StreamArgs(b, args, size) /\ Compress(b, args)
  BY <1>1, <1>2, <1>4, ContinueIs
<1>6. /\ StateOK(b) /\ ArgsOK(b, args) /\ Fitting(b, args)
      /\ args.start = at /\ args.size = size /\ args.limit = "limitedOutput"
      /\ args.dict \in {"withPrefix64k", "usingExtDict", "usingDictCtx"}
  BY <1>5 DEF StreamArgs
<1>7. /\ CoreOK' /\ pc' \in {"done", "last", "search"}
      /\ job'.start = at /\ job'.size = size /\ job'.dict = args.dict
      /\ Left(b, args, ctx')
  BY <1>1, <1>2, <1>5, <1>6, CompressStarts
<1>8. ctx'.dictionary \in Nat /\ ctx'.dictionary + ctx'.dictSize = at + size
  <2>1. b.dictionary \in Int /\ b.dictSize \in Nat /\ size \in Nat
    BY <1>6, StateIs, SizesOK
  <2>2. CASE args.dict = "withPrefix64k"
    <3>1. /\ b.dictionary + b.dictSize = at
          /\ b.dictSize > 0 => b.dictionary \in Nat
      BY <1>6, <2>2 DEF Fitting
    <3>2. ctx'.dictionary = b.dictionary /\ ctx'.dictSize = b.dictSize + size
      BY <1>6, <1>7, <2>2 DEF Left
    <3> DEFINE a == b.dictionary
               z == b.dictSize
    <3>3. /\ a \in Int /\ z \in Nat /\ a + z = at /\ at \in Nat /\ (z > 0 => a \in Nat)
          /\ ctx'.dictionary = a /\ ctx'.dictSize = z + size
      BY <1>2, <2>1, <3>1, <3>2
    <3> HIDE DEF a, z
    <3> QED BY <2>1, <3>3
  <2>3. CASE args.dict \in {"usingExtDict", "usingDictCtx"}
    <3>1. ctx'.dictionary = at /\ ctx'.dictSize = size
      BY <1>6, <1>7, <2>3 DEF Left
    <3> QED BY <1>2, <3>1
  <2> QED BY <1>6, <2>2, <2>3
<1>9. sent' \in Nat /\ job'.size <= sent' /\ iend' = at + size
  BY <1>1, <1>2, <1>3, <1>7, SizesOK DEF iend
<1>10. PlaceOK'
  BY <1>1, <1>2 DEF PlaceOK
<1>11. Extent(way.sender, way.origin, way.ring)' = Extent(way.sender, way.origin, way.ring)
  BY <1>1 DEF Extent
<1>12. text = way.text
  BY <1>2 DEF StreamOK
<1>13. Len(buf) = Extent(way.sender, way.origin, way.ring)
  BY <1>2 DEF StreamOK
<1>14. StreamOK'
  BY <1>1, <1>2, <1>6, <1>7, <1>8, <1>9, <1>10, <1>11, <1>12, <1>13 DEF StreamOK, Documented
<1> QED BY <1>1, <1>7, <1>14 DEF EncInv, InBlocks

LEMMA FailedKeeps ==
    ASSUME EncInv, ~InBlocks, Failed
    PROVE  EncInv'
<1>1. /\ pc = "done" /\ pc' = "fresh" /\ sent' = sent - job.size /\ dst' = << >>
      /\ UNCHANGED << buf, sizes, slots, ctx, job, token, way, text, at >>
  BY DEF Failed
<1>2. /\ CoreOK /\ StreamOK /\ buf \in Seq(Nat) /\ slots \in Nat \ {0} /\ StateOK(ctx)
      /\ token \in Nat
  BY DEF EncInv, CoreOK
<1>3. Busy /\ ~Busy'
  BY <1>1 DEF Busy
<1>4. /\ sizes = << >> /\ sent \in Nat /\ job.size \in 1 .. MaxBlock /\ job.size <= sent
  BY <1>1, <1>2, <1>3 DEF StreamOK
<1>5. sent' \in Nat
  BY <1>1, <1>4, SizesOK
<1>6. StateOK(ctx)'
  BY <1>1, <1>2, StateStays
<1>7. CoreOK'
  BY <1>1, <1>2, <1>6, CoreRests, EmptySeq
<1>8. StreamOK'
  BY <1>1, <1>2, <1>3, <1>4, <1>5 DEF StreamOK, Extent, Documented
<1> QED BY <1>1, <1>7, <1>8 DEF EncInv, InBlocks

LEMMA SavedIs ==
    ASSUME buf \in Seq(Nat), StateOK(ctx), NEW keep \in Nat, ctx.dictionary \in Nat,
           End(ctx) <= Len(buf), SaveDict(0, keep)
    PROVE  /\ buf' \in Seq(Nat) /\ Len(buf') = Len(buf)
           /\ StateOK(ctx') /\ ctx'.dictionary = 0 /\ ctx'.dictSize \in 0 .. KB64
           /\ ctx'.dictSize <= ctx.dictSize /\ ctx'.dictCtx = ctx.dictCtx
           /\ \A p \in 1 .. ctx'.dictSize : buf'[p] = buf[p + End(ctx) - ctx'.dictSize]
<1> DEFINE size == Min({keep, KB64, ctx.dictSize})
           from == ctx.dictionary + ctx.dictSize - size
           K == KB64
           z == ctx.dictSize
           dn == ctx.dictionary
           N == Len(buf)
<1>1. /\ buf' = [p \in DOMAIN buf |->
                     IF p - 1 \in 0 .. 0 + size - 1
                     THEN buf[p - 0 + from] ELSE buf[p]]
      /\ ctx' = WithDict(ctx, 0, size)
  BY DEF SaveDict, WithDict
<1>2. /\ K \in Nat /\ z \in Nat /\ dn \in Nat /\ N \in Nat /\ dn + z <= N
      /\ z <= ctx.off /\ ctx.off \in Nat /\ DOMAIN buf = 1 .. N
  BY StateIs, SizesOK, LenProperties DEF End
<1>3. size \in Nat /\ size <= K /\ size <= z
  <2> DEFINE T == {keep, K, z}
  <2> HIDE DEF K, z
  <2>1. T \subseteq Nat /\ T # {}
    BY <1>2
  <2>2. Min(T) \in T /\ \A y \in T : Min(T) <= y
    BY <2>1, LeastTaken, Zenon
  <2>3. Min(T) \in Nat /\ Min(T) <= K /\ Min(T) <= z
    BY <2>1, <2>2
  <2> QED BY <2>3 DEF K, z
<1>4. from = dn + z - size
  OBVIOUS
<1> HIDE DEF size, from, K, z, dn, N
<1>5. from \in Nat /\ from + size = dn + z
  BY <1>2, <1>3, <1>4
<1>6. buf' \in Seq(Nat) /\ Len(buf') = N
  <2> DEFINE F(p) == IF p - 1 \in 0 .. 0 + size - 1 THEN buf[p - 0 + from] ELSE buf[p]
  <2>1. ASSUME NEW p \in 1 .. N PROVE F(p) \in Nat
    <3>1. p - 1 \in 0 .. 0 + size - 1 => p - 0 + from \in 1 .. N
      BY <1>2, <1>3, <1>5
    <3>2. \A i \in 1 .. N : buf[i] \in Nat
      BY ElementOfSeq DEF N
    <3> QED BY <3>1, <3>2
  <2>2. buf' = [p \in 1 .. N |-> F(p)]
    BY <1>1, <1>2
  <2> HIDE DEF F
  <2> QED BY <1>2, <2>1, <2>2
<1>7. size <= ctx.off
  BY <1>2, <1>3
<1>8. /\ StateOK(ctx') /\ ctx'.dictionary = 0 /\ ctx'.dictSize = size
      /\ ctx'.dictCtx = ctx.dictCtx
  BY <1>1, <1>3, <1>7, DictMoves
<1>9. ASSUME NEW p \in 1 .. size PROVE buf'[p] = buf[p + (dn + z) - size]
  <2>1. p \in 1 .. N /\ p - 1 \in 0 .. 0 + size - 1 /\ p - 0 + from = p + (dn + z) - size
    BY <1>2, <1>3, <1>4
  <2>2. buf'[p] = buf[p - 0 + from]
    BY <1>1, <1>2, <2>1
  <2> QED BY <2>1, <2>2
<1>10. End(ctx) = dn + z
  BY DEF End, dn, z
<1>11. \A p \in 1 .. size : buf'[p] = buf[p + End(ctx) - size]
  BY <1>9, <1>10
<1> QED BY <1>2, <1>3, <1>6, <1>8, <1>11 DEF N, K, z

LEMMA ReceivedKeeps ==
    ASSUME EncInv, ~InBlocks, Received
    PROVE  EncInv'
<1>1. /\ pc = "done" /\ pc' \in {"idle", "fresh"} /\ dst' = << >>
      /\ IF way.sender = "save" THEN SaveDict(0, way.keep) ELSE UNCHANGED << buf, ctx >>
      /\ at' = NextPlace(way.sender, way.origin, way.ring, at, job.size)
      /\ UNCHANGED << sizes, slots, job, token, way, text, sent >>
  BY DEF Received
<1>2. /\ CoreOK /\ StreamOK /\ buf \in Seq(Nat) /\ slots \in Nat \ {0} /\ StateOK(ctx)
      /\ token \in Nat /\ way \in Ways /\ Documented(way) /\ PlaceOK
      /\ Len(buf) = Extent(way.sender, way.origin, way.ring)
  BY <1>1 DEF EncInv, CoreOK, StreamOK
<1>3. Busy /\ ~Busy'
  BY <1>1 DEF Busy
<1>4. /\ sizes = << >> /\ job.size \in 1 .. MaxBlock /\ job.start = at
      /\ ctx.dictionary \in Nat /\ ctx.dictionary + ctx.dictSize = iend
      /\ text = way.text /\ sent \in Nat
  BY <1>1, <1>2, <1>3 DEF StreamOK
<1>5. /\ at \in Nat /\ at + MaxBlock <= Len(buf) /\ MaxBlock \in Nat /\ Len(buf) \in Nat
  BY <1>2, PlaceIs, SizesOK, LenProperties
<1>6. ctx.dictSize \in Nat /\ iend = at + job.size /\ End(ctx) = at + job.size
  BY <1>2, <1>4, StateIs DEF iend, End
<1>7. End(ctx) <= Len(buf)
  BY <1>4, <1>5, <1>6
<1> DEFINE o == way.origin
           r == way.ring
           s == way.sender
           z == job.size
           e == End(ctx)
           a == at'
<1>8. /\ o \in Nat /\ r \in Nat /\ s \in {"ring", "double", "save"} /\ way.keep \in Nat
      /\ s = "ring" => r >= 2 * MaxBlock
      /\ s = "save" => o >= KB64
  BY <1>2, WayIs DEF Documented
<1>9. z \in Nat /\ z >= 1 /\ z <= MaxBlock /\ e = at + z
  BY <1>4, <1>5, <1>6
<1>10. /\ s = "ring" => a = (IF at + z + MaxBlock > o + r THEN o ELSE at + z)
       /\ s = "double" => a = (IF at = o THEN o + MaxBlock + 1 ELSE o)
       /\ s = "save" => a = o
  BY <1>1 DEF NextPlace
<1>11. /\ s = "ring" => o <= at /\ at + MaxBlock <= o + r
       /\ s = "double" => at \in {o, o + MaxBlock + 1}
  BY <1>2 DEF PlaceOK
<1> HIDE DEF o, r, s, z, e, a
<1>12. /\ a \in Nat
       /\ s = "ring" => o <= a /\ a + MaxBlock <= o + r
       /\ s = "double" => a \in {o, o + MaxBlock + 1}
       /\ s = "save" => a = o
       /\ s # "save" => e <= a \/ a + MaxBlock < e
  <2>1. CASE s = "ring"
    BY <1>5, <1>8, <1>9, <1>10, <1>11, <2>1
  <2>2. CASE s = "double"
    BY <1>5, <1>8, <1>9, <1>10, <1>11, <2>2
  <2>3. CASE s = "save"
    BY <1>8, <1>10, <2>3
  <2> QED BY <1>8, <2>1, <2>2, <2>3
<1>13. PlaceOK'
  <2>1. at' \in Nat /\ CASE s = "ring" -> /\ o <= at'
                                   /\ at' + MaxBlock <= o + r
         [] s = "double" -> at' \in {o, o + MaxBlock + 1}
         [] s = "save" -> at' = o
    BY <1>8, <1>12 DEF a
  <2> QED BY <1>1, <2>1 DEF PlaceOK, o, r, s
<1>14. /\ buf' \in Seq(Nat) /\ Len(buf') = Len(buf) /\ StateOK(ctx') /\ DictPlaceOK(ctx)'
  <2>1. CASE s = "save"
    <3>1. SaveDict(0, way.keep)
      BY <1>1, <2>1 DEF s
    <3>2. /\ buf' \in Seq(Nat) /\ Len(buf') = Len(buf)
          /\ StateOK(ctx') /\ ctx'.dictionary = 0 /\ ctx'.dictSize \in 0 .. KB64
      BY <1>2, <1>4, <1>7, <1>8, <3>1, SavedIs
    <3>3. at' \in Nat /\ at' >= KB64
      BY <1>8, <1>12, <2>1 DEF a
    <3>4. ctx'.dictionary \in Nat /\ ctx'.dictionary + ctx'.dictSize <= at'
      BY <3>2, <3>3, SizesOK
    <3> QED BY <3>2, <3>4 DEF DictPlaceOK
  <2>2. CASE s # "save"
    <3>1. buf' = buf /\ ctx' = ctx
      BY <1>1, <2>2 DEF s
    <3>2. e <= at' \/ at' + MaxBlock < e
      BY <1>12, <2>2 DEF a
    <3>3. DictPlaceOK(ctx)'
      BY <1>4, <3>1, <3>2 DEF DictPlaceOK, e, End
    <3> QED BY <1>2, <3>1, <3>3
  <2> QED BY <2>1, <2>2
<1>15. StateOK(ctx)'
  BY <1>1, <1>14, DictStays
<1>16. CoreOK'
  BY <1>1, <1>2, <1>14, <1>15, CoreRests, EmptySeq
<1>17. Extent(way.sender, way.origin, way.ring)' = Extent(way.sender, way.origin, way.ring)
  BY <1>1 DEF Extent
<1>18. StreamOK'
  BY <1>1, <1>2, <1>3, <1>4, <1>13, <1>14, <1>17 DEF StreamOK, Documented
<1> QED BY <1>1, <1>16, <1>18 DEF EncInv, InBlocks

LEMMA InvKept ==
    ASSUME EncInv, [Next]_vars
    PROVE  EncInv'
<1>1. CASE Encode
  <2>1. UNCHANGED << decvars, streamvars >>
    BY <1>1 DEF Encode
  <2>2. CASE EncNext
    BY <2>1, <2>2, EncNextKeeps
  <2>3. CASE InBlocks /\ CallBlock
    BY <2>1, <2>3, CallBlockKeeps
  <2> QED BY <1>1, <2>2, <2>3 DEF Encode
<1>2. CASE StartDecode
  <2>1. UNCHANGED << encvars, way, at, text, sent >>
    BY <1>2 DEF StartDecode, streamvars
  <2> QED BY <2>1, InvStays
<1>3. CASE Decode
  <2>1. UNCHANGED << encvars, way, at, text, sent >>
    BY <1>3 DEF Decode, streamvars
  <2> QED BY <2>1, InvStays
<1>4. CASE NextBlock
  BY <1>4, NextBlockKeeps
<1>5. CASE ~InBlocks /\ StreamNext
  <2>1. CASE Begin
    BY <1>5, <2>1, BeginKeeps
  <2>2. CASE CallStream
    BY <1>5, <2>2, CallStreamKeeps
  <2>3. CASE Receive
    <3>1. UNCHANGED << encvars, way, at, text, sent >>
      BY <2>3 DEF Receive
    <3> QED BY <3>1, InvStays
  <2>4. CASE Received
    BY <1>5, <2>4, ReceivedKeeps
  <2>5. CASE Failed
    BY <1>5, <2>5, FailedKeeps
  <2>6. CASE \E size \in way.sizes : WriteBlock(size)
    BY <1>5, <2>6, WriteBlockKeeps
  <2> QED BY <1>5, <2>1, <2>2, <2>3, <2>4, <2>5, <2>6 DEF StreamNext
<1>6. CASE UNCHANGED vars
  <2>1. UNCHANGED << encvars, way, at, text, sent >>
    BY <1>6 DEF vars, streamvars
  <2> QED BY <2>1, InvStays
<1> QED BY <1>1, <1>2, <1>3, <1>4, <1>5, <1>6 DEF Next

LEMMA InvStarts ==
    ASSUME Init, InBlocks \/ Documented(way)
    PROVE  EncInv
<1>1. CASE EncInit /\ DecInit /\ BlocksInit
  BY <1>1, BlocksStart
<1>2. CASE EncInit /\ DecInit /\ StreamInit
  <2>1. ~InBlocks
    BY <1>2, WayIs DEF StreamInit, InBlocks
  <2> QED BY <1>2, <2>1, StreamStart
<1> QED BY <1>1, <1>2 DEF Init

(* A match lies in the block, in what is in front of it or in the          *)
(* dictionary, and within the distance two bytes tell (lz4.c:484, 674,     *)
(* 1127): for every input, every state left behind by the calls before and *)
(* every way of using memory that lz4.h:279 allows.                        *)
THEOREM MatchesInWindow ==
    Spec /\ (InBlocks \/ Documented(way)) => []MatchInWindow
<1>1. Init /\ (InBlocks \/ Documented(way)) => EncInv
  BY InvStarts
<1>2. EncInv /\ [Next]_vars => EncInv'
  BY InvKept
<1>3. EncInv => MatchInWindow
  BY InvGivesMatch
<1> QED BY <1>1, <1>2, <1>3, PTL DEF Spec

-----------------------------------------------------------------------------
(* What is written of a block, against what was read of it: 256 bytes for  *)
(* 255, and for the last token and its literals.                           *)
Growth ==
    /\ pc \in {"search", "literals", "next", "last"} =>
          255 * Len(dst) <= 256 * (anchor - Start)
    /\ pc = "match" => /\ 255 * Len(dst) <= 256 * (ip - Start) + 495
                       /\ 255 * token <= 256 * (anchor - Start)

(* What the entry points pass on of the size of dst.                       *)
Directed ==
    /\ job.limit = "notLimited" => job.cap >= LZ4_compressBound(job.size)
    /\ job.limit = "fillOutput" /\ pc # "done" => job.cap >= 1
    /\ job.api = "destSize" => job.limit # "limitedOutput"

(* Where there is a limit, the offset of a match always fits, and behind a *)
(* match a token and an offset.                                            *)
Spared ==
    /\ pc \in {"search", "literals", "last"} => Len(dst) = 0 \/ Len(dst) + 3 <= job.cap
    /\ pc = "next" => Len(dst) + 3 <= job.cap
    /\ pc = "match" => /\ Len(dst) + 2 <= job.cap
                       /\ token = 0 \/ token + 3 <= job.cap

Inside ==
    /\ high <= job.cap /\ Len(dst) <= job.cap
    /\ job.limit # "notLimited" => Spared

(* The bytes of a match's length are estimated by one for 256 of it        *)
(* (lz4.c:763), and are one for 255: with what is spared for the last      *)
(* literals that is enough for a block of this size, of twice the largest  *)
(* of the file system.                                                     *)
Estimated == job.limit = "notLimited" \/ job.size <= 131072

Ended ==
    /\ job.cap >= LZ4_compressBound(job.size) => ret.written > 0
    /\ Estimated =>
          /\ job.limit # "limitedOutput" /\ job.cap > 0 => ret.written > 0
          /\ ret.consumed < job.size => ret.written >= job.cap - 1 - job.cap \div 65025

RoomOK ==
    Busy => /\ Directed /\ Growth /\ high \in Nat
            /\ Estimated => Inside
            /\ pc = "done" => Ended

LEMMA BoundFits ==
    ASSUME NEW size \in Nat, NEW cap \in Nat, cap >= LZ4_compressBound(size)
    PROVE  255 * cap >= 256 * size + 3826
<1>1. cap >= size + size \div 255 + 16
  BY DEF LZ4_compressBound
<1>2. size \div 255 \in Nat /\ 255 * (size \div 255) + 254 >= size
  OBVIOUS
<1> DEFINE q == size \div 255
<1> HIDE DEF q
<1> QED BY <1>1, <1>2 DEF q

LEMMA ExtrasStored ==
    ASSUME NEW n \in Nat, n >= 15
    PROVE  4 * ((n - 15) \div 1020) + 1 <= Extras(n)
<1> DEFINE k == n - 15
           q == k \div 1020
<1>2. k \in Nat /\ k + 255 = n + 240
  OBVIOUS
<1> HIDE DEF k
<1>3. q \in Nat /\ 1020 * q <= k
  BY <1>2
<1> HIDE DEF q
<1>4. Extras(n) = (k + 255) \div 255
  BY <1>2 DEF Extras
<1>5. (k + 255) \div 255 >= 4 * q + 1
  BY <1>2, <1>3
<1> QED BY <1>3, <1>4, <1>5 DEF q, k

LEMMA ExtrasByOne ==
    ASSUME NEW n \in Nat
    PROVE  Extras(n) <= 1 + n \div 255
  BY DEF Extras

LEMMA ExtrasEstimated ==
    ASSUME NEW n \in Nat, n <= 131072
    PROVE  Extras(n) <= 3 + n \div 256
<1> DEFINE q == n \div 256
           x == Extras(n)
<1>1. q \in Nat /\ 256 * q <= n /\ n <= 256 * q + 255 /\ q <= 512
  OBVIOUS
<1>2. 255 * x <= n + 240 /\ x \in Nat
  BY ExtrasAre
<1> HIDE DEF q, x
<1>3. x <= 3 + q
  BY <1>1, <1>2
<1> QED BY <1>3 DEF q, x

LEMMA WildIs ==
    ASSUME NEW d \in Nat, NEW n \in Nat
    PROVE  WildEnd(d, n) \in Nat /\ WildEnd(d, n) <= d + n + (IF n = 0 THEN 8 ELSE 7)
<1> DEFINE c == (n + 7) \div 8
<1>1. c \in Nat /\ 8 * c <= n + 7 /\ (n = 0 => c = 0)
  OBVIOUS
<1>2. WildEnd(d, n) = d + 8 * Max({1, c})
  BY DEF WildEnd
<1> HIDE DEF c
<1>3. Max({1, c}) = IF 1 >= c THEN 1 ELSE c
  BY <1>1, TwoMax
<1> QED BY <1>1, <1>2, <1>3

(* The highest of what the length's bytes, stored by four, reach.          *)
Stores(op, code) == {op + 4 + 4 * (k \div 1020) : k \in {code - ML_MASK} \cap Nat}

LEMMA StoresEnd ==
    ASSUME NEW h \in Nat, NEW len \in Nat, NEW op \in Nat, NEW code \in Nat,
           NEW top \in Nat, h <= top, len <= top,
           code >= 15 => op + 3 + Extras(code) <= top
    PROVE  LET m == Max({h, len} \cup Stores(op, code))
           IN  m \in Nat /\ m <= top
<1> DEFINE Z == Stores(op, code)
           T == {h, len} \cup Z
<1>1. Z \subseteq 0 .. top
  <2>1. ASSUME NEW k \in {code - ML_MASK} \cap Nat
        PROVE  op + 4 + 4 * (k \div 1020) \in 0 .. top
    <3>1. k = code - 15 /\ k \in Nat /\ code >= 15
      BY DEF ML_MASK
    <3>2. 4 * (k \div 1020) + 1 <= Extras(code) /\ Extras(code) \in Nat /\ k \div 1020 \in Nat
      BY <3>1, ExtrasAre, ExtrasStored
    <3> DEFINE q == k \div 1020
               x == Extras(code)
    <3> HIDE DEF q, x
    <3>3. op + 4 + 4 * q \in 0 .. top
      BY <3>1, <3>2 DEF q, x
    <3> QED BY <3>3 DEF q
  <2> QED BY <2>1 DEF Stores
<1> HIDE DEF Z
<1>2. T \subseteq 0 .. top /\ T # {}
  BY <1>1
<1> HIDE DEF T
<1>3. Max(T) \in T
  BY <1>2, GreatestTaken
<1>4. \A x \in T : x \in Nat /\ x <= top
  BY <1>2
<1>5. Max(T) \in Nat /\ Max(T) <= top
  BY <1>3, <1>4
<1> QED BY <1>5 DEF T, Z

(* The end of the literals that fill dst.                                  *)
LEMMA FilledIs ==
    ASSUME NEW cap \in Nat, NEW D \in Nat, D + 1 <= cap, NEW room \in Int,
           room = cap - D - 1, NEW run \in Int, run = room - Extras(room)
    PROVE  /\ run \in Nat
           /\ D + 1 + Extras(run) + run <= cap
           /\ D + 1 + Extras(run) + run >= cap - 1 - cap \div 65025
<1> DEFINE e == Extras(room)
           f == Extras(run)
           q == cap \div 65025
<1>1. room \in Nat /\ D + 1 + room = cap
  OBVIOUS
<1>2. e = (room + 240) \div 255 /\ e \in Nat
  BY <1>1 DEF Extras
<1>3. 255 * e <= room + 240 /\ room + 240 < 255 * e + 255 /\ (room < 15 => e = 0)
  BY <1>1, <1>2
<1>0. run = room - e
  OBVIOUS
<1> HIDE DEF e
<1>4. run \in Nat /\ run + e = room
  BY <1>0, <1>1, <1>2, <1>3
<1>5. f = (run + 240) \div 255 /\ f \in Nat
  BY <1>4 DEF Extras
<1>6. 255 * f <= run + 240 /\ run + 240 < 255 * f + 255
  BY <1>4, <1>5
<1> HIDE DEF f
<1>7. f <= e
  BY <1>1, <1>2, <1>3, <1>4, <1>5, <1>6
<1>8. q \in Nat /\ cap < 65025 * q + 65025
  OBVIOUS
<1> HIDE DEF q
<1>9. 255 * (e - f) < e + 255
  BY <1>1, <1>2, <1>3, <1>4, <1>5, <1>6
<1>10. e - f <= 1 + q
  BY <1>1, <1>2, <1>3, <1>4, <1>5, <1>8, <1>9
<1>11. D + 1 + f + run = cap - (e - f)
  <2>1. /\ e \in Nat /\ f \in Nat /\ run \in Nat /\ room \in Nat
        /\ run + e = room /\ D + 1 + room = cap
    BY <1>1, <1>2, <1>4, <1>5
  <2> QED BY ONLY <2>1, D \in Nat, cap \in Nat
<1>12. D + 1 + f + run <= cap /\ D + 1 + f + run >= cap - 1 - q
  BY <1>2, <1>5, <1>7, <1>8, <1>10, <1>11
<1> QED BY <1>4, <1>12 DEF f, q

(* The loop leaves the arguments alone.                                    *)
LEMMA DirectedStays ==
    ASSUME Directed, job' = job, pc # "done"
    PROVE  Directed'
  BY DEF Directed

LEMMA RoomIs ==
    ASSUME RoomOK, Busy
    PROVE  /\ Directed /\ Growth /\ high \in Nat
           /\ Estimated => Inside
  BY DEF RoomOK

LEMMA SearchRooms ==
    ASSUME CoreOK, RoomOK, Search
    PROVE  RoomOK'
<1>1. /\ pc = "search" /\ pc' \in {"search", "literals", "last"}
      /\ UNCHANGED << anchor, dst, high, job >>
  BY Zenon DEF Search, Unmoved
<1>2. Directed /\ Growth /\ high \in Nat /\ (Estimated => Inside)
  BY <1>1, RoomIs DEF Busy
<1>3. Directed'
  BY <1>1, <1>2, DirectedStays
<1>4. Growth'
  BY <1>1, <1>2 DEF Growth, Start
<1>5. Estimated' => Inside'
  BY <1>1, <1>2 DEF Estimated, Inside, Spared
<1> QED BY <1>1, <1>2, <1>3, <1>4, <1>5 DEF RoomOK

LEMMA LiteralsRooms ==
    ASSUME CoreOK, RoomOK, EncodeLiterals
    PROVE  RoomOK'
<1> DEFINE n == CatchUp
           there == ip - n
           lit == there - anchor
           tight == LiteralsTight(Len(dst) + 1, lit)
           D == Len(dst)
           s == job.start
           z == job.size
           cap == job.cap
<1>1. /\ pc = "literals" /\ ip' = there /\ token' = D
      /\ UNCHANGED << anchor, job, buf >>
      /\ \/ tight /\ job.limit = "limitedOutput" /\ GiveUp /\ dst' = dst /\ high' = high
         \/ tight /\ job.limit = "fillOutput" /\ pc' = "last" /\ dst' = dst /\ high' = high
         \/ /\ ~tight /\ pc' = "match"
            /\ dst' = dst \o RunHead(lit) \o SubSeq(buf, anchor + 1, there)
            /\ high' = Max({high, WildEnd(Len(dst \o RunHead(lit)), lit)})
  BY LiteralsStep, Zenon
<1>2. /\ Directed /\ Growth /\ high \in Nat /\ (Estimated => Inside)
      /\ AtLiterals /\ JobOK /\ buf \in Seq(Nat) /\ dst \in Seq(Int)
  BY <1>1, RoomIs DEF Busy, CoreOK, LoopOK, Begun
<1>3. /\ anchor \in Nat /\ s <= anchor /\ ip \in Nat /\ anchor <= ip
      /\ ip + 12 <= s + z /\ match \in Int /\ low \in Int
  BY <1>2 DEF AtLiterals, MFLIMIT, Start, iend
<1>4. n \in 0 .. ip - anchor
  BY <1>3, CatchIs
<1>5. /\ s \in Nat /\ z \in Nat /\ s + z <= Len(buf) /\ cap \in Nat /\ D \in Nat
      /\ job.limit \in {"notLimited", "limitedOutput", "fillOutput"} /\ Len(buf) \in Nat
  BY <1>2, LenProperties DEF JobOK, iend
<1>6. /\ there \in Nat /\ anchor <= there /\ lit \in Nat /\ lit = there - anchor
      /\ there + 12 <= s + z /\ there <= Len(buf)
  <2> HIDE DEF n, s, z
  <2> QED BY <1>3, <1>4, <1>5
<1>7. 255 * D <= 256 * (anchor - s)
  BY <1>1, <1>2 DEF Growth, Start
<1>8. Directed'
  BY <1>1, <1>2, DirectedStays
<1>9. job.limit = "notLimited" => 255 * cap >= 256 * z + 3826
  BY <1>2, <1>5, BoundFits DEF Directed
<1>10. cap >= LZ4_compressBound(z) => 255 * cap >= 256 * z + 3826
  BY <1>5, BoundFits
<1> DEFINE x == Extras(lit)
           y == lit \div 255
<1>11. /\ x \in Nat /\ 255 * x <= lit + 240 /\ (lit < 15 => x = 0)
       /\ x <= 1 + y /\ y \in Nat /\ 255 * y <= lit
  <2> HIDE DEF lit
  <2>1. y \in Nat /\ 255 * y <= lit
    BY <1>6
  <2>2. lit \in Nat
    BY <1>6
  <2>3. Extras(lit) <= 1 + lit \div 255
    BY ONLY <2>2, ExtrasByOne
  <2>4. x \in Nat /\ 255 * x <= lit + 240 /\ (lit < 15 => x = 0)
    BY <2>2, ExtrasAre
  <2> QED BY <2>1, <2>3, <2>4
<1>12. tight <=> \/ /\ job.limit = "limitedOutput"
                    /\ D + 1 + lit + 8 + y > cap
                 \/ /\ job.limit = "fillOutput"
                    /\ D + 1 + x + lit + 11 > cap
  <2>1. tight <=> \/ /\ job.limit = "limitedOutput"
                     /\ D + 1 + lit + (2 + 1 + 5) + y > cap
                  \/ /\ job.limit = "fillOutput"
                     /\ D + 1 + x + lit + 2 + 1 + 12 - 4 > cap
    BY Zenon DEF LiteralsTight, LASTLITERALS, MFLIMIT, MINMATCH, Extras
  <2> HIDE DEF lit, tight, D, cap, x, y
  <2> QED BY <1>5, <1>6, <1>11, <2>1, SMTT(30)
<1> HIDE DEF n, there, lit, tight, D, s, z, cap, x, y
<1>13. CASE dst' = dst /\ high' = high /\ pc' = "last"
  <2>1. Growth'
    BY <1>1, <1>2, <1>13 DEF Growth, Start
  <2>2. Estimated' => Inside'
    BY <1>1, <1>2, <1>13 DEF Estimated, Inside, Spared
  <2> QED BY <1>2, <1>8, <1>13, <2>1, <2>2 DEF RoomOK
<1>14. CASE dst' = dst /\ high' = high /\ GiveUp /\ tight /\ job.limit = "limitedOutput"
  <2>1. pc' = "done" /\ ret'.written = 0 /\ ret'.consumed = job.size
    BY <1>14 DEF GiveUp
  <2>2. Growth'
    BY <2>1 DEF Growth
  <2>3. Estimated' => Inside'
    BY <1>1, <1>2, <1>14, <2>1 DEF Estimated, Inside, Spared
  <2>4. ~(cap >= LZ4_compressBound(z))
    <3>1. D + 1 + lit + 8 + y > cap
      BY <1>12, <1>14
    <3> QED BY <1>3, <1>5, <1>6, <1>7, <1>10, <1>11, <3>1
  <2>5. Ended'
    <3>1. ~(job'.cap >= LZ4_compressBound(job'.size)) /\ job'.limit = "limitedOutput"
          /\ ret'.consumed = job'.size /\ job'.size \in Nat
      BY <1>1, <1>5, <1>14, <2>1, <2>4 DEF cap, z
    <3>2. ~(LZ4_compressBound(job.size)' <= job'.cap)
      BY <3>1 DEF LZ4_compressBound
    <3> QED BY <3>1 DEF Ended, LZ4_compressBound
  <2> QED BY <1>2, <1>8, <1>14, <2>1, <2>2, <2>3, <2>5 DEF RoomOK
<1>15. CASE /\ ~tight /\ pc' = "match"
            /\ dst' = dst \o RunHead(lit) \o SubSeq(buf, anchor + 1, there)
            /\ high' = Max({high, WildEnd(Len(dst \o RunHead(lit)), lit)})
  <2> DEFINE L == Len(dst')
             w == WildEnd(Len(dst \o RunHead(lit)), lit)
  <2>1. L = D + 1 + x + lit /\ Len(dst \o RunHead(lit)) = D + 1 + x
    BY <1>2, <1>3, <1>6, <1>15, LiteralsPut DEF D, x
  <2>2. w \in Nat /\ w <= D + 1 + x + lit + (IF lit = 0 THEN 8 ELSE 7)
    <3>1. D + 1 + x \in Nat
      BY <1>5, <1>11
    <3> QED BY <1>6, <2>1, <3>1, WildIs
  <2>3. high' = (IF high >= w THEN high ELSE w)
    <3> HIDE DEF w
    <3>1. high' = Max({high, w})
      BY <1>15 DEF w
    <3> QED BY <1>2, <2>2, <3>1, TwoMax
  <2> HIDE DEF L, w
  <2>4. high' \in Nat
    BY <1>2, <2>2, <2>3
  <2>5. 255 * L <= 256 * (there - s) + 495
    BY <1>3, <1>5, <1>6, <1>7, <1>11, <2>1
  <2>6. Growth'
    <3>1. /\ 255 * Len(dst') <= 256 * (ip' - job'.start) + 495
          /\ 255 * token' <= 256 * (anchor' - job'.start)
      BY <1>1, <1>7, <2>5 DEF L, s
    <3> QED BY <1>15, <3>1 DEF Growth, Start
  <2>7. ASSUME Estimated PROVE Inside'
    <3>1. high <= cap
      BY <1>2, <2>7 DEF Inside, cap
    <3>2. job.limit = "notLimited" => L + 8 <= cap
      BY <1>3, <1>5, <1>6, <1>9, <2>1, <2>5, <1>11
    <3>3. job.limit # "notLimited" => L + 7 <= cap /\ (lit = 0 => L + 8 <= cap)
      <4>0. /\ x \in Nat /\ y \in Nat /\ lit \in Nat /\ D \in Nat /\ cap \in Nat
            /\ x <= 1 + y /\ (lit = 0 => x = 0)
        BY <1>5, <1>6, <1>11
      <4>1. L = D + 1 + x + lit /\ L \in Nat
        BY <2>1, <4>0
      <4>2. CASE job.limit = "limitedOutput"
        <5>1. ~(D + 1 + lit + 8 + y > cap)
          BY <1>12, <1>15, <4>2
        <5> QED BY <4>0, <4>1, <5>1
      <4>3. CASE job.limit = "fillOutput"
        <5>1. ~(D + 1 + x + lit + 11 > cap)
          BY <1>12, <1>15, <4>3
        <5> QED BY <4>0, <4>1, <5>1
      <4> QED BY <1>5, <4>2, <4>3
    <3>4. w <= cap /\ L + 2 <= cap /\ L \in Nat
      <4>1. L \in Nat /\ L + 7 <= cap /\ (lit = 0 => L + 8 <= cap)
        <5>1. x \in Nat /\ lit \in Nat /\ D \in Nat /\ cap \in Nat
          BY <1>5, <1>6, <1>11
        <5>2. L \in Nat
          BY <2>1, <5>1
        <5> QED BY <3>2, <3>3, <5>1, <5>2
      <4>2. w <= L + (IF lit = 0 THEN 8 ELSE 7)
        BY <2>1, <2>2
      <4> QED BY <1>5, <2>2, <4>1, <4>2
    <3>5. high' <= cap
      BY <2>3, <3>1, <3>4
    <3>6. job.limit # "notLimited" => D = 0 \/ D + 3 <= cap
      BY <1>1, <1>2, <2>7 DEF Inside, Spared, D, cap
    <3>7. job.limit # "notLimited" => Spared'
      BY <1>1, <1>15, <3>4, <3>6 DEF Spared, L, cap
    <3>8. Len(dst') <= job'.cap /\ high' <= job'.cap /\ job' = job
      BY <1>1, <1>5, <3>4, <3>5 DEF L, cap
    <3> QED BY <3>7, <3>8 DEF Inside
  <2>8. Estimated' => Inside'
    BY <1>1, <2>7 DEF Estimated
  <2> QED BY <1>8, <1>15, <2>4, <2>6, <2>8 DEF RoomOK
<1> QED BY <1>1, <1>13, <1>14, <1>15

LEMMA MatchRooms ==
    ASSUME CoreOK, RoomOK, EncodeMatch
    PROVE  RoomOK'
<1> DEFINE D == Len(dst)
           count == MatchCode
           tight == /\ job.limit # "notLimited"
                    /\ D + 2 + (1 + LASTLITERALS) + count \div 256 > job.cap
           code == IF tight THEN ReducedMatchCode(D + 2) ELSE count
           s == job.start
           z == job.size
           cap == job.cap
<1>1. /\ pc = "match" /\ job' = job /\ token' = token
      /\ \/ /\ Rewind /\ dst' = SubSeq(dst, 1, token) /\ pc' = "last"
            /\ anchor' = anchor /\ high' = high
         \/ /\ job.limit = "limitedOutput" /\ tight /\ GiveUp
            /\ dst' = dst \o << Offset % 256, Offset \div 256 >>
            /\ high' = Max({high, D + 2})
         \/ /\ ~Rewind /\ ~(job.limit = "limitedOutput" /\ tight)
            /\ ip' = ip + MINMATCH + code /\ anchor' = ip'
            /\ dst' = MatchOut(code, Offset)
            /\ high' = Max({high, Len(dst')} \cup
                  {(D + 2) + 4 + 4 * (k \div 1020) : k \in {code - ML_MASK} \cap Nat})
            /\ pc' \in {"last", "next"}
  BY MatchStep, Zenon
<1>2. /\ Directed /\ Growth /\ high \in Nat /\ (Estimated => Inside)
      /\ Begun /\ AtMatch /\ JobOK /\ dst \in Seq(Int) /\ token \in Nat
  BY <1>1, RoomIs DEF Busy, CoreOK, LoopOK, Begun
<1>3. /\ anchor \in Nat /\ s <= anchor /\ ip \in Nat /\ anchor <= ip
      /\ ip + 12 <= s + z /\ token < D
  BY <1>2 DEF AtMatch, MFLIMIT, Start, iend
<1>4. /\ s \in Nat /\ z \in Nat /\ cap \in Nat /\ D \in Nat
      /\ job.limit \in {"notLimited", "limitedOutput", "fillOutput"}
  BY <1>2, LenProperties DEF JobOK
<1>5. Directed'
  BY <1>1, <1>2, DirectedStays
<1>6. /\ 255 * D <= 256 * (ip - s) + 495
      /\ 255 * token <= 256 * (anchor - s)
  BY <1>1, <1>2 DEF Growth, Start
<1>7. cap >= LZ4_compressBound(z) => 255 * cap >= 256 * z + 3826
  BY <1>4, BoundFits
<1>8. ~Rewind => Offset \in Int
  <2>1. ~Rewind => Landed(ip, match, low, back)
    BY <1>2 DEF AtMatch
  <2>2. Landed(ip, match, low, back) => Offset \in 1 .. MAX_DISTANCE
    BY Zenon DEF Landed, Offset
  <2>3. MAX_DISTANCE \in Int
    BY SizesOK
  <2> QED BY <2>1, <2>2, <2>3
<1> DEFINE q == count \div 256
           e == Extras(code)
<1>9. ASSUME ~Rewind
      PROVE  /\ count \in Nat /\ ip + 4 + count + 5 <= s + z
             /\ q \in Nat /\ 256 * q <= count
             /\ tight <=> job.limit # "notLimited" /\ D + 8 + q > cap
  <2>1. Landed(ip, match, low, back) /\ \E n \in Nat : Ahead(n)
    BY <1>2, <1>9 DEF AtMatch
  <2>2. MatchCode \in Nat /\ ip + 4 + MatchCode + 5 <= iend
    BY <1>1, <2>1, MatchCodeIs
  <2>3. count \in Nat /\ ip + 4 + count + 5 <= s + z
    BY <2>2 DEF iend
  <2>4. 1 + LASTLITERALS = 6
    BY DEF LASTLITERALS
  <2>5. tight <=> job.limit # "notLimited" /\ D + 2 + 6 + q > cap
    BY <2>4
  <2> HIDE DEF count, D, cap, s, z, tight
  <2>6. q \in Nat /\ 256 * q <= count
    BY <2>3
  <2> HIDE DEF q
  <2> QED BY <1>4, <2>3, <2>5, <2>6
<1>10. ASSUME ~Rewind, ~(job.limit = "limitedOutput" /\ tight)
       PROVE  /\ code \in Nat /\ code <= count /\ (~tight => code = count)
              /\ tight => D + 2 + e = cap - 8
              /\ e \in Nat /\ 255 * e <= code + 240 /\ (code < 15 => e = 0)
  <2>1. ~(/\ job.limit = "limitedOutput"
          /\ Len(dst) + 2 + (1 + LASTLITERALS) + MatchCode \div 256 > job.cap)
    BY <1>10
  <2>2. /\ code \in Nat /\ code <= count
        /\ tight => D + 2 + Extras(code) = cap - 8
    BY <1>1, <1>10, <2>1, CodeIs, Zenon
  <2>3. ~tight => code = count
    OBVIOUS
  <2> HIDE DEF code, count, tight, D, cap
  <2> QED BY <2>2, <2>3, ExtrasAre
<1> HIDE DEF D, count, tight, code, s, z, cap, q, e
<1>11. CASE /\ Rewind /\ dst' = SubSeq(dst, 1, token) /\ pc' = "last"
            /\ anchor' = anchor /\ high' = high
  <2>1. Len(dst') = token
    <3>1. \A k \in 1 .. token : dst[k] \in Int
      <4>1. \A k \in 1 .. token : k \in 1 .. Len(dst)
        BY <1>2, <1>3, <1>4 DEF D
      <4> QED BY <1>2, <4>1, ElementOfSeq
    <3> QED BY <1>2, <1>11, <3>1, SubSeqProperties
  <2>2. Growth'
    <3>1. 255 * Len(dst') <= 256 * (anchor' - job'.start)
      BY <1>1, <1>6, <1>11, <2>1 DEF s
    <3> QED BY <1>11, <3>1 DEF Growth, Start
  <2>3. Estimated' => Inside'
    <3>1. ASSUME Estimated PROVE Inside'
      <4>1. Inside
        BY <1>2, <3>1
      <4>2. Len(dst') <= cap
        BY <1>2, <1>3, <1>4, <2>1, <4>1 DEF Inside, D, cap
      <4>3. job.limit # "notLimited" => token = 0 \/ token + 3 <= job.cap
        BY <1>1, <4>1 DEF Inside, Spared
      <4> QED BY <1>1, <1>11, <2>1, <4>1, <4>2, <4>3 DEF Inside, Spared, cap
    <3> QED BY <1>1, <3>1 DEF Estimated
  <2> QED BY <1>2, <1>5, <1>11, <2>2, <2>3 DEF RoomOK
<1>12. CASE /\ job.limit = "limitedOutput" /\ tight /\ GiveUp
            /\ dst' = dst \o << Offset % 256, Offset \div 256 >>
            /\ high' = Max({high, D + 2})
  <2>1. ~Rewind
    BY <1>12 DEF Rewind
  <2>2. pc' = "done" /\ ret'.written = 0 /\ ret'.consumed = job.size
    BY <1>12 DEF GiveUp
  <2>3. Len(dst') = D + 2
    <3> DEFINE o == << Offset % 256, Offset \div 256 >>
    <3>1. o \in Seq(Int) /\ Len(o) = 2
      <4>1. Offset % 256 \in Int /\ Offset \div 256 \in Int
        BY <1>8, <2>1
      <4> QED BY <4>1
    <3> HIDE DEF o
    <3>2. Len(dst \o o) = Len(dst) + Len(o)
      BY <1>2, <3>1, ConcatProperties
    <3> QED BY <1>12, <3>1, <3>2 DEF o, D
  <2>4. high' = (IF high >= D + 2 THEN high ELSE D + 2)
    <3>1. D + 2 \in Int
      BY <1>4
    <3> DEFINE d == D + 2
    <3> HIDE DEF d
    <3>2. high' = Max({high, d}) /\ d \in Int
      BY <1>12, <3>1 DEF d
    <3>3. high' = (IF high >= d THEN high ELSE d)
      BY <1>2, <3>2, TwoMax
    <3> QED BY <3>3 DEF d
  <2>5. Growth'
    BY <2>2 DEF Growth
  <2>6. high' \in Nat
    BY <1>2, <1>4, <2>4
  <2>7. Estimated' => Inside'
    <3>1. ASSUME Estimated PROVE Inside'
      <4>1. high <= cap /\ D + 2 <= cap
        BY <1>1, <1>2, <1>12, <3>1 DEF Inside, Spared, D, cap
      <4>2. high' <= cap /\ Len(dst') <= cap
        BY <2>3, <2>4, <4>1
      <4> QED BY <1>1, <2>2, <4>2 DEF Inside, Spared, cap
    <3> QED BY <1>1, <3>1 DEF Estimated
  <2>8. ~(cap >= LZ4_compressBound(z))
    <3>1. D + 8 + q > cap /\ count \in Nat /\ q \in Nat /\ 256 * q <= count
          /\ ip + 4 + count + 5 <= s + z
      BY <1>9, <1>12, <2>1
    <3>2. ~(255 * cap >= 256 * z + 3826)
      BY <1>3, <1>4, <1>6, <3>1
    <3> QED BY <1>7, <3>2
  <2>9. Ended'
    <3>1. ~(job'.cap >= LZ4_compressBound(job'.size)) /\ job'.limit = "limitedOutput"
          /\ ret'.consumed = job'.size /\ job'.size \in Nat
      BY <1>1, <1>4, <1>12, <2>2, <2>8 DEF cap, z
    <3>2. ~(LZ4_compressBound(job.size)' <= job'.cap)
      BY <3>1 DEF LZ4_compressBound
    <3> QED BY <3>1 DEF Ended, LZ4_compressBound
  <2> QED BY <1>5, <2>2, <2>5, <2>6, <2>7, <2>9 DEF RoomOK
<1>13. CASE /\ ~Rewind /\ ~(job.limit = "limitedOutput" /\ tight)
            /\ ip' = ip + MINMATCH + code /\ anchor' = ip'
            /\ dst' = MatchOut(code, Offset)
            /\ high' = Max({high, Len(dst')} \cup
                  {(D + 2) + 4 + 4 * (k \div 1020) : k \in {code - ML_MASK} \cap Nat})
            /\ pc' \in {"last", "next"}
  <2>1. /\ code \in Nat /\ code <= count /\ (~tight => code = count)
        /\ tight => D + 2 + e = cap - 8
        /\ e \in Nat /\ 255 * e <= code + 240 /\ (code < 15 => e = 0)
    BY <1>10, <1>13
  <2>2. /\ count \in Nat /\ ip + 4 + count + 5 <= s + z
        /\ q \in Nat /\ 256 * q <= count
        /\ tight <=> job.limit # "notLimited" /\ D + 8 + q > cap
    BY <1>9, <1>13
  <2> DEFINE L == Len(dst')
  <2>3. L = D + 2 + e
    BY <1>2, <1>3, <1>8, <1>13, <2>1, MatchPut DEF D, e
  <2>4. ip' = ip + 4 + code /\ anchor' = ip'
    BY <1>13 DEF MINMATCH
  <2> HIDE DEF L
  <2>5. 255 * L <= 256 * (ip' - s)
    BY <1>3, <1>4, <1>6, <2>1, <2>3, <2>4
  <2>6. Growth'
    <3>1. 255 * Len(dst') <= 256 * (anchor' - job'.start)
      BY <1>1, <2>4, <2>5 DEF L, s
    <3> QED BY <1>13, <3>1 DEF Growth, Start
  <2>7. ASSUME NEW top \in Nat, high <= top, D + 2 + e + 3 <= top
        PROVE  high' \in Nat /\ high' <= top
    <3> DEFINE op == D + 2
    <3>1. op \in Nat /\ L \in Nat /\ L <= top /\ op + 3 + e <= top
      BY <1>4, <2>1, <2>3, <2>7
    <3>2. high' = Max({high, L} \cup Stores(op, code))
      BY <1>13, Zenon DEF L, Stores
    <3> HIDE DEF op
    <3> QED BY <1>2, <2>1, <2>7, <3>1, <3>2, StoresEnd DEF e
  <2>8. high' \in Nat
    <3> DEFINE t == high + (D + 2 + e + 3)
    <3>1. t \in Nat /\ high <= t /\ D + 2 + e + 3 <= t
      BY <1>2, <1>4, <2>1
    <3> HIDE DEF t
    <3> QED BY <2>7, <3>1
  <2>9. ASSUME Estimated PROVE Inside'
    <3>1. high <= cap
      BY <1>2, <2>9 DEF Inside, cap
    <3>2. job.limit = "notLimited" => D + 2 + e + 3 <= cap
      <4>1. job.limit = "notLimited" => 255 * cap >= 256 * z + 3826
        BY <1>2, <1>7 DEF Directed, cap, z
      <4> QED BY <1>3, <1>4, <1>6, <2>1, <2>2, <4>1
    <3>3. tight => D + 2 + e + 3 <= cap
      BY <1>4, <2>1
    <3>4. ~tight /\ job.limit # "notLimited" => D + 2 + e + 3 <= cap
      <4>1. SUFFICES ASSUME ~tight, job.limit # "notLimited" PROVE D + 2 + e + 3 <= cap
        OBVIOUS
      <4>2. z <= 131072
        BY <2>9, <4>1 DEF Estimated, z
      <4>3. count <= 131072 /\ code = count
        BY <1>3, <1>4, <2>1, <2>2, <4>1, <4>2
      <4>4. Extras(count) <= 3 + count \div 256
        BY <2>2, <4>3, ExtrasEstimated
      <4>5. e <= 3 + q
        BY <4>3, <4>4 DEF e, q
      <4>6. D + 8 + q <= cap
        BY <1>4, <2>2, <4>1
      <4> QED BY <1>4, <2>1, <2>2, <4>5, <4>6
    <3>5. D + 2 + e + 3 <= cap
      BY <3>2, <3>3, <3>4
    <3>6. high' <= cap
      BY <1>4, <2>7, <3>1, <3>5
    <3>7. L + 3 <= cap /\ L \in Nat
      BY <1>4, <2>1, <2>3, <3>5
    <3>8. Len(dst') <= job'.cap /\ high' <= job'.cap /\ Len(dst') + 3 <= job'.cap
      BY <1>1, <1>4, <3>6, <3>7 DEF L, cap
    <3> QED BY <1>13, <3>8 DEF Inside, Spared
  <2>10. Estimated' => Inside'
    BY <1>1, <2>9 DEF Estimated
  <2> QED BY <1>5, <1>13, <2>6, <2>8, <2>10 DEF RoomOK
<1> QED BY <1>1, <1>11, <1>12, <1>13

LEMMA TestNextRooms ==
    ASSUME CoreOK, RoomOK, TestNext
    PROVE  RoomOK'
<1> DEFINE D == Len(dst)
           s == job.start
           cap == job.cap
<1>1. /\ pc = "next" /\ job' = job /\ anchor' = anchor
      /\ \/ /\ pc' = "match" /\ token' = D /\ dst' = dst \o << 0 >> /\ ip' = ip
            /\ high' = Max({high, Len(dst')})
         \/ pc' = "search" /\ dst' = dst /\ high' = high
  BY Zenon DEF TestNext, Unmoved
<1>2. /\ Directed /\ Growth /\ high \in Nat /\ (Estimated => Inside)
      /\ Begun /\ AtNext /\ JobOK /\ dst \in Seq(Int)
  BY <1>1, RoomIs DEF Busy, CoreOK, LoopOK, Begun
<1>3. ip \in Nat /\ anchor = ip /\ s \in Nat /\ cap \in Nat /\ D \in Nat
  BY <1>2, LenProperties DEF AtNext, JobOK
<1>4. 255 * D <= 256 * (anchor - s)
  BY <1>1, <1>2 DEF Growth, Start
<1>5. Directed'
  BY <1>1, <1>2, DirectedStays
<1>6. CASE pc' = "search" /\ dst' = dst /\ high' = high
  <2>1. Growth'
    BY <1>1, <1>2, <1>6 DEF Growth, Start
  <2>2. Estimated' => Inside'
    BY <1>1, <1>2, <1>6 DEF Estimated, Inside, Spared
  <2> QED BY <1>2, <1>5, <1>6, <2>1, <2>2 DEF RoomOK
<1>7. CASE /\ pc' = "match" /\ token' = D /\ dst' = dst \o << 0 >> /\ ip' = ip
           /\ high' = Max({high, Len(dst')})
  <2>1. Len(dst') = D + 1
    <3>1. << 0 >> \in Seq(Int) /\ Len(<< 0 >>) = 1
      OBVIOUS
    <3> QED BY <1>2, <1>7, <3>1, ConcatProperties
  <2> HIDE DEF D, s, cap
  <2>2. high' = (IF high >= D + 1 THEN high ELSE D + 1)
    <3> DEFINE l == Len(dst')
    <3>1. l \in Int /\ l = D + 1
      BY <1>3, <2>1
    <3>2. high' = Max({high, l})
      BY <1>7
    <3> HIDE DEF l
    <3>3. high' = (IF high >= l THEN high ELSE l)
      BY <1>2, <3>1, <3>2, TwoMax
    <3> QED BY <3>1, <3>3
  <2>3. high' \in Nat
    BY <1>2, <1>3, <2>2
  <2>4. Growth'
    <3>1. 255 * (D + 1) <= 256 * (ip - s) + 495
      BY <1>3, <1>4
    <3>2. /\ 255 * Len(dst') <= 256 * (ip' - job'.start) + 495
          /\ 255 * token' <= 256 * (anchor' - job'.start)
      BY <1>1, <1>4, <1>7, <2>1, <3>1 DEF s
    <3> QED BY <1>7, <3>2 DEF Growth, Start
  <2>5. ASSUME Estimated PROVE Inside'
    <3>1. high <= cap /\ D <= cap /\ (job.limit # "notLimited" => D + 3 <= cap)
      BY <1>1, <1>2, <2>5 DEF Inside, Spared, D, cap
    <3>2. job.limit = "notLimited" => D + 1 <= cap
      <4>1. SUFFICES ASSUME job.limit = "notLimited" PROVE D + 1 <= cap
        OBVIOUS
      <4> DEFINE z == job.size
      <4>2. z \in Nat /\ ip + 12 <= s + z
        BY <1>2 DEF JobOK, AtNext, iend, MFLIMIT, s
      <4>3. cap >= LZ4_compressBound(z)
        BY <1>2, <4>1 DEF Directed, cap
      <4>4. 255 * cap >= 256 * z + 3826
        BY <1>3, <4>2, <4>3, BoundFits
      <4> HIDE DEF z
      <4> QED BY <1>3, <1>4, <4>2, <4>4
    <3>3. D + 1 <= cap
      BY <1>3, <3>1, <3>2
    <3>4. high' <= cap
      BY <2>2, <3>1, <3>3
    <3>5. Len(dst') <= job'.cap /\ high' <= job'.cap
      BY <1>1, <2>1, <3>3, <3>4 DEF cap
    <3>6. job.limit # "notLimited" => Len(dst') + 2 <= job'.cap /\ token' + 3 <= job'.cap
      BY <1>1, <1>3, <1>7, <2>1, <3>1 DEF cap
    <3> QED BY <1>1, <1>7, <3>5, <3>6 DEF Inside, Spared
  <2>6. Estimated' => Inside'
    BY <1>1, <2>5 DEF Estimated
  <2> QED BY <1>5, <1>7, <2>3, <2>4, <2>6 DEF RoomOK
<1> QED BY <1>1, <1>6, <1>7

LEMMA LastRooms ==
    ASSUME CoreOK, RoomOK, LastLiterals, UNCHANGED way
    PROVE  RoomOK'
<1> DEFINE D == Len(dst)
           s == job.start
           z == job.size
           cap == job.cap
           all == iend - anchor
           taken == LastTaken
           e == Extras(all)
           tight == LastTight
<1>1. /\ pc = "last" /\ pc' = "done" /\ job' = job
      /\ IF tight /\ job.limit = "limitedOutput"
         THEN GiveUp /\ dst' = dst /\ high' = high
         ELSE /\ ip' = anchor + taken
              /\ dst' = dst \o RunHead(taken) \o SubSeq(buf, anchor + 1, anchor + taken)
              /\ high' = Max({high, Len(dst')})
              /\ ret' = [written |-> Len(dst'), consumed |->
                           IF job.limit = "fillOutput" THEN ip' - Start ELSE job.size]
  BY LastStep, Zenon
<1>2. /\ Directed /\ Growth /\ high \in Nat /\ (Estimated => Inside)
      /\ Begun /\ AtLast /\ JobOK /\ dst \in Seq(Int) /\ buf \in Seq(Nat)
  BY <1>1, RoomIs DEF Busy, CoreOK, LoopOK, Begun
<1>3. /\ s \in Nat /\ z \in Nat /\ cap \in Nat /\ D \in Nat
      /\ anchor \in Nat /\ s <= anchor /\ anchor <= s + z /\ s + z <= Len(buf)
      /\ job.limit \in {"notLimited", "limitedOutput", "fillOutput"} /\ Len(buf) \in Nat
      /\ iend = s + z
  BY <1>2, LenProperties DEF AtLast, JobOK, iend, Start
<1>4. 255 * D <= 256 * (anchor - s)
  BY <1>1, <1>2 DEF Growth, Start
<1>5. /\ taken \in Int /\ all = s + z - anchor /\ all \in Nat
      /\ tight <=> job.limit # "notLimited" /\ D + all + 1 + e > cap
  <2>1. anchor \in Nat /\ anchor <= iend
    BY <1>2 DEF AtLast
  <2>2. /\ taken \in Int /\ all \in Nat
        /\ tight <=> job.limit # "notLimited" /\ D + all + 1 + e > cap
    BY <1>2, <2>1, LastTakenIs
  <2>3. all = s + z - anchor
    BY <1>3
  <2> QED BY <2>2, <2>3
<1>6. e \in Nat /\ 255 * e <= all + 240
  BY <1>5, ExtrasAre
<1>7. taken = IF tight THEN LastRoom - Extras(LastRoom) ELSE all
  BY DEF LastTaken
<1>8. cap >= LZ4_compressBound(z) => 255 * cap >= 256 * z + 3826
  BY <1>3, BoundFits
<1> HIDE DEF D, s, z, cap, all, taken, e, tight
<1>9. cap >= LZ4_compressBound(z) => D + all + 1 + e <= cap
  BY <1>3, <1>4, <1>5, <1>6, <1>8
<1>10. Directed'
  BY <1>1, <1>2 DEF Directed
<1>11. Growth'
  BY <1>1 DEF Growth
<1>12. CASE tight /\ job.limit = "limitedOutput"
  <2>1. ret'.written = 0 /\ ret'.consumed = job.size /\ dst' = dst /\ high' = high
    BY <1>1, <1>12 DEF GiveUp
  <2>2. Estimated' => Inside'
    BY <1>1, <1>2, <1>12, <2>1 DEF Estimated, Inside, Spared
  <2>3. ~(cap >= LZ4_compressBound(z))
    BY <1>3, <1>5, <1>6, <1>9, <1>12
  <2>4. Ended'
    <3>1. ~(job'.cap >= LZ4_compressBound(job'.size)) /\ job'.limit = "limitedOutput"
          /\ ret'.consumed = job'.size /\ job'.size \in Nat
      BY <1>1, <1>3, <1>12, <2>1, <2>3 DEF cap, z
    <3>2. ~(LZ4_compressBound(job.size)' <= job'.cap)
      BY <3>1 DEF LZ4_compressBound
    <3> QED BY <3>1 DEF Ended, LZ4_compressBound
  <2> QED BY <1>2, <1>10, <1>11, <2>1, <2>2, <2>4 DEF RoomOK
<1>13. CASE ~(tight /\ job.limit = "limitedOutput")
  <2>1. /\ ip' = anchor + taken
        /\ dst' = dst \o RunHead(taken) \o SubSeq(buf, anchor + 1, anchor + taken)
        /\ high' = Max({high, Len(dst')})
        /\ ret'.written = Len(dst')
        /\ ret'.consumed = (IF job.limit = "fillOutput" THEN ip' - Start ELSE job.size)
    <3>1. /\ ip' = anchor + taken
          /\ dst' = dst \o RunHead(taken) \o SubSeq(buf, anchor + 1, anchor + taken)
          /\ high' = Max({high, Len(dst')})
          /\ ret' = [written |-> Len(dst'), consumed |->
                       IF job.limit = "fillOutput" THEN ip' - Start ELSE job.size]
      BY <1>1, <1>13, Zenon
    <3> DEFINE l == Len(dst')
               c == IF job.limit = "fillOutput" THEN ip' - Start ELSE job.size
    <3> HIDE DEF l, c
    <3>2. ret' = [written |-> l, consumed |-> c]
      BY <3>1, Zenon DEF l, c
    <3>3. ret'.written = l /\ ret'.consumed = c
      BY <3>2
    <3> QED BY <3>1, <3>3, Zenon DEF l, c
  <2> DEFINE L == Len(dst')
             x == Extras(taken)
  <2>2. dst' \in Seq(Int)
    BY LastLiteralsKeeps DEF CoreOK
  <2>3. L \in Nat
    BY <2>2, LenProperties
  <2>4. taken \in Nat => L = D + 1 + x + taken /\ x \in Nat
    <3>1. taken <= all
      BY <1>2, LastTakenIs DEF AtLast, all, taken
    <3>2. taken \in Nat => anchor + taken \in Nat /\ anchor <= anchor + taken
                           /\ anchor + taken <= Len(buf) /\ anchor + taken - anchor = taken
      BY <1>3, <1>5, <3>1
    <3>3. taken \in Nat => Len(dst') = Len(dst) + 1 + Extras(taken) + taken
      <4>1. SUFFICES ASSUME taken \in Nat
                     PROVE  Len(dst') = Len(dst) + 1 + Extras(taken) + taken
        OBVIOUS
      <4>0. PICK f : f = anchor + taken
        OBVIOUS
      <4>2. f \in Nat /\ f = anchor + taken /\ anchor <= f /\ f <= Len(buf)
            /\ f - anchor = taken
        BY <1>3, <1>5, <3>2, <4>0, <4>1
      <4>3. dst' = dst \o RunHead(f - anchor) \o SubSeq(buf, anchor + 1, f)
        BY <2>1, <4>2, Zenon
      <4>4. Len(dst') = Len(dst) + 1 + Extras(f - anchor) + (f - anchor)
        BY <1>2, <1>3, <4>2, <4>3, LiteralsPut
      <4> QED BY <4>2, <4>4
    <3> QED BY <3>3, ExtrasAre DEF D
  <2>5. tight /\ D + 1 <= cap =>
           /\ taken \in Nat /\ D + 1 + x + taken <= cap
           /\ D + 1 + x + taken >= cap - 1 - cap \div 65025
    <3>1. SUFFICES ASSUME tight, D + 1 <= cap
                   PROVE  /\ taken \in Nat /\ D + 1 + x + taken <= cap
                          /\ D + 1 + x + taken >= cap - 1 - cap \div 65025
      OBVIOUS
    <3>2. PICK room \in Int : room = cap - D - 1
      BY <1>3
    <3>3. taken = room - Extras(room)
      BY <1>7, <3>1, <3>2 DEF LastRoom, D, cap
    <3>4. /\ taken \in Nat
          /\ D + 1 + Extras(taken) + taken <= cap
          /\ D + 1 + Extras(taken) + taken >= cap - 1 - cap \div 65025
      BY <1>3, <1>5, <3>1, <3>2, <3>3, FilledIs
    <3> QED BY <3>4
  <2> HIDE DEF L, x
  <2>6. ~tight => taken \in Nat /\ taken = all /\ x = e
    BY <1>5, <1>7 DEF x, e
  <2>7. high' \in Nat /\ high' = (IF high >= L THEN high ELSE L)
    <3>1. high' = Max({high, L})
      BY <2>1 DEF L
    <3>2. high' = (IF high >= L THEN high ELSE L)
      BY <1>2, <2>3, <3>1, TwoMax
    <3> QED BY <1>2, <2>3, <3>2
  <2>8. cap >= LZ4_compressBound(z) => L > 0
    <3>1. cap >= LZ4_compressBound(z) => ~tight
      BY <1>3, <1>5, <1>6, <1>9
    <3>2. ~tight => L > 0
      BY <1>3, <1>6, <2>4, <2>6
    <3> QED BY <3>1, <3>2
  <2>9. ASSUME Estimated
        PROVE  /\ L > 0 /\ L <= cap
               /\ tight => L >= cap - 1 - cap \div 65025
    <3>1. ~tight => L > 0 /\ L <= cap
      <4>1. SUFFICES ASSUME ~tight PROVE L > 0 /\ L <= cap
        OBVIOUS
      <4>2. L = D + 1 + e + all
        BY <2>4, <2>6, <4>1
      <4>3. job.limit = "notLimited" => cap >= LZ4_compressBound(z)
        BY <1>2 DEF Directed, cap, z
      <4>4. D + all + 1 + e <= cap
        BY <1>3, <1>5, <1>6, <1>9, <4>1, <4>3
      <4> QED BY <1>3, <1>5, <1>6, <4>2, <4>4
    <3>2. tight => D + 1 <= cap
      <4>1. SUFFICES ASSUME tight PROVE D + 1 <= cap
        OBVIOUS
      <4>2. job.limit = "fillOutput"
        BY <1>3, <1>5, <1>13, <4>1
      <4>3. D = 0 \/ D + 3 <= cap
        BY <1>1, <1>2, <2>9, <4>2 DEF Inside, Spared, D, cap
      <4>4. cap >= 1
        BY <1>1, <1>2, <4>2 DEF Directed, cap
      <4> QED BY <1>3, <4>3, <4>4
    <3>3. tight => L > 0 /\ L <= cap /\ L >= cap - 1 - cap \div 65025
      <4>1. SUFFICES ASSUME tight
                     PROVE  L > 0 /\ L <= cap /\ L >= cap - 1 - cap \div 65025
        OBVIOUS
      <4>2. /\ taken \in Nat /\ D + 1 + x + taken <= cap
            /\ D + 1 + x + taken >= cap - 1 - cap \div 65025
        BY <2>5, <3>2, <4>1
      <4>3. L = D + 1 + x + taken /\ x \in Nat
        BY <2>4, <4>2
      <4>4. L > 0
        BY <1>3, <4>2, <4>3
      <4> QED BY <4>2, <4>3, <4>4
    <3> QED BY <3>1, <3>3
  <2>10. Estimated' => Inside'
    <3>1. ASSUME Estimated PROVE Inside'
      <4>1. high <= cap
        BY <1>2, <3>1 DEF Inside, cap
      <4>2. L <= cap
        BY <2>9, <3>1
      <4>3. high' <= cap
        BY <2>7, <4>1, <4>2
      <4>4. high' <= job'.cap /\ Len(dst') <= job'.cap
        BY <1>1, <4>2, <4>3 DEF L, cap
      <4> QED BY <1>1, <4>4 DEF Inside, Spared
    <3> QED BY <1>1, <3>1 DEF Estimated
  <2>11. ret'.consumed < job.size => tight
    <3>1. SUFFICES ASSUME ~tight PROVE ~(ret'.consumed < job.size)
      OBVIOUS
    <3>2. ip' = anchor + all
      BY <2>1, <2>6, <3>1
    <3>3. ip' - s = z
      BY <1>3, <1>5, <3>2
    <3>4. ret'.consumed = z
      BY <2>1, <3>3 DEF Start, s, z
    <3> QED BY <1>3, <3>4 DEF z
  <2>12. Ended'
    <3>1. ret'.written = L
      BY <2>1 DEF L
    <3>2. job'.cap >= LZ4_compressBound(job'.size) => ret'.written > 0
      BY <1>1, <2>8, <3>1 DEF cap, z
    <3>3. ASSUME Estimated
          PROVE  /\ ret'.written > 0
                 /\ ret'.consumed < job'.size =>
                       ret'.written >= job'.cap - 1 - job'.cap \div 65025
      BY <1>1, <2>9, <2>11, <3>1, <3>3 DEF cap
    <3>4. (job.cap >= LZ4_compressBound(job.size))' => ret'.written > 0
      BY <3>2 DEF LZ4_compressBound
    <3>5. Estimated' <=> Estimated
      BY <1>1 DEF Estimated
    <3> QED BY <3>3, <3>4, <3>5 DEF Ended
  <2> QED BY <1>1, <1>10, <1>11, <2>7, <2>10, <2>12 DEF RoomOK
<1> QED BY <1>12, <1>13

(* A call begins with an empty dst.                                        *)
LEMMA CallRooms ==
    ASSUME NEW c, NEW args, Compress(c, args),
           args.start \in Nat, args.size \in Nat, args.cap \in Nat,
           args.limit = "notLimited" => args.cap >= LZ4_compressBound(args.size),
           args.api = "destSize" => args.limit # "limitedOutput"
    PROVE  RoomOK'
<1>1. /\ dst' = << >> /\ high' = 0 /\ token' = 0 /\ anchor' = args.start
      /\ pc' \in {"done", "last", "search"}
      /\ job'.start = args.start /\ job'.size = args.size /\ job'.cap = args.cap
      /\ job'.limit = args.limit /\ job'.api = args.api
      /\ pc' = "done" => /\ args.limit = "fillOutput" /\ args.cap < 1
                         /\ ret'.written = 0 /\ ret'.consumed = args.size
      /\ pc' # "done" => ~(args.limit = "fillOutput" /\ args.cap < 1)
  <2>1. /\ dst' = << >> /\ high' = 0 /\ token' = 0 /\ anchor' = args.start
        /\ \/ /\ args.limit = "fillOutput" /\ args.cap < 1 /\ pc' = "done"
              /\ ret' = [written |-> 0, consumed |-> args.size]
           \/ /\ ~(args.limit = "fillOutput" /\ args.cap < 1)
              /\ pc' \in {"last", "search"}
    BY CompressIs
  <2>2. /\ job'.start = args.start /\ job'.size = args.size /\ job'.cap = args.cap
        /\ job'.limit = args.limit /\ job'.api = args.api
    BY JobIs
  <2> QED BY <2>1, <2>2
<1>2. Len(dst') = 0
  BY <1>1
<1>3. Directed'
  <2>1. /\ job'.limit = "notLimited" => job'.cap >= LZ4_compressBound(args.size)
        /\ job'.limit = "fillOutput" /\ pc' # "done" => job'.cap >= 1
        /\ job'.api = "destSize" => job'.limit # "limitedOutput"
    BY <1>1
  <2>2. LZ4_compressBound(job.size)' = LZ4_compressBound(args.size)
    BY <1>1 DEF LZ4_compressBound
  <2> QED BY <2>1, <2>2 DEF Directed
<1>4. Growth'
  <2>1. anchor' - job'.start = 0
    BY <1>1
  <2> QED BY <1>1, <1>2, <2>1 DEF Growth, Start
<1>5. Inside'
  BY <1>1, <1>2 DEF Inside, Spared
<1>6. pc' = "done" => Ended'
  <2>1. SUFFICES ASSUME pc' = "done" PROVE Ended'
    OBVIOUS
  <2>2. job'.cap = 0 /\ ret'.consumed = job'.size /\ job'.size \in Nat
    BY <1>1, <2>1
  <2>3. LZ4_compressBound(args.size) > 0
    BY DEF LZ4_compressBound
  <2>4. ~(job.cap >= LZ4_compressBound(job.size))'
    BY <1>1, <2>2, <2>3 DEF LZ4_compressBound
  <2> QED BY <2>2, <2>4 DEF Ended
<1>7. high' \in Nat
  BY <1>1
<1> QED BY <1>3, <1>4, <1>5, <1>6, <1>7 DEF RoomOK

LEMMA CallBlockRooms ==
    ASSUME EncInv, InBlocks, CallBlock
    PROVE  RoomOK'
<1>1. CoreOK /\ BlocksOK /\ pc = "idle" /\ sizes # << >>
  BY DEF EncInv, CallBlock
<1>2. PICK api \in {"extState", "fastReset", "force", "destSize"},
           cap \in Capacities \cup {LZ4_compressBound(Head(sizes))},
           acceleration \in Accelerations : Call(api, cap, acceleration)
  BY DEF CallBlock
<1>3. PICK size : size = Head(sizes)
  OBVIOUS
<1>4. size \in Nat
  <2>1. sizes \in Seq(Nat)
    BY <1>1 DEF BlocksOK
  <2> QED BY <1>1, <1>3, <2>1, HeadTailProperties
<1>5. cap \in Nat
  <2>1. LZ4_compressBound(size) \in Nat
    BY <1>4, BoundIs
  <2> QED BY <1>2, <1>3, <2>1, EncodeAssumption
<1> DEFINE type == IF size < LZ4_64Klimit THEN "byU16" ELSE "byU32"
           c0 == IF api = "fastReset" THEN LZ4_prepareTable(ctx, size, type) ELSE Cleared
<1>7. PICK c : c = c0
  OBVIOUS
<1> DEFINE small == api = "fastReset" /\ type = "byU16" /\ c.off # 0
           limit == Directive(api, size, cap)
           start == job.start + job.size
           args0 == [api |-> api, start |-> start, size |-> size,
                     cap |-> cap, limit |-> limit, type |-> type,
                     acceleration |-> acceleration, dict |-> "noDict",
                     dictSmall |-> small]
<1>8. PICK args : args = args0
  OBVIOUS
<1>9. Compress(c, args)
  BY <1>2, <1>3, <1>7, <1>8 DEF Call
<1>10. /\ args.api = api /\ args.start = start /\ args.size = size
       /\ args.cap = cap /\ args.limit = limit
  BY <1>8
<1>12. start \in Nat
  BY <1>1 DEF BlocksOK
<1>11. /\ limit = "notLimited" => cap >= LZ4_compressBound(size)
       /\ api = "destSize" => limit # "limitedOutput"
  BY DEF Directive
<1> HIDE DEF type, small, limit, start, args0, c0
<1> QED BY <1>4, <1>5, <1>9, <1>10, <1>11, <1>12, CallRooms

LEMMA CallStreamRooms ==
    ASSUME EncInv, ~InBlocks, CallStream
    PROVE  RoomOK'
<1>1. /\ pc = "idle" /\ sizes # << >>
      /\ \/ \E cap \in {LZ4_compressBound(sizes[1])} \cup way.caps :
                Continue(at, sizes[1], cap)
         \/ way.forced
  BY DEF CallStream
<1>2. /\ StreamOK /\ slots \in Nat \ {0} /\ StateOK(ctx)
      /\ way \in Ways /\ Documented(way) /\ sizes[1] \in 1 .. MaxBlock
  BY <1>1 DEF EncInv, CoreOK, StreamOK, PlaceOK
<1>3. PICK size \in 1 .. MaxBlock : size = sizes[1]
  BY <1>2
<1>4. PICK cap \in Nat : Continue(at, size, cap)
  <2>1. PICK cap \in {LZ4_compressBound(sizes[1])} \cup way.caps : Continue(at, sizes[1], cap)
    BY <1>1, <1>2 DEF Documented
  <2>2. LZ4_compressBound(sizes[1]) \in Nat /\ way.caps \subseteq Nat
    <3>1. sizes[1] \in Nat
      BY <1>2, SizesOK
    <3> QED BY <1>2, <3>1, BoundIs, WayIs
  <2>3. cap \in Nat
    BY <2>2
  <2> QED BY <1>3, <2>1, <2>3, Zenon
<1>5. PICK b, args : StreamArgs(b, args, size) /\ Compress(b, args)
  BY <1>1, <1>2, <1>4, ContinueIs
<1>6. /\ args.start \in Nat /\ args.size \in Nat /\ args.cap \in Nat
      /\ args.limit = "limitedOutput" /\ args.api = "continue"
  BY <1>5 DEF StreamArgs, ArgsOK
<1> QED BY <1>5, <1>6, CallRooms

LEMMA RoomStays ==
    ASSUME RoomOK, UNCHANGED encvars
    PROVE  RoomOK'
<1>1. UNCHANGED << pc, job, dst, high, anchor, ip, token, ret >>
  BY DEF encvars
<1>2. (job.cap >= LZ4_compressBound(job.size))' <=> job.cap >= LZ4_compressBound(job.size)
  BY <1>1 DEF LZ4_compressBound
<1>3. Directed => Directed'
  BY <1>1, <1>2 DEF Directed
<1>4. Growth => Growth'
  BY <1>1 DEF Growth, Start
<1>5. (Estimated' <=> Estimated) /\ (Inside => Inside')
  BY <1>1 DEF Estimated, Inside, Spared
<1>6. Ended => Ended'
  BY <1>1, <1>2, <1>5 DEF Ended
<1> QED BY <1>1, <1>3, <1>4, <1>5, <1>6 DEF RoomOK, Busy

LEMMA RoomRests ==
    ASSUME pc' \in {"idle", "fresh"}
    PROVE  RoomOK'
  BY DEF RoomOK, Busy

LEMMA RoomKept ==
    ASSUME EncInv, RoomOK, [Next]_vars
    PROVE  RoomOK'
<1>1. CASE Encode
  <2>1. way' = way /\ CoreOK
    BY <1>1 DEF Encode, streamvars, EncInv
  <2>2. CASE EncNext
    BY <2>1, <2>2, SearchRooms, LiteralsRooms, MatchRooms, TestNextRooms, LastRooms
       DEF EncNext
  <2>3. CASE InBlocks /\ CallBlock
    BY <2>3, CallBlockRooms
  <2> QED BY <1>1, <2>2, <2>3 DEF Encode
<1>2. CASE StartDecode
  BY <1>2, RoomStays DEF StartDecode
<1>3. CASE Decode
  BY <1>3, RoomStays DEF Decode
<1>4. CASE NextBlock
  <2>1. pc' = "idle"
    BY <1>4 DEF NextBlock
  <2> QED BY <2>1, RoomRests
<1>5. CASE ~InBlocks /\ StreamNext
  <2>1. CASE Begin
    <3>1. pc' = "idle"
      BY <2>1 DEF Begin
    <3> QED BY <3>1, RoomRests
  <2>2. CASE CallStream
    BY <1>5, <2>2, CallStreamRooms
  <2>3. CASE Receive
    BY <2>3, RoomStays DEF Receive
  <2>4. CASE Received
    <3>1. pc' \in {"idle", "fresh"}
      BY <2>4 DEF Received
    <3> QED BY <3>1, RoomRests
  <2>5. CASE Failed
    <3>1. pc' = "fresh"
      BY <2>5 DEF Failed
    <3> QED BY <3>1, RoomRests
  <2>6. CASE \E size \in way.sizes : WriteBlock(size)
    <3>1. pc' = "idle"
      BY <2>6 DEF WriteBlock
    <3> QED BY <3>1, RoomRests
  <2> QED BY <1>5, <2>1, <2>2, <2>3, <2>4, <2>5, <2>6 DEF StreamNext
<1>6. CASE UNCHANGED vars
  BY <1>6, RoomStays DEF vars
<1> QED BY <1>1, <1>2, <1>3, <1>4, <1>5, <1>6 DEF Next

LEMMA RoomStarts ==
    ASSUME Init, InBlocks \/ Documented(way)
    PROVE  EncInv /\ RoomOK
<1>1. pc \in {"idle", "fresh"}
  BY DEF Init, BlocksInit, StreamInit
<1> QED BY <1>1, InvStarts DEF RoomOK, Busy

LEMMA RoomGives ==
    ASSUME EncInv, RoomOK
    PROVE  Estimated => EncodeInside /\ Succeeds
<1>1. pc \in {"idle", "fresh"} \/ Busy
  BY DEF EncInv, CoreOK, Busy
<1>2. Estimated => EncodeInside
  BY <1>1 DEF EncodeInside, RoomOK, Inside
<1>3. Estimated => Succeeds
  BY DEF Succeeds, RoomOK, Busy, Ended, Directed
<1> QED BY <1>2, <1>3

(* No store of the compressor leaves dst: whatever the size of dst, the    *)
(* blocks before, the state and the way of using memory, of which lz4.h:279*)
(* tells.  Where dst is limited, for blocks of which the code's estimate   *)
(* of a match's length bytes (lz4.c:763) is right.                         *)
THEOREM EncodesInside ==
    Spec /\ (InBlocks \/ Documented(way)) => [](Estimated => EncodeInside)
<1>1. Init /\ (InBlocks \/ Documented(way)) => EncInv /\ RoomOK
  BY RoomStarts
<1>2. EncInv /\ RoomOK /\ [Next]_vars => EncInv' /\ RoomOK'
  BY InvKept, RoomKept
<1>3. EncInv /\ RoomOK => (Estimated => EncodeInside)
  BY RoomGives
<1> QED BY <1>1, <1>2, <1>3, PTL DEF Spec

(* The calls succeed in compressBound() bytes, destSize in any dst, and    *)
(* where it cannot empty src it fills dst but for a byte, and one for      *)
(* every 255 * 255 (lz4.h:185-191, 269).                                   *)
THEOREM CallsSucceed ==
    Spec /\ (InBlocks \/ Documented(way)) => [](Estimated => Succeeds)
<1>1. Init /\ (InBlocks \/ Documented(way)) => EncInv /\ RoomOK
  BY RoomStarts
<1>2. EncInv /\ RoomOK /\ [Next]_vars => EncInv' /\ RoomOK'
  BY InvKept, RoomKept
<1>3. EncInv /\ RoomOK => (Estimated => Succeeds)
  BY RoomGives
<1> QED BY <1>1, <1>2, <1>3, PTL DEF Spec

-----------------------------------------------------------------------------
(* What the stream's blocks are cut from: the byte at q of the text, and   *)
(* the dictionary in front of the place where the stream began.            *)
Said(q) == IF q > begun THEN text[q] ELSE way.dict[Len(way.dict) + q - begun]

(* Between two addresses lies in memory what was said up to e.             *)
Shows(from, end, e) ==
    /\ begun - Len(way.dict) <= e - (end - from)
    /\ \A p \in from + 1 .. end : buf[p] = Said(p + e - end)

(* The block that was written but not compressed yet is not at p.          *)
Aside(p) == sizes = << >> \/ p <= at \/ at + sizes[1] < p

IdleStory ==
    /\ ctx.dictCtx # {} => sent = begun /\ ctx.dictSize = 0 /\ ctx.dictionary < 0
    /\ ctx.dictSize > 0 => End(ctx) <= Len(buf)
    /\ begun - Len(way.dict) <= sent - ctx.dictSize
    /\ \A p \in ctx.dictionary + 1 .. End(ctx) :
          Aside(p) => buf[p] = Said(p + sent - End(ctx))
    /\ sizes # << >> =>
          /\ sent + sizes[1] <= Len(text)
          /\ \A p \in at + 1 .. at + sizes[1] : buf[p] = text[p + sent - at]

BusyStory ==
    /\ ctx.dictCtx = {}
    /\ begun <= sent - job.size
    /\ Shows(ctx.dictionary, End(ctx), sent)
    /\ job.dictEnd > job.dictionary =>
          job.dictionary \in Nat /\ job.dictEnd <= Len(buf)
    /\ Shows(job.dictionary, job.dictEnd, sent - job.size)

StoryOK ==
    /\ begun \in Nat /\ sent <= Len(text)
    /\ \A p \in 1 .. Len(way.dict) : buf[p] = way.dict[p]
    /\ pc # "fresh" => begun <= sent
    /\ pc = "idle" => IdleStory
    /\ Busy => BusyStory

LEMMA StoryRests ==
    ASSUME StoryOK, UNCHANGED << buf, sizes, way, text, begun, sent, at, job >>, TableOnly,
           pc' = "idle" => pc = "idle", pc' # "fresh" => pc # "fresh", Busy' => Busy
    PROVE  StoryOK'
<1>1. /\ \A q : Said(q)' = Said(q)
      /\ \A p : Aside(p)' <=> Aside(p)
      /\ End(ctx)' = End(ctx) /\ ctx'.dictionary = ctx.dictionary
      /\ ctx'.dictSize = ctx.dictSize /\ ctx'.dictCtx = ctx.dictCtx
  BY DEF Said, Aside, End, TableOnly
<1>2. \A f, e, g : Shows(f, e, g)' <=> Shows(f, e, g)
  BY <1>1 DEF Shows
<1>3. IdleStory => IdleStory'
  BY <1>1 DEF IdleStory
<1>4. BusyStory => BusyStory'
  BY <1>1, <1>2 DEF BusyStory
<1> QED BY <1>1, <1>3, <1>4 DEF StoryOK

LEMMA LoopTells ==
    ASSUME EncInv, ~InBlocks, StoryOK, EncNext, UNCHANGED << decvars, streamvars >>
    PROVE  StoryOK'
<1>1. TableOnly
  BY LoopKeeps DEF EncInv, streamvars
<1>2. /\ UNCHANGED << buf, sizes, slots, job >>
      /\ pc \in {"search", "literals", "match", "next", "last"}
      /\ pc' \in {"search", "literals", "match", "next", "last", "done"}
  BY LoopFrame
<1>3. UNCHANGED << way, text, begun, sent, at >>
  BY DEF streamvars
<1>4. Busy /\ pc' # "idle" /\ pc # "fresh"
  BY <1>2 DEF Busy
<1> QED BY <1>1, <1>2, <1>3, <1>4, StoryRests

LEMMA StoryStays ==
    ASSUME StoryOK, UNCHANGED << encvars, way, text, begun, sent, at >>
    PROVE  StoryOK'
<1>1. TableOnly /\ UNCHANGED << buf, sizes, job, pc >>
  BY DEF TableOnly, encvars
<1>2. Busy' <=> Busy
  BY <1>1 DEF Busy
<1> QED BY <1>1, <1>2, StoryRests

LEMMA StoryStarts ==
    ASSUME StreamInit, Documented(way)
    PROVE  StoryOK
<1>1. /\ way \in Ways /\ text = way.text /\ sizes = << >> /\ pc = "fresh" /\ sent = 0 /\ begun = 0
      /\ buf = [p \in 1 .. Extent(way.sender, way.origin, way.ring) |->
                  IF p <= Len(way.dict) THEN way.dict[p] ELSE 0]
  BY DEF StreamInit
<1>2. \A p \in 1 .. Len(way.dict) : buf[p] = way.dict[p]
  <2> DEFINE n == Len(way.dict)
             x == Extent(way.sender, way.origin, way.ring)
  <2>1. n \in Nat /\ x \in Nat /\ n <= x
    <3> DEFINE o == way.origin
               r == way.ring
    <3>1. /\ n \in Nat /\ o \in Nat /\ r \in Nat /\ MaxBlock \in Nat /\ n <= o /\ x \in Nat
          /\ x = o + (IF way.sender = "ring" THEN r
                      ELSE IF way.sender = "double" THEN 2 * MaxBlock + 1 ELSE MaxBlock)
      BY <1>1, WayIs, ExtentIs DEF Documented
    <3> HIDE DEF n, x, o, r
    <3> QED BY <3>1
  <2>2. ASSUME NEW p \in 1 .. n PROVE buf[p] = way.dict[p]
    <3>1. p \in 1 .. x /\ p <= n
      <4> HIDE DEF n, x
      <4> QED BY <2>1
    <3> QED BY <1>1, <3>1
  <2> QED BY <2>2
<1>3. sent <= Len(text)
  <2>1. way.text \in Seq(Nat)
    BY <1>1, WayIs
  <2>2. Len(text) \in Nat
    BY <1>1, <2>1, LenProperties
  <2> QED BY <1>1, <2>2
<1> QED BY <1>1, <1>2, <1>3 DEF StoryOK, Busy

LEMMA BeginTells ==
    ASSUME EncInv, ~InBlocks, StoryOK, Begin
    PROVE  StoryOK'
<1> DEFINE d == Loaded(0, Len(way.dict))
           n == Len(way.dict)
<1>1. PICK fast \in BOOLEAN :
          ctx' = CASE way.how = "load" -> d
                   [] way.how = "attach" ->
                         Attached(IF fast THEN LZ4_prepareTable(ctx, 0, "byU32") ELSE Cleared, d)
                   [] OTHER -> IF fast THEN LZ4_prepareTable(ctx, 0, "byU32") ELSE Cleared
  BY DEF Begin
<1>2. /\ pc = "fresh" /\ at' = way.origin /\ pc' = "idle" /\ begun' = sent
      /\ UNCHANGED << buf, sizes, slots, job, dst, token, way, text, sent >>
  BY DEF Begin
<1>3. /\ CoreOK /\ StreamOK /\ buf \in Seq(Nat) /\ slots \in Nat \ {0} /\ StateOK(ctx)
      /\ way \in Ways /\ Documented(way) /\ sizes = << >> /\ sent \in Nat
      /\ Len(buf) = Extent(way.sender, way.origin, way.ring)
  BY <1>2 DEF EncInv, CoreOK, StreamOK
<1> DEFINE c == IF fast THEN LZ4_prepareTable(ctx, 0, "byU32") ELSE Cleared
<1>4. StateOK(c) /\ c.dictSize = 0 /\ c.dictionary = Nil /\ c.dictCtx = {}
  <2> DEFINE p == LZ4_prepareTable(ctx, 0, "byU32")
  <2>1. Prepared(ctx, 0, "byU32", p)
    <3>1. 0 \in Nat /\ "byU32" \in {"byU16", "byU32"}
      OBVIOUS
    <3> QED BY <1>3, <3>1, PrepareIs, Zenon
  <2>2. StateOK(p) /\ p.dictSize = 0 /\ p.dictionary = Nil /\ p.dictCtx = {}
    BY <2>1, Zenon DEF Prepared
  <2> HIDE DEF p
  <2>3. StateOK(Cleared) /\ Cleared.dictSize = 0 /\ Cleared.dictionary = Nil
        /\ Cleared.dictCtx = {}
    BY <1>3, ClearedIs
  <2>4. c = p \/ c = Cleared
    BY DEF p
  <2> HIDE DEF c
  <2> QED BY <2>2, <2>3, <2>4
<1>5. ctx' = (CASE way.how = "load" -> d [] way.how = "attach" -> Attached(c, d) [] OTHER -> c)
  BY <1>1
<1> HIDE DEF c
<1>6. /\ StateOK(d) /\ d.dictCtx = {} /\ d \in DictStates
      /\ d.dictionary \in Nat /\ d.dictionary + d.dictSize = n
      /\ n > 0 => DictOK(d)
  BY <1>3, LoadedIs
<1> HIDE DEF d
<1>7. n \in Nat /\ n <= Len(buf) /\ Len(buf) \in Nat
  <2> DEFINE o == way.origin
             r == way.ring
             x == Extent(way.sender, way.origin, way.ring)
  <2>1. /\ n \in Nat /\ o \in Nat /\ r \in Nat /\ MaxBlock \in Nat /\ n <= o /\ x \in Nat
        /\ x = o + (IF way.sender = "ring" THEN r
                    ELSE IF way.sender = "double" THEN 2 * MaxBlock + 1 ELSE MaxBlock)
    BY <1>3, WayIs, ExtentIs DEF Documented
  <2>2. Len(buf) = x
    BY <1>3
  <2> HIDE DEF n, x, o, r
  <2> QED BY <2>1, <2>2
<1>8. way.how = "attach" => DictOK(d)
  <2>1. way.how = "attach" => way.dict # << >> /\ way.dict \in Seq(Nat)
    BY <1>3, WayIs DEF Documented
  <2>2. way.how = "attach" => n # 0
    BY <2>1, EmptySeq
  <2> QED BY <1>6, <1>7, <2>2
<1>9. /\ way.how = "load" => ctx' = d
      /\ way.how # "load" =>
            /\ ctx'.dictSize = 0 /\ ctx'.dictionary = Nil
  <2>1. CASE way.how = "load"
    BY <1>5, <2>1
  <2>2. CASE way.how = "attach"
    <3>1. Attached(c, d).dictSize = 0 /\ Attached(c, d).dictionary = Nil
      BY <1>3, <1>4, <1>6, <1>8, <2>2, AttachedIs
    <3> QED BY <1>5, <2>2, <3>1
  <2>3. CASE way.how \notin {"load", "attach"}
    BY <1>4, <1>5, <2>3
  <2> QED BY <2>1, <2>2, <2>3
<1>10. Nil \in Int /\ Nil < 0
  BY DEF Nil
<1>11. \A p \in 1 .. n : buf[p] = way.dict[p]
  BY DEF StoryOK
<1>12. ASSUME way.how = "load" PROVE IdleStory'
  <2> DEFINE a == d.dictionary
             z == d.dictSize
  <2>1. a \in Nat /\ z \in Nat /\ a + z = n
    BY <1>6, StateIs
  <2>2. ctx'.dictCtx = {} /\ ctx'.dictionary = a /\ ctx'.dictSize = z /\ End(ctx)' = n
    BY <1>6, <1>9, <1>12 DEF End
  <2> HIDE DEF a, z
  <2>3. ASSUME NEW p \in a + 1 .. n
        PROVE  buf'[p] = Said(p + sent - End(ctx))'
    <3>1. /\ p \in 1 .. n /\ ~(p + sent - n > sent) /\ n + (p + sent - n) - sent = p
      <4> HIDE DEF n
      <4> QED BY <1>3, <1>7, <2>1
    <3>2. \A q : Said(q)' = IF q > sent THEN text[q] ELSE way.dict[n + q - sent]
      BY <1>2 DEF Said
    <3>3. (p + sent - End(ctx))' = p + sent - n
      BY <1>2, <2>2
    <3>4. Said(p + sent - End(ctx))' = way.dict[p]
      BY <3>1, <3>2, <3>3
    <3> QED BY <1>2, <1>11, <3>1, <3>4
  <2>4. n <= Len(buf') /\ begun' - Len(way'.dict) <= sent' - ctx'.dictSize
    <3>1. Len(way'.dict) = n
      BY <1>2
    <3> HIDE DEF n
    <3> QED BY <1>2, <1>3, <1>7, <2>1, <2>2, <3>1
  <2>5. sizes' = << >>
    BY <1>2, <1>3
  <2> HIDE DEF n
  <2> QED BY <2>2, <2>3, <2>4, <2>5 DEF IdleStory
<1>13. ASSUME way.how # "load" PROVE IdleStory'
  <2>1. ctx'.dictSize = 0 /\ ctx'.dictionary = Nil /\ End(ctx)' = Nil
    BY <1>9, <1>10, <1>13 DEF End
  <2>2. Nil + 1 .. Nil = {}
    BY <1>10
  <2>3. sent' = begun' /\ begun' - Len(way'.dict) <= sent' - 0 /\ sizes' = << >>
    <3>1. Len(way'.dict) = n
      BY <1>2
    <3> HIDE DEF n
    <3> QED BY <1>2, <1>3, <1>7, <3>1
  <2> QED BY <1>10, <2>1, <2>2, <2>3 DEF IdleStory
<1>14. begun' \in Nat /\ sent' <= Len(text') /\ begun' <= sent' /\ ~Busy'
  BY <1>2, <1>3 DEF StoryOK, Busy
<1> QED BY <1>2, <1>11, <1>12, <1>13, <1>14 DEF StoryOK

LEMMA WriteBlockTells ==
    ASSUME EncInv, ~InBlocks, StoryOK, NEW size \in way.sizes, WriteBlock(size)
    PROVE  StoryOK'
<1> DEFINE n == Len(way.dict)
           N == Len(buf)
<1>1. /\ pc = "idle" /\ sizes = << >> /\ sent + size <= Len(text)
      /\ buf' = [p \in DOMAIN buf |-> IF p - 1 \in at .. at + size - 1
                                    THEN text[sent + p - at] ELSE buf[p]]
      /\ sizes' = << size >>
      /\ UNCHANGED << slots, ctx, job, dst, token, pc, way, text, sent, at, begun >>
  BY DEF WriteBlock, streamvars
<1>2. /\ CoreOK /\ StreamOK /\ buf \in Seq(Nat) /\ StateOK(ctx) /\ DictPlaceOK(ctx)
      /\ way \in Ways /\ Documented(way) /\ sent \in Nat /\ PlaceOK
      /\ N = Extent(way.sender, way.origin, way.ring)
  BY <1>1 DEF EncInv, CoreOK, StreamOK
<1>3. /\ at \in Nat /\ n <= at /\ at + MaxBlock <= N /\ n \in Nat /\ MaxBlock \in Nat
      /\ N \in Nat /\ DOMAIN buf = 1 .. N
      /\ size \in Nat /\ size >= 1 /\ size <= MaxBlock
  <2>1. /\ at \in Nat /\ n <= at /\ at + MaxBlock <= N /\ n \in Nat /\ MaxBlock \in Nat
    BY <1>2, PlaceIs, WayIs
  <2>2. N \in Nat /\ DOMAIN buf = 1 .. N
    BY <1>2, LenProperties
  <2>3. size \in 1 .. MaxBlock
    BY <1>2, WayIs
  <2> HIDE DEF n, N
  <2> QED BY <2>1, <2>2, <2>3
<1>4. IdleStory /\ ~Busy' /\ begun \in Nat /\ begun <= sent
      /\ \A p \in 1 .. n : buf[p] = way.dict[p]
  BY <1>1 DEF StoryOK, Busy
<1> HIDE DEF N
<1>5. ASSUME NEW p \in 1 .. N
      PROVE  /\ p <= at \/ at + size < p => buf'[p] = buf[p]
             /\ at < p /\ p <= at + size => buf'[p] = text[sent + p - at]
  <2>1. buf'[p] = IF p - 1 \in at .. at + size - 1 THEN text[sent + p - at] ELSE buf[p]
    BY <1>1, <1>3
  <2> QED BY <1>3, <2>1
<1>6. \A p \in 1 .. n : buf'[p] = way.dict[p]
  <2> HIDE DEF n
  <2>1. ASSUME NEW p \in 1 .. n PROVE p \in 1 .. N /\ p <= at
    BY <1>3
  <2> QED BY <1>4, <1>5, <2>1
<1>7. /\ ctx.dictionary \in Int /\ ctx.dictSize \in Nat /\ End(ctx) \in Int
      /\ End(ctx) = ctx.dictionary + ctx.dictSize
  BY <1>2, StateIs DEF End
<1>8. End(ctx)' = End(ctx) /\ \A q : Said(q)' = Said(q)
  BY <1>1 DEF End, Said
<1>9. ASSUME NEW p \in ctx.dictionary + 1 .. End(ctx), Aside(p)'
      PROVE  buf'[p] = Said(p + sent - End(ctx))
  <2>1. ctx.dictSize > 0
    BY <1>7
  <2>2. ctx.dictionary \in Nat /\ End(ctx) <= N
    BY <1>2, <1>4, <2>1 DEF IdleStory, DictPlaceOK, N
  <2>3. p \in 1 .. N
    <3> DEFINE a == ctx.dictionary
               e == End(ctx)
    <3>1. a \in Nat /\ e \in Int /\ e <= N /\ p \in a + 1 .. e
      BY <1>7, <2>2
    <3> HIDE DEF a, e
    <3> QED BY <1>3, <3>1
  <2>4. p <= at \/ at + size < p
    <3>1. sizes' # << >> /\ sizes'[1] = size
      BY <1>1
    <3> QED BY <1>1, <1>9, <3>1 DEF Aside
  <2>5. Aside(p)
    BY <1>1 DEF Aside
  <2> QED BY <1>4, <1>5, <2>3, <2>4, <2>5 DEF IdleStory
<1>10. ASSUME NEW p \in at + 1 .. at + size PROVE buf'[p] = text[p + sent - at]
  <2>1. p \in 1 .. N /\ at < p /\ p <= at + size /\ sent + p - at = p + sent - at
    BY <1>2, <1>3
  <2> QED BY <1>5, <2>1
<1>11. sizes' # << >> /\ sizes'[1] = size /\ Len(buf') = N
  <2>1. Len(buf') = N
    BY <1>1, <1>3
  <2> QED BY <1>1, <2>1
<1>12. IdleStory'
  <2>1. \A p \in ctx.dictionary + 1 .. End(ctx) :
          Aside(p)' => buf'[p] = Said(p + sent - End(ctx))
    BY <1>9
  <2>2. \A p \in (ctx.dictionary + 1 .. End(ctx))' :
          Aside(p)' => buf'[p] = Said(p + sent - End(ctx))'
    BY <1>1, <1>8, <2>1
  <2>3. ctx.dictSize > 0 => End(ctx)' <= Len(buf')
    BY <1>4, <1>8, <1>11 DEF IdleStory, N
  <2>4. begun - n <= sent - ctx.dictSize /\ (ctx.dictCtx # {} =>
              sent = begun /\ ctx.dictSize = 0 /\ ctx.dictionary < 0)
    BY <1>4 DEF IdleStory
  <2>5. \A p \in at + 1 .. at + size : buf'[p] = text[p + sent - at]
    BY <1>10
  <2> QED BY <1>1, <1>11, <2>2, <2>3, <2>4, <2>5 DEF IdleStory
<1> QED BY <1>1, <1>4, <1>6, <1>12 DEF StoryOK

(* What a call finds in front of the block, or elsewhere.                  *)
LEMMA RestShows ==
    ASSUME EncInv, ~InBlocks, StoryOK, pc = "idle", sizes # << >>,
           NEW c, StateOK(c), Rest(ctx, at, sizes[1], c)
    PROVE  /\ Shows(c.dictionary, End(c), sent)
           /\ c.dictSize > 0 => End(c) <= Len(buf)
<1>1. IdleStory /\ StateOK(ctx) /\ sent \in Nat /\ begun \in Nat /\ sizes[1] \in Nat
      /\ at \in Nat /\ way \in Ways
  BY SizesOK DEF StoryOK, EncInv, CoreOK, StreamOK, PlaceOK
<1>2. Len(way.dict) \in Nat
  BY <1>1, WayIs
<1> DEFINE a == c.dictionary
           z == c.dictSize
           x == ctx.dictionary
           y == ctx.dictSize
           n == Len(way.dict)
           s == sizes[1]
<1>3. /\ a \in Int /\ z \in Nat /\ x \in Int /\ y \in Nat
      /\ End(c) = a + z /\ End(ctx) = x + y
  BY <1>1, StateIs DEF End
<1>4. /\ z <= y
      /\ z > 0 => /\ a + z = x + y
                  /\ a + z <= at \/ at + s <= a
  BY <1>3 DEF Rest
<1>5. begun - n <= sent - y
  BY <1>1 DEF IdleStory
<1> HIDE DEF a, z, x, y, n, s
<1>6. begun - n <= sent - ((a + z) - a)
  BY <1>1, <1>2, <1>3, <1>4, <1>5 DEF n
<1>7. ASSUME NEW p \in a + 1 .. a + z
      PROVE  buf[p] = Said(p + sent - (a + z))
  <2>1. z > 0
    BY <1>3
  <2>2. a + z = x + y /\ p \in x + 1 .. x + y
    BY <1>3, <1>4, <2>1
  <2>3. p <= at \/ at + s < p
    BY <1>1, <1>3, <1>4, <2>1 DEF s
  <2>4. Aside(p)
    BY <2>3 DEF Aside, s
  <2>5. buf[p] = Said(p + sent - End(ctx))
    BY <1>1, <1>3, <2>2, <2>4 DEF IdleStory, x
  <2> QED BY <1>3, <2>2, <2>5
<1>8. Shows(a, a + z, sent)
  BY <1>6, <1>7 DEF Shows, n
<1>9. z > 0 => End(c) <= Len(buf)
  <2>1. z > 0 => y > 0 /\ End(c) = End(ctx)
    BY <1>3, <1>4
  <2> QED BY <1>1, <2>1 DEF IdleStory, y
<1> QED BY <1>3, <1>8, <1>9 DEF a, z

LEMMA LoadedShows ==
    ASSUME way \in Ways, StoryOK, sent = begun, NEW d, StateOK(d), DictOK(d)
    PROVE  Shows(d.dictionary, End(d), sent)
<1> DEFINE a == d.dictionary
           n == Len(way.dict)
<1>1. /\ begun \in Nat /\ \A p \in 1 .. n : buf[p] = way.dict[p]
      /\ n \in Nat /\ a \in Nat /\ End(d) = n /\ a <= n
  <2>1. begun \in Nat /\ \A p \in 1 .. n : buf[p] = way.dict[p]
    BY DEF StoryOK
  <2>2. n \in Nat /\ d.dictionary \in Nat /\ d.dictSize \in Nat /\ d.dictionary + d.dictSize = n
    BY WayIs, StateIs DEF DictOK
  <2> HIDE DEF n
  <2>3. a <= n /\ End(d) = n
    BY <2>2 DEF End
  <2> QED BY <2>1, <2>2, <2>3
<1> HIDE DEF a
<1>2. begun - n <= sent - (n - a)
  <2> HIDE DEF n
  <2> QED BY <1>1
<1>3. ASSUME NEW p \in a + 1 .. n PROVE buf[p] = Said(p + sent - n)
  <2>1. p \in 1 .. n /\ ~(p + sent - n > begun) /\ n + (p + sent - n) - begun = p
    <3> HIDE DEF n
    <3> QED BY <1>1
  <2> QED BY <1>1, <2>1 DEF Said
<1> QED BY <1>1, <1>2, <1>3 DEF Shows, a

(* The block continues what is in front of it.                             *)
LEMMA BlockShows ==
    ASSUME EncInv, ~InBlocks, StoryOK, pc = "idle", sizes # << >>
    PROVE  /\ Shows(at, at + sizes[1], sent + sizes[1])
           /\ \A a \in Int : Shows(a, at, sent) => Shows(a, at + sizes[1], sent + sizes[1])
<1> DEFINE s == sizes[1]
           n == Len(way.dict)
<1>1. /\ IdleStory /\ sent \in Nat /\ begun \in Nat /\ s \in Nat /\ begun <= sent
      /\ at \in Nat /\ way \in Ways /\ n \in Nat
  BY SizesOK, WayIs DEF StoryOK, EncInv, CoreOK, StreamOK, PlaceOK
<1>2. \A p \in at + 1 .. at + s : buf[p] = text[p + sent - at]
  BY <1>1 DEF IdleStory
<1> HIDE DEF s, n
<1>3. ASSUME NEW p \in at + 1 .. at + s
      PROVE  buf[p] = Said(p + (sent + s) - (at + s))
  <2>1. p + (sent + s) - (at + s) = p + sent - at /\ p + sent - at > begun
    BY <1>1
  <2> QED BY <1>2, <2>1 DEF Said
<1>4. begun - n <= (sent + s) - ((at + s) - at)
  BY <1>1
<1>5. Shows(at, at + s, sent + s)
  BY <1>3, <1>4 DEF Shows, n
<1>6. ASSUME NEW a \in Int, Shows(a, at, sent) PROVE Shows(a, at + s, sent + s)
  <2>1. begun - n <= (sent + s) - ((at + s) - a)
    <3>1. begun - n <= sent - (at - a)
      BY <1>6 DEF Shows, n
    <3> QED BY <1>1, <3>1
  <2>2. ASSUME NEW p \in a + 1 .. at + s PROVE buf[p] = Said(p + (sent + s) - (at + s))
    <3>1. CASE p <= at
      <4>1. p \in a + 1 .. at /\ p + (sent + s) - (at + s) = p + sent - at
        BY <1>1, <3>1
      <4> QED BY <1>6, <4>1 DEF Shows
    <3>2. CASE p > at
      <4>1. p \in at + 1 .. at + s
        BY <1>1, <3>2
      <4> QED BY <1>3, <4>1
    <3> QED BY <1>1, <3>1, <3>2
  <2> QED BY <2>1, <2>2 DEF Shows, n
<1> QED BY <1>5, <1>6 DEF s

LEMMA CallStreamTells ==
    ASSUME EncInv, ~InBlocks, StoryOK, CallStream
    PROVE  StoryOK'
<1>1. /\ pc = "idle" /\ sizes # << >> /\ sent' = sent + sizes[1] /\ sizes' = << >>
      /\ UNCHANGED << buf, way, text, begun, at >>
      /\ \/ \E cap \in {LZ4_compressBound(sizes[1])} \cup way.caps :
                Continue(at, sizes[1], cap)
         \/ way.forced
  BY DEF CallStream
<1>2. /\ CoreOK /\ StreamOK /\ buf \in Seq(Nat) /\ slots \in Nat \ {0} /\ StateOK(ctx)
      /\ way \in Ways /\ Documented(way) /\ sent \in Nat /\ PlaceOK /\ DictPlaceOK(ctx)
      /\ sizes[1] \in 1 .. MaxBlock /\ at \in Nat
      /\ Len(buf) = Extent(way.sender, way.origin, way.ring)
  BY <1>1 DEF EncInv, CoreOK, StreamOK, PlaceOK
<1>3. PICK size \in 1 .. MaxBlock : size = sizes[1]
  BY <1>2
<1>4. PICK cap \in Nat : Continue(at, size, cap)
  <2>1. PICK cap \in {LZ4_compressBound(sizes[1])} \cup way.caps : Continue(at, sizes[1], cap)
    BY <1>1, <1>2 DEF Documented
  <2>2. LZ4_compressBound(sizes[1]) \in Nat /\ way.caps \subseteq Nat
    <3>1. sizes[1] \in Nat
      BY <1>2, SizesOK
    <3> QED BY <1>2, <3>1, BoundIs, WayIs
  <2>3. cap \in Nat
    BY <2>2
  <2> QED BY <1>3, <2>1, <2>3, Zenon
<1>5. PICK b, args : /\ StreamArgs(b, args, size) /\ Compress(b, args)
                     /\ Picked(Prior(ctx, at, size), b, args)
  BY <1>1, <1>2, <1>4, ContinueIs
<1>6. PICK c : c = Prior(ctx, at, size)
  OBVIOUS
<1>7. /\ StateOK(b) /\ ArgsOK(b, args) /\ Fitting(b, args) /\ Picked(c, b, args)
      /\ args.start = at /\ args.size = size /\ args.limit = "limitedOutput"
      /\ args.dict \in {"withPrefix64k", "usingExtDict", "usingDictCtx"}
  BY <1>5, <1>6 DEF StreamArgs
<1>8. Ready(ctx, at, c) /\ Rest(ctx, at, size, c)
  <2>1. ctx.dictSize > 0 =>
              /\ ctx.dictionary \in Nat
              /\ End(ctx) <= at \/ at + MaxBlock < End(ctx)
    BY <1>2, Zenon DEF DictPlaceOK, End
  <2>2. Ready(ctx, at, Prior(ctx, at, size)) /\ Rest(ctx, at, size, Prior(ctx, at, size))
    BY <1>2, <2>1, ReadyIs, Zenon
  <2> QED BY <1>6, <2>2
<1>9. StateOK(c) /\ c.dictCtx = ctx.dictCtx /\ (c.dictSize > 0 => c.dictionary \in Nat)
  BY <1>8 DEF Ready
<1>10. /\ Shows(c.dictionary, End(c), sent)
       /\ c.dictSize > 0 => End(c) <= Len(buf)
  BY <1>1, <1>3, <1>8, <1>9, RestShows
<1>11. /\ c.dictCtx # {} => /\ sent = begun /\ c.dictSize = 0 /\ c.dictionary < 0
  <2>1. ctx.dictCtx # {} => sent = begun /\ ctx.dictSize = 0 /\ ctx.dictionary < 0
    BY <1>1 DEF StoryOK, IdleStory
  <2> QED BY <1>8, <1>9, <2>1 DEF Rest
<1>12. \A d \in c.dictCtx :
          /\ StateOK(d) /\ DictOK(d) /\ d.dictCtx = {}
          /\ Shows(d.dictionary, End(d), sent)
          /\ d.dictionary \in Nat /\ End(d) <= Len(buf)
  <2> SUFFICES ASSUME NEW d \in c.dictCtx
               PROVE  /\ StateOK(d) /\ DictOK(d) /\ d.dictCtx = {}
                      /\ Shows(d.dictionary, End(d), sent)
                      /\ d.dictionary \in Nat /\ End(d) <= Len(buf)
    OBVIOUS
  <2>1. d \in DictStates /\ DictOK(d)
    <3>1. c.dictCtx \subseteq DictStates
      BY <1>9, StateIs
    <3> QED BY <1>9, <3>1 DEF StateOK
  <2>2. StateOK(d) /\ d.dictCtx = {}
    <3>1. StateOK(d)
      BY <1>2, <2>1, DictIsState
    <3> QED BY <2>1, <3>1 DEF DictStates, States
  <2>3. Shows(d.dictionary, End(d), sent)
    <3>1. sent = begun
      BY <1>11
    <3> QED BY <1>2, <2>1, <2>2, <3>1, LoadedShows
  <2>4. d.dictionary \in Nat /\ End(d) <= Len(buf)
    <3> DEFINE n == Len(way.dict)
               N == Len(buf)
    <3>1. /\ d.dictionary \in Nat /\ End(d) = n /\ n <= at /\ at + MaxBlock <= N
          /\ n \in Nat /\ MaxBlock \in Nat /\ at \in Nat /\ N \in Nat
      BY <1>2, <2>1, PlaceIs, WayIs, SizesOK, LenProperties DEF DictOK, End
    <3> HIDE DEF n, N
    <3>2. End(d) <= N
      BY <3>1
    <3> QED BY <3>1, <3>2 DEF N
  <2> QED BY <2>1, <2>2, <2>3, <2>4
<1> DEFINE d == CtxOf(b, args.dict)
<1>13. d = c \/ d \in c.dictCtx
  BY <1>7 DEF Picked, CtxOf
<1>14. /\ StateOK(d) /\ Shows(d.dictionary, End(d), sent)
       /\ d.dictSize > 0 => d.dictionary \in Nat /\ End(d) <= Len(buf)
  BY <1>9, <1>10, <1>12, <1>13
<1>15. /\ job'.size = size /\ job'.dictionary = d.dictionary
       /\ job'.dictEnd = d.dictionary + d.dictSize
  BY <1>5, <1>7, JobIs
<1> HIDE DEF d
<1>16. /\ pc' \in {"done", "last", "search"} /\ Left(b, args, ctx')
  BY <1>1, <1>2, <1>5, <1>7, CompressStarts
<1>17. ctx'.dictCtx = {}
  <2>1. CASE args.dict = "usingDictCtx"
    BY <1>16, <2>1 DEF Left
  <2>2. CASE b \in c.dictCtx /\ args.dict = "usingExtDict"
    BY <1>12, <1>16, <2>2 DEF Left
  <2>3. CASE b = c /\ c.dictCtx = {} /\ args.dict # "usingDictCtx"
    BY <1>16, <2>3 DEF Left
  <2>4. CASE b = c /\ args.dict = "withPrefix64k" /\ c.dictCtx # {}
    <3>1. c.dictSize = 0 /\ c.dictionary < 0 /\ c.dictionary \in Int
      BY <1>9, <1>11, <2>4, StateIs
    <3>2. c.dictionary + c.dictSize = at
      BY <1>7, <2>4 DEF Fitting
    <3> QED BY <1>2, <3>1, <3>2
  <2> QED BY <1>7, <2>1, <2>2, <2>3, <2>4 DEF Picked
<1>18. /\ Shows(ctx'.dictionary, at + size, sent + size)
       /\ ctx'.dictionary + ctx'.dictSize = at + size
  <2>1. /\ Shows(at, at + size, sent + size)
        /\ \A a \in Int : Shows(a, at, sent) => Shows(a, at + size, sent + size)
    BY <1>1, <1>3, BlockShows
  <2>2. CASE args.dict = "withPrefix64k"
    <3>1. b = c
      BY <1>7, <2>2 DEF Picked
    <3>2. ctx'.dictionary = c.dictionary /\ ctx'.dictSize = c.dictSize + size
      BY <1>7, <1>16, <2>2, <3>1 DEF Left
    <3>3. c.dictionary + c.dictSize = at /\ End(c) = at
      BY <1>7, <2>2, <3>1 DEF Fitting, End
    <3>4. c.dictionary \in Int /\ c.dictSize \in Nat
      BY <1>9, StateIs
    <3>5. Shows(c.dictionary, at + size, sent + size)
      BY <1>10, <2>1, <3>3, <3>4
    <3>6. ctx'.dictionary + ctx'.dictSize = at + size
      BY <1>2, <1>3, <3>2, <3>3, <3>4
    <3> QED BY <3>2, <3>5, <3>6
  <2>3. CASE args.dict \in {"usingExtDict", "usingDictCtx"}
    BY <1>7, <1>16, <2>1, <2>3 DEF Left
  <2> QED BY <1>7, <2>2, <2>3
<1>19. /\ begun \in Nat /\ sent + size <= Len(text) /\ begun <= sent
       /\ \A p \in 1 .. Len(way.dict) : buf[p] = way.dict[p]
  BY <1>1, <1>3 DEF StoryOK, IdleStory
<1>20. \A f, e, g : Shows(f, e, g)' <=> Shows(f, e, g)
  BY <1>1 DEF Shows, Said
<1>21. End(ctx)' = at + size /\ sent' = sent + size /\ sent' - job'.size = sent
  BY <1>1, <1>2, <1>3, <1>15, <1>18 DEF End
<1>22. Shows(ctx.dictionary, End(ctx), sent)'
  <2>1. PICK f, e, g : f = ctx'.dictionary /\ e = at + size /\ g = sent + size
    OBVIOUS
  <2>2. Shows(f, e, g)'
    BY <1>18, <1>20, <2>1
  <2> QED BY <1>21, <2>1, <2>2
<1>23. Shows(job.dictionary, job.dictEnd, sent - job.size)'
  <2>1. PICK f, e, g : f = d.dictionary /\ e = End(d) /\ g = sent
    OBVIOUS
  <2>2. Shows(f, e, g)'
    BY <1>14, <1>20, <2>1
  <2>3. job'.dictEnd = e /\ job'.dictionary = f /\ sent' - job'.size = g
    BY <1>15, <1>21, <2>1 DEF End
  <2> QED BY <2>2, <2>3
<1>24. job'.dictEnd > job'.dictionary => job'.dictionary \in Nat /\ job'.dictEnd <= Len(buf')
  <2>1. d.dictionary \in Int /\ d.dictSize \in Nat
    BY <1>14, StateIs
  <2>2. d.dictionary + d.dictSize > d.dictionary => d.dictSize > 0
    BY <2>1
  <2> QED BY <1>1, <1>14, <1>15, <2>2 DEF End
<1>25. BusyStory'
  BY <1>1, <1>17, <1>19, <1>21, <1>22, <1>23, <1>24 DEF BusyStory
<1>26. begun' <= sent'
  BY <1>1, <1>2, <1>3, <1>19
<1> QED BY <1>1, <1>3, <1>16, <1>19, <1>25, <1>26 DEF StoryOK

LEMMA FailedTells ==
    ASSUME EncInv, ~InBlocks, StoryOK, Failed
    PROVE  StoryOK'
<1>1. /\ pc = "done" /\ pc' = "fresh" /\ sent' = sent - job.size
      /\ UNCHANGED << buf, way, text, begun >>
  BY DEF Failed
<1>2. Busy /\ ~Busy'
  BY <1>1 DEF Busy
<1>3. /\ sent \in Nat /\ job.size \in 1 .. MaxBlock /\ text = way.text /\ way \in Ways
  BY <1>2 DEF EncInv, StreamOK
<1>4. sent <= Len(text) /\ Len(text) \in Nat /\ job.size \in Nat
  BY <1>3, WayIs, LenProperties, SizesOK, SMTT(30) DEF StoryOK
<1>5. sent' <= Len(text')
  <2> DEFINE L == Len(text)
  <2>1. sent' = sent - job.size /\ sent <= L /\ L \in Nat /\ Len(text') = L
    BY <1>1, <1>4
  <2> HIDE DEF L
  <2> QED BY <1>3, <1>4, <2>1
<1> QED BY <1>1, <1>2, <1>5 DEF StoryOK

LEMMA ReceivedTells ==
    ASSUME EncInv, ~InBlocks, StoryOK, Received
    PROVE  StoryOK'
<1>1. /\ pc = "done" /\ pc' \in {"idle", "fresh"}
      /\ IF way.sender = "save" THEN SaveDict(0, way.keep) ELSE UNCHANGED << buf, ctx >>
      /\ UNCHANGED << sizes, slots, job, way, text, sent, begun >>
  BY DEF Received
<1>2. /\ CoreOK /\ StreamOK /\ buf \in Seq(Nat) /\ StateOK(ctx)
      /\ way \in Ways /\ Documented(way)
  BY <1>1 DEF EncInv, CoreOK, StreamOK
<1>3. Busy /\ ~Busy'
  BY <1>1 DEF Busy
<1>4. /\ sizes = << >> /\ ctx.dictionary \in Nat /\ ctx.dictionary + ctx.dictSize = iend
      /\ iend <= Len(buf) /\ sent \in Nat /\ job.size \in 1 .. MaxBlock
  BY <1>1, <1>2, <1>3 DEF StreamOK, CoreOK, Begun, JobOK
<1>5. End(ctx) <= Len(buf) /\ ctx.dictSize \in Nat /\ End(ctx) = ctx.dictionary + ctx.dictSize
  BY <1>2, <1>4, StateIs DEF End
<1>6. /\ BusyStory /\ begun \in Nat /\ begun <= sent /\ sent <= Len(text)
      /\ \A p \in 1 .. Len(way.dict) : buf[p] = way.dict[p]
  BY <1>1, <1>3 DEF StoryOK
<1>7. /\ ctx.dictCtx = {} /\ Shows(ctx.dictionary, End(ctx), sent)
  BY <1>6 DEF BusyStory
<1> DEFINE n == Len(way.dict)
           a == ctx.dictionary
           z == ctx.dictSize
<1>8. /\ n \in Nat /\ begun - n <= sent - z
      /\ \A p \in a + 1 .. a + z : buf[p] = Said(p + sent - (a + z))
  <2>1. n \in Nat
    BY <1>2, WayIs
  <2>2. begun - n <= sent - ((a + z) - a)
    BY <1>5, <1>7 DEF Shows
  <2>3. (a + z) - a = z
    BY <1>4, <1>5
  <2> QED BY <1>5, <1>7, <2>1, <2>2, <2>3 DEF Shows
<1> HIDE DEF n
<1>9. CASE way.sender # "save"
  <2>1. buf' = buf /\ ctx' = ctx
    BY <1>1, <1>9
  <2>2. \A q : Said(q)' = Said(q)
    BY <1>1 DEF Said
  <2>3. /\ End(ctx)' = End(ctx) /\ sizes' = << >>
    BY <1>1, <1>4, <2>1 DEF End
  <2>4. IdleStory'
    BY <1>1, <1>5, <1>7, <1>8, <2>1, <2>2, <2>3 DEF IdleStory, n
  <2> QED BY <1>1, <1>3, <1>6, <2>1, <2>4 DEF StoryOK
<1>10. CASE way.sender = "save"
  <2>1. SaveDict(0, way.keep) /\ way.keep \in Nat
    BY <1>1, <1>2, <1>10, WayIs
  <2>2. /\ buf' \in Seq(Nat) /\ Len(buf') = Len(buf)
        /\ StateOK(ctx') /\ ctx'.dictionary = 0 /\ ctx'.dictSize \in 0 .. KB64
        /\ ctx'.dictSize <= ctx.dictSize /\ ctx'.dictCtx = ctx.dictCtx
        /\ \A p \in 1 .. ctx'.dictSize : buf'[p] = buf[p + End(ctx) - ctx'.dictSize]
    BY <1>2, <1>4, <1>5, <2>1, SavedIs
  <2> DEFINE y == ctx'.dictSize
             N == Len(buf)
  <2>3. y \in Nat /\ y <= z /\ N \in Nat /\ a + z <= N
    BY <1>2, <1>5, <2>2, SizesOK, LenProperties
  <2>4. End(ctx)' = y
    BY <2>2, <2>3 DEF End
  <2>5. way.dict = << >> /\ n = 0
    BY <1>2, <1>10, EmptySeq DEF Documented, n
  <2>6. ASSUME NEW p \in 1 .. y PROVE buf'[p] = Said(p + sent - y)
    <3>1. buf'[p] = buf[p + (a + z) - y]
      BY <1>5, <2>2
    <3> HIDE DEF y, a, z, N
    <3>2. p + (a + z) - y \in a + 1 .. a + z
          /\ (p + (a + z) - y) + sent - (a + z) = p + sent - y
      <4>1. a \in Nat /\ z \in Nat
        BY <1>4, <1>5 DEF a, z
      <4> QED BY <1>4, <2>3, <4>1
    <3> QED BY <1>8, <3>1, <3>2
  <2>7. begun - n <= sent - y
    <3> HIDE DEF y
    <3> QED BY <1>4, <1>5, <1>6, <1>8, <2>3
  <2>8. \A q : Said(q)' = Said(q)
    BY <1>1 DEF Said
  <2>9. \A p \in 0 + 1 .. y : buf'[p] = Said(p + sent' - y)
    BY <1>1, <2>6
  <2>10. y > 0 => y <= Len(buf')
    <3>1. a \in Nat /\ z \in Nat /\ Len(buf') = N
      BY <1>4, <1>5, <2>2
    <3> HIDE DEF y, a, z, N
    <3> QED BY <2>3, <3>1
  <2>11. begun' - Len(way'.dict) <= sent' - y
    BY <1>1, <2>7 DEF n
  <2> HIDE DEF a, z, N
  <2>12. IdleStory'
    <3>1. \A p \in (ctx.dictionary + 1 .. End(ctx))' : buf'[p] = Said(p + sent - End(ctx))'
      BY <1>1, <2>2, <2>4, <2>8, <2>9
    <3>2. ctx'.dictSize > 0 => End(ctx)' <= Len(buf')
      BY <2>4, <2>10
    <3>3. sizes' = << >> /\ ctx'.dictCtx = {}
      BY <1>1, <1>4, <1>7, <2>2
    <3> QED BY <2>11, <3>1, <3>2, <3>3 DEF IdleStory
  <2>13. \A p \in 1 .. Len(way'.dict) : buf'[p] = way'.dict[p]
    BY <1>1, <2>5 DEF n
  <2> QED BY <1>1, <1>3, <1>6, <2>12, <2>13 DEF StoryOK
<1> QED BY <1>9, <1>10

LEMMA StoryKept ==
    ASSUME EncInv, ~InBlocks => StoryOK, [Next]_vars
    PROVE  ~InBlocks' => StoryOK'
<1>1. CASE Encode
  <2>1. UNCHANGED << decvars, streamvars >>
    BY <1>1 DEF Encode
  <2>2. InBlocks' <=> InBlocks
    BY <2>1 DEF streamvars, InBlocks
  <2> QED BY <1>1, <2>1, <2>2, LoopTells DEF Encode
<1>2. CASE StartDecode \/ Decode \/ UNCHANGED vars
  <2>1. UNCHANGED << encvars, way, text, begun, sent, at >>
    BY <1>2 DEF StartDecode, Decode, streamvars, vars
  <2>2. InBlocks' <=> InBlocks
    BY <2>1 DEF InBlocks
  <2> QED BY <2>1, <2>2, StoryStays
<1>3. CASE NextBlock
  BY <1>3 DEF NextBlock, InBlocks, streamvars
<1>4. CASE ~InBlocks /\ StreamNext
  <2>1. CASE Begin
    BY <1>4, <2>1, BeginTells
  <2>2. CASE CallStream
    BY <1>4, <2>2, CallStreamTells
  <2>3. CASE Receive
    <3>1. UNCHANGED << encvars, way, text, begun, sent, at >>
      BY <2>3 DEF Receive
    <3> QED BY <1>4, <3>1, StoryStays
  <2>4. CASE Received
    BY <1>4, <2>4, ReceivedTells
  <2>5. CASE Failed
    BY <1>4, <2>5, FailedTells
  <2>6. CASE \E size \in way.sizes : WriteBlock(size)
    BY <1>4, <2>6, WriteBlockTells
  <2> QED BY <1>4, <2>1, <2>2, <2>3, <2>4, <2>5, <2>6 DEF StreamNext
<1> QED BY <1>1, <1>2, <1>3, <1>4 DEF Next

(* The end of the dictionary and the text, byte by byte.                   *)
LEMMA HistoryIs ==
    ASSUME way \in Ways, text \in Seq(Nat), begun \in Nat, NEW e \in Nat, begun <= e,
           e <= Len(text)
    PROVE  /\ History(e) \in Seq(Nat)
           /\ Len(History(e)) = Len(way.dict) + (e - begun)
           /\ \A k \in 1 .. Len(way.dict) + (e - begun) :
                 History(e)[k] = Said(k + begun - Len(way.dict))
<1> DEFINE d == way.dict
           n == Len(d)
           u == begun + 1
           s == SubSeq(text, u, e)
           h == d \o s
           L == Len(text)
<1>1. d \in Seq(Nat) /\ n \in Nat /\ L \in Nat
  BY WayIs, LenProperties
<1>2. \A i \in u .. e : text[i] \in Nat
  <2>0. e <= L
    OBVIOUS
  <2>1. ASSUME NEW i \in u .. e PROVE i \in 1 .. L
    <3> HIDE DEF L
    <3> QED BY <1>1, <2>0, <2>1
  <2> QED BY <2>1, ElementOfSeq
<1>3. u \in Int /\ (IF u <= e THEN e - u + 1 ELSE 0) = e - begun /\ e - u + 1 = e - begun
  OBVIOUS
<1>4. /\ s \in Seq(Nat) /\ Len(s) = e - begun
      /\ \A i \in 1 .. e - begun : s[i] = text[u + i - 1]
  <2> HIDE DEF u
  <2>1. /\ s \in Seq(Nat) /\ Len(s) = IF u <= e THEN e - u + 1 ELSE 0
        /\ \A i \in 1 .. e - u + 1 : s[i] = text[u + i - 1]
    BY <1>2, <1>3, SubSeqProperties
  <2> QED BY <1>3, <2>1
<1> HIDE DEF s, d
<1>5. /\ h \in Seq(Nat) /\ Len(h) = n + (e - begun)
      /\ \A k \in 1 .. n + (e - begun) : h[k] = IF k <= n THEN d[k] ELSE s[k - n]
  <2>1. /\ h \in Seq(Nat) /\ Len(h) = Len(d) + Len(s)
        /\ \A k \in 1 .. Len(d) + Len(s) : h[k] = IF k <= Len(d) THEN d[k] ELSE s[k - Len(d)]
    BY <1>1, <1>4, ConcatProperties, ZenonT(30)
  <2> HIDE DEF h
  <2> QED BY <1>4, <2>1
<1>6. History(e) = h
  BY DEF History, s, d
<1> HIDE DEF h, n
<1>7. ASSUME NEW k \in 1 .. n + (e - begun)
      PROVE  h[k] = Said(k + begun - n)
  <2>1. CASE k <= n
    <3>1. ~(k + begun - n > begun) /\ n + (k + begun - n) - begun = k
      BY <1>1, <2>1
    <3>2. Said(k + begun - n) = d[n + (k + begun - n) - begun]
      BY <3>1 DEF Said, d, n
    <3> QED BY <1>5, <2>1, <3>1, <3>2
  <2>2. CASE k > n
    <3>1. k + begun - n > begun /\ k - n \in 1 .. e - begun /\ u + (k - n) - 1 = k + begun - n
          /\ ~(k <= n)
      BY <1>1, <2>2
    <3>2. s[k - n] = text[k + begun - n]
      BY <1>4, <3>1
    <3>3. Said(k + begun - n) = text[k + begun - n]
      BY <3>1 DEF Said
    <3> QED BY <1>5, <3>1, <3>2, <3>3
  <2> QED BY <1>1, <2>1, <2>2
<1> QED BY <1>5, <1>6, <1>7 DEF n, d

LEMMA StoryGives ==
    ASSUME EncInv, ~InBlocks => StoryOK
    PROVE  HistoryKept
<1> SUFFICES ASSUME Compressing, ~InBlocks PROVE HistoryKept
  BY DEF HistoryKept
<1> DEFINE e == sent - job.size
           D == job.dictionary
           E == job.dictEnd
           m == E - D
           h == History(e)
           n == Len(way.dict)
           L == Len(h)
           N == Len(buf)
<1>1. Busy /\ pc # "fresh"
  BY DEF Compressing, Busy
<1>2. /\ CoreOK /\ StreamOK /\ buf \in Seq(Nat) /\ way \in Ways /\ JobOK
      /\ text = way.text /\ sent \in Nat /\ job.size <= sent /\ job.size \in Nat
  BY <1>1 DEF EncInv, CoreOK, StreamOK, Begun, JobOK
<1>3. /\ BusyStory /\ begun \in Nat /\ sent <= Len(text)
  BY <1>1 DEF StoryOK
<1>4. e \in Nat /\ begun <= e /\ e <= Len(text) /\ text \in Seq(Nat)
  <2> DEFINE T == Len(text)
  <2>1. text \in Seq(Nat)
    BY <1>2, WayIs
  <2>2. T \in Nat /\ sent <= T
    BY <1>3, <2>1, LenProperties
  <2>3. begun <= e
    BY <1>3 DEF BusyStory
  <2> HIDE DEF T
  <2>4. e \in Nat /\ e <= T
    BY <1>2, <2>2
  <2> QED BY <2>1, <2>3, <2>4 DEF T
<1>5. D \in Int /\ E \in Int /\ m \in Int /\ n \in Nat /\ N \in Nat
  BY <1>2, WayIs, LenProperties, SMTT(30) DEF JobOK
<1>6. /\ begun - n <= e - m
      /\ \A p \in D + 1 .. E : buf[p] = Said(p + e - E)
      /\ m > 0 => D \in Nat /\ E <= N
  <2>1. E > D => D \in Nat /\ E <= N
    BY <1>3 DEF BusyStory
  <2>2. Shows(D, E, e)
    BY <1>3 DEF BusyStory
  <2>3. m > 0 => E > D
    BY <1>5
  <2> HIDE DEF e
  <2> QED BY <2>1, <2>2, <2>3 DEF Shows
<1> HIDE DEF e
<1>7. /\ h \in Seq(Nat) /\ L = n + (e - begun)
      /\ \A k \in 1 .. n + (e - begun) : h[k] = Said(k + begun - n)
  BY <1>2, <1>3, <1>4, HistoryIs
<1> HIDE DEF h, n, L, N, D, E
<1>8. L \in Nat /\ m <= L
  BY <1>3, <1>4, <1>5, <1>6, <1>7
<1> DEFINE s == SubSeq(buf, D + 1, E)
           t == SubSeq(h, L - m + 1, L)
<1>9. s = t
  <2>1. CASE m <= 0
    <3>1. s = << >>
      <4>1. D + 1 \in Int /\ E < D + 1
        BY <1>5, <2>1
      <4> QED BY <1>5, <4>1, SubSeqEmpty
    <3>2. t = << >>
      <4>1. L - m + 1 \in Int /\ L \in Int /\ L < L - m + 1
        BY <1>5, <1>8, <2>1
      <4> HIDE DEF m
      <4> QED BY <4>1, SubSeqEmpty
    <3> QED BY <3>1, <3>2
  <2>2. CASE m > 0
    <3> DEFINE u == D + 1
               v == L - m + 1
    <3>1. /\ u \in Int /\ v \in Int /\ L \in Int
          /\ (IF u <= E THEN E - u + 1 ELSE 0) = m /\ E - u + 1 = m
          /\ (IF v <= L THEN L - v + 1 ELSE 0) = m /\ L - v + 1 = m
      BY <1>5, <1>8, <2>2
    <3>2. \A i \in u .. E : buf[i] \in Nat
      <4>1. ASSUME NEW i \in u .. E PROVE i \in 1 .. N
        BY <1>5, <1>6, <2>2, <4>1
      <4> QED BY <1>2, <4>1, ElementOfSeq DEF N
    <3>3. \A i \in v .. L : h[i] \in Nat
      <4>1. ASSUME NEW i \in v .. L PROVE i \in 1 .. L
        BY <1>5, <1>8, <2>2, <4>1
      <4> QED BY <1>7, <4>1, ElementOfSeq DEF L
    <3> HIDE DEF u, v
    <3>4. /\ SubSeq(buf, u, E) \in Seq(Nat)
          /\ Len(SubSeq(buf, u, E)) = IF u <= E THEN E - u + 1 ELSE 0
          /\ \A i \in 1 .. E - u + 1 : SubSeq(buf, u, E)[i] = buf[u + i - 1]
      BY <1>5, <3>1, <3>2, SubSeqProperties
    <3>5. /\ SubSeq(h, v, L) \in Seq(Nat)
          /\ Len(SubSeq(h, v, L)) = IF v <= L THEN L - v + 1 ELSE 0
          /\ \A i \in 1 .. L - v + 1 : SubSeq(h, v, L)[i] = h[v + i - 1]
      BY <3>1, <3>3, SubSeqProperties
    <3>6. s = SubSeq(buf, u, E) /\ t = SubSeq(h, v, L)
      BY DEF u, v
    <3> HIDE DEF s, t
    <3>7. /\ s \in Seq(Nat) /\ t \in Seq(Nat) /\ Len(s) = m /\ Len(t) = m
          /\ \A i \in 1 .. m : s[i] = buf[u + i - 1] /\ t[i] = h[v + i - 1]
      BY <3>1, <3>4, <3>5, <3>6
    <3> HIDE DEF m
    <3>8. m \in Nat /\ m = E - D
      BY <1>5, <2>2 DEF m
    <3>9. ASSUME NEW i \in 1 .. m PROVE s[i] = t[i]
      <4>1. /\ u + i - 1 \in D + 1 .. E /\ v + i - 1 \in 1 .. n + (e - begun)
            /\ (u + i - 1) + e - E = (v + i - 1) + begun - n
        BY <1>3, <1>4, <1>5, <1>7, <1>8, <3>8 DEF u, v
      <4>2. buf[u + i - 1] = Said((u + i - 1) + e - E)
        BY <1>6, <4>1
      <4>3. h[v + i - 1] = Said((v + i - 1) + begun - n)
        BY <1>7, <4>1
      <4> QED BY <3>7, <4>1, <4>2, <4>3
    <3> QED BY <3>7, <3>9, SeqEqual
  <2> HIDE DEF s, t, m
  <2> QED BY <1>5, <2>1, <2>2
<1> QED BY <1>8, <1>9 DEF HistoryKept, Ending, L, h, e, D, E

(* Whatever memory the blocks came through, what the compressor takes for  *)
(* the dictionary is the end of what the receiver decoded (lz4.c:1165,     *)
(* 1188, 1247): in every ring, with two buffers and with a saved piece, as *)
(* lz4.h:279 has it, of every size and for every message.                  *)
THEOREM HistoryStays ==
    Spec /\ (InBlocks \/ Documented(way)) => []HistoryKept
<1> DEFINE Story == EncInv /\ (~InBlocks => StoryOK)
<1>1. Init /\ (InBlocks \/ Documented(way)) => Story
  BY InvStarts, StoryStarts DEF Init, BlocksInit, InBlocks
<1>2. Story /\ [Next]_vars => Story'
  BY InvKept, StoryKept
<1>3. Story => HistoryKept
  BY StoryGives
<1> HIDE DEF Story
<1> QED BY <1>1, <1>2, <1>3, PTL DEF Spec
-----------------------------------------------------------------------------
(* The bytes of the block that is being compressed.                        *)
Source == [j \in Int |-> B(Start + j)]

(* No match starts in the last MFLIMIT bytes of the block; and where dst   *)
(* is to be filled the last sequence leaves room for eight literals, or    *)
(* is long itself.                                                         *)
Apart(z, q, e, a, j) ==
    /\ z.from + q.lits + 12 <= j.size
    /\ j.limit = "fillOutput" =>
          q.len >= 19 \/ z.from + q.lits + q.len < a \/ e + 9 <= j.cap

(* The sequences of c up to e tell a bytes of r.                           *)
Goes(M, c, r, e, a, j) ==
    /\ e \in Nat /\ a \in Nat
    /\ [at |-> 0, from |-> 0] \in M
    /\ \A z \in M :
          /\ z.at \in Nat /\ z.from \in Nat /\ z.at <= e /\ z.from <= a
          /\ \/ z.at = e /\ z.from = a
             \/ \E q : /\ Sequence(c, r, z.at, z.from, q)
                       /\ NextMark(z, q) \in M /\ Apart(z, q, e, a, j)

(* Two outputs are the same up to e.                                       *)
Same(c, d, e) == \A k \in 1 .. e : d[k] = c[k]

(* ... and between two places.                                             *)
SameFrom(c, d, p, e) == \A k \in p + 1 .. e : d[k] = c[k]

LEMMA ExtendedStays ==
    ASSUME NEW c, NEW d, NEW e \in Nat, NEW p \in Nat, SameFrom(c, d, p, e), NEW n \in Nat,
           p + Extras(n) <= e, Extended(c, p, n)
    PROVE  Extended(d, p, n)
<1> SUFFICES ASSUME n >= 15
             PROVE  /\ \A k \in 1 .. Extras(n) - 1 : d[p + k] = 255
                    /\ d[p + Extras(n)] = (n - 15) % 255
  BY DEF Extended
<1>1. (\A k \in 1 .. Extras(n) - 1 : c[p + k] = 255) /\ c[p + Extras(n)] = (n - 15) % 255
  BY DEF Extended
<1>2. Extras(n) \in Nat /\ Extras(n) >= 1
  BY ExtrasTell
<1> DEFINE x == Extras(n)
<1>3. \A k \in 1 .. x : p + k \in p + 1 .. e
  <2> HIDE DEF x
  <2> QED BY <1>2 DEF x
<1>4. \A k \in 1 .. x : d[p + k] = c[p + k]
  BY <1>3 DEF SameFrom
<1> HIDE DEF x
<1>5. x \in 1 .. x /\ \A k \in 1 .. x - 1 : k \in 1 .. x
  BY <1>2 DEF x
<1> QED BY <1>1, <1>4, <1>5 DEF x

LEMMA LiterallyStays ==
    ASSUME NEW c, NEW d, NEW r, NEW e \in Nat, NEW p \in Nat, SameFrom(c, d, p + 1, e),
           NEW a, NEW n \in Nat, OffsetAt(p, n) <= e, Literally(c, r, p, a, n)
    PROVE  Literally(d, r, p, a, n)
<1> DEFINE x == Extras(n)
<1>1. x \in Nat /\ p + 1 + x + n <= e
  BY ExtrasAre DEF OffsetAt
<1>2. Extended(c, p + 1, n) /\ \A k \in 1 .. n : c[p + 1 + x + k] = r[a + k - 1]
  BY DEF Literally
<1>3. Extended(d, p + 1, n)
  <2> DEFINE s == p + 1
  <2>1. s \in Nat /\ s + x <= e
    BY <1>1
  <2> HIDE DEF s
  <2>2. SameFrom(c, d, s, e) /\ Extended(c, s, n)
    BY <1>2 DEF s
  <2>3. Extended(d, s, n)
    BY <2>1, <2>2, ExtendedStays
  <2> QED BY <2>3 DEF s
<1> HIDE DEF x
<1>4. \A k \in 1 .. n : p + 1 + x + k \in (p + 1) + 1 .. e
  BY <1>1
<1>5. \A k \in 1 .. n : d[p + 1 + x + k] = r[a + k - 1]
  BY <1>2, <1>4 DEF SameFrom
<1> QED BY <1>3, <1>5 DEF Literally, x

LEMMA SequenceStays ==
    ASSUME NEW c, NEW d, NEW r, NEW e \in Nat, Same(c, d, e), NEW p \in Nat, NEW a,
           NEW q, Sequence(c, r, p, a, q),
           OffsetAt(p, q.lits) + 2 + Extras(q.len - 4) <= e
    PROVE  Sequence(d, r, p, a, q)
<1> DEFINE o == OffsetAt(p, q.lits)
           x == Extras(q.len - 4)
           l == q.lits
           v == q.len - 4
<1>1. l \in Nat /\ v \in Nat /\ o + 2 + x <= e
  BY DEF Sequence
<1>2. x \in Nat /\ o \in Nat /\ o > p /\ o = OffsetAt(p, l) /\ x = Extras(v)
  BY <1>1, ExtrasAre DEF OffsetAt
<1>3. /\ Literally(c, r, p, a, l) /\ Extended(c, o + 2, v)
      /\ q.lits \in Nat /\ q.len \in Nat /\ q.len >= 4 /\ q.off \in 1 .. a + q.lits
      /\ c[p + 1] = 16 * Nibble(q.lits) + Nibble(q.len - 4)
      /\ c[o + 1] = q.off % 256 /\ c[o + 2] = q.off \div 256
      /\ Repeats(r, a + q.lits, a + q.lits + q.len, q.off)
  BY DEF Sequence
<1>0. l = q.lits /\ v = q.len - 4 /\ o = OffsetAt(p, q.lits)
  OBVIOUS
<1> HIDE DEF o, x, l, v
<1>4. o <= e /\ o + 2 \in Nat /\ o + 1 \in 1 .. e /\ o + 2 \in 1 .. e
  BY <1>1, <1>2
<1>5. Literally(d, r, p, a, l) /\ d[p + 1] = c[p + 1]
  <2>1. SameFrom(c, d, p + 1, e) /\ d[p + 1] = c[p + 1]
    <3>1. \A k \in (p + 1) + 1 .. e : k \in 1 .. e
      OBVIOUS
    <3>2. p + 1 \in 1 .. e
      BY <1>2, <1>4
    <3> QED BY <3>1, <3>2 DEF Same, SameFrom
  <2> QED BY <1>1, <1>2, <1>3, <1>4, <2>1, LiterallyStays
<1>6. Extended(d, o + 2, v)
  <2> DEFINE s == o + 2
  <2>1. s \in Nat /\ s + x <= e /\ Extended(c, s, v)
    BY <1>1, <1>3, <1>4
  <2> HIDE DEF s
  <2>2. SameFrom(c, d, s, e)
    <3>1. \A k \in s + 1 .. e : k \in 1 .. e
      BY <2>1
    <3> QED BY <3>1 DEF Same, SameFrom
  <2>3. Extended(d, s, v)
    BY <1>1, <1>2, <2>1, <2>2, ExtendedStays
  <2> QED BY <2>3 DEF s
<1>7. d[o + 1] = c[o + 1] /\ d[o + 2] = c[o + 2]
  BY <1>4 DEF Same
<1> QED BY <1>0, <1>3, <1>5, <1>6, <1>7, Zenon DEF Sequence

LEMMA GoesStays ==
    ASSUME NEW M, NEW c, NEW d, NEW r, NEW e, NEW a, NEW j, Goes(M, c, r, e, a, j),
           Same(c, d, e)
    PROVE  Goes(M, d, r, e, a, j)
<1>1. e \in Nat /\ a \in Nat /\ [at |-> 0, from |-> 0] \in M
  BY DEF Goes
<1>2. ASSUME NEW z \in M
      PROVE  /\ z.at \in Nat /\ z.from \in Nat /\ z.at <= e /\ z.from <= a
             /\ \/ z.at = e /\ z.from = a
                \/ \E q : /\ Sequence(d, r, z.at, z.from, q)
                          /\ NextMark(z, q) \in M /\ Apart(z, q, e, a, j)
  <2>1. z.at \in Nat /\ z.from \in Nat /\ z.at <= e /\ z.from <= a
    BY DEF Goes
  <2>2. CASE z.at = e /\ z.from = a
    BY <2>1, <2>2
  <2>3. CASE ~(z.at = e /\ z.from = a)
    <3>1. PICK q : /\ Sequence(c, r, z.at, z.from, q)
                   /\ NextMark(z, q) \in M /\ Apart(z, q, e, a, j)
      BY <2>3, Zenon DEF Goes
    <3> DEFINE y == NextMark(z, q)
    <3>2. y.at <= e
      <4> HIDE DEF y
      <4>1. y \in M
        BY <3>1 DEF y
      <4> QED BY <4>1, Zenon DEF Goes
    <3>3. OffsetAt(z.at, q.lits) + 2 + Extras(q.len - 4) <= e
      BY <3>2 DEF NextMark
    <3>4. PICK p, f : p = z.at /\ f = z.from
      OBVIOUS
    <3>5. p \in Nat /\ Sequence(c, r, p, f, q) /\ OffsetAt(p, q.lits) + 2 + Extras(q.len - 4) <= e
      BY <2>1, <3>1, <3>3, <3>4
    <3>6. Sequence(d, r, p, f, q)
      BY <1>1, <3>5, SequenceStays
    <3> QED BY <2>1, <3>1, <3>4, <3>6
  <2> QED BY <2>2, <2>3
<1> QED BY <1>1, <1>2, Zenon DEF Goes

(* One output behind another.                                              *)
Chain(s, t, w) ==
    /\ w \in Seq(Int) /\ Len(w) = Len(s) + Len(t)
    /\ \A k \in 1 .. Len(s) : w[k] = s[k]
    /\ \A k \in 1 .. Len(t) : w[Len(s) + k] = t[k]

LEMMA ChainIs ==
    ASSUME NEW s \in Seq(Int), NEW t \in Seq(Int)
    PROVE  Chain(s, t, s \o t)
<1> DEFINE m == Len(s)
           n == Len(t)
           w == s \o t
<1>1. m \in Nat /\ n \in Nat
  BY LenProperties
<1>2. /\ w \in Seq(Int) /\ Len(w) = m + n
      /\ \A k \in 1 .. m + n : w[k] = IF k <= m THEN s[k] ELSE t[k - m]
  <2>1. s \in Seq(Int) /\ t \in Seq(Int)
    OBVIOUS
  <2> QED BY ONLY <2>1, ConcatProperties
<1> HIDE DEF w, m, n
<1>3. ASSUME NEW k \in 1 .. m PROVE w[k] = s[k]
  <2>1. k \in 1 .. m + n /\ k <= m
    BY <1>1
  <2> QED BY <1>2, <2>1
<1>4. ASSUME NEW k \in 1 .. n PROVE w[m + k] = t[k]
  <2>1. m + k \in 1 .. m + n /\ ~(m + k <= m) /\ (m + k) - m = k
    BY <1>1
  <2> QED BY <1>2, <2>1
<1> QED BY <1>2, <1>3, <1>4, Zenon DEF Chain, w, m, n

(* What a put length looks like, byte by byte.                             *)
LEMMA RunHeadTells ==
    ASSUME NEW n \in Nat
    PROVE  /\ RunHead(n)[1] = 16 * Nibble(n)
           /\ n >= 15 => /\ \A k \in 1 .. Extras(n) - 1 : RunHead(n)[1 + k] = 255
                         /\ RunHead(n)[1 + Extras(n)] = (n - 15) % 255
<1>1. CASE n < 15
  <2>1. RunHead(n) = << n * 16 >>
    BY <1>1 DEF RunHead, RUN_MASK
  <2>2. Nibble(n) = n /\ n * 16 = 16 * n /\ ~(n >= 15)
    BY <1>1 DEF Nibble
  <2> QED BY <2>1, <2>2
<1>2. CASE n >= 15
  <2> DEFINE m == n - 15
             s == << 240 >>
             t == LengthBytes(m)
             q == m \div 255
             w == m % 255
  <2>1. RunHead(n) = s \o t
    BY <1>2 DEF RunHead, RUN_MASK
  <2>2. m \in Nat
    BY <1>2
  <2>3. /\ t \in Seq(Int) /\ Len(t) = q + 1
        /\ \A k \in 1 .. q : t[k] = 255
        /\ t[q + 1] = w
    <3> HIDE DEF m
    <3> QED BY <2>2, LengthBytesAre
  <2>4. s \in Seq(Int) /\ Len(s) = 1 /\ s[1] = 240
    OBVIOUS
  <2>5. q \in Nat /\ Extras(n) = q + 1
    <3>1. Extras(n) = m \div 255 + 1
      BY <1>2, RunHeadIs
    <3> QED BY <2>2, <3>1
  <2> HIDE DEF s, t, q, w
  <2> DEFINE h == RunHead(n)
  <2>6. Chain(s, t, h)
    BY <2>1, <2>3, <2>4, ChainIs
  <2> HIDE DEF h
  <2>7. \A k \in 1 .. 1 : h[k] = s[k]
    BY <2>4, <2>6, Zenon DEF Chain
  <2>8. h[1] = 240
    BY <2>4, <2>7
  <2>9. \A k \in 1 .. q + 1 : h[1 + k] = t[k]
    <3>1. \A k \in 1 .. Len(t) : h[Len(s) + k] = t[k]
      BY <2>6 DEF Chain
    <3> QED BY <2>3, <2>4, <3>1
  <2>10. 16 * Nibble(n) = 240
    BY <1>2 DEF Nibble
  <2>11. /\ \A k \in 1 .. Extras(n) - 1 : h[1 + k] = 255
         /\ h[1 + Extras(n)] = w
    <3>1. \A k \in 1 .. q : k \in 1 .. q + 1
      BY <2>5
    <3>2. q + 1 \in 1 .. q + 1 /\ Extras(n) - 1 = q
      BY <2>5
    <3>3. \A k \in 1 .. q : h[1 + k] = 255
      BY <2>3, <2>9, <3>1
    <3>4. h[1 + (q + 1)] = w
      BY <2>3, <2>9, <3>2
    <3> QED BY <2>5, <3>2, <3>3, <3>4, Zenon
  <2>12. h[1] = 16 * Nibble(n)
    BY <2>8, <2>10
  <2> QED BY <2>11, <2>12, Zenon DEF w, h, m
<1> QED BY <1>1, <1>2

(* What dst has when literals were put behind it.                          *)
LEMMA LiteralsTell ==
    ASSUME buf \in Seq(Nat), dst \in Seq(Int), Start \in Nat,
           NEW p \in Nat, NEW n \in Nat, Start <= p, p + n <= Len(buf)
    PROVE  LET out == dst \o RunHead(n) \o SubSeq(buf, p + 1, p + n)
               D == Len(dst)
           IN  /\ out \in Seq(Int) /\ Same(dst, out, D)
               /\ out[D + 1] = 16 * Nibble(n)
               /\ Literally(out, Source, D, p - Start, n)
               /\ Len(out) = OffsetAt(D, n)
<1> DEFINE head == RunHead(n)
           s == SubSeq(buf, p + 1, p + n)
           b == dst \o head
           out == b \o s
           D == Len(dst)
           x == Extras(n)
<1>1. /\ head \in Seq(Int) /\ Len(head) = 1 + x /\ x \in Nat
      /\ head[1] = 16 * Nibble(n)
      /\ n >= 15 => /\ \A k \in 1 .. x - 1 : head[1 + k] = 255
                    /\ head[1 + x] = (n - 15) % 255 /\ x >= 1
  <2>1. Len(head) = 1 + x /\ head \in Seq(Int) /\ x \in Nat
    BY RunHeadIs
  <2>2. n >= 15 => x >= 1
    BY ExtrasTell
  <2>3. /\ head[1] = 16 * Nibble(n)
        /\ n >= 15 => /\ \A k \in 1 .. x - 1 : head[1 + k] = 255
                      /\ head[1 + x] = (n - 15) % 255
    BY RunHeadTells, Zenon
  <2> QED BY <2>1, <2>2, <2>3, Zenon
<1>2. s \in Seq(Int) /\ Len(s) = n /\ \A k \in 1 .. n : s[k] = B(p + k - 1)
  <2> DEFINE e == p + n
  <2>1. e \in Nat /\ p <= e /\ e <= Len(buf) /\ e - p = n
    OBVIOUS
  <2> HIDE DEF e
  <2>2. /\ SubSeq(buf, p + 1, e) \in Seq(Int) /\ Len(SubSeq(buf, p + 1, e)) = n
        /\ \A k \in 1 .. n : SubSeq(buf, p + 1, e)[k] = B(p + k - 1)
    BY <2>1, PieceOfBuf
  <2> QED BY <2>2 DEF e
<1>3. D \in Nat
  BY LenProperties
<1> HIDE DEF head, s
<1>4. Chain(dst, head, b)
  BY <1>1, ChainIs
<1> HIDE DEF b
<1>5. Chain(b, s, out)
  <2>1. b \in Seq(Int)
    BY <1>4 DEF Chain
  <2> QED BY <1>2, <2>1, ChainIs
<1>6. dst \o RunHead(n) \o SubSeq(buf, p + 1, p + n) = out
  BY DEF b, s, head
<1> HIDE DEF out, D, x
<1>7. /\ Len(b) = D + 1 + x /\ Len(out) = D + 1 + x + n /\ out \in Seq(Int)
      /\ \A k \in 1 .. D : b[k] = dst[k]
      /\ \A k \in 1 .. 1 + x : b[D + k] = head[k]
      /\ \A k \in 1 .. D + 1 + x : out[k] = b[k]
      /\ \A k \in 1 .. n : out[D + 1 + x + k] = s[k]
  <2>1. Len(b) = D + (1 + x) /\ Len(out) = Len(b) + n
    BY <1>1, <1>2, <1>4, <1>5 DEF Chain, D
  <2>2. Len(b) = D + 1 + x /\ Len(out) = D + 1 + x + n
    BY <1>1, <1>3, <2>1
  <2>3. /\ \A k \in 1 .. D : b[k] = dst[k]
        /\ \A k \in 1 .. Len(head) : b[D + k] = head[k]
        /\ \A k \in 1 .. Len(b) : out[k] = b[k]
        /\ \A k \in 1 .. Len(s) : out[Len(b) + k] = s[k]
        /\ out \in Seq(Int)
    BY <1>4, <1>5, Zenon DEF Chain, D
  <2>4. Len(head) = 1 + x /\ Len(s) = n
    BY <1>1, <1>2
  <2> QED BY <2>2, <2>3, <2>4, Zenon
<1>8. \A k \in 1 .. D : out[k] = dst[k]
  <2>1. \A k \in 1 .. D : k \in 1 .. D + 1 + x
    BY <1>1, <1>3
  <2> QED BY <1>7, <2>1
<1>9. \A k \in 1 .. 1 + x : out[D + k] = head[k]
  <2>1. \A k \in 1 .. 1 + x : D + k \in 1 .. D + 1 + x
    BY <1>1, <1>3
  <2> QED BY <1>7, <2>1
<1>10. \A k \in 1 .. n : out[D + 1 + x + k] = B(p + k - 1)
  BY <1>2, <1>7
<1>11. \A k \in 1 .. n : Source[p - Start + k - 1] = B(p + k - 1)
  <2>1. ASSUME NEW k \in 1 .. n PROVE Source[p - Start + k - 1] = B(p + k - 1)
    <3>1. p - Start + k - 1 \in Int /\ Start + (p - Start + k - 1) = p + k - 1
      OBVIOUS
    <3> QED BY <3>1 DEF Source
  <2> QED BY <2>1
<1>12. out[D + 1] = 16 * Nibble(n)
  <2>1. 1 \in 1 .. 1 + x
    BY <1>1
  <2> QED BY <1>1, <1>9, <2>1
<1>13. Extended(out, D + 1, n)
  <2> SUFFICES ASSUME n >= 15
               PROVE  /\ \A k \in 1 .. x - 1 : out[D + 1 + k] = 255
                      /\ out[D + 1 + x] = (n - 15) % 255
    BY DEF Extended, x
  <2>1. \A k \in 1 .. x : 1 + k \in 1 .. 1 + x /\ D + (1 + k) = D + 1 + k
    BY <1>1, <1>3
  <2>2. \A k \in 1 .. x : out[D + 1 + k] = head[1 + k]
    BY <1>9, <2>1
  <2>3. x \in 1 .. x /\ \A k \in 1 .. x - 1 : k \in 1 .. x
    BY <1>1
  <2>4. (\A k \in 1 .. x - 1 : head[1 + k] = 255) /\ head[1 + x] = (n - 15) % 255
    BY <1>1
  <2>5. \A k \in 1 .. x - 1 : out[D + 1 + k] = 255
    <3>1. ASSUME NEW k \in 1 .. x - 1 PROVE out[D + 1 + k] = 255
      <4>1. k \in 1 .. x /\ head[1 + k] = 255
        BY <2>3, <2>4
      <4> QED BY <2>2, <4>1
    <3> QED BY <3>1
  <2>6. out[D + 1 + x] = (n - 15) % 255
    BY <2>2, <2>3, <2>4, Zenon
  <2> QED BY <2>5, <2>6
<1>14. Literally(out, Source, D, p - Start, n)
  BY <1>10, <1>11, <1>13, Zenon DEF Literally, x
<1>15. Len(out) = OffsetAt(D, n)
  BY <1>7 DEF OffsetAt, x
<1>16. Same(dst, out, D)
  BY <1>8 DEF Same
<1> QED BY <1>6, <1>7, <1>12, <1>14, <1>15, <1>16 DEF D

(* What dst has when a match was put behind the literals of its sequence,  *)
(* whose token had h as its high nibble.                                   *)
PutBehind(code, off, h) ==
    LET out == MatchOut(code, off)
        D == Len(dst)
    IN  /\ out \in Seq(Int) /\ Len(out) = D + 2 + Extras(code)
        /\ out[token + 1] = 16 * h + Nibble(code)
        /\ \A k \in 1 .. D : k # token + 1 => out[k] = dst[k]
        /\ out[D + 1] = off % 256 /\ out[D + 2] = off \div 256
        /\ Extended(out, D + 2, code)

LEMMA MatchTells ==
    ASSUME dst \in Seq(Int), token \in Nat, token < Len(dst), NEW code \in Nat,
           NEW off \in Int, NEW h \in Nat, dst[token + 1] = 16 * h
    PROVE  PutBehind(code, off, h)
<1> DEFINE v == dst[token + 1] + Min({code, ML_MASK})
           d == [dst EXCEPT ![token + 1] = v]
           o == << off % 256, off \div 256 >>
           t == IF code >= ML_MASK THEN LengthBytes(code - ML_MASK) ELSE << >>
           D == Len(dst)
           x == Extras(code)
<1>1. v = 16 * h + Nibble(code) /\ v \in Int
  <2>1. Min({code, ML_MASK}) = Nibble(code)
    <3>1. {code, ML_MASK} \subseteq Nat /\ {code, ML_MASK} # {}
      BY DEF ML_MASK
    <3>2. /\ Min({code, ML_MASK}) \in {code, ML_MASK}
          /\ \A y \in {code, ML_MASK} : Min({code, ML_MASK}) <= y
      BY <3>1, LeastTaken, Zenon
    <3> QED BY <3>2 DEF ML_MASK, Nibble
  <2>2. Nibble(code) \in Nat
    BY DEF Nibble
  <2> QED BY <2>1, <2>2
<1>2. D \in Nat /\ token + 1 \in 1 .. D
  BY LenProperties
<1>3. /\ d \in Seq(Int) /\ Len(d) = D
      /\ \A k \in 1 .. D : d[k] = IF k = token + 1 THEN v ELSE dst[k]
  <2> HIDE DEF v
  <2> QED BY <1>1, <1>2, ExceptSeq
<1>4. o \in Seq(Int) /\ Len(o) = 2 /\ o[1] = off % 256 /\ o[2] = off \div 256
  <2>1. off % 256 \in Int /\ off \div 256 \in Int
    OBVIOUS
  <2> QED BY <2>1
<1>5. /\ t \in Seq(Int) /\ Len(t) = x /\ x \in Nat
      /\ code >= 15 => /\ \A k \in 1 .. x - 1 : t[k] = 255
                       /\ t[x] = (code - 15) % 255 /\ x >= 1
  <2>1. CASE code >= 15
    <3> DEFINE m == code - 15
    <3>1. m \in Nat /\ t = LengthBytes(m)
      BY <2>1 DEF ML_MASK
    <3>2. x = m \div 255 + 1
      BY <2>1, RunHeadIs
    <3>3. m \div 255 \in Nat
      BY <3>1
    <3> DEFINE w == m % 255
               q == m \div 255
    <3>4. /\ LengthBytes(m) \in Seq(Int) /\ Len(LengthBytes(m)) = q + 1
          /\ \A k \in 1 .. q : LengthBytes(m)[k] = 255
          /\ LengthBytes(m)[q + 1] = w
      <4> HIDE DEF m
      <4> QED BY <3>1, LengthBytesAre
    <3> HIDE DEF w, q, t
    <3>5. q \in Nat /\ x = q + 1
      BY <3>2, <3>3 DEF q
    <3> HIDE DEF x
    <3>6. t \in Seq(Int) /\ Len(t) = x /\ x \in Nat /\ x >= 1 /\ t[x] = w
      BY <3>1, <3>4, <3>5
    <3>7. \A k \in 1 .. x - 1 : t[k] = 255
      BY <3>1, <3>4, <3>5
    <3> QED BY <3>6, <3>7 DEF w
  <2>2. CASE ~(code >= 15)
    <3>1. t = << >>
      BY <2>2 DEF ML_MASK
    <3>2. x = 0
      BY <2>2, RunHeadIs
    <3>3. << >> \in Seq(Int) /\ Len(<< >>) = 0
      BY EmptySeq
    <3> HIDE DEF t, x
    <3> QED BY <2>2, <3>1, <3>2, <3>3
  <2> QED BY <2>1, <2>2
<1> DEFINE b == d \o o
           out == b \o t
<1>6. MatchOut(code, off) = out
  BY Zenon DEF MatchOut
<1> HIDE DEF d, o, t, v
<1>7. Chain(d, o, b)
  BY <1>3, <1>4, ChainIs
<1> HIDE DEF b
<1>8. Chain(b, t, out)
  <2>1. b \in Seq(Int)
    BY <1>7 DEF Chain
  <2> QED BY <1>5, <2>1, ChainIs
<1> HIDE DEF out, D, x
<1>9. /\ Len(b) = D + 2 /\ out \in Seq(Int) /\ Len(out) = D + 2 + x
  <2>1. Len(b) = Len(d) + Len(o) /\ Len(out) = Len(b) + Len(t) /\ out \in Seq(Int)
    BY <1>7, <1>8 DEF Chain
  <2> QED BY <1>3, <1>4, <1>5, <2>1
<1>10. /\ \A k \in 1 .. D : b[k] = d[k]
       /\ \A k \in 1 .. 2 : b[D + k] = o[k]
       /\ \A k \in 1 .. D + 2 : out[k] = b[k]
       /\ \A k \in 1 .. x : out[D + 2 + k] = t[k]
  <2>1. /\ \A k \in 1 .. Len(d) : b[k] = d[k]
        /\ \A k \in 1 .. Len(o) : b[Len(d) + k] = o[k]
        /\ \A k \in 1 .. Len(b) : out[k] = b[k]
        /\ \A k \in 1 .. Len(t) : out[Len(b) + k] = t[k]
    BY <1>7, <1>8, Zenon DEF Chain
  <2>2. Len(d) = D /\ Len(o) = 2 /\ Len(b) = D + 2 /\ Len(t) = x
    BY <1>3, <1>4, <1>5, <1>9
  <2> QED BY <2>1, <2>2, Zenon
<1>11. \A k \in 1 .. D : out[k] = d[k]
  <2>1. \A k \in 1 .. D : k \in 1 .. D + 2
    BY <1>2
  <2> QED BY <1>10, <2>1
<1>12. out[D + 1] = off % 256 /\ out[D + 2] = off \div 256
  <2>1. 1 \in 1 .. 2 /\ 2 \in 1 .. 2 /\ D + 1 \in 1 .. D + 2 /\ D + 2 \in 1 .. D + 2
    BY <1>2
  <2>2. out[D + 1] = o[1] /\ out[D + 2] = o[2]
    BY <1>10, <2>1
  <2> QED BY <1>4, <2>2
<1>13. out[token + 1] = v /\ \A k \in 1 .. D : k # token + 1 => out[k] = dst[k]
  BY <1>2, <1>3, <1>11
<1>14. Extended(out, D + 2, code)
  <2> SUFFICES ASSUME code >= 15
               PROVE  /\ \A k \in 1 .. x - 1 : out[D + 2 + k] = 255
                      /\ out[D + 2 + x] = (code - 15) % 255
    BY DEF Extended, x
  <2>1. (\A k \in 1 .. x - 1 : t[k] = 255) /\ t[x] = (code - 15) % 255 /\ x >= 1
    BY <1>5
  <2>2. x \in 1 .. x
    BY <1>5, <2>1
  <2>3. out[D + 2 + x] = (code - 15) % 255
    BY <1>10, <2>1, <2>2, Zenon
  <2>4. ASSUME NEW k \in 1 .. x - 1 PROVE out[D + 2 + k] = 255
    <3>1. k \in 1 .. x
      BY <1>5
    <3>2. out[D + 2 + k] = t[k]
      BY <1>10, <3>1, Zenon
    <3> QED BY <2>1, <3>2
  <2> QED BY <2>3, <2>4
<1>15. /\ out \in Seq(Int) /\ Len(out) = D + 2 + x
       /\ out[token + 1] = 16 * h + Nibble(code)
  BY <1>1, <1>6, <1>9, <1>13
<1> QED BY <1>6, <1>12, <1>13, <1>14, <1>15, Zenon DEF D, x, PutBehind

(* A place in Goes, in plain numbers.                                      *)
LEMMA PlaceOf ==
    ASSUME NEW M, NEW c, NEW r, NEW e, NEW a, NEW j, Goes(M, c, r, e, a, j), NEW z \in M
    PROVE  /\ e \in Nat /\ a \in Nat
           /\ z.at \in Nat /\ z.from \in Nat /\ z.at <= e /\ z.from <= a
           /\ \/ z.at = e /\ z.from = a
              \/ \E q : /\ Sequence(c, r, z.at, z.from, q) /\ NextMark(z, q) \in M
                        /\ Apart(z, q, e, a, j)
                        /\ q.lits \in Nat /\ q.len \in Nat /\ q.len >= 4
                        /\ z.from + q.lits + q.len <= a
<1>1. /\ e \in Nat /\ a \in Nat
      /\ z.at \in Nat /\ z.from \in Nat /\ z.at <= e /\ z.from <= a
  BY Zenon DEF Goes
<1>2. CASE z.at = e /\ z.from = a
  BY <1>1, <1>2
<1>3. CASE ~(z.at = e /\ z.from = a)
  <2>1. PICK q : /\ Sequence(c, r, z.at, z.from, q)
                 /\ NextMark(z, q) \in M /\ Apart(z, q, e, a, j)
    BY <1>3, Zenon DEF Goes
  <2>2. q.lits \in Nat /\ q.len \in Nat /\ q.len >= 4
    BY <2>1 DEF Sequence
  <2> DEFINE y == NextMark(z, q)
  <2>3. y.from <= a
    <3> HIDE DEF y
    <3>1. y \in M
      BY <2>1 DEF y
    <3> QED BY <3>1, Zenon DEF Goes
  <2>4. z.from + q.lits + q.len <= a
    BY <2>3 DEF NextMark
  <2> QED BY <1>1, <2>1, <2>2, <2>4, Zenon
<1> QED BY <1>2, <1>3

(* One more sequence.                                                      *)
LEMMA GoesOn ==
    ASSUME NEW M, NEW c, NEW d, NEW r, NEW e, NEW a, NEW j, Goes(M, c, r, e, a, j),
           Same(c, d, e), NEW q, Sequence(d, r, e, a, q), a + q.lits + 12 <= j.size,
           NEW f, f = OffsetAt(e, q.lits) + 2 + Extras(q.len - 4),
           NEW b, b = a + q.lits + q.len,
           j.limit = "fillOutput" => q.len >= 19 \/ f + 9 <= j.cap
    PROVE  Goes(M \cup {[at |-> f, from |-> b]}, d, r, f, b, j)
<1> DEFINE y == [at |-> f, from |-> b]
           N == M \cup {y}
<1>1. Goes(M, d, r, e, a, j)
  BY GoesStays
<1>2. /\ e \in Nat /\ a \in Nat /\ [at |-> 0, from |-> 0] \in M
  BY <1>1, Zenon DEF Goes
<1>3. /\ q.lits \in Nat /\ q.len \in Nat /\ q.len >= 4
      /\ f \in Nat /\ b \in Nat /\ e < f /\ a < b
  <2> DEFINE l == q.lits
             v == q.len
             x == Extras(l)
             w == Extras(v - 4)
  <2>1. l \in Nat /\ v \in Nat /\ v >= 4
    BY DEF Sequence
  <2>2. x \in Nat /\ w \in Nat
    BY <2>1, ExtrasAre
  <2>3. f = e + 1 + x + l + 2 + w /\ b = a + l + v
    BY DEF OffsetAt
  <2> HIDE DEF l, v, x, w
  <2>4. l \in Nat /\ v \in Nat /\ v >= 4 /\ f \in Nat /\ b \in Nat /\ e < f /\ a < b
    BY <1>2, <2>1, <2>2, <2>3
  <2> QED BY <2>4 DEF l, v
<1>4. y.at = f /\ y.from = b /\ y \in N /\ M \subseteq N
  OBVIOUS
<1>5. ASSUME NEW z, z.at = e, z.from = a PROVE NextMark(z, q) = y
  BY <1>5 DEF NextMark
<1> HIDE DEF y
<1>6. ASSUME NEW z \in N
      PROVE  /\ z.at \in Nat /\ z.from \in Nat /\ z.at <= f /\ z.from <= b
             /\ \/ z.at = f /\ z.from = b
                \/ \E p : /\ Sequence(d, r, z.at, z.from, p)
                          /\ NextMark(z, p) \in N /\ Apart(z, p, f, b, j)
  <2>1. CASE z = y
    BY <1>3, <1>4, <2>1
  <2>2. CASE z \in M
    <3>1. /\ z.at \in Nat /\ z.from \in Nat /\ z.at <= e /\ z.from <= a
          /\ \/ z.at = e /\ z.from = a
             \/ \E p : /\ Sequence(d, r, z.at, z.from, p) /\ NextMark(z, p) \in M
                       /\ Apart(z, p, e, a, j)
                       /\ p.lits \in Nat /\ p.len \in Nat /\ p.len >= 4
                       /\ z.from + p.lits + p.len <= a
      BY <1>1, <2>2, PlaceOf, Zenon
    <3>2. z.at <= f /\ z.from <= b
      BY <1>2, <1>3, <3>1
    <3>3. CASE z.at = e /\ z.from = a
      <4>1. Sequence(d, r, z.at, z.from, q)
        BY <3>3
      <4>2. NextMark(z, q) \in N
        BY <1>4, <1>5, <3>3
      <4>3. Apart(z, q, f, b, j)
        BY <3>3 DEF Apart
      <4> QED BY <3>1, <3>2, <4>1, <4>2, <4>3, Zenon
    <3>4. CASE ~(z.at = e /\ z.from = a)
      <4>1. PICK p : /\ Sequence(d, r, z.at, z.from, p) /\ NextMark(z, p) \in M
                     /\ Apart(z, p, e, a, j)
                     /\ p.lits \in Nat /\ p.len \in Nat /\ p.len >= 4
                     /\ z.from + p.lits + p.len <= a
        BY <3>1, <3>4, Zenon
      <4>2. z.from + p.lits + p.len < b
        BY <1>2, <1>3, <3>1, <4>1
      <4>3. Apart(z, p, f, b, j)
        BY <4>1, <4>2 DEF Apart
      <4>4. NextMark(z, p) \in N
        BY <1>4, <4>1
      <4> QED BY <3>1, <3>2, <4>1, <4>3, <4>4, Zenon
    <3> QED BY <3>3, <3>4
  <2> QED BY <2>1, <2>2
<1>7. [at |-> 0, from |-> 0] \in N
  BY <1>2, <1>4
<1> HIDE DEF N
<1>8. Goes(N, d, r, f, b, j)
  BY <1>3, <1>6, <1>7, Zenon DEF Goes
<1> QED BY <1>8 DEF N, y

(* The last literals.                                                      *)
LEMMA GoesEnds ==
    ASSUME NEW M, NEW c, NEW d, NEW r, NEW e, NEW a, NEW j, Goes(M, c, r, e, a, j),
           Same(c, d, e), NEW m \in Nat, NEW n, n = a + m,
           d[e + 1] = 16 * Nibble(m), Literally(d, r, e, a, m), Len(d) = OffsetAt(e, m),
           j.size \in Nat, j.cap \in Nat,
           \/ n = j.size
           \/ j.limit = "fillOutput" /\ (e + 9 <= j.cap => m >= 8)
    PROVE  Tells(M, d, r, e, a, n)
<1>1. Goes(M, d, r, e, a, j)
  BY GoesStays
<1>2. /\ e \in Nat /\ a \in Nat /\ [at |-> 0, from |-> 0] \in M
      /\ n \in Nat /\ a <= n /\ n - a = m
  <2>1. e \in Nat /\ a \in Nat /\ [at |-> 0, from |-> 0] \in M
    BY <1>1, Zenon DEF Goes
  <2> QED BY <2>1
<1>3. ASSUME NEW z \in M
      PROVE  /\ z.at \in Nat /\ z.from \in Nat /\ z.at <= e /\ z.from <= a
             /\ \/ z.at = e /\ z.from = a
                \/ \E q : /\ Sequence(d, r, z.at, z.from, q) /\ NextMark(z, q) \in M
                          /\ Kept(a, n) => z.from + q.lits + MFLimit <= n
  <2>1. /\ z.at \in Nat /\ z.from \in Nat /\ z.at <= e /\ z.from <= a
        /\ \/ z.at = e /\ z.from = a
           \/ \E q : /\ Sequence(d, r, z.at, z.from, q) /\ NextMark(z, q) \in M
                     /\ Apart(z, q, e, a, j)
                     /\ q.lits \in Nat /\ q.len \in Nat /\ q.len >= 4
                     /\ z.from + q.lits + q.len <= a
    BY <1>1, PlaceOf, Zenon
  <2>2. CASE z.at = e /\ z.from = a
    BY <2>1, <2>2
  <2>3. CASE ~(z.at = e /\ z.from = a)
    <3>1. PICK q : /\ Sequence(d, r, z.at, z.from, q) /\ NextMark(z, q) \in M
                   /\ Apart(z, q, e, a, j)
                   /\ q.lits \in Nat /\ q.len \in Nat /\ q.len >= 4
                   /\ z.from + q.lits + q.len <= a
      BY <2>1, <2>3, Zenon
    <3> DEFINE s == z.from
               l == q.lits
               v == q.len
               y == NextMark(z, q)
    <3>2. /\ s + l + 12 <= j.size
          /\ j.limit = "fillOutput" => v >= 19 \/ s + l + v < a \/ e + 9 <= j.cap
      BY <3>1 DEF Apart
    <3>3. s \in Nat /\ l \in Nat /\ v \in Nat /\ v >= 4 /\ s + l + v <= a
      BY <2>1, <3>1
    <3>4. y \in M /\ y.from = s + l + v
      BY <3>1 DEF NextMark
    <3> HIDE DEF s, l, v, y
    <3>5. ASSUME s + l + v < a PROVE s + l + v + 4 <= a
      <4>1. ~(y.at = e /\ y.from = a)
        BY <1>2, <3>3, <3>4, <3>5
      <4>2. PICK p : /\ p.lits \in Nat /\ p.len \in Nat /\ p.len >= 4
                     /\ y.from + p.lits + p.len <= a
        BY <1>1, <3>4, <4>1, PlaceOf, Zenon
      <4> QED BY <1>2, <3>3, <3>4, <4>2
    <3>6. ASSUME a > 0 => n - a >= 5 PROVE s + l + 12 <= n
      <4>1. CASE n = j.size
        BY <3>2, <4>1
      <4>2. CASE n # j.size
        <5>1. (v >= 19 \/ s + l + v < a \/ e + 9 <= j.cap) /\ (e + 9 <= j.cap => m >= 8)
          BY <3>2, <4>2
        <5> QED BY <1>2, <3>3, <3>5, <3>6, <5>1
      <4> QED BY <4>1, <4>2
    <3>7. Kept(a, n) => z.from + q.lits + MFLimit <= n
      BY <3>6 DEF Kept, LastLits, MFLimit, s, l
    <3> QED BY <2>1, <3>1, <3>7, Zenon
  <2> QED BY <2>2, <2>3
<1> QED BY <1>2, <1>3 DEF Tells

(* A dst to be filled by a block of which the code's estimates are right.  *)
Fillable == job.limit = "fillOutput" => job.size <= 131072

(* What dst has of the block that is being compressed: whole sequences, at *)
(* a match the literals of its sequence too, and when it is done all of    *)
(* what was consumed.                                                      *)
Recorded ==
    /\ pc \in {"search", "literals", "next", "last"} =>
          \E M : Goes(M, dst, Source, Len(dst), anchor - Start, job)
    /\ pc = "match" =>
          /\ \E M : Goes(M, dst, Source, token, anchor - Start, job)
          /\ dst[token + 1] = 16 * Nibble(ip - anchor)
          /\ Literally(dst, Source, token, anchor - Start, ip - anchor)
          /\ Len(dst) = OffsetAt(token, ip - anchor)
    /\ pc \in {"literals", "match"} => low = Start
    /\ pc = "done" /\ ret.written > 0 /\ Fillable =>
          /\ anchor \in Nat /\ ret.consumed <= job.size
          /\ \E M : \E e : Tells(M, dst, Source, e, anchor - Start, ret.consumed)

LEMMA SourceStays ==
    ASSUME UNCHANGED << buf, job >>
    PROVE  Source' = Source /\ Start' = Start /\ iend' = iend /\ Fillable' = Fillable
  BY DEF Source, B, Start, iend, Fillable

(* With nothing in front of the block, a match is in it.                   *)
LEMMA LowIs ==
    ASSUME CoreOK, pc \in {"search", "next"}, job.dict = "noDict", NEW tab, NEW slot
    PROVE  Candidate(tab, slot).low = Start
<1>1. job.lowLimit = job.start
  BY DEF CoreOK, Busy, Begun, OldFine
<1>2. ~External
  BY DEF External
<1> QED BY <1>1, <1>2 DEF Candidate, Start

LEMMA SearchRecords ==
    ASSUME CoreOK, job.dict = "noDict", Recorded, Search
    PROVE  Recorded'
<1>1. /\ pc = "search" /\ pc' \in {"search", "literals", "last"}
      /\ UNCHANGED << anchor, dst, token, ret, buf, job >>
      /\ pc' = "literals" =>
            low' = Candidate(ctx.table, LZ4_hashPosition(fwd, job.type)).low
  BY Zenon DEF Search, Unmoved
<1>2. Source' = Source /\ Start' = Start
  BY <1>1, SourceStays
<1>3. PICK M : Goes(M, dst, Source, Len(dst), anchor - Start, job)
  BY <1>1 DEF Recorded
<1>4. Goes(M, dst', Source', Len(dst'), anchor' - Start', job')
  BY <1>1, <1>2, <1>3
<1>5. pc' = "literals" => low' = Start'
  BY <1>1, <1>2, LowIs
<1> QED BY <1>1, <1>4, <1>5 DEF Recorded

LEMMA LiteralsRecord ==
    ASSUME CoreOK, Recorded, EncodeLiterals
    PROVE  Recorded'
<1> DEFINE n == CatchUp
           there == ip - n
           lit == there - anchor
           D == Len(dst)
<1>1. /\ pc = "literals" /\ ip' = there /\ token' = D
      /\ UNCHANGED << ctx, anchor, low, buf, job >>
      /\ \/ pc' = "done" /\ ret'.written = 0
         \/ pc' = "last" /\ dst' = dst
         \/ pc' = "match" /\ dst' = dst \o RunHead(lit) \o SubSeq(buf, anchor + 1, there)
  <2>1. GiveUp => pc' = "done" /\ ret'.written = 0
    BY DEF GiveUp
  <2> QED BY <2>1, LiteralsStep, Zenon
<1>2. Source' = Source /\ Start' = Start
  BY <1>1, SourceStays
<1>3. PICK M : Goes(M, dst, Source, D, anchor - Start, job)
  BY <1>1 DEF Recorded
<1>4. low' = Start'
  BY <1>1, <1>2 DEF Recorded
<1>5. /\ buf \in Seq(Nat) /\ dst \in Seq(Int) /\ JobOK
      /\ anchor \in Nat /\ Start <= anchor /\ ip \in Nat /\ anchor <= ip
      /\ ip + 12 <= iend /\ match \in Int /\ low \in Int
  BY <1>1 DEF CoreOK, Busy, LoopOK, Begun, AtLiterals, MFLIMIT
<1>6. /\ Start \in Nat /\ iend \in Nat /\ iend <= Len(buf) /\ Len(buf) \in Nat
  BY <1>5, BoundsAre, LenProperties
<1>7. n \in 0 .. ip - anchor
  BY <1>5, CatchIs
<1> HIDE DEF n
<1>8. lit \in Nat /\ there = anchor + lit /\ anchor + lit <= Len(buf)
  BY <1>5, <1>6, <1>7
<1>9. CASE pc' = "done"
  <2>1. ~(ret'.written > 0)
    BY <1>1, <1>9
  <2> QED BY <1>9, <2>1 DEF Recorded
<1>10. CASE pc' = "last"
  <2>1. dst' = dst
    BY <1>1, <1>10
  <2>2. Goes(M, dst', Source', Len(dst'), anchor' - Start', job')
    BY <1>1, <1>2, <1>3, <2>1
  <2> QED BY <1>10, <2>2 DEF Recorded
<1>11. CASE pc' = "match"
  <2> HIDE DEF lit, there
  <2> DEFINE out == dst \o RunHead(lit) \o SubSeq(buf, anchor + 1, anchor + lit)
  <2>1. /\ Same(dst, out, D)
        /\ out[D + 1] = 16 * Nibble(lit)
        /\ Literally(out, Source, D, anchor - Start, lit)
        /\ Len(out) = OffsetAt(D, lit)
    BY <1>5, <1>6, <1>8, LiteralsTell
  <2>2. dst' = out /\ ip' - anchor' = lit /\ token' = D
    <3>1. anchor + lit - anchor = lit
      BY <1>5, <1>8
    <3>2. dst' = dst \o RunHead(lit) \o SubSeq(buf, anchor + 1, there)
      BY <1>1, <1>11
    <3>3. dst' = out
      BY <1>8, <3>2, Zenon
    <3>4. ip' = anchor + lit /\ anchor' = anchor /\ token' = D
      BY <1>1, <1>8
    <3>5. ip' - anchor' = lit
      BY <1>5, <1>8, <3>4
    <3> QED BY <3>3, <3>4, <3>5, Zenon
  <2> HIDE DEF out, D
  <2>3. Goes(M, out, Source, D, anchor - Start, job)
    BY <1>3, <2>1, GoesStays
  <2>4. Goes(M, dst', Source', token', anchor' - Start', job')
    BY <1>1, <1>2, <2>2, <2>3
  <2>5. /\ dst'[token' + 1] = 16 * Nibble(ip' - anchor')
        /\ Literally(dst', Source', token', anchor' - Start', ip' - anchor')
        /\ Len(dst') = OffsetAt(token', ip' - anchor')
    BY <1>1, <1>2, <2>1, <2>2
  <2> QED BY <1>4, <1>11, <2>4, <2>5 DEF Recorded
<1> QED BY <1>1, <1>9, <1>10, <1>11

(* The bytes of the match found are those so far behind in the block.      *)
LEMMA MatchRepeats ==
    ASSUME CoreOK, pc = "match", job.dict = "noDict", low = Start,
           Landed(ip, match, low, back), NEW code \in Nat, code <= MatchCode,
           MatchCode \in Nat, ip + 4 + MatchCode + 5 <= iend
    PROVE  /\ Offset \in 1 .. ip - Start
           /\ Repeats(Source, ip - Start, ip - Start + 4 + code, Offset)
<1> DEFINE count == MatchCode
           off == ip - match
           s == Start
<1>1. JobOK /\ AtMatch
  BY DEF CoreOK, Busy, LoopOK, Begun
<1>2. s \in Nat /\ iend \in Nat /\ matchlimit = iend - 5 /\ ip \in Nat /\ match \in Int
  BY <1>1, BoundsAre DEF AtMatch, Landed
<1>3. ~External /\ ~InDict(low)
  BY DEF External, InDict
<1>4. /\ s <= match /\ off \in 1 .. MAX_DISTANCE
      /\ \A k \in 0 .. 3 : B(ip + k) = B(match + k)
  BY <1>3 DEF Landed, Alike, MINMATCH
<1>5. Offset = off
  BY <1>3 DEF Offset
<1>6. off \in 1 .. ip - s
  <2>1. MAX_DISTANCE \in Int
    BY SizesOK
  <2> HIDE DEF s
  <2> QED BY <1>2, <1>4, <2>1
<1>7. \A k \in 0 .. count - 1 : B(ip + 4 + k) = B(match + 4 + k)
  <2> DEFINE p == ip + 4
             m == match + 4
             g == LZ4_count(p, m, matchlimit)
  <2>1. count = g
    BY <1>3, Zenon DEF MatchCode, MINMATCH, InDict
  <2>2. p \in Int /\ m \in Int /\ matchlimit \in Int /\ p <= matchlimit
    BY <1>2
  <2> HIDE DEF p, m
  <2>3. \A k \in 0 .. g - 1 : B(p + k) = B(m + k)
    BY <2>2, CountIs
  <2> QED BY <2>1, <2>3 DEF p, m
<1> HIDE DEF count, off, s
<1>8. ASSUME NEW i \in Nat, ip - s <= i, i < ip - s + 4 + code
      PROVE  Source[i] = Source[i - off]
  <2> DEFINE k == s + i - ip
  <2>1. k \in Nat /\ k < 4 + code /\ s + i = ip + k /\ s + (i - off) = match + k
    <3>1. off = ip - match
      BY DEF off
    <3> QED BY <1>2, <1>6, <1>8, <3>1
  <2> HIDE DEF k
  <2>2. B(ip + k) = B(match + k)
    <3>1. CASE k \in 0 .. 3
      BY <1>4, <3>1
    <3>2. CASE k \notin 0 .. 3
      <4>1. k - 4 \in 0 .. count - 1 /\ ip + 4 + (k - 4) = ip + k /\ match + 4 + (k - 4) = match + k
        BY <1>2, <2>1, <3>2 DEF count
      <4>2. B(ip + 4 + (k - 4)) = B(match + 4 + (k - 4))
        BY <1>7, <4>1
      <4> QED BY <4>1, <4>2
    <3> QED BY <3>1, <3>2
  <2>3. i \in Int /\ i - off \in Int
    BY <1>6
  <2>4. Source[i] = B(s + i) /\ Source[i - off] = B(s + (i - off))
    BY <2>3 DEF Source, s
  <2> QED BY <2>1, <2>2, <2>4
<1>9. Repeats(Source, ip - s, ip - s + 4 + code, off)
  BY <1>8, Zenon DEF Repeats
<1> QED BY <1>5, <1>6, <1>9 DEF s

LEMMA MatchRecords ==
    ASSUME CoreOK, job.dict = "noDict", Recorded, EncodeMatch
    PROVE  Recorded'
<1> DEFINE D == Len(dst)
           count == MatchCode
           tight == /\ job.limit # "notLimited"
                    /\ D + 2 + (1 + LASTLITERALS) + count \div 256 > job.cap
           code == IF tight THEN ReducedMatchCode(D + 2) ELSE count
           lit == ip - anchor
           a == anchor - Start
<1>1. /\ pc = "match"
      /\ UNCHANGED << ctx, match, low, back, token, buf, slots, job >>
      /\ \/ dst' = SubSeq(dst, 1, token) /\ pc' = "last" /\ anchor' = anchor
         \/ pc' = "done" /\ ret'.written = 0
         \/ /\ ~Rewind /\ ~(job.limit = "limitedOutput" /\ tight)
            /\ ip' = ip + MINMATCH + code /\ anchor' = ip'
            /\ dst' = MatchOut(code, Offset)
            /\ pc' = IF ip' >= mflimitPlusOne THEN "last" ELSE "next"
  <2>1. GiveUp => pc' = "done" /\ ret'.written = 0
    BY DEF GiveUp
  <2> QED BY <2>1, MatchStep, Zenon
<1>2. Source' = Source /\ Start' = Start
  BY <1>1, SourceStays
<1>3. PICK M : Goes(M, dst, Source, token, a, job)
  BY <1>1 DEF Recorded
<1>4. /\ dst[token + 1] = 16 * Nibble(lit)
      /\ Literally(dst, Source, token, a, lit)
      /\ D = OffsetAt(token, lit)
      /\ low = Start
  BY <1>1 DEF Recorded
<1>5. /\ buf \in Seq(Nat) /\ dst \in Seq(Int) /\ JobOK /\ token \in Nat /\ token < D
      /\ anchor \in Nat /\ Start <= anchor /\ ip \in Nat /\ anchor <= ip
      /\ ip + 12 <= iend /\ D \in Nat
      /\ ~Rewind => Landed(ip, match, low, back)
  BY <1>1, LenProperties DEF CoreOK, Busy, LoopOK, Begun, AtMatch, MFLIMIT
<1>6. /\ Start \in Nat /\ iend = Start + job.size /\ job.size \in Nat
  BY <1>5, BoundsAre
<1>7. lit \in Nat /\ a \in Nat /\ a + lit = ip - Start /\ a + lit + 12 <= job.size
  BY <1>5, <1>6
<1>8. CASE pc' = "done" /\ ret'.written = 0
  <2>1. ~(ret'.written > 0)
    BY <1>8
  <2> QED BY <1>8, <2>1 DEF Recorded
<1>9. CASE dst' = SubSeq(dst, 1, token) /\ pc' = "last" /\ anchor' = anchor
  <2> DEFINE c == SubSeq(dst, 1, token)
  <2>1. Len(c) = token /\ \A k \in 1 .. token : c[k] = dst[k]
    <3>1. \A k \in 1 .. token : dst[k] \in Int
      <4>1. \A k \in 1 .. token : k \in 1 .. Len(dst)
        BY <1>5
      <4> QED BY <1>5, <4>1, ElementOfSeq
    <3>2. token \in Int /\ token - 1 + 1 = token
          /\ (IF 1 <= token THEN token - 1 + 1 ELSE 0) = token
      BY <1>5
    <3>3. /\ Len(c) = IF 1 <= token THEN token - 1 + 1 ELSE 0
          /\ \A i \in 1 .. token - 1 + 1 : c[i] = dst[1 + i - 1]
      BY <3>1, <3>2, SubSeqProperties
    <3> HIDE DEF c
    <3>4. \A i \in 1 .. token : 1 + i - 1 = i
      OBVIOUS
    <3> QED BY <3>2, <3>3, <3>4
  <2> HIDE DEF c
  <2>2. Same(dst, c, token)
    BY <2>1 DEF Same
  <2>3. Goes(M, c, Source, token, a, job)
    BY <1>3, <2>2, GoesStays
  <2>4. dst' = c
    BY <1>9 DEF c
  <2>5. Goes(M, dst', Source', Len(dst'), anchor' - Start', job')
    BY <1>1, <1>2, <1>9, <2>1, <2>3, <2>4
  <2> QED BY <1>9, <2>5 DEF Recorded
<1>10. CASE /\ ~Rewind /\ ~(job.limit = "limitedOutput" /\ tight)
            /\ ip' = ip + MINMATCH + code /\ anchor' = ip'
            /\ dst' = MatchOut(code, Offset)
            /\ pc' = IF ip' >= mflimitPlusOne THEN "last" ELSE "next"
  <2>1. /\ code \in Nat /\ code <= count
        /\ count \in Nat /\ ip + 4 + count + 5 <= iend
        /\ tight => code >= 15
    BY <1>1, <1>10, CodeIs
  <2>2. /\ Offset \in 1 .. ip - Start
        /\ Repeats(Source, ip - Start, ip - Start + 4 + code, Offset)
    <3> HIDE DEF code
    <3> QED BY <1>1, <1>4, <1>5, <1>10, <2>1, MatchRepeats
  <2> DEFINE out == MatchOut(code, Offset)
             x == Extras(code)
  <2>3. /\ Len(out) = D + 2 + x
        /\ out[token + 1] = 16 * Nibble(lit) + Nibble(code)
        /\ \A k \in 1 .. D : k # token + 1 => out[k] = dst[k]
        /\ out[D + 1] = Offset % 256 /\ out[D + 2] = Offset \div 256
        /\ Extended(out, D + 2, code)
    <3> DEFINE h == Nibble(lit)
               off == Offset
    <3>1. h \in Nat
      BY <1>7 DEF Nibble
    <3>2. dst[token + 1] = 16 * h
      BY <1>4
    <3>3. off \in Int
      BY <1>5, <1>6, <2>2
    <3> HIDE DEF h, code, off
    <3>4. /\ Len(MatchOut(code, off)) = Len(dst) + 2 + Extras(code)
          /\ MatchOut(code, off)[token + 1] = 16 * h + Nibble(code)
          /\ \A k \in 1 .. Len(dst) : k # token + 1 => MatchOut(code, off)[k] = dst[k]
          /\ MatchOut(code, off)[Len(dst) + 1] = off % 256
          /\ MatchOut(code, off)[Len(dst) + 2] = off \div 256
          /\ Extended(MatchOut(code, off), Len(dst) + 2, code)
      <4>1. dst \in Seq(Int) /\ token \in Nat /\ token < Len(dst) /\ code \in Nat
        BY <1>5, <2>1
      <4>2. PICK p, o : p = code /\ o = off
        OBVIOUS
      <4>3. p \in Nat /\ o \in Int
        BY <3>3, <4>1, <4>2
      <4>4. /\ Len(MatchOut(p, o)) = Len(dst) + 2 + Extras(p)
            /\ MatchOut(p, o)[token + 1] = 16 * h + Nibble(p)
            /\ \A k \in 1 .. Len(dst) : k # token + 1 => MatchOut(p, o)[k] = dst[k]
            /\ MatchOut(p, o)[Len(dst) + 1] = o % 256
            /\ MatchOut(p, o)[Len(dst) + 2] = o \div 256
            /\ Extended(MatchOut(p, o), Len(dst) + 2, p)
        <5>1. PutBehind(p, o, h)
          BY <3>1, <3>2, <4>1, <4>3, MatchTells
        <5> QED BY <5>1, Zenon DEF PutBehind
      <4> QED BY <4>2, <4>4, Zenon
    <3> QED BY <3>4, Zenon DEF h, off
  <2>4. job.limit = "fillOutput" => code >= 15 \/ (x = 0 /\ D + 11 <= job.cap)
    <3>1. job.limit = "fillOutput" => ~(D + 2 + 1 + 12 - 4 > job.cap)
      BY <1>10 DEF Rewind, MFLIMIT, MINMATCH
    <3>2. job.cap \in Nat
      BY <1>5 DEF JobOK
    <3>3. code < 15 => x = 0
      BY <2>1, ExtrasAre
    <3> HIDE DEF code, D, x
    <3> QED BY <1>5, <2>1, <3>1, <3>2, <3>3
  <2>5. x \in Nat
    BY <2>1, ExtrasAre
  <2> HIDE DEF out, code, x, D, lit, a
  <2> DEFINE off == Offset
             q == [lits |-> lit, len |-> code + 4, off |-> off]
  <2>6. /\ q.lits = lit /\ q.len = code + 4 /\ q.off = off /\ q.len - 4 = code
        /\ q.lits \in Nat /\ q.len \in Nat /\ q.len >= 4
    BY <1>7, <2>1
  <2>7. Same(dst, out, token) /\ SameFrom(dst, out, token + 1, D)
    <3>1. ASSUME NEW k \in 1 .. token PROVE out[k] = dst[k]
      <4>1. k \in 1 .. D /\ k # token + 1
        BY <1>5
      <4> QED BY <2>3, <4>1
    <3>2. ASSUME NEW k \in (token + 1) + 1 .. D PROVE out[k] = dst[k]
      <4>1. k \in 1 .. D /\ k # token + 1
        BY <1>5
      <4> QED BY <2>3, <4>1
    <3> QED BY <3>1, <3>2 DEF Same, SameFrom
  <2>8. Sequence(out, Source, token, a, q)
    <3>1. OffsetAt(token, q.lits) = D
      BY <1>4, <2>6
    <3>2. q.off \in 1 .. a + q.lits
      BY <1>7, <2>2, <2>6
    <3>3. Literally(out, Source, token, a, lit)
      <4>1. D \in Nat /\ OffsetAt(token, lit) <= D
        BY <1>4, <1>5
      <4> QED BY <1>4, <1>5, <1>7, <2>7, <4>1, LiterallyStays
    <3>4. Repeats(Source, a + q.lits, a + q.lits + q.len, q.off)
      <4>1. a + q.lits = ip - Start /\ a + q.lits + q.len = ip - Start + 4 + code
        <5>1. a + q.lits = ip - Start /\ ip - Start \in Int
          BY <1>5, <1>6, <1>7, <2>6
        <5> HIDE DEF q
        <5> QED BY <2>1, <2>6, <5>1
      <4> QED BY <2>2, <2>6, <4>1
    <3>5. /\ out[token + 1] = 16 * Nibble(q.lits) + Nibble(q.len - 4)
          /\ out[D + 1] = q.off % 256 /\ out[D + 2] = q.off \div 256
          /\ Extended(out, D + 2, q.len - 4) /\ Literally(out, Source, token, a, q.lits)
      BY <2>3, <2>6, <3>3
    <3> HIDE DEF q
    <3> QED BY <2>6, <3>1, <3>2, <3>4, <3>5 DEF Sequence
  <2> DEFINE f == D + 2 + x
             b == a + lit + (code + 4)
             y == [at |-> f, from |-> b]
  <2>9. f = OffsetAt(token, q.lits) + 2 + Extras(q.len - 4) /\ b = a + q.lits + q.len
    BY <1>4, <2>6 DEF x
  <2>10. job.limit = "fillOutput" => q.len >= 19 \/ f + 9 <= job.cap
    <3>1. job.cap \in Nat
      BY <1>5 DEF JobOK
    <3>2. q.len = code + 4
      BY <2>6
    <3> HIDE DEF q
    <3> QED BY <1>5, <2>1, <2>4, <3>1, <3>2
  <2>11. a + q.lits + 12 <= job.size
    BY <1>7, <2>6
  <2> HIDE DEF q, f, b
  <2>12. Goes(M \cup {y}, out, Source, f, b, job)
    BY <1>3, <2>7, <2>8, <2>9, <2>10, <2>11, GoesOn
  <2>13. /\ dst' = out /\ Len(dst') = f /\ anchor' - Start' = b
    <3>1. dst' = out /\ Len(dst') = f
      BY <1>10, <2>3 DEF out, f, code
    <3>2. anchor' = ip + 4 + code
      BY <1>10 DEF code, MINMATCH
    <3>3. a + lit = ip - Start
      BY <1>7
    <3>4. b = ip - Start + (code + 4)
      BY <3>3 DEF b
    <3>5. anchor' - Start' = b
      BY <1>2, <1>5, <1>6, <2>1, <3>2, <3>4
    <3> QED BY <3>1, <3>5
  <2>14. Goes(M \cup {y}, dst', Source', Len(dst'), anchor' - Start', job')
    BY <1>1, <1>2, <2>12, <2>13
  <2>15. pc' \in {"last", "next"}
    BY <1>10
  <2> QED BY <2>14, <2>15 DEF Recorded
<1> QED BY <1>1, <1>8, <1>9, <1>10

LEMMA TestNextRecords ==
    ASSUME CoreOK, job.dict = "noDict", Recorded, TestNext
    PROVE  Recorded'
<1> DEFINE filled == LZ4_putPosition(ip - 2, ctx.table, job.type)
           slot == LZ4_hashPosition(ip, job.type)
           D == Len(dst)
<1>1. /\ pc = "next"
      /\ UNCHANGED << anchor, ret, buf, job >>
      /\ low' = Candidate(filled, slot).low
      /\ \/ pc' = "match" /\ token' = D /\ dst' = dst \o << 0 >> /\ ip' = ip
         \/ pc' = "search" /\ dst' = dst
  BY Zenon DEF TestNext, Unmoved
<1>2. Source' = Source /\ Start' = Start
  BY <1>1, SourceStays
<1>3. PICK M : Goes(M, dst, Source, D, anchor - Start, job)
  BY <1>1 DEF Recorded
<1>4. dst \in Seq(Int) /\ anchor \in Nat /\ ip = anchor /\ D \in Nat
  BY <1>1, LenProperties DEF CoreOK, Busy, LoopOK, Begun, AtNext
<1>5. low' = Start'
  BY <1>1, <1>2, LowIs
<1>6. CASE pc' = "search" /\ dst' = dst
  <2>1. Goes(M, dst', Source', Len(dst'), anchor' - Start', job')
    BY <1>1, <1>2, <1>3, <1>6
  <2> QED BY <1>6, <2>1 DEF Recorded
<1>7. CASE pc' = "match" /\ token' = D /\ dst' = dst \o << 0 >> /\ ip' = ip
  <2> DEFINE out == dst \o << 0 >>
  <2>1. << 0 >> \in Seq(Int) /\ Len(<< 0 >>) = 1 /\ << 0 >>[1] = 0
    OBVIOUS
  <2>2. Chain(dst, << 0 >>, out)
    BY <1>4, <2>1, ChainIs
  <2> HIDE DEF out
  <2>3. Len(out) = D + 1 /\ (\A k \in 1 .. D : out[k] = dst[k]) /\ out[D + 1] = 0
    <3>1. 1 \in 1 .. 1
      OBVIOUS
    <3> QED BY <2>1, <2>2, <3>1 DEF Chain
  <2> HIDE DEF D
  <2>4. Goes(M, out, Source, D, anchor - Start, job)
    BY <1>3, <2>3, GoesStays DEF Same
  <2>5. Extras(0) = 0 /\ Nibble(0) = 0
    BY DEF Extras, Nibble
  <2>6. /\ out[D + 1] = 16 * Nibble(0)
        /\ Literally(out, Source, D, anchor - Start, 0)
        /\ Len(out) = OffsetAt(D, 0)
    <3>1. Extended(out, D + 1, 0)
      BY DEF Extended
    <3>2. Literally(out, Source, D, anchor - Start, 0)
      BY <3>1 DEF Literally
    <3> QED BY <1>4, <2>3, <2>5, <3>2 DEF OffsetAt
  <2>7. dst' = out /\ token' = D /\ ip' - anchor' = 0
    <3>1. dst' = out /\ token' = D
      BY <1>7 DEF out, D
    <3>2. ip' - anchor' = 0
      BY <1>1, <1>4, <1>7
    <3> QED BY <3>1, <3>2
  <2>8. Goes(M, dst', Source', token', anchor' - Start', job')
    BY <1>1, <1>2, <2>4, <2>7
  <2>9. /\ dst'[token' + 1] = 16 * Nibble(ip' - anchor')
        /\ Literally(dst', Source', token', anchor' - Start', ip' - anchor')
        /\ Len(dst') = OffsetAt(token', ip' - anchor')
    BY <1>1, <1>2, <2>6, <2>7, Zenon
  <2> QED BY <1>5, <1>7, <2>8, <2>9 DEF Recorded
<1> QED BY <1>1, <1>6, <1>7

LEMMA LastRecords ==
    ASSUME CoreOK, RoomOK, Recorded, LastLiterals
    PROVE  Recorded'
<1> DEFINE D == Len(dst)
           s == Start
           z == job.size
           cap == job.cap
           all == iend - anchor
           taken == LastTaken
           tight == LastTight
<1>1. /\ pc = "last" /\ pc' = "done" /\ anchor' = anchor /\ job' = job /\ buf' = buf
      /\ IF tight /\ job.limit = "limitedOutput"
         THEN GiveUp
         ELSE /\ ip' = anchor + taken
              /\ dst' = dst \o RunHead(taken) \o SubSeq(buf, anchor + 1, anchor + taken)
              /\ ret' = [written |-> Len(dst'), consumed |->
                           IF job.limit = "fillOutput" THEN ip' - Start ELSE job.size]
  BY LastStep, Zenon
<1>2. Source' = Source /\ Start' = Start /\ (Fillable' <=> Fillable)
  BY <1>1, SourceStays
<1>3. PICK M : Goes(M, dst, Source, D, anchor - Start, job)
  BY <1>1 DEF Recorded
<1>4. /\ JobOK /\ dst \in Seq(Int) /\ buf \in Seq(Nat) /\ AtLast
  BY <1>1 DEF Busy, CoreOK, LoopOK, Begun
<1>5. /\ s \in Nat /\ z \in Nat /\ cap \in Nat /\ D \in Nat
      /\ anchor \in Nat /\ s <= anchor /\ anchor <= s + z /\ s + z <= Len(buf)
      /\ job.limit \in {"notLimited", "limitedOutput", "fillOutput"} /\ Len(buf) \in Nat
      /\ iend = s + z
  BY <1>4, LenProperties DEF AtLast, JobOK, iend, Start
<1>6. /\ taken \in Int /\ taken <= all /\ all = s + z - anchor /\ all \in Nat
      /\ tight => job.limit # "notLimited"
  <2>1. anchor <= iend
    BY <1>4 DEF AtLast
  <2>2. taken \in Int /\ taken <= all /\ all \in Nat /\ (tight => job.limit # "notLimited")
    BY <1>4, <1>5, <2>1, LastTakenIs
  <2> QED BY <1>5, <2>2
<1>7. taken = IF tight THEN LastRoom - Extras(LastRoom) ELSE all
  BY DEF LastTaken
<1>8. (tight /\ job.limit = "fillOutput" /\ job.size <= 131072) => D + 1 <= cap
  <2>1. SUFFICES ASSUME job.limit = "fillOutput", job.size <= 131072 PROVE D + 1 <= cap
    OBVIOUS
  <2>2. Directed /\ Inside
    BY <1>1, <2>1, RoomIs DEF Busy, Estimated
  <2>3. D = 0 \/ D + 3 <= cap
    BY <1>1, <2>1, <2>2 DEF Inside, Spared
  <2>4. cap >= 1
    BY <1>1, <2>1, <2>2 DEF Directed
  <2> HIDE DEF D, cap
  <2> QED BY <1>5, <2>3, <2>4
<1> HIDE DEF D, s, z, cap, all, taken, tight
<1>9. CASE (tight /\ job.limit = "limitedOutput") \/ ~Fillable
  <2>1. ~(ret'.written > 0 /\ Fillable')
    BY <1>1, <1>2, <1>9 DEF GiveUp
  <2> QED BY <1>1, <2>1 DEF Recorded
<1>10. CASE ~(tight /\ job.limit = "limitedOutput") /\ Fillable
  <2>1. tight => taken \in Nat /\ (D + 9 <= cap => taken >= 8)
    <3>1. SUFFICES ASSUME tight PROVE taken \in Nat /\ (D + 9 <= cap => taken >= 8)
      OBVIOUS
    <3>2. D + 1 <= cap
      BY <1>5, <1>6, <1>8, <1>10, <3>1 DEF Fillable
    <3>3. PICK room \in Int : room = cap - D - 1
      BY <1>5
    <3>4. taken = room - Extras(room)
      BY <1>7, <3>1, <3>3 DEF LastRoom, D, cap
    <3>5. taken \in Nat
      <4>1. cap \in Nat /\ D \in Nat /\ taken \in Int
        BY <1>5, <1>6
      <4>2. PICK d, k, run : d = D /\ k = cap /\ run = taken
        OBVIOUS
      <4>3. /\ k \in Nat /\ d \in Nat /\ d + 1 <= k /\ room = k - d - 1
            /\ run \in Int /\ run = room - Extras(room)
        BY <3>2, <3>3, <3>4, <4>1, <4>2
      <4>4. run \in Nat
        BY ONLY <4>3, room \in Int, FilledIs
      <4> QED BY <4>2, <4>4
    <3>6. Extras(room) = (room + 240) \div 255
      BY DEF Extras
    <3>7. room >= 8 => room - (room + 240) \div 255 >= 8
      BY <3>3
    <3>8. room >= 8 => taken >= 8
      BY <3>4, <3>6, <3>7, Zenon
    <3>9. D + 9 <= cap => room >= 8
      BY <1>5, <3>3
    <3> QED BY <3>5, <3>8, <3>9
  <2>2. taken \in Nat
    BY <1>6, <1>7, <2>1
  <2> DEFINE out == dst \o RunHead(taken) \o SubSeq(buf, anchor + 1, anchor + taken)
  <2>3. /\ Same(dst, out, D)
        /\ out[D + 1] = 16 * Nibble(taken)
        /\ Literally(out, Source, D, anchor - Start, taken)
        /\ Len(out) = OffsetAt(D, taken)
    <3>1. Start \in Nat /\ Start <= anchor /\ anchor + taken <= Len(buf)
      BY <1>5, <1>6, <2>2 DEF s
    <3> QED BY <1>4, <1>5, <2>2, <3>1, LiteralsTell DEF D
  <2>4. /\ dst' = out /\ ip' = anchor + taken
        /\ ret'.consumed = IF job.limit = "fillOutput" THEN ip' - Start ELSE job.size
    <3> DEFINE l == Len(dst')
               c == IF job.limit = "fillOutput" THEN ip' - Start ELSE job.size
    <3> HIDE DEF l, c, out
    <3>1. /\ ip' = anchor + taken /\ dst' = out
          /\ ret' = [written |-> l, consumed |-> c]
      BY <1>1, <1>10, Zenon DEF l, c, out
    <3>2. ret'.consumed = c
      BY <3>1
    <3> QED BY <3>1, <3>2, Zenon DEF c
  <2> HIDE DEF out
  <2> DEFINE a == anchor - Start
             n == ret'.consumed
  <2>5. n = a + taken
    <3>1. CASE job.limit = "fillOutput"
      BY <1>5, <2>2, <2>4, <3>1 DEF s
    <3>2. CASE job.limit # "fillOutput"
      <4>1. taken = all
        BY <1>5, <1>6, <1>7, <1>10, <3>2
      <4>2. n = job.size
        BY <2>4, <3>2, Zenon DEF n
      <4>3. job.size = z /\ a = anchor - s
        BY DEF s, z, a
      <4> HIDE DEF n, a
      <4> QED BY <1>5, <1>6, <4>1, <4>2, <4>3
    <3> QED BY <3>1, <3>2
  <2>6. \/ n = z
        \/ job.limit = "fillOutput" /\ (D + 9 <= cap => taken >= 8)
    <3>1. CASE tight
      BY <1>5, <1>6, <1>10, <2>1, <3>1
    <3>2. CASE ~tight
      <4>1. taken = s + z - anchor
        BY <1>6, <1>7, <3>2
      <4> QED BY <1>5, <2>5, <4>1 DEF s
    <3> QED BY <3>1, <3>2
  <2> HIDE DEF n, a
  <2>7. Tells(M, out, Source, D, a, n)
    <3>1. Goes(M, dst, Source, D, a, job)
      BY <1>3 DEF a
    <3>2. job.size \in Nat /\ job.cap \in Nat
      BY <1>5 DEF z, cap
    <3>3. n = job.size \/ (job.limit = "fillOutput" /\ (D + 9 <= job.cap => taken >= 8))
      BY <2>6 DEF z, cap
    <3>4. Literally(out, Source, D, a, taken)
      BY <2>3 DEF a
    <3> QED BY <2>2, <2>3, <2>5, <3>1, <3>2, <3>3, <3>4, GoesEnds
  <2>8. Tells(M, dst', Source', D, anchor' - Start', ret'.consumed)
    BY <1>1, <1>2, <2>4, <2>7 DEF a, n
  <2>9. anchor' \in Nat /\ ret'.consumed <= job'.size
    <3>1. n <= z
      BY <1>5, <1>6, <2>2, <2>5 DEF a, s
    <3> QED BY <1>1, <1>5, <3>1 DEF n, z
  <2> QED BY <1>1, <2>8, <2>9 DEF Recorded
<1> QED BY <1>9, <1>10

(* A call has told nothing yet.                                            *)
LEMMA CallRecords ==
    ASSUME NEW c, NEW args, Compress(c, args), args.start \in Nat
    PROVE  Recorded'
<1>1. /\ dst' = << >> /\ anchor' = args.start /\ job'.start = args.start
      /\ \/ pc' = "done" /\ ret'.written = 0
         \/ pc' \in {"search", "last"}
  <2>1. /\ dst' = << >> /\ anchor' = args.start
        /\ \/ pc' = "done" /\ ret' = [written |-> 0, consumed |-> args.size]
           \/ pc' \in {"search", "last"}
    BY CompressIs
  <2>2. job'.start = args.start
    BY JobIs
  <2> QED BY <2>1, <2>2
<1>2. CASE pc' = "done" /\ ret'.written = 0
  <2>1. ~(ret'.written > 0)
    BY <1>2
  <2> QED BY <1>2, <2>1 DEF Recorded
<1>3. CASE pc' \in {"search", "last"}
  <2> DEFINE z == [at |-> 0, from |-> 0]
             M == {z}
  <2>1. z.at = 0 /\ z.from = 0 /\ z \in M /\ \A y \in M : y = z
    OBVIOUS
  <2> HIDE DEF z, M
  <2>2. \A c1, r, j : Goes(M, c1, r, 0, 0, j)
    BY <2>1 DEF Goes, z
  <2>3. Len(dst') = 0 /\ anchor' - Start' = 0
    BY <1>1 DEF Start
  <2>4. Goes(M, dst', Source', Len(dst'), anchor' - Start', job')
    BY <2>2, <2>3
  <2> QED BY <1>3, <2>4 DEF Recorded
<1> QED BY <1>1, <1>2, <1>3

LEMMA CallBlockRecords ==
    ASSUME EncInv, InBlocks, CallBlock
    PROVE  Recorded'
<1>1. PICK api \in {"extState", "fastReset", "force", "destSize"},
           cap \in Capacities \cup {LZ4_compressBound(Head(sizes))},
           acceleration \in Accelerations : Call(api, cap, acceleration)
  BY DEF CallBlock
<1>2. PICK c, args : Compress(c, args) /\ args.start = job.start + job.size
  BY <1>1 DEF Call
<1>3. args.start \in Nat
  BY <1>2 DEF EncInv, BlocksOK
<1> QED BY <1>2, <1>3, CallRecords

LEMMA RecordedStays ==
    ASSUME Recorded, UNCHANGED encvars
    PROVE  Recorded'
<1>1. UNCHANGED << pc, job, dst, anchor, ip, token, low, ret, buf >>
  BY DEF encvars
<1>2. Source' = Source /\ Start' = Start /\ (Fillable' <=> Fillable)
  BY <1>1, SourceStays
<1>3. /\ pc \in {"search", "literals", "next", "last"} =>
            \E M : Goes(M, dst, Source, Len(dst), anchor - Start, job)
      /\ pc = "match" =>
            /\ \E M : Goes(M, dst, Source, token, anchor - Start, job)
            /\ dst[token + 1] = 16 * Nibble(ip - anchor)
            /\ Literally(dst, Source, token, anchor - Start, ip - anchor)
            /\ Len(dst) = OffsetAt(token, ip - anchor)
      /\ pc \in {"literals", "match"} => low = Start
      /\ pc = "done" /\ ret.written > 0 /\ Fillable =>
            /\ anchor \in Nat /\ ret.consumed <= job.size
            /\ \E M : \E e : Tells(M, dst, Source, e, anchor - Start, ret.consumed)
  BY Zenon DEF Recorded
<1> QED BY <1>1, <1>2, <1>3, Zenon DEF Recorded

LEMMA RecordedRests ==
    ASSUME pc' \in {"idle", "fresh"}
    PROVE  Recorded'
  BY DEF Recorded

LEMMA RecordedKept ==
    ASSUME EncInv, RoomOK, InBlocks, Recorded, [Next]_vars
    PROVE  Recorded' /\ InBlocks'
<1>0. InBlocks'
  <2>1. way' = way
    <3>1. [Encode \/ StartDecode \/ Decode \/ NextBlock]_vars
      BY DEF Next
    <3>2. UNCHANGED streamvars
      BY <3>1 DEF Encode, StartDecode, Decode, NextBlock, vars
    <3> QED BY <3>2 DEF streamvars
  <2> QED BY <2>1 DEF InBlocks
<1> SUFFICES Recorded'
  BY <1>0
<1>1. CASE Encode
  <2>1. CoreOK /\ BlocksOK
    BY DEF EncInv
  <2>2. CASE EncNext
    <3>1. pc \in {"search", "literals", "match", "next", "last"}
      BY <2>2, LoopFrame
    <3>2. job.dict = "noDict"
      BY <2>1, <3>1 DEF BlocksOK, Busy
    <3> QED BY <2>1, <2>2, <3>2, SearchRecords, LiteralsRecord, MatchRecords,
               TestNextRecords, LastRecords DEF EncNext
  <2>3. CASE InBlocks /\ CallBlock
    BY <2>3, CallBlockRecords
  <2> QED BY <1>1, <2>2, <2>3 DEF Encode
<1>2. CASE StartDecode
  BY <1>2, RecordedStays DEF StartDecode
<1>3. CASE Decode
  BY <1>3, RecordedStays DEF Decode
<1>4. CASE NextBlock
  <2>1. pc' = "idle"
    BY <1>4 DEF NextBlock
  <2> QED BY <2>1, RecordedRests
<1>5. CASE UNCHANGED vars
  BY <1>5, RecordedStays DEF vars
<1> QED BY <1>0, <1>1, <1>2, <1>3, <1>4, <1>5 DEF Next

(* A decompressor is on its way through what the compressor told.          *)
IsTold(c, r, a, n) == c = dst /\ r = Source /\ a = anchor - Start /\ n = ret.consumed
Tracked ==
    dpc # "idle" =>
        /\ pc = "done" /\ ret.written > 0
        /\ Fillable => \E c, r, a, n : \E M, e :
              IsTold(c, r, a, n) /\ Tells(M, c, r, e, a, n) /\ OnTrack(M, c, r, a, n)

LEMMA TrackedFrom ==
    ASSUME UNCHANGED encvars, pc = "done", ret.written > 0,
           Fillable => \E c, r, a, n : \E M, e :
              IsTold(c, r, a, n) /\ Tells(M, c, r, e, a, n) /\ OnTrack(M, c, r, a, n)'
    PROVE  Tracked'
<1>1. UNCHANGED << pc, job, dst, anchor, ret, buf >>
  BY DEF encvars
<1>2. Source' = Source /\ Start' = Start /\ (Fillable' <=> Fillable)
  BY <1>1, SourceStays
<1>3. ASSUME NEW c, NEW r, NEW a, NEW n, IsTold(c, r, a, n)
      PROVE  c = dst' /\ r = Source' /\ a = anchor' - Start' /\ n = ret'.consumed
  BY <1>1, <1>2, <1>3 DEF IsTold
<1>4. ASSUME Fillable'
      PROVE  (\E c, r, a, n : \E M, e :
              IsTold(c, r, a, n) /\ Tells(M, c, r, e, a, n) /\ OnTrack(M, c, r, a, n))'
  <2>1. PICK c, r, a, n : \E M, e :
              IsTold(c, r, a, n) /\ Tells(M, c, r, e, a, n) /\ OnTrack(M, c, r, a, n)'
    BY <1>2, <1>4
  <2>2. PICK M, e :
              IsTold(c, r, a, n) /\ Tells(M, c, r, e, a, n) /\ OnTrack(M, c, r, a, n)'
    BY <2>1
  <2>3. IsTold(c, r, a, n)'
    BY <1>3, <2>2 DEF IsTold
  <2> QED BY <2>2, <2>3
<1> QED BY <1>1, <1>4 DEF Tracked

LEMMA DecodeTracks ==
    ASSUME Tracked, Decode
    PROVE  Tracked'
<1>1. UNCHANGED encvars /\ dpc # "idle"
  BY DEF Decode, DecNext, Shortcut, Literals, CopyMatch
<1>2. pc = "done" /\ ret.written > 0
  BY <1>1 DEF Tracked
<1>3. ASSUME Fillable
      PROVE  \E c, r, a, n : \E M, e :
              IsTold(c, r, a, n) /\ Tells(M, c, r, e, a, n) /\ OnTrack(M, c, r, a, n)'
  <2>1. PICK c, r, a, n : \E M, e :
              IsTold(c, r, a, n) /\ Tells(M, c, r, e, a, n) /\ OnTrack(M, c, r, a, n)
    BY <1>1, <1>3 DEF Tracked
  <2>2. PICK M, e :
              IsTold(c, r, a, n) /\ Tells(M, c, r, e, a, n) /\ OnTrack(M, c, r, a, n)
    BY <2>1
  <2>3. OnTrack(M, c, r, a, n)'
    BY <2>2, ShortcutTracks, LiteralsTrack, CopyTracks DEF Decode, DecNext
  <2> QED BY <2>2, <2>3
<1> QED BY <1>1, <1>2, <1>3, TrackedFrom

LEMMA BeginningIs ==
    ASSUME NEW c \in Seq(Int), NEW m \in Nat, m <= Len(c)
    PROVE  /\ SubSeq(c, 1, m) \in Seq(Int) /\ Len(SubSeq(c, 1, m)) = m
           /\ \A k \in 1 .. m : SubSeq(c, 1, m)[k] = c[k]
<1> DEFINE d == SubSeq(c, 1, m)
           w == Len(c)
<1>1. w \in Nat
  BY LenProperties
<1> HIDE DEF w
<1>2. \A k \in 1 .. m : k \in 1 .. w
  BY <1>1 DEF w
<1>3. \A k \in 1 .. m : c[k] \in Int
  BY <1>2, ElementOfSeq DEF w
<1>4. /\ d \in Seq(Int)
      /\ Len(d) = IF 1 <= m THEN m - 1 + 1 ELSE 0
      /\ \A i \in 1 .. m - 1 + 1 : d[i] = c[1 + i - 1]
  BY <1>3, SubSeqProperties
<1>5. m - 1 + 1 = m /\ (IF 1 <= m THEN m - 1 + 1 ELSE 0) = m /\ \A i \in 1 .. m : 1 + i - 1 = i
  OBVIOUS
<1> HIDE DEF d
<1>6. d \in Seq(Int) /\ Len(d) = m /\ \A i \in 1 .. m : d[i] = c[i]
  BY <1>4, <1>5
<1> QED BY <1>6 DEF d

LEMMA ArgsAre ==
    ASSUME NEW block, NEW fast \in BOOLEAN, NEW partial \in BOOLEAN, NEW size,
           DecodeBlock(block, fast, partial, size)
    PROVE  \E args :
              /\ Decompress(block, [i \in 0 .. size - 1 |-> Unset], args)
              /\ args.dst = 0 /\ args.outputSize = size /\ args.dictSize = 0
              /\ args.endOnInput = ~fast /\ args.partial = partial
              /\ args.dict = IF fast THEN "withPrefix64k" ELSE "noDict"
              /\ ~fast => args.lowPrefix = 0
<1> DEFINE args == [Args(0, size, fast, IF fast THEN "withPrefix64k" ELSE "noDict",
                         IF fast THEN -KB64 ELSE 0, Nil, 0) EXCEPT !.partial = partial]
<1>1. Decompress(block, [i \in 0 .. size - 1 |-> Unset], args)
  BY Zenon DEF DecodeBlock
<1>2. /\ args.dst = 0 /\ args.outputSize = size /\ args.dictSize = 0
      /\ args.endOnInput = ~fast /\ args.partial = partial
      /\ args.dict = IF fast THEN "withPrefix64k" ELSE "noDict"
      /\ ~fast => args.lowPrefix = 0
  BY DEF Args
<1> HIDE DEF args
<1> QED BY <1>1, <1>2

(* One call, of the whole block or of its beginning.                       *)
LEMMA BlockTracks ==
    ASSUME NEW M, NEW c \in Seq(Int), NEW r, NEW e, NEW a, NEW n, Tells(M, c, r, e, a, n),
           NEW block \in Seq(Int), block = c \/ Len(block) < Len(c),
           \A k \in 1 .. Len(block) : block[k] = c[k],
           NEW fast \in BOOLEAN, NEW partial \in BOOLEAN, NEW size \in Nat,
           DecodeBlock(block, fast, partial, size),
           partial => ~fast /\ block = c /\ size \in 1 .. n,
           fast => block = c /\ size = n, block # c => ~partial /\ size = n
    PROVE  OnTrack(M, c, r, a, n)'
<1>1. PICK args :
         /\ Decompress(block, [i \in 0 .. size - 1 |-> Unset], args)
         /\ args.dst = 0 /\ args.outputSize = size /\ args.dictSize = 0
         /\ args.endOnInput = ~fast /\ args.partial = partial
         /\ args.dict = IF fast THEN "withPrefix64k" ELSE "noDict"
         /\ ~fast => args.lowPrefix = 0
  BY ArgsAre
<1>2. /\ args.endOnInput \in BOOLEAN /\ args.partial \in BOOLEAN
      /\ args.dict # "usingExtDict"
      /\ IF args.endOnInput THEN args.lowPrefix = 0 ELSE args.dict = "withPrefix64k"
      /\ args.partial => args.endOnInput /\ block = c /\ size \in 1 .. n
      /\ block # c => args.endOnInput /\ ~args.partial /\ size = n
      /\ ~args.endOnInput => size = n /\ block = c /\ ~args.partial
  BY <1>1
<1> QED BY <1>1, <1>2, StartTracks

LEMMA StartsTrack ==
    ASSUME EncInv, Recorded, StartDecode
    PROVE  Tracked'
<1>1. UNCHANGED encvars /\ pc = "done" /\ ret.written > 0 /\ dst \in Seq(Int)
  BY DEF StartDecode, EncInv, CoreOK
<1>2. ASSUME Fillable
      PROVE  \E c, r, a, n : \E M, e :
              IsTold(c, r, a, n) /\ Tells(M, c, r, e, a, n) /\ OnTrack(M, c, r, a, n)'
  <2>1. PICK c, r, a, n : IsTold(c, r, a, n)
    BY DEF IsTold
  <2>2. PICK M, e : Tells(M, c, r, e, a, n)
    BY <1>1, <1>2, <2>1 DEF Recorded, IsTold
  <2>3. n \in Nat /\ c = dst /\ n = ret.consumed /\ c \in Seq(Int)
    BY <1>1, <2>1, <2>2 DEF Tells, IsTold
  <2>4. Len(c) \in Nat
    BY <2>3, LenProperties
  <2>5. CASE DecodeSafe
    <3>1. PICK size \in Nat : DecodeBlock(c, FALSE, FALSE, size)
      BY <2>3, <2>5 DEF DecodeSafe
    <3>2. OnTrack(M, c, r, a, n)'
      BY <2>2, <2>3, <3>1, BlockTracks
    <3> QED BY <2>1, <2>2, <3>2
  <2>6. CASE DecodePartial
    <3>1. PICK s \in {1, ret.consumed \div 2, ret.consumed - 1, ret.consumed}
                         \cap 1 .. ret.consumed :
             DecodeBlock(c, FALSE, TRUE, s)
      BY <2>3, <2>6, Zenon DEF DecodePartial
    <3>2. s \in Nat /\ s \in 1 .. n
      <4>1. s \in 1 .. n
        BY <2>3, <3>1, Zenon
      <4> QED BY <2>3, <4>1
    <3>3. PICK size \in Nat : size \in 1 .. n /\ DecodeBlock(c, FALSE, TRUE, size)
      BY <3>1, <3>2
    <3>4. OnTrack(M, c, r, a, n)'
      BY <2>2, <2>3, <3>3, BlockTracks
    <3> QED BY <2>1, <2>2, <3>4
  <2>7. CASE DecodeFast
    <3>1. DecodeBlock(c, TRUE, FALSE, n)
      BY <2>3, <2>7 DEF DecodeFast
    <3>2. OnTrack(M, c, r, a, n)'
      BY <2>2, <2>3, <3>1, BlockTracks
    <3> QED BY <2>1, <2>2, <3>2
  <2>8. CASE DecodeTruncated
    <3>1. PICK t \in Lost : /\ Len(c) - t \in Nat
                            /\ DecodeBlock(SubSeq(c, 1, Len(c) - t), FALSE, FALSE, n)
      BY <2>3, <2>8 DEF DecodeTruncated
    <3>2. PICK m \in Nat : m = Len(c) - t
      BY <3>1
    <3>3. t \in Nat
      BY BlocksAssumption
    <3>4. m <= Len(c) /\ (m < Len(c) \/ m = Len(c))
      BY <2>4, <3>2, <3>3
    <3>5. PICK block : block = SubSeq(c, 1, m)
      OBVIOUS
    <3>6. /\ block \in Seq(Int) /\ Len(block) = m
          /\ \A k \in 1 .. Len(block) : block[k] = c[k]
      BY <2>3, <3>4, <3>5, BeginningIs
    <3>7. DecodeBlock(block, FALSE, FALSE, n)
      BY <3>1, <3>2, <3>5
    <3>8. block = c \/ Len(block) < Len(c)
      <4>1. ASSUME m = Len(c) PROVE block = c
        <5>1. block = [i \in 1 .. Len(block) |-> block[i]]
          BY <3>6
        <5>2. c = [i \in 1 .. Len(c) |-> c[i]]
          BY <2>3
        <5> QED BY <3>6, <4>1, <5>1, <5>2
      <4> QED BY <3>4, <3>6, <4>1
    <3>9. OnTrack(M, c, r, a, n)'
      BY <2>2, <2>3, <3>6, <3>7, <3>8, BlockTracks
    <3> QED BY <2>1, <2>2, <3>9
  <2> QED BY <2>5, <2>6, <2>7, <2>8 DEF StartDecode
<1> QED BY <1>1, <1>2, TrackedFrom

LEMMA OnTrackStays ==
    ASSUME NEW M, NEW c, NEW r, NEW a, NEW n, OnTrack(M, c, r, a, n), UNCHANGED decvars
    PROVE  OnTrack(M, c, r, a, n)'
<1>1. UNCHANGED << cin, mode, rp, wp, obuf, mlen, offset, written, readTo, dpc, dret >>
  BY DEF decvars
<1>2. safe' = safe /\ outEnd' = outEnd
  BY <1>1 DEF safe, outEnd
<1>3. (BlockMode(c, n)' <=> BlockMode(c, n)) /\ (Answers(c, r, a, n)' <=> Answers(c, r, a, n))
  BY <1>1, <1>2, Zenon DEF BlockMode, Begins, Answers, Gives
<1>4. (AtMark(M, r)' <=> AtMark(M, r)) /\ (AtCopy(M, c, r, a, n)' <=> AtCopy(M, c, r, a, n))
  BY <1>1, <1>2, Zenon DEF AtMark, AtCopy
<1> QED BY <1>1, <1>2, <1>3, <1>4, Zenon DEF OnTrack

LEMMA TrackedStays ==
    ASSUME Tracked, UNCHANGED << encvars, decvars >>
    PROVE  Tracked'
<1>1. dpc' = dpc
  BY DEF decvars
<1>2. CASE dpc = "idle"
  BY <1>1, <1>2 DEF Tracked
<1>3. CASE dpc # "idle"
  <2>1. pc = "done" /\ ret.written > 0
    BY <1>3 DEF Tracked
  <2>2. ASSUME Fillable
        PROVE  \E c, r, a, n : \E M, e :
              IsTold(c, r, a, n) /\ Tells(M, c, r, e, a, n) /\ OnTrack(M, c, r, a, n)'
    <3>1. PICK c, r, a, n : \E M, e :
              IsTold(c, r, a, n) /\ Tells(M, c, r, e, a, n) /\ OnTrack(M, c, r, a, n)
      BY <1>3, <2>2 DEF Tracked
    <3>2. PICK M, e :
              IsTold(c, r, a, n) /\ Tells(M, c, r, e, a, n) /\ OnTrack(M, c, r, a, n)
      BY <3>1
    <3>3. OnTrack(M, c, r, a, n)'
      BY <3>2, OnTrackStays
    <3> QED BY <3>2, <3>3
  <2> QED BY <2>1, <2>2, TrackedFrom
<1> QED BY <1>2, <1>3

(* The invariant of the calls for one block.                               *)
RoundInv == EncInv /\ RoomOK /\ InBlocks /\ Recorded /\ Tracked

LEMMA RoundStarts ==
    ASSUME Init, InBlocks
    PROVE  RoundInv
<1>1. EncInv /\ RoomOK
  BY RoomStarts
<1>2. pc \in {"idle", "fresh"} /\ dpc = "idle"
  BY DEF Init, BlocksInit, StreamInit, DecInit
<1> QED BY <1>1, <1>2 DEF RoundInv, Recorded, Tracked

LEMMA RoundKept ==
    ASSUME RoundInv, [Next]_vars
    PROVE  RoundInv'
<1>1. EncInv /\ RoomOK /\ InBlocks /\ Recorded /\ Tracked
  BY DEF RoundInv
<1>2. EncInv' /\ RoomOK' /\ Recorded' /\ InBlocks'
  BY <1>1, InvKept, RoomKept, RecordedKept
<1>3. Tracked'
  <2>1. CASE Encode
    <3>1. dpc' = "idle"
      BY <2>1 DEF Encode, decvars
    <3> QED BY <3>1 DEF Tracked
  <2>2. CASE StartDecode
    BY <1>1, <2>2, StartsTrack
  <2>3. CASE Decode
    BY <1>1, <2>3, DecodeTracks
  <2>4. CASE NextBlock
    <3>1. dpc' = "idle"
      BY <2>4 DEF NextBlock
    <3> QED BY <3>1 DEF Tracked
  <2>5. CASE UNCHANGED vars
    BY <1>1, <2>5, TrackedStays DEF vars
  <2> QED BY <1>1, <2>1, <2>2, <2>3, <2>4, <2>5 DEF Next
<1> QED BY <1>2, <1>3 DEF RoundInv

LEMMA ConsumedIs ==
    ASSUME EncInv, pc = "done", NEW n \in Nat, n = ret.consumed, n <= job.size,
           NEW k \in 1 .. n
    PROVE  Consumed[k] = Source[k - 1]
<1> DEFINE s == Start
           z == job.size
           block == SubSeq(buf, s + 1, s + z)
<1>1. buf \in Seq(Nat) /\ JobOK
  BY DEF EncInv, CoreOK, Busy, Begun
<1>2. s \in Nat /\ z \in Nat /\ s + z <= Len(buf) /\ Len(buf) \in Nat
  BY <1>1, LenProperties DEF JobOK, iend, Start
<1>3. Block = block
  BY DEF Block
<1> HIDE DEF s, z
<1>4. /\ block \in Seq(Int) /\ Len(block) = z
      /\ \A i \in 1 .. z : block[i] = buf[s + i]
  <2> DEFINE u == s + 1
             v == s + z
  <2>1. u \in Int /\ v \in Int /\ \A i \in u .. v : i \in 1 .. Len(buf)
    BY <1>2
  <2>2. \A i \in u .. v : buf[i] \in Int
    <3>1. \A i \in u .. v : buf[i] \in Nat
      BY <1>1, <2>1, ElementOfSeq
    <3> QED BY <3>1
  <2>3. v - u + 1 = z /\ (IF u <= v THEN v - u + 1 ELSE 0) = z /\ \A i \in 1 .. z : u + i - 1 = s + i
    BY <1>2
  <2> HIDE DEF u, v
  <2>4. /\ SubSeq(buf, u, v) \in Seq(Int)
        /\ Len(SubSeq(buf, u, v)) = IF u <= v THEN v - u + 1 ELSE 0
        /\ \A i \in 1 .. v - u + 1 : SubSeq(buf, u, v)[i] = buf[u + i - 1]
    BY <2>1, <2>2, SubSeqProperties
  <2>5. block = SubSeq(buf, u, v)
    BY DEF u, v
  <2> HIDE DEF block
  <2> QED BY <2>3, <2>4, <2>5
<1> HIDE DEF block
<1>5. Consumed[k] = block[k]
  <2>1. Consumed = SubSeq(block, 1, n)
    BY <1>3 DEF Consumed
  <2>2. n <= Len(block)
    BY <1>4 DEF z
  <2> QED BY <1>4, <2>1, <2>2, BeginningIs
<1>6. block[k] = buf[s + k]
  BY <1>2, <1>4 DEF z
<1>7. k - 1 \in Int /\ Start + (k - 1) + 1 = s + k
  BY <1>2 DEF s
<1>8. Source[k - 1] = buf[s + k]
  <2>1. Source[k - 1] = B(Start + (k - 1))
    BY <1>7 DEF Source
  <2>2. B(Start + (k - 1)) = buf[Start + (k - 1) + 1]
    BY DEF B
  <2> QED BY <1>7, <2>1, <2>2
<1> QED BY <1>5, <1>6, <1>8

(* What is known of a block that a decompressor is on its way through.     *)
LEMMA TrackIs ==
    ASSUME RoundInv, Fillable, dpc # "idle"
    PROVE  \E M, r, a : \E n \in Nat :
              /\ r = Source /\ n = ret.consumed /\ OnTrack(M, dst, r, a, n)
              /\ TailKept => Kept(a, n)
              /\ \A k \in 1 .. n : Consumed[k] = r[k - 1]
<1>1. EncInv /\ pc = "done" /\ ret.written > 0 /\ Recorded
  BY DEF RoundInv, Tracked
<1>2. PICK c, r, a, n : \E M, e :
         IsTold(c, r, a, n) /\ Tells(M, c, r, e, a, n) /\ OnTrack(M, c, r, a, n)
  BY DEF RoundInv, Tracked
<1>3. PICK M, e :
         IsTold(c, r, a, n) /\ Tells(M, c, r, e, a, n) /\ OnTrack(M, c, r, a, n)
  BY <1>2
<1>4. c = dst /\ r = Source /\ a = anchor - Start /\ n = ret.consumed /\ n \in Nat
  BY <1>3 DEF IsTold, Tells
<1>5. anchor \in Nat /\ n <= job.size
  BY <1>1, <1>4 DEF Recorded
<1>6. Start \in Nat
  BY <1>1 DEF EncInv, CoreOK, Busy, Begun, JobOK, Start
<1>7. TailKept => Kept(a, n)
  <2>1. LastRun = n - a
    BY <1>4 DEF LastRun
  <2>2. a > 0 => anchor > Start
    BY <1>4, <1>5, <1>6
  <2> QED BY <2>1, <2>2 DEF TailKept, Kept, LASTLITERALS, LastLits
<1>8. \A k \in 1 .. n : Consumed[k] = r[k - 1]
  BY <1>1, <1>4, <1>5, ConsumedIs
<1> QED BY <1>3, <1>4, <1>7, <1>8

LEMMA RoundGives ==
    ASSUME RoundInv, Fillable
    PROVE  RoundTrip /\ WholeOrRefused
<1>1. CASE dpc # "end"
  BY <1>1 DEF RoundTrip, WholeOrRefused, SmallBufferRefused, TruncatedNotWhole
<1>2. CASE dpc = "end"
  <2>1. dpc # "idle"
    BY <1>2
  <2>2. PICK M, r, a : \E n \in Nat :
              /\ r = Source /\ n = ret.consumed /\ OnTrack(M, dst, r, a, n)
              /\ TailKept => Kept(a, n)
              /\ \A k \in 1 .. n : Consumed[k] = r[k - 1]
    BY <2>1, TrackIs
  <2>3. PICK n \in Nat :
              /\ n = ret.consumed /\ OnTrack(M, dst, r, a, n)
              /\ TailKept => Kept(a, n)
              /\ \A k \in 1 .. n : Consumed[k] = r[k - 1]
    BY <2>2
  <2>4. Answers(dst, r, a, n) /\ BlockMode(dst, n)
    BY <1>2, <2>3 DEF OnTrack
  <2>5. mode.dst = 0 /\ mode.outputSize \in Nat /\ outEnd = mode.outputSize
    <3>1. mode.dst = 0 /\ mode.outputSize \in Nat
      BY <2>4 DEF BlockMode
    <3> QED BY <3>1 DEF outEnd
  <2>6. /\ Gives(dst, n) /\ Kept(a, n) =>
             /\ dret = IF ~safe THEN Len(cin)
                       ELSE IF mode.partial THEN mode.outputSize ELSE n
             /\ \A k \in 0 .. outEnd - 1 : k < n => obuf[k] = r[k]
        /\ safe /\ ~mode.partial /\ mode.outputSize < n => dret < 0
        /\ cin # dst /\ Kept(a, n) /\ n > 0 =>
             /\ dret \in Int /\ dret < n
             /\ \A k \in Nat : k < dret => obuf[k] = r[k]
    BY <2>4, Zenon DEF Answers
  <2>7. SmallBufferRefused
    BY <2>3, <2>6 DEF SmallBufferRefused
  <2>8. TruncatedNotWhole
    <3> SUFFICES ASSUME cin # dst, TailKept, n > 0
                 PROVE  /\ dret < n
                        /\ \A k \in 1 .. dret : obuf[mode.dst + k - 1] = Consumed[k]
      BY <2>3 DEF TruncatedNotWhole
    <3>1. /\ dret \in Int /\ dret < n
          /\ \A k \in Nat : k < dret => obuf[k] = r[k]
      BY <2>3, <2>6
    <3>2. ASSUME NEW k \in 1 .. dret PROVE obuf[mode.dst + k - 1] = Consumed[k]
      <4>1. k - 1 \in Nat /\ k - 1 < dret /\ k \in 1 .. n /\ mode.dst + k - 1 = k - 1
        <5>1. k \in Nat /\ 1 <= k /\ k <= dret
          BY <3>1
        <5>2. dret \in Int /\ dret < n /\ mode.dst = 0
          BY <2>5, <3>1
        <5> QED BY <5>1, <5>2
      <4>2. obuf[k - 1] = r[k - 1]
        BY <3>1, <4>1
      <4>3. Consumed[k] = r[k - 1]
        BY <2>3, <4>1
      <4> QED BY <4>1, <4>2, <4>3
    <3> QED BY <3>1, <3>2
  <2>9. RoundTrip
    <3> SUFFICES ASSUME cin = dst, TailKept, mode.partial \/ mode.outputSize >= n
                 PROVE  /\ dret = IF ~mode.endOnInput THEN Len(cin)
                                  ELSE IF mode.partial THEN mode.outputSize ELSE n
                        /\ \A k \in 1 .. Min({n, mode.outputSize}) :
                               obuf[mode.dst + k - 1] = Consumed[k]
      BY <2>3 DEF RoundTrip
    <3>1. /\ dret = IF ~safe THEN Len(cin)
                    ELSE IF mode.partial THEN mode.outputSize ELSE n
          /\ \A k \in 0 .. outEnd - 1 : k < n => obuf[k] = r[k]
      BY <2>3, <2>6 DEF Gives
    <3>2. PICK m : m = Min({n, mode.outputSize})
      OBVIOUS
    <3>3. m \in Nat /\ m <= n /\ m <= outEnd
      <4>1. {n, mode.outputSize} \subseteq Nat /\ {n, mode.outputSize} # {}
        BY <2>5
      <4>2. m \in {n, mode.outputSize} /\ \A y \in {n, mode.outputSize} : m <= y
        BY <3>2, <4>1, LeastTaken, Zenon
      <4> QED BY <2>5, <4>2
    <3>4. ASSUME NEW k \in 1 .. m PROVE obuf[mode.dst + k - 1] = Consumed[k]
      <4>1. k - 1 \in 0 .. outEnd - 1 /\ k - 1 < n /\ k \in 1 .. n
            /\ mode.dst + k - 1 = k - 1
        BY <2>5, <3>3
      <4>2. obuf[k - 1] = r[k - 1]
        BY <3>1, <4>1
      <4>3. Consumed[k] = r[k - 1]
        BY <2>3, <4>1
      <4> QED BY <4>1, <4>2, <4>3
    <3> QED BY <3>1, <3>2, <3>4 DEF safe
  <2> QED BY <2>7, <2>8, <2>9 DEF WholeOrRefused
<1> QED BY <1>1, <1>2

LEMMA RoundCopies ==
    ASSUME RoundInv, Estimated, dpc # "idle" /\ ~safe => TailKept
    PROVE  CopiesInside
<1>1. EncodeInside
  BY RoomGives DEF RoundInv
<1>2. Fillable
  BY DEF Fillable, Estimated
<1>3. ASSUME dpc # "idle" PROVE written <= outEnd /\ readTo <= Len(cin)
  <2>1. PICK M, r, a : \E n \in Nat :
              /\ r = Source /\ n = ret.consumed /\ OnTrack(M, dst, r, a, n)
              /\ TailKept => Kept(a, n)
              /\ \A k \in 1 .. n : Consumed[k] = r[k - 1]
    BY <1>2, <1>3, TrackIs
  <2> QED BY <1>3, <2>1 DEF OnTrack
<1> QED BY <1>1, <1>3 DEF CopiesInside, DecodeInside

(* The decompressors give back what the compressor was given, whatever the *)
(* block, dst, the buffer that is decoded into and the state the blocks    *)
(* before it left (lz4.h:330-341).  Where dst is to be filled, for blocks  *)
(* of which the code's estimate of a match's length bytes (lz4.c:763) is   *)
(* right.                                                                  *)
THEOREM BlocksComeBack == Spec /\ InBlocks => [](Fillable => RoundTrip)
<1>1. Init /\ InBlocks => RoundInv
  BY RoundStarts
<1>2. RoundInv /\ [Next]_vars => RoundInv'
  BY RoundKept
<1>3. RoundInv => (Fillable => RoundTrip)
  BY RoundGives
<1> QED BY <1>1, <1>2, <1>3, PTL DEF Spec

(* What decodes to more than its buffer is refused, and what lost its end  *)
(* does not pass for the whole (9p.c:788).                                 *)
THEOREM PartsAreTold == Spec /\ InBlocks => [](Fillable => WholeOrRefused)
<1>1. Init /\ InBlocks => RoundInv
  BY RoundStarts
<1>2. RoundInv /\ [Next]_vars => RoundInv'
  BY RoundKept
<1>3. RoundInv => (Fillable => WholeOrRefused)
  BY RoundGives
<1> QED BY <1>1, <1>2, <1>3, PTL DEF Spec

(* No copy of either side leaves its buffers: of decompress_fast(), which  *)
(* does not know where its input ends, for blocks that end in as many      *)
(* literals as lz4.c:1498 says every block does.                           *)
THEOREM CopiesStayInside ==
    Spec /\ InBlocks =>
        [](Estimated /\ (dpc # "idle" /\ ~safe => TailKept) => CopiesInside)
<1>1. Init /\ InBlocks => RoundInv
  BY RoundStarts
<1>2. RoundInv /\ [Next]_vars => RoundInv'
  BY RoundKept
<1>3. RoundInv => (Estimated /\ (dpc # "idle" /\ ~safe => TailKept) => CopiesInside)
  BY RoundCopies
<1> QED BY <1>1, <1>2, <1>3, PTL DEF Spec
=============================================================================
