------------------------------ MODULE Lz4Encode ------------------------------
(***************************************************************************)
(* LZ4_compress_generic() of lz4.c, with what comes before a block or none,*)
(* and the calls that compress one block: compress_fast_extState (which    *)
(* compress_fast and compress_default are), its _fastReset,                *)
(* compress_fast_force and compress_destSize, on a 64-bit machine.         *)
(*                                                                         *)
(* Consecutive blocks of one buffer are compressed with one state, as a    *)
(* caller that cuts a file into blocks does.  A position is an address in  *)
(* the caller's memory, from 0; the hash table holds indexes, a position   *)
(* minus the block's start plus the state's offset at that time (base +    *)
(* index in the code).  Tokens, length bytes and offsets are those of the  *)
(* code; a literal byte is a small number.                                 *)
(***************************************************************************)
EXTENDS Integers, Sequences, SequencesExt, FiniteSetsExt

CONSTANTS
    HashSizes,      \* slots of the hash table: 1 makes every word collide
    Capacities,     \* sizes of dst, besides compressBound
    Accelerations,  \* LZ4_compress_fast's acceleration
    KB64,           \* 64 KB in the code: one more than an offset spans
    KB4,            \* 4 KB in the code: a larger block resets a used table
    GB1             \* 1 GB in the code: a table of larger indexes is reset

ASSUME EncodeAssumption ==
    /\ HashSizes \subseteq Nat \ {0} /\ Capacities \subseteq Nat
    /\ Accelerations \subseteq Nat \ {0}
    /\ KB64 \in Nat /\ KB64 >= 16 /\ KB4 \in Nat /\ GB1 \in Nat

MINMATCH == 4
LASTLITERALS == 5
MFLIMIT == 12
RUN_MASK == 15
ML_MASK == 15
LZ4_minLength == MFLIMIT + 1
MAX_DISTANCE == KB64 - 1

(* Mistake: the limit leaves out that no match starts in the last MFLIMIT. *)
LZ4_64Klimit_Late == KB64 + MFLIMIT + 1

LZ4_64Klimit == KB64 + (MFLIMIT - 1)

LZ4_skipTrigger == 64       \* 1 << 6

VARIABLES
    buf, sizes,     \* the memory; the sizes of the blocks still to compress
    slots,          \* HASH_SIZE
    ctx,            \* LZ4_stream_t_internal
    job,            \* the arguments of this call of compress_generic
    ip, anchor, match, fwd, step, nb,
    low, back,      \* lowLimit; offset, which the external modes keep
    dst, token,     \* what was written before op; where the token is
    high,           \* the end of what was ever written in dst
    pc, ret

encvars == << buf, sizes, slots, ctx, job, ip, anchor, match, fwd, step, nb,
              low, back, dst, token, high, pc, ret >>

Nil == -1000
Cleared == [off |-> 0, dictionary |-> Nil, dictSize |-> 0, dictCtx |-> {},
            type |-> "clearedTable", table |-> [h \in 0 .. slots - 1 |-> 0]]

LZ4_compressBound(isize) == isize + isize \div 255 + 16

(* ---- The block being compressed ---- *)
Start == job.start
iend == job.start + job.size
mflimitPlusOne == iend - MFLIMIT + 1
matchlimit == iend - LASTLITERALS
B(p) == buf[p + 1]
Index(p) == p - Start + job.startIndex              \* p - base
Position(index) == index + Start - job.startIndex   \* base + index

(* Four bytes; none where they are not all in the caller's memory.         *)
Read32(p) == IF p < 0 \/ p + 4 > Len(buf) THEN << >> ELSE SubSeq(buf, p + 1, p + 4)

(* hash4 for a table of U16, hash5 for U32, into any number of slots.      *)
LZ4_hashPosition(p, type) ==
    LET low4 == B(p) + 3 * B(p + 1) + 9 * B(p + 2) + 27 * B(p + 3)
    IN  (IF type = "byU16" THEN low4 ELSE low4 + 81 * B(p + 4)) % slots

(* A U16 table keeps 16 bits of an index.                                  *)
Entry(index, type) ==
    IF type = "byU16" THEN index % (MAX_DISTANCE + 1) ELSE index

LZ4_putPosition(p, table, type) ==
    [table EXCEPT ![LZ4_hashPosition(p, type)] = Entry(Index(p), type)]

(* How many bytes from p on equal those from m on, short of limit: the     *)
(* comparison by words of 8, 4, 2 and 1 bytes stops at the same place.     *)
LZ4_count(p, m, limit) ==
    LET differ == {k \in 0 .. limit - p - 1 : B(p + k) # B(m + k)}
    IN  IF differ = {} THEN limit - p ELSE Min(differ)

(* The bytes of a length that exceeds its four bits of the token by n.     *)
LengthBytes(n) == [k \in 1 .. n \div 255 |-> 255] \o << n % 255 >>

(* The end of a LZ4_wildCopy() that starts at d and has n bytes to copy.   *)
WildEnd(d, n) == d + 8 * Max({1, (n + 7) \div 8})

(* ---- Starting a call ---- *)
(* LZ4_prepareTable(): the table of an earlier call is kept when none of   *)
(* its indexes can be mistaken for one of this block.                      *)
LZ4_prepareTable(c, size, type) ==
    LET unfit == /\ c.type # "clearedTable"
                 /\ \/ c.type # type
                    \/ type = "byU16" /\ c.off + size >= MAX_DISTANCE
                    \/ type = "byU32" /\ c.off > GB1
                    \/ size >= KB4
        kept == IF unfit THEN Cleared ELSE c
        gap == IF kept.off # 0 /\ type = "byU32" THEN KB64 ELSE 0
    IN  [kept EXCEPT !.off = @ + gap, !.dictionary = Nil, !.dictSize = 0,
                     !.dictCtx = {}]

(* Mistake: destSize gives up where it should fill dst. *)
Directive_NeverFill(api, size, cap) ==
    IF cap >= LZ4_compressBound(size) /\ api # "force"
    THEN "notLimited" ELSE "limitedOutput"
(* What the entry points pass on, but for the state they prepare.          *)
Directive(api, size, cap) ==
    CASE api = "force" -> "limitedOutput"
      [] cap >= LZ4_compressBound(size) -> "notLimited"
      [] api = "destSize" -> "fillOutput"
      [] OTHER -> "limitedOutput"

(* The beginning of compress_generic(), up to its main loop, for a state c *)
(* and the arguments.  What came before the block is right in front of it, *)
(* or at the dictionary of c or of the state attached to c.  The callers   *)
(* of an external mode make the block the dictionary of the next one when  *)
(* it returns, and nothing looks at that before.                           *)
Compress(c, args) ==
    LET external == args.dict \in {"usingExtDict", "usingDictCtx"}
        d == IF args.dict = "usingDictCtx" THEN CHOOSE x \in c.dictCtx : TRUE ELSE c
        start == args.start
        used == [c EXCEPT !.dictionary = IF external THEN start ELSE @,
                          !.dictSize = IF external THEN args.size ELSE @ + args.size,
                          !.dictCtx = IF args.dict = "usingDictCtx" THEN {} ELSE @,
                          !.off = @ + args.size, !.type = args.type]
    IN  /\ job' = [api |-> args.api, start |-> start, size |-> args.size,
                   cap |-> args.cap, limit |-> args.limit, type |-> args.type,
                   acceleration |-> args.acceleration, dict |-> args.dict,
                   dictSmall |-> args.dictSmall,
                   startIndex |-> c.off, prefixIdxLimit |-> c.off - d.dictSize,
                   lowLimit |-> IF args.dict = "withPrefix64k"
                                THEN start - d.dictSize ELSE start,
                   dictionary |-> d.dictionary, dictEnd |-> d.dictionary + d.dictSize,
                   dictBase |-> d.dictionary + d.dictSize - d.off,
                   dictDelta |-> c.off - d.off,
                   dictTable |-> IF args.dict = "usingDictCtx" THEN d.table ELSE << >>]
        /\ dst' = << >> /\ high' = 0 /\ token' = 0
        /\ anchor' = start /\ match' = start /\ low' = start /\ back' = 0
        /\ step' = 1 /\ nb' = args.acceleration * LZ4_skipTrigger
        /\ IF args.limit = "fillOutput" /\ args.cap < 1
           THEN /\ pc' = "done" /\ ret' = [written |-> 0, consumed |-> args.size]
                /\ ctx' = c /\ ip' = start /\ fwd' = start
           ELSE /\ ret' = [written |-> 0, consumed |-> 0]
                /\ IF args.size < LZ4_minLength
                   THEN /\ pc' = "last" /\ ctx' = used
                        /\ ip' = start /\ fwd' = start
                   ELSE /\ pc' = "search"
                        /\ ctx' = [used EXCEPT
                             !.table[LZ4_hashPosition(start, args.type)] =
                                Entry(c.off, args.type)]
                        /\ ip' = start + 1 /\ fwd' = start + 1
        /\ UNCHANGED slots

(* The calls for one block.  A state that was cleared, or used by these    *)
(* two calls only, is fit for fastReset.                                   *)
Call(api, cap, acceleration) ==
    LET size == Head(sizes)
        type == IF size < LZ4_64Klimit THEN "byU16" ELSE "byU32"
        c == IF api = "fastReset" THEN LZ4_prepareTable(ctx, size, type)
                                  ELSE Cleared
    IN  /\ api = "fastReset" => job.api \in {"none", "extState", "fastReset"}
        /\ api \in {"force", "destSize"} => acceleration = 1
        /\ sizes' = Tail(sizes)
        /\ Compress(c, [api |-> api, start |-> job.start + job.size, size |-> size,
                        cap |-> cap, limit |-> Directive(api, size, cap),
                        type |-> type, acceleration |-> acceleration,
                        dict |-> "noDict",
                        dictSmall |-> /\ api = "fastReset" /\ type = "byU16"
                                      /\ c.off # 0])
        /\ UNCHANGED buf

CallBlock ==
    /\ pc = "idle" /\ sizes # << >>
    /\ \E api \in {"extState", "fastReset", "force", "destSize"},
          cap \in Capacities \cup {LZ4_compressBound(Head(sizes))},
          acceleration \in Accelerations :
             Call(api, cap, acceleration)

Unmoved == UNCHANGED << buf, sizes, slots, job >>

(* ---- The main loop ---- *)
External == job.dict \in {"usingExtDict", "usingDictCtx"}

(* What a slot of the table holds: in the external modes an index from     *)
(* before the block is one of the dictionary, or tells that the table of   *)
(* the dictionary's own state is to be asked.                              *)
Candidate(table, slot) ==
    LET index == table[slot]
        inDict == IF job.dict = "usingDictCtx" THEN job.dictTable[slot] ELSE index
    IN  IF External /\ index < job.startIndex
        THEN [index |-> inDict + job.dictDelta, match |-> job.dictBase + inDict,
              low |-> job.dictionary]
        ELSE [index |-> index, match |-> Position(index), low |-> job.lowLimit]

(* Is a candidate in valid memory, not too far back, and the same word?    *)
Matches(c, p) ==
    /\ job.dictSmall => c.index >= job.prefixIdxLimit
    /\ job.type # "byU16" => c.index + MAX_DISTANCE >= Index(p)
    /\ Read32(c.match) = Read32(p)

(* One turn of the search, the candidate being what the word's slot holds. *)
Search ==
    LET slot == LZ4_hashPosition(fwd, job.type)
        c == Candidate(ctx.table, slot)
        found == Matches(c, fwd)
    IN  /\ pc = "search"
        /\ ip' = fwd
        /\ fwd' = fwd + step
        /\ step' = nb \div LZ4_skipTrigger
        /\ nb' = nb + 1
        /\ IF fwd' > mflimitPlusOne
           THEN pc' = "last" /\ UNCHANGED << ctx, match, low, back >>
           ELSE /\ ctx' = [ctx EXCEPT !.table[slot] =
                                        Entry(Index(fwd), job.type)]
                /\ IF found
                   THEN match' = c.match /\ low' = c.low /\ back' = Index(fwd) - c.index
                   ELSE UNCHANGED << match, low, back >>
                /\ pc' = IF found THEN "literals" ELSE "search"
        /\ UNCHANGED << anchor, dst, token, high, ret >> /\ Unmoved

(* How far a match can be extended backwards, over literals not yet put.   *)
CatchUp ==
    Max({n \in 0 .. ip - anchor :
            /\ n <= Max({0, match - low})
            /\ \A k \in 1 .. n : B(ip - k) = B(match - k)})

(* Mistake: the bytes a copy by 8 overshoots are not counted. *)
LiteralsTight_NoOvershoot(op, litLength) ==
    /\ job.limit # "notLimited"
    /\ op + litLength + 2 + litLength \div 255 > job.cap
(* Would the literals, an offset and the last literals overrun dst?        *)
LiteralsTight(op, litLength) ==
    \/ /\ job.limit = "limitedOutput"
       /\ op + litLength + (2 + 1 + LASTLITERALS) + litLength \div 255 > job.cap
    \/ /\ job.limit = "fillOutput"
       /\ op + (litLength + 240) \div 255 + litLength + 2 + 1
            + MFLIMIT - MINMATCH > job.cap

GiveUp == pc' = "done" /\ ret' = [written |-> 0, consumed |-> job.size]

EncodeLiterals ==
    LET at == ip - CatchUp
        litLength == at - anchor
        head == IF litLength >= RUN_MASK
                THEN << RUN_MASK * 16 >> \o LengthBytes(litLength - RUN_MASK)
                ELSE << litLength * 16 >>
        tight == LiteralsTight(Len(dst) + 1, litLength)
    IN  /\ pc = "literals"
        /\ ip' = at /\ match' = match - CatchUp
        /\ token' = Len(dst)
        /\ \/ /\ tight /\ job.limit = "limitedOutput" /\ GiveUp
              /\ UNCHANGED << dst, high >>
           \/ /\ tight /\ job.limit = "fillOutput" /\ pc' = "last"
              /\ UNCHANGED << dst, high, ret >>
           \/ /\ ~tight /\ pc' = "match"
              /\ dst' = dst \o head \o SubSeq(buf, anchor + 1, at)
              /\ high' = Max({high, WildEnd(Len(dst \o head), litLength)})
              /\ UNCHANGED ret
        /\ UNCHANGED << ctx, anchor, fwd, step, nb, low, back >> /\ Unmoved

(* How far the match goes beyond MINMATCH; one in an external dictionary   *)
(* goes on at the block's start when it reaches the dictionary's end.      *)
MatchCode ==
    LET limit == Min({ip + (job.dictEnd - match), matchlimit})
        inDict == LZ4_count(ip + MINMATCH, match + MINMATCH, limit)
    IN  IF External /\ low = job.dictionary
        THEN IF ip + MINMATCH + inDict = limit
             THEN inDict + LZ4_count(limit, Start, matchlimit) ELSE inDict
        ELSE LZ4_count(ip + MINMATCH, match + MINMATCH, matchlimit)

Offset == IF External THEN back ELSE ip - match

(* The match length, but for MINMATCH, that leaves room for last literals. *)
ReducedMatchCode(op) ==
    15 - 1 + (job.cap - op - 2 - 1 - LASTLITERALS) * 255

(* A match that a dst to be filled has no room for is given up.            *)
Rewind ==
    /\ job.limit = "fillOutput"
    /\ Len(dst) + 2 + 1 + MFLIMIT - MINMATCH > job.cap

(* _next_match: the offset and the length of the match, which a dst to be  *)
(* filled may cut short or refuse.                                         *)
EncodeMatch ==
    LET op == Len(dst) + 2
        count == MatchCode
        tight == /\ job.limit # "notLimited"
                 /\ op + (1 + LASTLITERALS) + count \div 256 > job.cap
        matchCode == IF tight THEN ReducedMatchCode(op) ELSE count
        offset16 == << Offset % 256, Offset \div 256 >>
        tail == IF matchCode >= ML_MASK THEN LengthBytes(matchCode - ML_MASK)
                                        ELSE << >>
    IN  /\ pc = "match"
        /\ \/ /\ Rewind
              /\ dst' = SubSeq(dst, 1, token) /\ pc' = "last"
              /\ UNCHANGED << ip, anchor, high, ret >>
           \/ /\ job.limit = "limitedOutput" /\ tight /\ GiveUp
              /\ ip' = ip + MINMATCH + count
              /\ dst' = dst \o offset16 /\ high' = Max({high, op})
              /\ UNCHANGED anchor
           \/ /\ ~Rewind /\ ~(job.limit = "limitedOutput" /\ tight)
              /\ ip' = ip + MINMATCH + matchCode
              /\ anchor' = ip'
              /\ dst' = [dst EXCEPT ![token + 1] = @ + Min({matchCode, ML_MASK})]
                            \o offset16 \o tail
              /\ high' = Max({high, Len(dst')} \cup
                    \* 0xFFFFFFFF is stored four bytes at a time
                    {op + 4 + 4 * (k \div 1020) : k \in {matchCode - ML_MASK}
                                                    \cap Nat})
              /\ pc' = IF ip' >= mflimitPlusOne THEN "last" ELSE "next"
              /\ UNCHANGED ret
        /\ UNCHANGED << ctx, match, fwd, step, nb, low, back, token >> /\ Unmoved

(* Fill the table with ip-2, then test whether a match starts right at ip. *)
TestNext ==
    LET filled == LZ4_putPosition(ip - 2, ctx.table, job.type)
        slot == LZ4_hashPosition(ip, job.type)
        c == Candidate(filled, slot)
        found == Matches(c, ip)
    IN  /\ pc = "next"
        /\ ctx' = [ctx EXCEPT !.table = [filled EXCEPT ![slot] =
                                            Entry(Index(ip), job.type)]]
        /\ match' = c.match /\ low' = c.low /\ back' = Index(ip) - c.index
        /\ \/ /\ found
              /\ pc' = "match" /\ token' = Len(dst) /\ dst' = dst \o << 0 >>
              /\ high' = Max({high, Len(dst')})
              /\ UNCHANGED << ip, fwd, step, nb >>
           \/ /\ ~found
              /\ pc' = "search" /\ ip' = ip + 1 /\ fwd' = ip + 1
              /\ step' = 1 /\ nb' = job.acceleration * LZ4_skipTrigger
              /\ UNCHANGED << dst, token, high >>
        /\ UNCHANGED << anchor, ret >> /\ Unmoved

(* _last_literals: what is left, or as much of it as fills dst.            *)
LastLiterals ==
    LET all == iend - anchor
        tight == /\ job.limit # "notLimited"
                 /\ Len(dst) + all + 1 + (all + 255 - RUN_MASK) \div 255 > job.cap
        room == job.cap - Len(dst) - 1
        lastRun == IF tight THEN room - (room + 240) \div 255 ELSE all
        head == IF lastRun >= RUN_MASK
                THEN << RUN_MASK * 16 >> \o LengthBytes(lastRun - RUN_MASK)
                ELSE << lastRun * 16 >>
        out == dst \o head \o SubSeq(buf, anchor + 1, anchor + lastRun)
    IN  /\ pc = "last" /\ pc' = "done"
        /\ IF tight /\ job.limit = "limitedOutput"
           THEN GiveUp /\ UNCHANGED << ip, dst, high >>
           ELSE /\ ip' = anchor + lastRun
                /\ dst' = out
                /\ high' = Max({high, Len(out)})
                /\ ret' = [written |-> Len(out), consumed |->
                             IF job.limit = "fillOutput" THEN ip' - Start
                                                         ELSE job.size]
        /\ UNCHANGED << ctx, anchor, match, fwd, step, nb, low, back, token >> /\ Unmoved

EncInit ==
    /\ slots \in HashSizes
    /\ ctx = Cleared
    /\ job = [api |-> "none", start |-> 0, size |-> 0]
    /\ ip = 0 /\ anchor = 0 /\ match = 0 /\ fwd = 0 /\ step = 1 /\ nb = 0
    /\ low = 0 /\ back = 0
    /\ dst = << >> /\ token = 0 /\ high = 0
    /\ ret = [written |-> 0, consumed |-> 0]

EncNext == Search \/ EncodeLiterals \/ EncodeMatch \/ TestNext \/ LastLiterals
=============================================================================
