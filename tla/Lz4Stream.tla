------------------------------ MODULE Lz4Stream ------------------------------
(***************************************************************************)
(* The streaming calls of lz4.c: resetStream, resetStream_fast, loadDict,  *)
(* attach_dictionary, compress_fast_continue, compress_forceExtDict and    *)
(* saveDict of a sender; setStreamDecode, decompress_safe_continue and     *)
(* decompress_fast_continue and decompress_*_usingDict of a receiver.      *)
(*                                                                         *)
(* A message is cut into blocks of any size.  The sender writes each block *)
(* where its way of using memory tells, compresses it, and the receiver    *)
(* decompresses it to where its own way tells.  Both ways are those that   *)
(* lz4.h describes; what lies in memory is overwritten as they go.         *)
(***************************************************************************)
EXTENDS Lz4Encode, Lz4Decode

CONSTANTS
    Ways,       \* how sender and receiver use their memories
    MaxBlock,   \* the size of the largest block they agreed on
    GB2         \* 2 GB in the code: indexes are rescaled before they reach it

ASSUME WindowIsKB64 == Window = KB64
ASSUME StreamAssumption ==
    /\ MaxBlock \in Nat /\ GB2 \in Nat /\ GB2 >= KB64 + MaxBlock
    /\ \A w \in Ways :
          /\ w.sender \in {"ring", "double", "save"}
          /\ w.receiver \in {"ring", "double", "save"}
          /\ w.origin \in Nat /\ w.ring \in Nat /\ w.keep \in Nat
          /\ w.rorigin \in Nat /\ w.rring \in Nat
          /\ w.how \in {"none", "load", "attach"}
          /\ w.dict \in Seq(Nat) /\ w.text \in Seq(Nat)
          /\ w.sizes \subseteq 1 .. MaxBlock /\ w.caps \subseteq Nat
          /\ {w.again, w.forced, w.exact, w.fast} \subseteq BOOLEAN

HASH_UNIT == 8
LZ4_DECODER_RING_BUFFER_SIZE == KB64 + 14 + MaxBlock

VARIABLES
    way,            \* a member of Ways
    text,           \* the message
    begun, sent,    \* where in it the stream began; how much was compressed
    at, to,         \* where a block goes, of sender and receiver
    sd              \* LZ4_streamDecode_t_internal

streamvars == << way, text, begun, sent, at, to, sd >>

(* ---- The sender's state ---- *)
(* LZ4_loadDict(): every third word is entered, with the indexes the last  *)
(* 64 KB of the dictionary have in front of a block at 64 KB.              *)
Loaded(address, size) ==
    LET end == address + size
        first == Max({address, end - KB64})
        IndexOf(p) == p - (end - KB64)
        Put(h) == {IndexOf(p) : p \in {q \in first .. end - HASH_UNIT :
                        (q - first) % 3 = 0 /\ LZ4_hashPosition(q, "byU32") = h}}
    IN  [Cleared EXCEPT
            !.dictionary = first, !.dictSize = end - first, !.off = KB64,
            !.type = "byU32",
            !.table = [h \in DOMAIN @ |-> Max(Put(h) \cup {0})]]

(* LZ4_attach_dictionary()                                                 *)
Attached(c, dict) ==
    [c EXCEPT !.off = IF @ = 0 THEN KB64 ELSE @, !.dictCtx = {dict}]

(* LZ4_renormDictT()                                                       *)
Renormed(c, nextSize) ==
    IF c.off + nextSize <= GB2 THEN c
    ELSE LET delta == c.off - KB64
             size == Min({c.dictSize, KB64})
         IN  [c EXCEPT
                !.table = [h \in DOMAIN @ |-> IF @[h] < delta THEN 0 ELSE @[h] - delta],
                !.off = KB64, !.dictSize = size,
                !.dictionary = @ + c.dictSize - size]

(* A dictionary of up to four bytes is dropped, unless the block follows.  *)
Tidied(c, source) ==
    IF c.dictSize \in 1 .. 4 /\ c.dictionary + c.dictSize # source
    THEN [c EXCEPT !.dictSize = 0, !.dictionary = source] ELSE c

(* Mistake: only a block that starts in the dictionary is looked for. *)
Unoverlapped_ByStart(c, source, size) ==
    LET end == c.dictionary + c.dictSize
        left == Min({end - (source + size), KB64})
        kept == IF left < 4 THEN 0 ELSE left
    IN  IF source > c.dictionary /\ source + size < end
        THEN [c EXCEPT !.dictSize = kept, !.dictionary = end - kept] ELSE c

(* What the block leaves of a dictionary that it ends in.                  *)
Unoverlapped(c, source, size) ==
    LET end == c.dictionary + c.dictSize
        left == Min({end - (source + size), KB64})
        kept == IF left < 4 THEN 0 ELSE left
    IN  IF source + size > c.dictionary /\ source + size < end
        THEN [c EXCEPT !.dictSize = kept, !.dictionary = end - kept] ELSE c

Small(c) == c.dictSize < KB64 /\ c.dictSize < c.off

StreamCall(c, source, size, cap, dict, small) ==
    Compress(c, [api |-> "continue", start |-> source, size |-> size, cap |-> cap,
                 limit |-> "limitedOutput", type |-> "byU32", acceleration |-> 1,
                 dict |-> dict, dictSmall |-> small])

(* LZ4_compress_fast_continue(), up to the main loop: behind the last      *)
(* block; with the dictionary of another state, whose table is copied for  *)
(* a large block; or with one elsewhere in memory.                         *)
Continue(source, size, cap) ==
    LET c == Unoverlapped(Tidied(Renormed(ctx, size), source), source, size)
        prefix == c.dictionary + c.dictSize = source
    IN  \/ prefix /\ StreamCall(c, source, size, cap, "withPrefix64k", Small(c))
        \/ /\ ~prefix /\ c.dictCtx # {} /\ size > KB4
           /\ \E d \in c.dictCtx : StreamCall(d, source, size, cap, "usingExtDict", FALSE)
        \/ /\ ~prefix /\ c.dictCtx # {} /\ size <= KB4
           /\ StreamCall(c, source, size, cap, "usingDictCtx", FALSE)
        \/ /\ ~prefix /\ c.dictCtx = {}
           /\ StreamCall(c, source, size, cap, "usingExtDict", Small(c))

(* LZ4_compress_forceExtDict(), which looks at neither of the three.       *)
ForceExtDict(source, size) ==
    LET c == Renormed(ctx, size)
    IN  Compress(c, [api |-> "forceExt", start |-> source, size |-> size,
                     cap |-> LZ4_compressBound(size), limit |-> "notLimited",
                     type |-> "byU32", acceleration |-> 1,
                     dict |-> "usingExtDict", dictSmall |-> Small(c)])

(* LZ4_saveDict()                                                          *)
SaveDict(safeBuffer, maxSize) ==
    LET size == Min({maxSize, KB64, ctx.dictSize})
        from == ctx.dictionary + ctx.dictSize - size
    IN  /\ buf' = [p \in DOMAIN buf |->
                     IF p - 1 \in safeBuffer .. safeBuffer + size - 1
                     THEN buf[p - safeBuffer + from] ELSE buf[p]]
        /\ ctx' = [ctx EXCEPT !.dictionary = safeBuffer, !.dictSize = size]

(* ---- The receiver's state ---- *)
(* LZ4_setStreamDecode()                                                   *)
Told(dictStart, size) ==
    [prefixSize |-> size, prefixEnd |-> dictStart + size,
     externalDict |-> Nil, extDictSize |-> 0]

(* Where the block does not follow the one before, what was decoded up to  *)
(* there becomes the external dictionary.                                  *)
Switched(s, dest) ==
    IF s.prefixSize = 0 \/ s.prefixEnd = dest THEN s
    ELSE [prefixSize |-> 0, prefixEnd |-> dest,
          externalDict |-> s.prefixEnd - s.prefixSize, extDictSize |-> s.prefixSize]

Args(dest, size, fast, dict, lowPrefix, dictStart, dictSize) ==
    [endOnInput |-> ~fast, partial |-> FALSE, dst |-> dest, outputSize |-> size,
     dict |-> dict, lowPrefix |-> lowPrefix, dictStart |-> dictStart,
     dictSize |-> dictSize]

(* The call that LZ4_decompress_safe_continue() and _fast_continue() make  *)
(* with a switched state.                                                  *)
ContinueArgs(s, dest, size, fast) ==
    LET prefix == dest - s.prefixSize
        far == Args(dest, size, fast, "withPrefix64k", dest - KB64, Nil, 0)
    IN  CASE s.prefixSize >= KB64 - 1 -> far
          [] s.prefixSize < KB64 - 1 /\ s.extDictSize = 0 ->
                IF fast THEN far ELSE Args(dest, size, fast, "noDict", prefix, Nil, 0)
          [] OTHER -> Args(dest, size, fast, "usingExtDict", prefix,
                           s.externalDict, s.extDictSize)

(* LZ4_decompress_safe_usingDict() and _fast_usingDict()                   *)
DictArgs(dictStart, dictSize, dest, size, fast) ==
    IF dictSize = 0 \/ dictStart + dictSize = dest
    THEN IF fast \/ dictSize >= KB64 - 1
         THEN Args(dest, size, fast, "withPrefix64k", dest - KB64, Nil, 0)
         ELSE Args(dest, size, fast, "noDict", dest - dictSize, Nil, 0)
    ELSE Args(dest, size, fast, "usingExtDict", dest, dictStart, dictSize)

(* ---- The callers ---- *)
(* A ring starts again where the largest block does not fit any more, of   *)
(* two buffers the other is next, and the only buffer is used again.       *)
NextPlace(kind, origin, ring, place, size) ==
    CASE kind = "ring" -> IF place + size + MaxBlock > origin + ring THEN origin
                          ELSE place + size
      [] kind = "double" -> IF place = origin THEN origin + MaxBlock + 1 ELSE origin
      [] kind = "save" -> origin

Extent(kind, origin, ring) ==
    origin + (CASE kind = "ring" -> ring
                [] kind = "double" -> 2 * MaxBlock + 1
                [] kind = "save" -> MaxBlock)

(* A sender whose last 64 KB stay where they were, as lz4.h:279 has it: in  *)
(* a ring with room for two of the largest blocks, two buffers with a byte *)
(* between, or one buffer and a place to save; all behind the dictionary.  *)
Documented(w) ==
    /\ ~w.forced
    /\ Len(w.dict) <= w.origin
    /\ w.how = "attach" => w.dict # << >>
    /\ w.sender = "ring" => w.ring >= 2 * MaxBlock
    /\ w.sender = "save" => w.dict = << >> /\ w.origin >= KB64

(* What sender and receiver have in common before a place in the text.     *)
History(end) == way.dict \o SubSeq(text, begun + 1, end)
Ending(s, n) == SubSeq(s, Len(s) - n + 1, Len(s))

(* A new stream, with a state that was reset, or reset fast when it is     *)
(* valid, and a dictionary or none.                                        *)
Begin ==
    /\ pc = "fresh"
    /\ \E fast \in IF way.again /\ ret.written > 0 THEN BOOLEAN ELSE {FALSE} :
          LET c == IF fast THEN LZ4_prepareTable(ctx, 0, "byU32") ELSE Cleared
              d == Loaded(0, Len(way.dict))
          IN  ctx' = CASE way.how = "load" -> d
                       [] way.how = "attach" -> Attached(c, d)
                       [] OTHER -> c
    /\ sd' = Told(0, Len(way.dict))
    /\ at' = way.origin /\ to' = way.rorigin
    /\ begun' = sent /\ pc' = "idle"
    /\ UNCHANGED << buf, sizes, slots, job, ip, anchor, match, fwd, step, nb, low,
                    back, dst, token, high, ret, way, text, sent, decvars >>

WriteBlock(size) ==
    /\ pc = "idle" /\ sizes = << >> /\ sent + size <= Len(text)
    /\ buf' = [p \in DOMAIN buf |-> IF p - 1 \in at .. at + size - 1
                                    THEN text[sent + p - at] ELSE buf[p]]
    /\ sizes' = << size >>
    /\ UNCHANGED << slots, ctx, job, ip, anchor, match, fwd, step, nb, low, back, dst,
                    token, high, pc, ret, streamvars, decvars >>

CallStream ==
    /\ pc = "idle" /\ sizes # << >>
    /\ LET size == sizes[1]
       IN  \/ \E cap \in {LZ4_compressBound(size)} \cup way.caps : Continue(at, size, cap)
           \/ way.forced /\ ForceExtDict(at, size)
    /\ sent' = sent + sizes[1] /\ sizes' = << >>
    /\ UNCHANGED << buf, way, text, begun, at, to, sd, decvars >>

(* The receiver of a ring is told the block's size, or has room for the    *)
(* largest; one with a single buffer has moved what it may need of what it *)
(* decoded in front of it, with or without a byte between.                 *)
Receive ==
    LET size == IF way.exact \/ way.fast THEN job.size ELSE MaxBlock
        history == History(sent - job.size)
        n == Min({KB64, Len(history)})
        s == Switched(sd, to)
    IN  /\ pc = "done" /\ ret.written > 0 /\ dpc = "idle"
        /\ IF way.receiver = "save"
           THEN /\ Decompress(dst,
                      [a \in DOMAIN obuf |->
                         IF a \in KB64 - n .. KB64 - 1
                         THEN history[Len(history) - KB64 + a + 1]
                         ELSE obuf[a]],
                      DictArgs(KB64 - n, n, to, size, way.fast))
                /\ UNCHANGED sd
           ELSE Decompress(dst, obuf, ContinueArgs(s, to, size, way.fast)) /\ sd' = s
        /\ UNCHANGED << encvars, way, text, begun, sent, at, to >>

(* On to the next block; a sender with a single buffer saves what it may   *)
(* need of the last one.  The message may go on as a new stream.           *)
Received ==
    /\ pc = "done" /\ dpc = "end" /\ dret > 0
    /\ IF way.sender = "save" THEN SaveDict(0, way.keep) ELSE UNCHANGED << buf, ctx >>
    /\ at' = NextPlace(way.sender, way.origin, way.ring, at, job.size)
    /\ to' = NextPlace(way.receiver, way.rorigin, way.rring, to, job.size)
    /\ sd' = [sd EXCEPT !.prefixSize = @ + job.size, !.prefixEnd = to + job.size]
    /\ pc' \in IF way.again THEN {"idle", "fresh"} ELSE {"idle"}
    /\ dpc' = "idle" /\ dst' = << >> /\ cin' = << >>
    /\ UNCHANGED << sizes, slots, job, ip, anchor, match, fwd, step, nb, low, back,
                    token, high, ret, mode, rp, wp, obuf, mlen, offset, written,
                    readTo, dret, way, text, begun, sent >>

(* A block that did not fit is sent again as the first of a new stream.    *)
Failed ==
    /\ pc = "done" /\ ret.written = 0
    /\ pc' = "fresh" /\ sent' = sent - job.size /\ dst' = << >>
    /\ UNCHANGED << buf, sizes, slots, ctx, job, ip, anchor, match, fwd, step, nb,
                    low, back, token, high, ret, way, text, begun, at, to, sd, decvars >>

StreamInit ==
    /\ way \in Ways
    /\ text = way.text
    /\ buf = [p \in 1 .. Extent(way.sender, way.origin, way.ring) |->
                IF p <= Len(way.dict) THEN way.dict[p] ELSE 0]
    /\ sizes = << >> /\ pc = "fresh"
    /\ begun = 0 /\ sent = 0 /\ at = 0 /\ to = 0 /\ sd = Told(0, 0)
    /\ obuf = [a \in 0 .. Extent(way.receiver, way.rorigin, way.rring) - 1 |->
                IF a < Len(way.dict) THEN way.dict[a + 1] ELSE Unset]

StreamNext ==
    \/ Begin \/ CallStream \/ Receive \/ Received \/ Failed
    \/ \E size \in way.sizes : WriteBlock(size)
=============================================================================
