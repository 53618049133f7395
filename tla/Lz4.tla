--------------------------------- MODULE Lz4 ---------------------------------
(***************************************************************************)
(* The LZ4 codec of lz4.c, by blocks and in streams.  Blocks of a buffer   *)
(* are compressed one after the other with one state, and each result is   *)
(* handed to one of the decompressors, with an output buffer that fits, is *)
(* larger or is smaller; or a message goes block by block from a sender to *)
(* a receiver, as Lz4Stream has it.                                        *)
(***************************************************************************)
EXTENDS Lz4Stream

CONSTANTS
    Inputs,             \* sequences of blocks
    Slack,              \* bytes an output buffer has to spare
    Lost                \* bytes missing at the end of a block

ASSUME BlocksAssumption ==
    /\ Inputs \subseteq Seq(Seq(Nat)) /\ Slack \subseteq Int /\ Lost \subseteq Nat

vars == << encvars, decvars, streamvars >>

BlocksInit ==
    \E input \in Inputs :
        /\ buf = FlattenSeq(input)
        /\ sizes = [k \in DOMAIN input |-> Len(input[k])]
        /\ way = [sender |-> "blocks"] /\ pc = "idle"
        /\ text = << >> /\ begun = 0 /\ sent = 0 /\ at = 0 /\ to = 0
        /\ sd = Told(0, 0) /\ obuf = << >>

Init == EncInit /\ DecInit /\ (BlocksInit \/ StreamInit)

InBlocks == way.sender = "blocks"

Encode ==
    /\ dpc = "idle"
    /\ EncNext \/ (InBlocks /\ CallBlock)
    /\ UNCHANGED << decvars, streamvars >>

(* The calls for one block have nothing in front of it; the fast one does  *)
(* not look at what would be there.                                        *)
DecodeBlock(block, fast, partial, size) ==
    Decompress(block, [a \in 0 .. size - 1 |-> Unset],
        [Args(0, size, fast, IF fast THEN "withPrefix64k" ELSE "noDict",
              IF fast THEN -KB64 ELSE 0, Nil, 0) EXCEPT !.partial = partial])

DecodeSafe ==
    \E size \in {ret.consumed + s : s \in Slack} \cap Nat :
        DecodeBlock(dst, FALSE, FALSE, size)
DecodePartial ==
    \E size \in {1, ret.consumed \div 2, ret.consumed - 1, ret.consumed}
                    \cap 1 .. ret.consumed :
        DecodeBlock(dst, FALSE, TRUE, size)
DecodeFast == DecodeBlock(dst, TRUE, FALSE, ret.consumed)

DecodeTruncated ==
    \E n \in {Len(dst) - t : t \in Lost} \cap Nat :
        DecodeBlock(SubSeq(dst, 1, n), FALSE, FALSE, ret.consumed)

StartDecode ==
    /\ InBlocks /\ pc = "done" /\ ret.written > 0 /\ dpc = "idle"
    /\ DecodeSafe \/ DecodePartial \/ DecodeFast \/ DecodeTruncated
    /\ UNCHANGED << encvars, streamvars >>

Decode == DecNext /\ UNCHANGED << encvars, streamvars >>

NextBlock ==
    /\ InBlocks /\ pc = "done" /\ sizes # << >>
    /\ dpc = "end" \/ ret.written = 0
    /\ pc' = "idle" /\ dst' = << >>
    /\ cin' = << >> /\ obuf' = << >> /\ dpc' = "idle"
    /\ UNCHANGED << buf, sizes, slots, ctx, job, ip, anchor, match, fwd, step,
                    nb, low, back, token, high, ret, mode, rp, wp, mlen, offset,
                    written, readTo, dret, streamvars >>

Next ==
    \/ Encode \/ StartDecode \/ Decode \/ NextBlock
    \/ ~InBlocks /\ StreamNext
Spec == Init /\ [][Next]_vars

-----------------------------------------------------------------------------
Block == SubSeq(buf, Start + 1, Start + job.size)
Consumed == SubSeq(Block, 1, ret.consumed)
Compressing == pc \in {"search", "literals", "match", "next"}

(* Whatever ring, second buffer or saved piece the blocks came through     *)
(* (lz4.c:1165, 1188, 1247), what the compressor takes for the dictionary  *)
(* is still in memory and is the end of what the receiver decoded: a match *)
(* in it can be told by its distance.                                      *)
HistoryKept ==
    Compressing /\ ~InBlocks =>
        LET history == History(sent - job.size)
            n == job.dictEnd - job.dictionary
        IN  /\ n <= Len(history)
            /\ SubSeq(buf, job.dictionary + 1, job.dictEnd) = Ending(history, n)

(* A match lies in the block, in what is in front of it or in the          *)
(* dictionary elsewhere, and in the window its two offset bytes can tell,  *)
(* whatever an earlier block or a rescaling left in the table (lz4.c:484,  *)
(* 1127), also for a U16 table, where the code does not test the distance  *)
(* and asserts it instead (lz4.c:674).                                     *)
MatchInWindow ==
    pc = "match" /\ ~Rewind =>
        /\ Offset \in 1 .. MAX_DISTANCE
        /\ low <= match
        /\ IF External /\ low = job.dictionary
           THEN match + MINMATCH <= job.dictEnd ELSE match < ip
        /\ Read32(match) = Read32(ip)

(* The copies by 8 and the stores by 4 that overshoot never leave dst, of  *)
(* which notLimited is told nothing but that compressBound() fits.         *)
EncodeInside ==
    pc \notin {"idle", "fresh"} => high <= job.cap /\ Len(dst) <= job.cap

(* compress_fast, compress_destSize and a stream's calls succeed in        *)
(* compressBound() bytes, destSize in any dst, and a dst it cannot empty   *)
(* src into it fills, but for one byte, and one for every 255 * 255, since *)
(* the length of the last literals is estimated from the room there is and *)
(* not from what is taken of it.  (lz4.h:185-191, 269)                     *)
Succeeds ==
    pc = "done" =>
        /\ job.api = "destSize" /\ job.cap > 0 => ret.written > 0
        /\ job.cap >= LZ4_compressBound(job.size) => ret.written > 0
        /\ ret.consumed < job.size => ret.written >= job.cap - 1 - job.cap \div 65025

(* The literals that end the block.  A match cut short to fill dst may     *)
(* leave fewer than every decoder insists on.                              *)
LastRun == ret.consumed - (anchor - Start)
TailKept == anchor > Start => LastRun >= LASTLITERALS

(* lz4.c:1498 of every block: "last LASTLITERALS bytes must be literals".  *)
LastLiteralsKept == pc = "done" /\ ret.written > 0 => TailKept

(* The decompressors give back the input of the compressor: the whole of   *)
(* it, the part asked for, and with the number of bytes read; in a stream, *)
(* wherever sender and receiver have what came before.  (lz4.h:330-341)    *)
RoundTrip ==
    dpc = "end" /\ cin = dst /\ TailKept
      /\ (mode.partial \/ mode.outputSize >= ret.consumed) =>
        /\ dret = IF ~mode.endOnInput THEN Len(cin)
                  ELSE IF mode.partial THEN mode.outputSize ELSE ret.consumed
        /\ \A k \in 1 .. Min({ret.consumed, mode.outputSize}) :
               obuf[mode.dst + k - 1] = Consumed[k]

(* A block that decodes to more than its buffer is refused, never cut:     *)
(* loadblock() takes any result that is not negative for a whole block     *)
(* (9p.c:788).                                                             *)
SmallBufferRefused ==
    dpc = "end" /\ safe /\ ~mode.partial /\ mode.outputSize < ret.consumed =>
        dret < 0

(* What a block that lost its end decodes to, if it is not refused, is the *)
(* beginning of the whole and not all of it: no length is made up.         *)
TruncatedNotWhole ==
    dpc = "end" /\ cin # dst /\ TailKept /\ ret.consumed > 0 =>
        /\ dret < ret.consumed
        /\ \A k \in 1 .. dret : obuf[mode.dst + k - 1] = Consumed[k]

(* Of a whole block the decompressor gives all, or it tells so: neither an *)
(* output too small nor an input cut short passes for the whole.           *)
WholeOrRefused == SmallBufferRefused /\ TruncatedNotWhole

(* Neither the shortcut nor the copies by 8 leave the two buffers, not     *)
(* even those of LZ4_decompress_fast(), which is told one size only.       *)
DecodeInside ==
    dpc # "idle" => written <= outEnd /\ readTo <= Len(cin)

(* No copy that overshoots, of either side, leaves its buffers.            *)
CopiesInside == EncodeInside /\ DecodeInside
=============================================================================
