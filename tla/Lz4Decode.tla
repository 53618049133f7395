------------------------------ MODULE Lz4Decode ------------------------------
(***************************************************************************)
(* LZ4_decompress_generic() of lz4.c: with nothing before the block, as    *)
(* LZ4_decompress_safe() calls it for loadblock() of 9p.c, and with what   *)
(* was decoded before in front of the block, elsewhere, or both.           *)
(*                                                                         *)
(* The code copies 8, 16 or 18 bytes where fewer are wanted and lets later *)
(* bytes overwrite the surplus.  The output buffer is modelled with every  *)
(* such byte; how far it was written and how far the input was read is     *)
(* kept, so that both can be compared with the sizes of the buffers.       *)
(***************************************************************************)
EXTENDS Integers, Sequences, SequencesExt, FiniteSetsExt

CONSTANT Window     \* 64 KB in the code: what a match may lie back

VARIABLES
    cin,            \* the compressed block
    mode,           \* the arguments of this call
    rp, wp,         \* ip and op
    obuf,           \* the memory that holds dst, by its addresses
    mlen, offset,   \* of the match about to be copied (length, offset)
    written, readTo,
    dpc, dret

decvars == << cin, mode, rp, wp, obuf, mlen, offset, written, readTo, dpc, dret >>

Unset == -1
MFLimit == 12
LastLits == 5
MatchSafeguard == 2 * 8 - 4

safe == mode.endOnInput
inEnd == IF safe THEN Len(cin) ELSE 0   \* srcSize is 0 for LZ4_decompress_fast
outEnd == mode.dst + mode.outputSize
dictEnd == mode.dictStart + mode.dictSize
In(p) == IF p < Len(cin) THEN cin[p + 1] ELSE 0
LE16(p) == In(p) + 256 * In(p + 1)

(* memcpy() of n bytes: of the input from p on, and within the output.     *)
CopyIn(b, d, p, n) ==
    [i \in DOMAIN b |-> IF i \in d .. d + n - 1 THEN In(p + i - d) ELSE b[i]]
CopyOut(b, d, s, n) ==
    [i \in DOMAIN b |-> IF i \in d .. d + n - 1 THEN b[s + i - d] ELSE b[i]]

(* n bytes one after the other: a source closer than n repeats itself.     *)
CopyBytes(b, d, s, n) ==
    [i \in DOMAIN b |-> IF i \in d .. d + n - 1
                        THEN b[s + ((i - d) % (d - s))] ELSE b[i]]

(* LZ4_wildCopy(): chunks of 8 bytes until e is reached, one at least.  A  *)
(* source closer than 8 is a memcpy() onto itself, with no defined result. *)
Chunks(d, e) == Max({1, (e - d + 7) \div 8})
WildCopy(b, d, s, e) ==
    IF d - s >= 8 THEN CopyBytes(b, d, s, 8 * Chunks(d, e))
    ELSE [i \in DOMAIN b |-> IF i \in d .. d + 8 * Chunks(d, e) - 1
                             THEN Unset ELSE b[i]]

(* Mistake: a match 5 behind is spread as one 3 behind is. *)
inc32table_Shifted == << 0, 1, 2, 1, 0, 1, 4, 4 >>
inc32table == << 0, 1, 2, 1, 0, 4, 4, 4 >>

dec64table == << 0, 0, 0, -1, -4, 1, 2, 3 >>

Fail(at) == dpc' = "end" /\ dret' = -at - 1

(* A call, on memory that holds what its owner left there.                 *)
Decompress(block, memory, args) ==
    /\ cin' = block
    /\ mode' = args
    /\ wp' = args.dst /\ rp' = 0 /\ mlen' = 0 /\ offset' = 0
    /\ obuf' = memory
    /\ written' = 0 /\ readTo' = 0
    /\ IF args.outputSize = 0
       THEN /\ dpc' = "end"
            /\ dret' = CASE args.endOnInput -> IF block = << 0 >> THEN 0 ELSE -1
                         [] OTHER -> IF Head(block) = 0 THEN 1 ELSE -1
       ELSE IF args.endOnInput /\ block = << >>
            THEN dpc' = "end" /\ dret' = -1
            ELSE dpc' = "token" /\ dret' = 0

(* The shortcut: a run of at most 14 literals (8 when the input's end is   *)
(* not known) with room behind it, copied as 16 (8) bytes, and if it can   *)
(* be, the match behind it as 18.                                          *)
Short(token) ==
    /\ IF safe THEN token \div 16 # 15 ELSE token \div 16 <= 8
    /\ safe => rp + 1 < inEnd - 14 - 2
    /\ wp <= outEnd - (IF safe THEN 14 ELSE 8) - 18

Shortcut ==
    LET token == In(rp)
        n == IF safe THEN 16 ELSE 8
        to == wp + token \div 16
        from == rp + 1 + token \div 16
        off == LE16(from)
        m == to - off
        lits == CopyIn(obuf, wp, rp + 1, n)
        quick == /\ token % 16 # 15 /\ off >= 8
                 /\ mode.dict = "withPrefix64k" \/ m >= mode.lowPrefix
    IN  /\ dpc = "token" /\ Short(token)
        /\ rp' = from + 2 /\ offset' = off
        /\ readTo' = Max({readTo, rp + 1 + n, from + 2})
        /\ IF quick
           THEN /\ obuf' = CopyOut(CopyOut(CopyOut(lits, to, m, 8),
                                           to + 8, m + 8, 8), to + 16, m + 16, 2)
                /\ wp' = to + (token % 16) + 4
                /\ written' = Max({written, wp + n, to + 18})
                /\ UNCHANGED << mlen, dpc >>
           ELSE /\ obuf' = lits /\ wp' = to /\ mlen' = token % 16
                /\ written' = Max({written, wp + n})
                /\ dpc' = "match"
        /\ UNCHANGED << cin, mode, dret >>

(* The bytes that extend a length: up to one that is not 255, or, for      *)
(* literals, up to where the input runs out of room for them.              *)
Extra(p, stop) ==
    CHOOSE n \in 1 .. Len(cin) + 1 :
        /\ In(p + n - 1) # 255 \/ p + n >= stop
        /\ \A k \in 1 .. n - 1 : In(p + k - 1) = 255 /\ p + k < stop
ExtraLength(p, n) == 255 * (n - 1) + In(p + n - 1)

(* Mistake: an output too small for the last literals is not noticed. *)
Misplaced_Cut(p, cpy) ==
    IF safe THEN p # inEnd ELSE cpy # outEnd
(* Literals at the end of a buffer must end both buffers, or for a partial *)
(* decoding not pass the input's.                                          *)
Misplaced(p, cpy) ==
    IF mode.partial THEN safe /\ p > inEnd
    ELSE IF safe THEN p # inEnd \/ cpy > outEnd ELSE cpy # outEnd

(* The literals of a sequence the shortcut does not take; those of the     *)
(* last sequence end the block.                                            *)
Literals ==
    LET token == In(rp)
        long == token \div 16 = 15
        p == rp + 1
        n == IF long THEN Extra(p, IF safe THEN inEnd - 15 ELSE Len(cin) + 1) ELSE 0
        from == p + n
        stated == token \div 16 + (IF long THEN ExtraLength(p, n) ELSE 0)
        nearEnd == IF safe THEN \/ wp + stated > outEnd - MFLimit
                                \/ from + stated > inEnd - (2 + 1 + LastLits)
                           ELSE wp + stated > outEnd - 8
        length == IF nearEnd /\ mode.partial
                  THEN Min({stated, outEnd - wp}) ELSE stated
        cpy == wp + length
        bad == nearEnd /\ Misplaced(from + length, cpy)
        last == nearEnd /\ (~mode.partial \/ cpy = outEnd)
    IN  /\ dpc = "token" /\ ~Short(token)
        /\ IF long /\ safe /\ p >= inEnd - 15
           THEN /\ Fail(p) /\ readTo' = Max({readTo, p})
                /\ UNCHANGED << rp, wp, obuf, written, mlen, offset >>
           ELSE IF bad
           THEN /\ Fail(from) /\ readTo' = Max({readTo, from})
                /\ UNCHANGED << rp, wp, obuf, written, mlen, offset >>
           ELSE /\ wp' = cpy
                /\ obuf' = IF nearEnd THEN CopyIn(obuf, wp, from, length)
                           ELSE CopyIn(obuf, wp, from, 8 * Chunks(wp, cpy))
                /\ written' = Max({written, IF nearEnd THEN cpy
                                            ELSE wp + 8 * Chunks(wp, cpy)})
                /\ IF last
                   THEN /\ rp' = from + length /\ dpc' = "end"
                        /\ dret' = IF safe THEN cpy - mode.dst ELSE rp'
                        /\ readTo' = Max({readTo, rp'})
                        /\ UNCHANGED << mlen, offset >>
                   ELSE /\ offset' = LE16(from + length)
                        /\ mlen' = token % 16
                        /\ rp' = from + length + 2 /\ dpc' = "match"
                        /\ readTo' = Max({readTo, rp',
                                IF nearEnd THEN 0 ELSE from + 8 * Chunks(wp, cpy)})
                        /\ UNCHANGED dret
        /\ UNCHANGED << cin, mode >>

(* The first 8 bytes of a match; one closer than 8 is spread so that what  *)
(* follows can be copied 8 bytes at a time.                                *)
First8(b, op, m) ==
    IF offset < 8
    THEN CopyOut(CopyBytes(b, op, m, 4), op + 4, m + inc32table[offset + 1], 4)
    ELSE CopyOut(b, op, m, 8)
After8(m) ==
    IF offset < 8 THEN m + inc32table[offset + 1] - dec64table[offset + 1]
                  ELSE m + 8

(* _copy_match: is a match that far back outside of all memory?            *)
Outside(m) ==
    safe /\ mode.dictSize < Window /\ m + mode.dictSize < mode.lowPrefix

(* A match that starts in the external dictionary and may go on where dst  *)
(* or its prefix begins.                                                   *)
CopyFromDict(memory, m, length) ==
    LET inDict == Min({length, mode.lowPrefix - m})
        rest == length - inDict
        b == CopyOut(memory, wp, dictEnd - (mode.lowPrefix - m), inDict)
    IN  IF rest = 0 THEN b
        ELSE CopyBytes(b, wp + inDict, mode.lowPrefix, rest)

(* The rest of a sequence, from where its offset is known.                 *)
CopyMatch ==
    LET m == wp - offset
        long == mlen = 15
        n == IF long THEN Extra(rp, Len(cin) + 1) ELSE 0
        cut == {k \in 1 .. n : safe /\ rp + k > inEnd - LastLits}
        length == mlen + (IF long THEN ExtraLength(rp, n) ELSE 0) + 4
        cpy == wp + length
        zeroed == IF mode.partial THEN obuf
                  ELSE [i \in DOMAIN obuf |->
                            IF i \in wp .. wp + 3 THEN 0 ELSE obuf[i]]
        first == First8(zeroed, wp, m)
        op == wp + 8
        from == After8(m)
        oCopyLimit == outEnd - (8 - 1)
        nearEnd == cpy > outEnd - MatchSafeguard
        \* where the copy by eights stops before the end of the buffer
        eights == Max({op, oCopyLimit})
        tailed == CopyBytes(IF op < oCopyLimit
                            THEN WildCopy(first, op, from, oCopyLimit) ELSE first,
                            eights, from + (eights - op), Max({0, cpy - eights}))
        roomy == LET b == CopyOut(first, op, from, 8)
                 IN  IF length > 16 THEN WildCopy(b, op + 8, from + 8, cpy) ELSE b
    IN  /\ dpc = "match"
        /\ IF Outside(m)
           THEN Fail(rp) /\ UNCHANGED << rp, wp, obuf, written, readTo >>
           ELSE IF cut # {}
           THEN /\ Fail(rp + Min(cut)) /\ readTo' = Max({readTo, rp + Min(cut)})
                /\ UNCHANGED << rp, wp, obuf, written >>
           ELSE IF mode.dict = "usingExtDict" /\ m < mode.lowPrefix
           THEN LET short == IF cpy > outEnd - LastLits /\ mode.partial
                             THEN Min({length, outEnd - wp}) ELSE length
                IN  /\ readTo' = Max({readTo, rp + n})
                    /\ IF cpy > outEnd - LastLits /\ ~mode.partial
                       THEN Fail(rp + n) /\ UNCHANGED << rp, wp, obuf, written >>
                       ELSE /\ obuf' = CopyFromDict(zeroed, m, short)
                            /\ wp' = wp + short /\ rp' = rp + n
                            /\ written' = Max({written, wp'})
                            /\ dpc' = "token" /\ UNCHANGED dret
           ELSE IF mode.partial /\ nearEnd
           THEN LET short == Min({length, outEnd - wp})
                IN  /\ obuf' = CopyBytes(obuf, wp, m, short)
                    /\ wp' = wp + short /\ written' = Max({written, wp'})
                    /\ rp' = rp + n /\ readTo' = Max({readTo, rp'})
                    /\ IF wp' = outEnd
                       THEN dpc' = "end" /\ dret' = wp' - mode.dst
                       ELSE dpc' = "token" /\ UNCHANGED dret
           ELSE IF nearEnd /\ cpy > outEnd - LastLits
           THEN /\ Fail(rp + n) /\ readTo' = Max({readTo, rp + n})
                /\ obuf' = first /\ written' = Max({written, op})
                /\ UNCHANGED << rp, wp >>
           ELSE /\ obuf' = IF nearEnd THEN tailed ELSE roomy
                /\ written' = Max({written, op,
                     IF ~nearEnd
                     THEN IF length > 16 THEN op + 8 + 8 * Chunks(op + 8, cpy)
                                         ELSE op + 8
                     ELSE IF op < oCopyLimit
                          THEN op + 8 * Chunks(op, oCopyLimit) ELSE cpy})
                /\ wp' = cpy /\ rp' = rp + n /\ readTo' = Max({readTo, rp'})
                /\ dpc' = "token" /\ UNCHANGED dret
        /\ UNCHANGED << cin, mode, mlen, offset >>

DecInit ==
    /\ cin = << >> /\ rp = 0 /\ wp = 0 /\ mlen = 0 /\ offset = 0
    /\ mode = [endOnInput |-> TRUE, partial |-> FALSE, dst |-> 0, outputSize |-> 0]
    /\ written = 0 /\ readTo = 0 /\ dpc = "idle" /\ dret = 0

DecNext == Shortcut \/ Literals \/ CopyMatch
=============================================================================
