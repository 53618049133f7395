------------------------------- MODULE XxHash -------------------------------
(***************************************************************************)
(* xxhash.c: XXH32() and XXH64() of a whole block, the latter being what   *)
(* verifycheck() of 9p.c compares, and the same hashes fed piece by piece  *)
(* through a state (reset, update, digest).                                *)
(*                                                                         *)
(* The arithmetic is left symbolic.  A word is the bytes it was read from  *)
(* (the same on both endians, which the readLE functions see to, and for   *)
(* aligned and unaligned input), an accumulator the seed and the words its *)
(* rounds took, and a hash the accumulators, the length and the finishing  *)
(* steps: hashes that agree here agree whatever the primes are.            *)
(***************************************************************************)
EXTENDS Integers, Sequences, SequencesExt, FiniteSetsExt

CONSTANTS
    Widths,         \* of the hashes: 32 and 64
    Seeds,
    Pieces,         \* the lengths an update may have
    MaxLength,      \* bound on the bytes fed since the last reset
    Streams         \* how often a state is reset and fed anew

ASSUME WidthsAssumption == Widths \subseteq {32, 64}
ASSUME PiecesAssumption == Pieces \subseteq Nat

VARIABLES
    width,
    seed, v1_4, mem, memsize, total_len,        \* XXH32_state_t, XXH64_state_t
    stream, fed                                 \* whose bytes were fed: how many

hashvars == << width, seed, v1_4, mem, memsize, total_len, stream, fed >>

W == width \div 8           \* bytes of a word
S == 4 * W                  \* bytes a round of the four accumulators takes

Bytes(n) == [k \in 1 .. n |-> 100 * stream + k]     \* the stream's first n
Word(b, p, n) == SubSeq(b, p + 1, p + n)

(* The accumulators' start, and the loop that feeds them whole stripes     *)
(* from p on.                                                              *)
Start4(s) == [k \in 1 .. 4 |-> [lane |-> k, seed |-> s, words |-> << >>]]
Stripes(b, p) == (Len(b) - p) \div S
Rounds(v, b, p) ==
    [k \in 1 .. 4 |-> [v[k] EXCEPT !.words = @ \o
        [i \in 1 .. Stripes(b, p) |-> Word(b, p + (i - 1) * S + (k - 1) * W, W)]]]

(* Mistake: the half word is taken, and its bytes once more. *)
Finish_HalfTwice(b) ==
    LET words == Len(b) \div W
        half == IF width = 64 /\ Len(b) - words * W >= 4 THEN 1 ELSE 0
        rest == words * W
    IN  [i \in 1 .. words |-> Word(b, (i - 1) * W, W)]
        \o [i \in 1 .. half |-> Word(b, words * W, 4)]
        \o [i \in 1 .. Len(b) - rest |-> << b[rest + i] >>]

(* The rest: whole words, for the wide hash one half word, single bytes.   *)
Finish(b) ==
    LET words == Len(b) \div W
        half == IF width = 64 /\ Len(b) - words * W >= 4 THEN 1 ELSE 0
        rest == words * W + 4 * half
    IN  [i \in 1 .. words |-> Word(b, (i - 1) * W, W)]
        \o [i \in 1 .. half |-> Word(b, words * W, 4)]
        \o [i \in 1 .. Len(b) - rest |-> << b[rest + i] >>]

Merge(long, v, s, len, steps) ==
    [from |-> IF long THEN v ELSE << s >>, len |-> len, steps |-> steps]

(* XXH32_endian_align(), XXH64_endian_align(): the hash of a block b.      *)
OneShot(b, s) ==
    LET p == S * Stripes(b, 0)
    IN  Merge(Len(b) >= S, Rounds(Start4(s), b, 0), s, Len(b),
              Finish(SubSeq(b, p + 1, Len(b))))

-----------------------------------------------------------------------------
Reset(s) ==
    /\ seed' = s /\ v1_4' = Start4(s)
    /\ mem' = [i \in 0 .. S - 1 |-> 0] /\ memsize' = 0 /\ total_len' = 0
    /\ fed' = 0 /\ UNCHANGED width

(* memcpy() into the buffer of the state, behind what is there; bytes past *)
(* memsize stay what earlier pieces left.                                  *)
Fill(at, piece, p, n) ==
    [i \in 0 .. S - 1 |-> IF i \in at .. at + n - 1 THEN piece[p + 1 + i - at]
                                                    ELSE mem[i]]

Held(m, n) == [k \in 1 .. n |-> m[k - 1]]

(* Mistake: a buffer just filled waits for the next piece. *)
Fits_Full(n) == memsize + n <= S
Fits(n) == memsize + n < S

Update(piece) ==
    LET take == IF memsize = 0 THEN 0 ELSE S - memsize
        full == Fill(memsize, piece, 0, take)
        v == IF memsize = 0 THEN v1_4 ELSE Rounds(v1_4, Held(full, S), 0)
        p == take + S * Stripes(piece, take)
    IN  /\ total_len' = total_len + Len(piece)
        /\ IF Fits(Len(piece))
           THEN /\ mem' = Fill(memsize, piece, 0, Len(piece))
                /\ memsize' = memsize + Len(piece)
                /\ UNCHANGED v1_4
           ELSE /\ v1_4' = Rounds(v, piece, take)
                /\ memsize' = Len(piece) - p
                /\ mem' = [i \in 0 .. S - 1 |->
                             IF i < Len(piece) - p THEN piece[p + 1 + i]
                             ELSE full[i]]
        /\ UNCHANGED << width, seed, stream >>

(* Mistake: a stream of one stripe exactly is taken for a short one. *)
Digest_Short ==
    Merge(total_len > S, v1_4, seed, total_len, Finish(Held(mem, memsize)))

(* XXH32_digest(), XXH64_digest(); the state stays as it is.               *)
Digest ==
    Merge(total_len >= S, v1_4, seed, total_len, Finish(Held(mem, memsize)))

HashInit ==
    \E s \in Seeds :
        /\ width \in Widths /\ stream = 1 /\ fed = 0
        /\ seed = s /\ v1_4 = Start4(s)
        /\ mem = [i \in 0 .. S - 1 |-> 0] /\ memsize = 0 /\ total_len = 0

Anew == \E s \in Seeds : stream < Streams /\ stream' = stream + 1 /\ Reset(s)

Feed ==
    \E n \in Pieces :
        /\ fed + n <= MaxLength
        /\ fed' = fed + n
        /\ Update(SubSeq(Bytes(fed + n), fed + 1, fed + n))

HashNext == Anew \/ Feed
HashSpec == HashInit /\ [][HashNext]_hashvars

-----------------------------------------------------------------------------
(* However a stream is cut into pieces, its digest at any time is the hash *)
(* of what was fed as one block: no byte an earlier piece or an earlier    *)
(* stream left in the buffer counts, and none is dropped at a seam.        *)
StreamIsOneShot == Digest = OneShot(Bytes(fed), seed)

(* The buffer holds just the bytes that do not fill a stripe, the rounds   *)
(* have taken all the others: what lets update() and digest() go on from   *)
(* memsize alone.                                                          *)
BufferIsTail ==
    /\ memsize = fed % S
    /\ Held(mem, memsize) = SubSeq(Bytes(fed), fed - memsize + 1, fed)
    /\ \A k \in 1 .. 4 : Len(v1_4[k].words) = fed \div S

(* The hash takes every byte of a block, once and in its place: a block    *)
(* that differs in a byte is another argument of the mixing (9p.c:751).    *)
EveryByteOnce ==
    LET h == OneShot(Bytes(fed), seed)
        n == IF fed >= S THEN fed \div S ELSE 0
        striped == [j \in 1 .. 4 * n |->
                       h.from[1 + ((j - 1) % 4)].words[1 + (j - 1) \div 4]]
    IN  FlattenSeq(striped) \o FlattenSeq(h.steps) = Bytes(fed)
=============================================================================
