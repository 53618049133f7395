---------------------------- MODULE CodecProofs ----------------------------
(***************************************************************************)
(* What verifycheck() and loadblock() of 9p.c rest on: that xxHash takes   *)
(* every byte of a block and does not depend on how a stream is cut into   *)
(* pieces, and that LZ4_decompress_safe() stays within its two buffers     *)
(* whatever the block has; for every length.  And of a block that tells    *)
(* the bytes of a source, sequence by sequence, that the decompressors     *)
(* give back the source.                                                   *)
(***************************************************************************)
EXTENDS XxHash, Lz4, SequenceTheorems, WellFoundedInduction, TLAPS

(* Lane k's words of the first n stripes of the stream, and the            *)
(* accumulators that took them.                                            *)
Taken(k, n) ==
    [i \in 1 .. n |-> [j \in 1 .. W |-> 100 * stream + (i - 1) * S + (k - 1) * W + j]]
Ran(s, n) == [k \in 1 .. 4 |-> [lane |-> k, seed |-> s, words |-> Taken(k, n)]]

WidthIs == width \in {32, 64}

(* The inductive invariant: the accumulators have taken the whole stripes  *)
(* and the buffer has the bytes behind them.                               *)
HashInv ==
    /\ WidthIs /\ stream \in Nat /\ fed \in Nat
    /\ total_len = fed
    /\ memsize = fed % S
    /\ mem \in [0 .. S - 1 -> Int]
    /\ \A i \in 0 .. memsize - 1 : mem[i] = 100 * stream + fed - memsize + i + 1
    /\ v1_4 = Ran(seed, fed \div S)

LEMMA SizesAre ==
    ASSUME WidthIs
    PROVE  (W = 4 /\ S = 16) \/ (W = 8 /\ S = 32)
  BY DEF WidthIs, W, S

(* A piece of the stream.                                                  *)
LEMMA BytesAre ==
    ASSUME stream \in Nat, NEW n \in Nat
    PROVE  /\ Bytes(n) \in Seq(Int) /\ Len(Bytes(n)) = n
           /\ \A i \in 1 .. n : Bytes(n)[i] = 100 * stream + i
  BY DEF Bytes

LEMMA PieceIs ==
    ASSUME stream \in Nat, NEW f \in Nat, NEW n \in Nat
    PROVE  LET piece == SubSeq(Bytes(f + n), f + 1, f + n)
           IN  /\ piece \in Seq(Int) /\ Len(piece) = n
               /\ \A i \in 1 .. n : piece[i] = 100 * stream + f + i
<1> DEFINE b == Bytes(f + n)
           piece == SubSeq(b, f + 1, f + n)
<1>1. \A i \in 1 .. f + n : b[i] = 100 * stream + i
  <2>1. f + n \in Nat
    OBVIOUS
  <2> QED BY <2>1, BytesAre
<1> HIDE DEF b
<1>2. \A i \in f + 1 .. f + n : b[i] \in Int
  BY <1>1
<1>3. /\ piece \in Seq(Int)
      /\ Len(piece) = IF f + 1 <= f + n THEN f + n - (f + 1) + 1 ELSE 0
      /\ \A i \in 1 .. f + n - (f + 1) + 1 : piece[i] = b[f + 1 + i - 1]
  BY <1>2, SubSeqProperties
<1>4. Len(piece) = n
  BY <1>3
<1>5. ASSUME NEW i \in 1 .. n PROVE piece[i] = 100 * stream + f + i
  <2>1. i \in 1 .. f + n - (f + 1) + 1 /\ f + 1 + i - 1 = f + i /\ f + i \in 1 .. f + n
    OBVIOUS
  <2>2. piece[i] = b[f + i]
    BY <1>3, <2>1
  <2>3. b[f + i] = 100 * stream + (f + i)
    BY <1>1, <2>1
  <2> QED BY <2>2, <2>3
<1> QED BY <1>3, <1>4, <1>5 DEF b

-----------------------------------------------------------------------------
(* A word of a piece that goes on where the first n stripes end.           *)
LEMMA WordIs ==
    ASSUME stream \in Nat, WidthIs, NEW base \in Int, NEW b \in Seq(Int), NEW p \in 0 .. Len(b),
           \A j \in p + 1 .. Len(b) : b[j] = base + (j - p),
           NEW q \in Nat, p + q + W <= Len(b)
    PROVE  Word(b, p + q, W) = [j \in 1 .. W |-> base + q + j]
<1> DEFINE w == SubSeq(b, p + q + 1, p + q + W)
           t == [j \in 1 .. W |-> base + q + j]
<1>0. W \in {4, 8}
  BY SizesAre
<1> HIDE DEF W
<1>1. \A i \in p + q + 1 .. p + q + W : i \in 1 .. Len(b)
  BY <1>0
<1>2. /\ w \in Seq(Int) /\ Len(w) = W
      /\ \A i \in 1 .. W : w[i] = b[p + q + i]
  <2>1. \A i \in p + q + 1 .. p + q + W : b[i] \in Int
    BY <1>1
  <2> DEFINE lo == p + q + 1
             hi == p + q + W
  <2>2. lo \in Int /\ hi \in Int /\ \A i \in lo .. hi : b[i] \in Int
    BY <1>0, <2>1
  <2>3. lo <= hi /\ (hi - lo) + 1 = W /\ \A i \in 1 .. W : lo + (i - 1) = p + q + i
    BY <1>0
  <2> HIDE DEF lo, hi
  <2>4. /\ SubSeq(b, lo, hi) \in Seq(Int)
        /\ Len(SubSeq(b, lo, hi)) = IF lo <= hi THEN hi - lo + 1 ELSE 0
        /\ \A i \in 1 .. hi - lo + 1 : SubSeq(b, lo, hi)[i] = b[lo + i - 1]
    BY <2>2, SubSeqProperties
  <2>5. \A i \in 1 .. W : SubSeq(b, lo, hi)[i] = b[p + q + i]
    BY <2>3, <2>4
  <2> QED BY <2>3, <2>4, <2>5 DEF lo, hi
<1>3. t \in Seq(Int) /\ Len(t) = W
  BY <1>0
<1>5. ASSUME NEW i \in 1 .. W PROVE w[i] = t[i]
  <2>1. p + q + i \in p + 1 .. Len(b) /\ p + q + i - p = q + i
    BY <1>0
  <2>2. b[p + q + i] = base + (q + i)
    BY <2>1
  <2>3. t[i] = base + q + i
    OBVIOUS
  <2>4. w[i] = b[p + q + i]
    BY <1>2
  <2> HIDE DEF w, t
  <2> QED BY <2>2, <2>3, <2>4, <1>0
<1>6. w = t
  <2> HIDE DEF w, t
  <2> QED BY <1>2, <1>3, <1>5, SeqEqual
<1> QED BY <1>6 DEF Word

Wide == [1 .. W -> Int]

LEMMA TakenIs ==
    ASSUME stream \in Nat, WidthIs, NEW k \in 1 .. 4, NEW n \in Nat
    PROVE  /\ Taken(k, n) \in Seq(Wide) /\ Len(Taken(k, n)) = n
           /\ \A i \in 1 .. n : Taken(k, n)[i] =
                [j \in 1 .. W |-> 100 * stream + (i - 1) * S + (k - 1) * W + j]
<1>0. W \in Nat /\ S \in Nat
  BY SizesAre
<1> HIDE DEF W, S
<1>1. \A i \in 1 .. n :
        [j \in 1 .. W |-> 100 * stream + (i - 1) * S + (k - 1) * W + j] \in Wide
  <2> TAKE i \in 1 .. n
  <2>1. (i - 1) * S \in Int /\ (k - 1) * W \in Int
    BY <1>0
  <2> QED BY <2>1 DEF Wide
<1> QED BY <1>1 DEF Taken

(* The loop of the rounds, on a piece that goes on behind n stripes.       *)
LEMMA StripesAre ==
    ASSUME WidthIs, NEW b \in Seq(Int), NEW p \in 0 .. Len(b)
    PROVE  /\ Stripes(b, p) \in Nat /\ p + S * Stripes(b, p) <= Len(b)
           /\ Len(b) - p < S * Stripes(b, p) + S
<1>1. Len(b) - p \in Nat
  OBVIOUS
<1>2. CASE S = 16
  BY <1>1, <1>2 DEF Stripes
<1>3. CASE S = 32
  BY <1>1, <1>3 DEF Stripes
<1> QED BY <1>2, <1>3, SizesAre

LEMMA WordsGoOn ==
    ASSUME stream \in Nat, WidthIs, NEW n \in Nat, NEW b \in Seq(Int), NEW p \in 0 .. Len(b),
           \A j \in p + 1 .. Len(b) : b[j] = 100 * stream + S * n + (j - p),
           NEW k \in 1 .. 4, NEW i \in 1 .. Stripes(b, p)
    PROVE  Word(b, p + (i - 1) * S + (k - 1) * W, W) =
              [j \in 1 .. W |-> 100 * stream + ((n + i) - 1) * S + (k - 1) * W + j]
<1> DEFINE m == Stripes(b, p)
           base == 100 * stream + S * n
           q == (i - 1) * S + (k - 1) * W
<1>0. m \in Nat /\ p + S * m <= Len(b) /\ i <= m
  BY StripesAre
<1> HIDE DEF m
<1>1. /\ q \in Nat /\ p + q + W <= Len(b) /\ base \in Int
      /\ p + (i - 1) * S + (k - 1) * W = p + q
      /\ \A j \in 1 .. W : base + q + j =
            100 * stream + ((n + i) - 1) * S + (k - 1) * W + j
  <2>1. CASE W = 4 /\ S = 16
    BY <1>0, <2>1
  <2>2. CASE W = 8 /\ S = 32
    BY <1>0, <2>2
  <2> QED BY <2>1, <2>2, SizesAre
<1>2. \A j \in p + 1 .. Len(b) : b[j] = base + (j - p)
  OBVIOUS
<1> HIDE DEF base, q
<1>3. Word(b, p + q, W) = [j \in 1 .. W |-> base + q + j]
  BY <1>1, <1>2, WordIs
<1> QED BY <1>1, <1>3

LEMMA RoundsAre ==
    ASSUME stream \in Nat, WidthIs, NEW s, NEW n \in Nat,
           NEW b \in Seq(Int), NEW p \in 0 .. Len(b),
           \A j \in p + 1 .. Len(b) : b[j] = 100 * stream + S * n + (j - p)
    PROVE  Rounds(Ran(s, n), b, p) = Ran(s, n + Stripes(b, p))
<1>w. \A k \in 1 .. 4, i \in 1 .. Stripes(b, p) :
        Word(b, p + (i - 1) * S + (k - 1) * W, W) =
              [j \in 1 .. W |-> 100 * stream + ((n + i) - 1) * S + (k - 1) * W + j]
  BY WordsGoOn, ZenonT(30)
<1> DEFINE m == Stripes(b, p)
           Next4(k) == [i \in 1 .. m |-> Word(b, p + (i - 1) * S + (k - 1) * W, W)]
<1>0. m \in Nat /\ n + m \in Nat
  BY StripesAre
<1>1. ASSUME NEW k \in 1 .. 4 PROVE Taken(k, n) \o Next4(k) = Taken(k, n + m)
  <2> DEFINE front == Taken(k, n)
             rear == Next4(k)
             all == Taken(k, n + m)
  <2>1. /\ front \in Seq(Wide) /\ Len(front) = n
        /\ \A i \in 1 .. n : front[i] =
              [j \in 1 .. W |-> 100 * stream + (i - 1) * S + (k - 1) * W + j]
    BY TakenIs
  <2>2. /\ all \in Seq(Wide) /\ Len(all) = n + m
        /\ \A i \in 1 .. n + m : all[i] =
              [j \in 1 .. W |-> 100 * stream + (i - 1) * S + (k - 1) * W + j]
    BY <1>0, TakenIs
  <2>3. ASSUME NEW i \in 1 .. m
        PROVE /\ Word(b, p + (i - 1) * S + (k - 1) * W, W) = all[n + i]
              /\ n + i \in 1 .. n + m
    <3>1. Word(b, p + (i - 1) * S + (k - 1) * W, W) =
              [j \in 1 .. W |-> 100 * stream + ((n + i) - 1) * S + (k - 1) * W + j]
      BY <1>w
    <3>2. n + i \in 1 .. n + m
      BY <1>0
    <3> HIDE DEF all, m
    <3>3. all[n + i] =
              [j \in 1 .. W |-> 100 * stream + ((n + i) - 1) * S + (k - 1) * W + j]
      BY <3>2, <2>2
    <3> QED BY <3>1, <3>2, <3>3
  <2>4. /\ rear \in Seq(Wide) /\ Len(rear) = m
        /\ \A i \in 1 .. m : rear[i] = all[n + i]
    <3> HIDE DEF all, m
    <3>1. \A i \in 1 .. m : Word(b, p + (i - 1) * S + (k - 1) * W, W) \in Wide
      BY <2>2, <2>3
    <3> DEFINE e(i) == Word(b, p + (i - 1) * S + (k - 1) * W, W)
    <3>2. \A i \in 1 .. m : e(i) \in Wide /\ e(i) = all[n + i]
      BY <3>1, <2>3
    <3>3. rear = [i \in 1 .. m |-> e(i)]
      OBVIOUS
    <3> HIDE DEF e, rear
    <3> QED BY <3>2, <3>3, <1>0
  <2> HIDE DEF front, rear, all, m
  <2>5. /\ front \o rear \in Seq(Wide) /\ Len(front \o rear) = n + m
        /\ \A i \in 1 .. n + m : (front \o rear)[i] =
              IF i <= n THEN front[i] ELSE rear[i - n]
    <3>0. front \in Seq(Wide) /\ rear \in Seq(Wide) /\ Len(front) = n /\ Len(rear) = m
      BY <2>1, <2>4
    <3>1. /\ front \o rear \in Seq(Wide)
          /\ Len(front \o rear) = Len(front) + Len(rear)
          /\ \A i \in 1 .. Len(front) + Len(rear) : (front \o rear)[i] =
                IF i <= Len(front) THEN front[i] ELSE rear[i - Len(front)]
      BY <3>0, ConcatProperties, ZenonT(30)
    <3> QED BY <3>0, <3>1
  <2>6. ASSUME NEW i \in 1 .. n + m PROVE (front \o rear)[i] = all[i]
    <3>1. CASE i <= n
      <4>1. i \in 1 .. n
        BY <3>1
      <4> QED BY <2>1, <2>2, <2>5, <3>1, <4>1
    <3>2. CASE ~(i <= n)
      <4>1. i - n \in 1 .. m /\ n + (i - n) = i
        BY <3>2, <1>0
      <4>2. rear[i - n] = all[i]
        BY <2>4, <4>1
      <4> QED BY <2>5, <3>2, <4>2
    <3> QED BY <3>1, <3>2
  <2>7. front \o rear = all
    BY <2>2, <2>5, <2>6, SeqEqual
  <2> QED BY <2>7 DEF front, rear, all
<1>2. \A k \in 1 .. 4 : Ran(s, n)[k] = [lane |-> k, seed |-> s, words |-> Taken(k, n)]
  BY DEF Ran
<1>3. \A k \in 1 .. 4 :
        [Ran(s, n)[k] EXCEPT !.words = @ \o Next4(k)] =
            [lane |-> k, seed |-> s, words |-> Taken(k, n + m)]
  <2> TAKE k \in 1 .. 4
  <2> DEFINE r == Ran(s, n)[k]
  <2>1. r = [lane |-> k, seed |-> s, words |-> Taken(k, n)]
    BY <1>2
  <2>2. [r EXCEPT !.words = r.words \o Next4(k)] =
            [lane |-> k, seed |-> s, words |-> Taken(k, n) \o Next4(k)]
    <3> HIDE DEF r, Next4
    <3> DEFINE c == Next4(k)
               a == Taken(k, n)
    <3>1. r = [lane |-> k, seed |-> s, words |-> a]
      BY <2>1
    <3> HIDE DEF c, a
    <3> DEFINE d == a \o c
    <3>2. r.words = a
      BY <3>1
    <3>3. [r EXCEPT !.words = d] = [lane |-> k, seed |-> s, words |-> d]
      <4> HIDE DEF d
      <4> QED BY <3>1
    <3> QED BY <3>2, <3>3 DEF c, a
  <2> QED BY <2>2, <1>1
<1>4. Rounds(Ran(s, n), b, p) =
        [k \in 1 .. 4 |-> [Ran(s, n)[k] EXCEPT !.words = @ \o Next4(k)]]
  BY DEF Rounds
<1>5. Ran(s, n + m) = [k \in 1 .. 4 |-> [lane |-> k, seed |-> s, words |-> Taken(k, n + m)]]
  BY DEF Ran
<1> QED
  <2> HIDE DEF Next4, m
  <2>1. [k \in 1 .. 4 |-> [Ran(s, n)[k] EXCEPT !.words = @ \o Next4(k)]] =
          [k \in 1 .. 4 |-> [lane |-> k, seed |-> s, words |-> Taken(k, n + m)]]
    BY <1>3
  <2>2. Rounds(Ran(s, n), b, p) = Ran(s, n + m)
    BY <1>4, <1>5, <2>1
  <2> QED BY <2>2 DEF m

(* Before the first stripe.                                                *)
LEMMA StartIs ==
    ASSUME NEW s
    PROVE  Start4(s) = Ran(s, 0)
<1>1. \A k \in 1 .. 4 : Taken(k, 0) = << >>
  BY DEF Taken
<1> QED BY <1>1 DEF Start4, Ran

(* Stripes and the bytes behind them.                                      *)
LEMMA Divided ==
    ASSUME WidthIs, NEW f \in Nat
    PROVE  f \div S \in Nat /\ f % S \in 0 .. S - 1 /\ f % S = f - S * (f \div S)
<1>1. CASE S = 16
  <2>1. f \div 16 \in Nat /\ f % 16 \in 0 .. 15 /\ f % 16 = f - 16 * (f \div 16)
    OBVIOUS
  <2> QED BY <1>1, <2>1
<1>2. CASE S = 32
  <2>1. f \div 32 \in Nat /\ f % 32 \in 0 .. 31 /\ f % 32 = f - 32 * (f \div 32)
    OBVIOUS
  <2> QED BY <1>2, <2>1
<1> QED BY <1>1, <1>2, SizesAre

LEMMA Undivided ==
    ASSUME WidthIs, NEW f \in Nat, NEW q \in Nat, NEW r \in 0 .. S - 1, f = S * q + r
    PROVE  f \div S = q /\ f % S = r
<1>1. CASE S = 16
  <2>1. r \in 0 .. 15 /\ f = 16 * q + r
    BY <1>1
  <2>2. f \div 16 = q /\ f % 16 = r
    BY <2>1
  <2> QED BY <1>1, <2>2
<1>2. CASE S = 32
  <2>1. r \in 0 .. 31 /\ f = 32 * q + r
    BY <1>2
  <2>2. f \div 32 = q /\ f % 32 = r
    BY <2>1
  <2> QED BY <1>2, <2>2
<1> QED BY <1>1, <1>2, SizesAre

LEMMA OnlyStripes ==
    ASSUME WidthIs, NEW f \in Nat, NEW m \in Nat, (f % S) + m < S
    PROVE  (f + m) % S = (f % S) + m /\ (f + m) \div S = f \div S
<1>1. f \div S \in Nat /\ f % S \in 0 .. S - 1 /\ f % S = f - S * (f \div S)
  BY Divided
<1> DEFINE q == f \div S
           r == f % S
           g == f + m
           x == r + m
<1>2. q \in Nat /\ r \in 0 .. S - 1 /\ r = f - S * q /\ r + m < S
  BY <1>1
<1> HIDE DEF q, r
<1>3. x \in 0 .. S - 1 /\ g \in Nat /\ g = S * q + x
  BY <1>2, SizesAre
<1> HIDE DEF g, x
<1>4. g \div S = q /\ g % S = x
  <2> HIDE DEF S
  <2> QED BY <1>2, <1>3, Undivided
<1> QED BY <1>4 DEF q, r, g, x

-----------------------------------------------------------------------------
LEMMA HashBegins == HashInit => HashInv
<1> SUFFICES ASSUME HashInit PROVE HashInv
  OBVIOUS
<1>1. WidthIs
  BY WidthsAssumption DEF HashInit, WidthIs
<1>2. 0 % S = 0 /\ 0 \div S = 0 /\ S \in {16, 32}
  BY <1>1, SizesAre
<1>3. v1_4 = Ran(seed, 0)
  BY StartIs DEF HashInit
<1> QED BY <1>1, <1>2, <1>3 DEF HashInit, HashInv

LEMMA AnewKeeps == HashInv /\ Anew => HashInv'
<1> SUFFICES ASSUME HashInv, Anew PROVE HashInv'
  OBVIOUS
<1>1. PICK s \in Seeds : stream' = stream + 1 /\ Reset(s)
  BY DEF Anew
<1>2. /\ S' = S /\ WidthIs' /\ 0 % S = 0 /\ 0 \div S = 0 /\ S \in {16, 32}
  BY <1>1, SizesAre DEF Reset, HashInv, WidthIs, S, W
<1>3. Start4(s) = Ran(s, 0)'
  <2>1. \A k \in 1 .. 4 : Taken(k, 0)' = << >>
    BY DEF Taken
  <2> QED BY <2>1 DEF Start4, Ran
<1>4. v1_4' = Ran(seed, fed \div S)'
  <2>1. (fed \div S)' = 0
    BY <1>1, <1>2 DEF Reset
  <2> QED BY <1>1, <1>3, <2>1 DEF Reset, Ran
<1> QED BY <1>1, <1>2, <1>4 DEF Reset, HashInv

(* A piece that does not fill the buffer.                                  *)
LEMMA FitsKeeps ==
    ASSUME HashInv, NEW n \in Nat, NEW piece \in Seq(Int), Len(piece) = n,
           \A i \in 1 .. n : piece[i] = 100 * stream + fed + i,
           memsize + n < S
    PROVE  LET size == memsize + n
               full == Fill(memsize, piece, 0, n)
           IN  /\ size = (fed + n) % S /\ fed \div S = (fed + n) \div S
               /\ full \in [0 .. S - 1 -> Int]
               /\ \A i \in 0 .. size - 1 :
                     full[i] = 100 * stream + (fed + n) - size + i + 1
<1> DEFINE b == Fill(memsize, piece, 0, n)
           size == memsize + n
<1>1. /\ S \in Nat /\ memsize \in 0 .. S - 1 /\ fed \in Nat /\ stream \in Nat
      /\ mem \in [0 .. S - 1 -> Int]
      /\ \A i \in 0 .. memsize - 1 : mem[i] = 100 * stream + fed - memsize + i + 1
  <2>1. /\ WidthIs /\ fed \in Nat /\ stream \in Nat /\ memsize = fed % S
        /\ mem \in [0 .. S - 1 -> Int]
        /\ \A i \in 0 .. memsize - 1 : mem[i] = 100 * stream + fed - memsize + i + 1
    BY DEF HashInv
  <2>2. memsize \in 0 .. S - 1
    BY <2>1, Divided
  <2>3. S \in Nat
    BY <2>1, SizesAre
  <2> QED BY <2>1, <2>2, <2>3
<1>2. memsize + n = (fed + n) % S /\ fed \div S = (fed + n) \div S
  <2>1. WidthIs /\ fed \in Nat /\ memsize = fed % S
    BY DEF HashInv
  <2> QED BY <2>1, OnlyStripes
<1> HIDE DEF S
<1>3. ASSUME NEW i \in 0 .. S - 1
      PROVE  /\ b[i] = IF i \in memsize .. memsize + n - 1
                       THEN piece[0 + 1 + i - memsize] ELSE mem[i]
             /\ b[i] \in Int
  <2>1. b[i] = IF i \in memsize .. memsize + n - 1
               THEN piece[0 + 1 + i - memsize] ELSE mem[i]
    BY DEF Fill
  <2>2. i \in memsize .. memsize + n - 1 => 0 + 1 + i - memsize \in 1 .. n
    BY <1>1
  <2> HIDE DEF b
  <2> QED BY <1>1, <2>1, <2>2
<1>4. b \in [0 .. S - 1 -> Int]
  <2>1. b = [i \in 0 .. S - 1 |-> b[i]]
    BY DEF Fill
  <2> HIDE DEF b
  <2> QED BY <1>3, <2>1
<1>5. ASSUME NEW i \in 0 .. size - 1
      PROVE  b[i] = 100 * stream + (fed + n) - size + i + 1
  <2>0. i \in 0 .. S - 1
    BY <1>1
  <2>1. CASE i < memsize
    <3>1. b[i] = mem[i] /\ i \in 0 .. memsize - 1
      BY <1>1, <1>3, <2>0, <2>1
    <3> HIDE DEF b
    <3> QED BY <1>1, <3>1
  <2>2. CASE ~(i < memsize)
    <3> DEFINE j == 0 + 1 + i - memsize
    <3>1. i \in memsize .. memsize + n - 1 /\ j \in 1 .. n
      BY <1>1, <2>2
    <3>2. b[i] = piece[j]
      BY <1>3, <2>0, <3>1
    <3>3. piece[j] = 100 * stream + fed + j
      <4> HIDE DEF j
      <4> QED BY <3>1
    <3> HIDE DEF b
    <3> QED BY <1>1, <3>2, <3>3
  <2> QED BY <2>1, <2>2
<1> QED BY <1>2, <1>4, <1>5

(* One that does: the bytes that fill it, the stripes, and what is left.   *)
LEMMA FullKeeps ==
    ASSUME HashInv, NEW n \in Nat, NEW piece \in Seq(Int), Len(piece) = n,
           \A i \in 1 .. n : piece[i] = 100 * stream + fed + i,
           ~(memsize + n < S)
    PROVE  LET take == IF memsize = 0 THEN 0 ELSE S - memsize
               full == Fill(memsize, piece, 0, take)
               v == IF memsize = 0 THEN v1_4 ELSE Rounds(v1_4, Held(full, S), 0)
               p == take + S * Stripes(piece, take)
               rest == Len(piece) - p
               kept == [i \in 0 .. S - 1 |-> IF i < Len(piece) - p THEN piece[p + 1 + i]
                                             ELSE full[i]]
           IN  /\ Rounds(v, piece, take) = Ran(seed, (fed + n) \div S)
               /\ rest = (fed + n) % S
               /\ kept \in [0 .. S - 1 -> Int]
               /\ \A i \in 0 .. rest - 1 :
                     kept[i] = 100 * stream + (fed + n) - rest + i + 1
<1> DEFINE take == IF memsize = 0 THEN 0 ELSE S - memsize
           full == Fill(memsize, piece, 0, take)
           v == IF memsize = 0 THEN v1_4 ELSE Rounds(v1_4, Held(full, S), 0)
           m == Stripes(piece, take)
           p == take + S * m
           rest == Len(piece) - p
           kept == [i \in 0 .. S - 1 |-> IF i < Len(piece) - p THEN piece[p + 1 + i]
                                         ELSE full[i]]
           q == fed \div S
           q1 == IF memsize = 0 THEN q ELSE q + 1
<1>1. /\ S \in {16, 32} /\ memsize \in 0 .. S - 1 /\ fed \in Nat /\ stream \in Nat
      /\ mem \in [0 .. S - 1 -> Int] /\ WidthIs
      /\ \A i \in 0 .. memsize - 1 : mem[i] = 100 * stream + fed - memsize + i + 1
      /\ v1_4 = Ran(seed, q) /\ q \in Nat /\ memsize = fed - S * q
  BY SizesAre, Divided DEF HashInv
<1> HIDE DEF q
<1>2. take \in 0 .. n /\ S * q1 = fed + take /\ q1 \in Nat
  <2>1. CASE S = 16
    BY <1>1, <2>1
  <2>2. CASE S = 32
    BY <1>1, <2>2
  <2> QED BY <1>1, <2>1, <2>2
<1>3. m \in Nat /\ p <= n /\ n - take < S * m + S
  <2> HIDE DEF take
  <2> QED BY <1>1, <1>2, StripesAre
<1>4. (fed + n) \div S = q1 + m /\ (fed + n) % S = rest /\ rest \in 0 .. S - 1
  <2> DEFINE g == fed + n
             u == q1 + m
             a == take
  <2>1. rest = n - (a + S * m) /\ rest \in 0 .. S - 1
    <3>1. n - take = (n - (take + S * m)) + S * m
      <4> HIDE DEF take, m
      <4> QED BY <1>1, <1>2, <1>3
    <3> HIDE DEF take, m
    <3> QED BY <1>1, <1>2, <1>3
  <2>2. S * u = S * q1 + S * m
    <3> HIDE DEF q1, m
    <3>1. CASE S = 16
      BY <1>2, <1>3, <3>1
    <3>2. CASE S = 32
      BY <1>2, <1>3, <3>2
    <3> QED BY <1>1, <3>1, <3>2
  <2>3. /\ g \in Nat /\ u \in Nat /\ g = S * u + rest
    <3> HIDE DEF a, m, q1
    <3> QED BY <1>1, <1>2, <1>3, <2>1, <2>2
  <2> HIDE DEF g, u, rest, S
  <2>4. g \div S = u /\ g % S = rest
    <3>1. WidthIs /\ g \in Nat /\ u \in Nat /\ rest \in 0 .. S - 1 /\ g = S * u + rest
      BY <1>1, <2>1, <2>3
    <3> QED BY ONLY <3>1, Undivided
  <2> QED BY <2>1, <2>4 DEF g, u
<1>5. /\ full \in [0 .. S - 1 -> Int]
      /\ memsize # 0 => \A i \in 0 .. S - 1 :
            full[i] = 100 * stream + fed - memsize + i + 1
  <2> HIDE DEF S
  <2>1. ASSUME NEW i \in 0 .. S - 1
        PROVE  /\ full[i] = IF i \in memsize .. memsize + take - 1
                            THEN piece[0 + 1 + i - memsize] ELSE mem[i]
               /\ full[i] \in Int
               /\ memsize # 0 => full[i] = 100 * stream + fed - memsize + i + 1
    <3> DEFINE j == 0 + 1 + i - memsize
    <3>1. full[i] = IF i \in memsize .. memsize + take - 1 THEN piece[j] ELSE mem[i]
      BY DEF Fill
    <3>2. i \in memsize .. memsize + take - 1 =>
            /\ j \in 1 .. n /\ 100 * stream + fed + j = 100 * stream + fed - memsize + i + 1
      <4> HIDE DEF take
      <4> QED BY <1>1, <1>2
    <3>3. j \in 1 .. n => piece[j] = 100 * stream + fed + j /\ piece[j] \in Int
      <4> HIDE DEF j
      <4> QED OBVIOUS
    <3>4. memsize # 0 /\ ~(i \in memsize .. memsize + take - 1) => i \in 0 .. memsize - 1
      BY <1>1
    <3> HIDE DEF full, j, take
    <3>5. full[i] \in Int
      BY <1>1, <3>1, <3>2, <3>3
    <3>6. memsize # 0 => full[i] = 100 * stream + fed - memsize + i + 1
      BY <1>1, <3>1, <3>2, <3>3, <3>4
    <3> QED BY <3>1, <3>5, <3>6 DEF j
  <2>2. full = [i \in 0 .. S - 1 |-> full[i]]
    BY DEF Fill
  <2> HIDE DEF full
  <2> QED BY <2>1, <2>2
<1>6. v = Ran(seed, q1)
  <2>1. CASE memsize = 0
    BY <1>1, <2>1
  <2>2. CASE memsize # 0
    <3> DEFINE h == Held(full, S)
    <3>1. \A i \in 0 .. S - 1 : full[i] = 100 * stream + S * q + i + 1
      <4> HIDE DEF full
      <4> QED BY <1>1, <1>5, <2>2
    <3>2. /\ h \in Seq(Int) /\ Len(h) = S
          /\ \A i \in 1 .. S : h[i] = 100 * stream + S * q + (i - 0)
      <4> HIDE DEF full
      <4>1. h = [i \in 1 .. S |-> full[i - 1]]
        BY DEF Held
      <4>2. \A i \in 1 .. S : full[i - 1] = 100 * stream + S * q + (i - 0)
                              /\ full[i - 1] \in Int
        BY <1>1, <1>5, <3>1
      <4>3. S \in Nat
        BY <1>1
      <4>4. h \in Seq(Int) /\ Len(h) = S
        <5> DEFINE e(i) == full[i - 1]
        <5>1. h = [i \in 1 .. S |-> e(i)] /\ \A i \in 1 .. S : e(i) \in Int
          BY <4>1, <4>2
        <5> HIDE DEF e, h
        <5> QED BY ONLY <4>3, <5>1
      <4>5. \A i \in 1 .. S : h[i] = full[i - 1]
        BY <4>1
      <4> HIDE DEF h
      <4> QED BY <4>2, <4>4, <4>5
    <3> HIDE DEF h
    <3>3. Rounds(Ran(seed, q), h, 0) = Ran(seed, q + Stripes(h, 0))
      <4> DEFINE z == 0
      <4>1. z \in 0 .. Len(h) /\ \A i \in z + 1 .. Len(h) :
                h[i] = 100 * stream + S * q + (i - z)
        BY <1>1, <3>2
      <4>2. stream \in Nat /\ WidthIs /\ q \in Nat /\ h \in Seq(Int)
        BY <1>1, <3>2
      <4> HIDE DEF z
      <4>3. Rounds(Ran(seed, q), h, z) = Ran(seed, q + Stripes(h, z))
        BY ONLY <4>1, <4>2, RoundsAre
      <4> QED BY <4>3 DEF z
    <3>4. Stripes(h, 0) = 1
      <4>1. CASE S = 16
        BY <3>2, <4>1 DEF Stripes
      <4>2. CASE S = 32
        BY <3>2, <4>2 DEF Stripes
      <4> QED BY <1>1, <4>1, <4>2
    <3> QED BY <1>1, <2>2, <3>3, <3>4 DEF h
  <2> QED BY <2>1, <2>2
<1>7. Rounds(v, piece, take) = Ran(seed, q1 + m)
  <2>1. \A i \in take + 1 .. Len(piece) : piece[i] = 100 * stream + S * q1 + (i - take)
    <3> TAKE i \in take + 1 .. Len(piece)
    <3>1. fed \in Nat /\ stream \in Nat /\ take \in 0 .. n /\ S * q1 = fed + take
      BY <1>1, <1>2
    <3> HIDE DEF take, q1
    <3>2. i \in 1 .. n
      BY <3>1
    <3>3. piece[i] = 100 * stream + fed + i
      BY <3>2
    <3>4. 100 * stream + fed + i = 100 * stream + (fed + take) + (i - take)
      BY <3>1, <3>2
    <3> QED BY <3>1, <3>3, <3>4
  <2>2. stream \in Nat /\ WidthIs /\ q1 \in Nat /\ take \in 0 .. Len(piece)
    BY <1>1, <1>2
  <2> HIDE DEF take, q1, v
  <2>3. Rounds(Ran(seed, q1), piece, take) = Ran(seed, q1 + Stripes(piece, take))
    BY ONLY piece \in Seq(Int), <2>1, <2>2, RoundsAre
  <2> QED BY <1>6, <2>3
<1>8. kept \in [0 .. S - 1 -> Int]
  <2>0. p \in Nat
    <3> HIDE DEF take, m
    <3> QED BY <1>1, <1>2, <1>3
  <2> HIDE DEF full, p
  <2>1. \A i \in 0 .. S - 1 : i < n - p => p + 1 + i \in 1 .. n
    BY <1>1, <2>0
  <2>2. \A i \in 0 .. S - 1 : 
          (IF i < Len(piece) - p THEN piece[p + 1 + i] ELSE full[i]) \in Int
    BY <1>5, <2>1
  <2> QED BY ONLY <2>2
<1>9. ASSUME NEW i \in 0 .. rest - 1
      PROVE  kept[i] = 100 * stream + (fed + n) - rest + i + 1
  <2>1. i \in 0 .. S - 1 /\ i < n - p /\ p + 1 + i \in 1 .. n
    <3>1. rest \in 0 .. S - 1 /\ p \in Nat
      <4> HIDE DEF take, m
      <4> QED BY <1>1, <1>2, <1>3, <1>4, SMTT(30)
    <3> HIDE DEF p
    <3> QED BY <1>1, <3>1
  <2>2. kept[i] = piece[p + 1 + i]
    <3> HIDE DEF p, full
    <3> QED BY <2>1
  <2>3. piece[p + 1 + i] = 100 * stream + fed + (p + 1 + i)
    <3> HIDE DEF p
    <3> QED BY <2>1
  <2>4. p \in Int /\ rest = n - p
    <3> HIDE DEF take, m
    <3> QED BY <1>1, <1>2, <1>3
  <2> HIDE DEF p, kept, rest
  <2> QED BY <1>1, <2>2, <2>3, <2>4
<1> HIDE DEF take, full, m, p, q1, v, q
<1>10. Len(piece) - p = rest /\ Rounds(v, piece, take) = Ran(seed, (fed + n) \div S)
  BY <1>4, <1>7
<1>11. /\ Rounds(v, piece, take) = Ran(seed, (fed + n) \div S)
       /\ rest = (fed + n) % S /\ kept \in [0 .. S - 1 -> Int]
       /\ \A i \in 0 .. rest - 1 : kept[i] = 100 * stream + (fed + n) - rest + i + 1
  BY <1>4, <1>8, <1>9, <1>10
<1> QED BY ONLY <1>11 DEF take, full, m, p, v

LEMMA FeedKeeps == HashInv /\ Feed => HashInv'
<1> SUFFICES ASSUME HashInv, Feed PROVE HashInv'
  OBVIOUS
<1>1. PICK n \in Pieces :
        /\ fed' = fed + n
        /\ Update(SubSeq(Bytes(fed + n), fed + 1, fed + n))
  BY DEF Feed
<1> DEFINE piece == SubSeq(Bytes(fed + n), fed + 1, fed + n)
<1>2. /\ n \in Nat /\ fed \in Nat /\ stream \in Nat
      /\ piece \in Seq(Int) /\ Len(piece) = n
      /\ \A i \in 1 .. n : piece[i] = 100 * stream + fed + i
  <2>1. n \in Nat /\ fed \in Nat /\ stream \in Nat
    BY PiecesAssumption DEF HashInv
  <2> QED BY <2>1, PieceIs
<1>3. Update(piece) /\ fed' = fed + n
  BY <1>1
<1> HIDE DEF piece
<1>4. /\ total_len' = total_len + n
      /\ width' = width /\ seed' = seed /\ stream' = stream
  BY <1>2, <1>3 DEF Update
<1>5. /\ S' = S /\ W' = W /\ WidthIs' /\ fed + n \in Nat /\ total_len = fed
      /\ \A s, k : Ran(s, k)' = Ran(s, k)
  BY <1>2, <1>4 DEF HashInv, WidthIs, S, W, Ran, Taken
<1>6. /\ memsize' = (fed + n) % S
      /\ mem' \in [0 .. S - 1 -> Int]
      /\ \A i \in 0 .. memsize' - 1 :
            mem'[i] = 100 * stream + (fed + n) - memsize' + i + 1
      /\ v1_4' = Ran(seed, (fed + n) \div S)
  <2>1. CASE memsize + n < S
    <3> DEFINE full == Fill(memsize, piece, 0, n)
               size == memsize + n
    <3>1. mem' = full /\ memsize' = size /\ v1_4' = v1_4
      BY <1>2, <1>3, <2>1 DEF Update, Fits
    <3>2. v1_4 = Ran(seed, fed \div S)
      BY DEF HashInv
    <3>3. /\ size = (fed + n) % S /\ fed \div S = (fed + n) \div S
          /\ full \in [0 .. S - 1 -> Int]
          /\ \A i \in 0 .. size - 1 :
                full[i] = 100 * stream + (fed + n) - size + i + 1
      BY <1>2, <2>1, FitsKeeps
    <3> HIDE DEF full, size
    <3> QED BY ONLY <3>1, <3>2, <3>3
  <2>2. CASE ~(memsize + n < S)
    <3> DEFINE take == IF memsize = 0 THEN 0 ELSE S - memsize
               full == Fill(memsize, piece, 0, take)
               v == IF memsize = 0 THEN v1_4 ELSE Rounds(v1_4, Held(full, S), 0)
               p == take + S * Stripes(piece, take)
               rest == Len(piece) - p
               kept == [i \in 0 .. S - 1 |-> IF i < Len(piece) - p THEN piece[p + 1 + i]
                                             ELSE full[i]]
    <3>1. v1_4' = Rounds(v, piece, take) /\ memsize' = rest /\ mem' = kept
      BY <1>2, <1>3, <2>2 DEF Update, Fits
    <3>2. /\ Rounds(v, piece, take) = Ran(seed, (fed + n) \div S)
          /\ rest = (fed + n) % S
          /\ kept \in [0 .. S - 1 -> Int]
          /\ \A i \in 0 .. rest - 1 :
                kept[i] = 100 * stream + (fed + n) - rest + i + 1
      BY <1>2, <2>2, FullKeeps, ZenonT(30)
    <3> HIDE DEF take, full, v, p, rest, kept
    <3> QED BY ONLY <3>1, <3>2
  <2> QED BY <2>1, <2>2
<1> QED BY <1>2, <1>3, <1>4, <1>5, <1>6 DEF HashInv

LEMMA HashStep == HashInv /\ [HashNext]_hashvars => HashInv'
<1> SUFFICES ASSUME HashInv, [HashNext]_hashvars PROVE HashInv'
  OBVIOUS
<1>1. CASE Anew
  BY <1>1, AnewKeeps
<1>2. CASE Feed
  BY <1>2, FeedKeeps
<1>3. CASE UNCHANGED hashvars
  BY <1>3 DEF hashvars, HashInv, WidthIs, S, W, Ran, Taken
<1> QED BY <1>1, <1>2, <1>3 DEF HashNext

-----------------------------------------------------------------------------
LEMMA TailIsHeld == HashInv => BufferIsTail
<1> SUFFICES ASSUME HashInv PROVE BufferIsTail
  OBVIOUS
<1>1. /\ WidthIs /\ stream \in Nat /\ fed \in Nat /\ memsize = fed % S
      /\ mem \in [0 .. S - 1 -> Int]
      /\ \A i \in 0 .. memsize - 1 : mem[i] = 100 * stream + fed - memsize + i + 1
      /\ v1_4 = Ran(seed, fed \div S)
  BY DEF HashInv
<1>2. /\ fed \div S \in Nat /\ memsize \in 0 .. S - 1 /\ S \in {16, 32}
      /\ memsize = fed - S * (fed \div S)
  BY <1>1, SizesAre, Divided
<1>3. memsize <= fed /\ fed - memsize \in Nat
  BY <1>1, <1>2
<1>4. Held(mem, memsize) = SubSeq(Bytes(fed), fed - memsize + 1, fed)
  <2> DEFINE f == fed - memsize
             t == SubSeq(Bytes(f + memsize), f + 1, f + memsize)
             h == Held(mem, memsize)
  <2>1. f \in Nat /\ memsize \in Nat /\ f + memsize = fed
    BY <1>1, <1>2, <1>3
  <2>2. /\ t \in Seq(Int) /\ Len(t) = memsize
        /\ \A i \in 1 .. memsize : t[i] = 100 * stream + f + i
    BY <1>1, <2>1, PieceIs
  <2>3. \A i \in 1 .. memsize : mem[i - 1] = 100 * stream + f + i /\ mem[i - 1] \in Int
    BY <1>1, <1>2, <1>3
  <2>4. h \in Seq(Int) /\ Len(h) = memsize /\ \A i \in 1 .. memsize : h[i] = mem[i - 1]
    <3> DEFINE e(i) == mem[i - 1]
    <3>1. h = [i \in 1 .. memsize |-> e(i)] /\ \A i \in 1 .. memsize : e(i) \in Int
      BY <2>3 DEF Held
    <3> HIDE DEF e, h
    <3>2. /\ h \in Seq(Int) /\ Len(h) = memsize
          /\ \A i \in 1 .. memsize : h[i] = e(i)
      BY ONLY <2>1, <3>1
    <3> QED BY <3>2 DEF e
  <2> HIDE DEF t, h
  <2>5. h = t
    BY <2>2, <2>3, <2>4, SeqEqual
  <2> QED BY <2>1, <2>5 DEF t, h
<1>5. \A k \in 1 .. 4 : Len(v1_4[k].words) = fed \div S
  BY <1>1, <1>2, TakenIs DEF Ran
<1> QED BY <1>1, <1>4, <1>5 DEF BufferIsTail

(* xxhash.c:593-634, 712-751: however a stream is cut into pieces, the     *)
(* buffer of its state has just the bytes behind the last whole stripe.    *)
THEOREM StateHoldsTheTail == HashSpec => []BufferIsTail
<1>1. HashInit => HashInv
  BY HashBegins
<1>2. HashInv /\ [HashNext]_hashvars => HashInv'
  BY HashStep
<1> QED BY <1>1, <1>2, TailIsHeld, PTL DEF HashSpec

LEMMA HashIsOneShot == HashInv => StreamIsOneShot
<1> SUFFICES ASSUME HashInv PROVE StreamIsOneShot
  OBVIOUS
<1> DEFINE b == Bytes(fed)
           p == S * Stripes(b, 0)
           cut == SubSeq(b, p + 1, Len(b))
<1>1. /\ WidthIs /\ stream \in Nat /\ fed \in Nat /\ total_len = fed
      /\ memsize = fed % S /\ v1_4 = Ran(seed, fed \div S)
  BY DEF HashInv
<1>2. /\ fed \div S \in Nat /\ S \in {16, 32}
      /\ memsize = fed - S * (fed \div S)
  BY <1>1, SizesAre, Divided
<1>3. /\ b \in Seq(Int) /\ Len(b) = fed
      /\ \A i \in 1 .. fed : b[i] = 100 * stream + i
  BY <1>1, BytesAre
<1> HIDE DEF b
<1>4. Stripes(b, 0) = fed \div S
  BY <1>1, <1>2, <1>3 DEF Stripes
<1>5. Rounds(Start4(seed), b, 0) = v1_4
  <2> DEFINE z == 0
             u == Stripes(b, z)
  <2>1. /\ z \in Nat /\ z \in 0 .. Len(b)
        /\ \A j \in z + 1 .. Len(b) : b[j] = 100 * stream + S * z + (j - z)
    <3>1. S * 0 = 0
      BY <1>2
    <3> QED BY <1>1, <1>3, <3>1
  <2>2. z + u = fed \div S
    BY <1>2, <1>4
  <2> HIDE DEF z, u
  <2>3. Rounds(Ran(seed, z), b, z) = Ran(seed, z + Stripes(b, z))
    BY <1>1, <1>3, <2>1, RoundsAre, SMTT(30)
  <2>4. Rounds(Ran(seed, z), b, z) = v1_4
    BY <1>1, <2>2, <2>3 DEF u
  <2> QED BY <2>4, StartIs DEF z
<1>6. Held(mem, memsize) = cut
  <2>1. Held(mem, memsize) = SubSeq(b, fed - memsize + 1, fed)
    BY TailIsHeld DEF BufferIsTail, b
  <2>2. fed - memsize = p
    BY <1>1, <1>2, <1>4
  <2> HIDE DEF p
  <2> QED BY <1>3, <2>1, <2>2
<1>7. OneShot(b, seed) =
        Merge(Len(b) >= S, Rounds(Start4(seed), b, 0), seed, Len(b), Finish(cut))
  BY DEF OneShot
<1> HIDE DEF cut
<1>8. OneShot(b, seed) = Merge(fed >= S, v1_4, seed, fed, Finish(Held(mem, memsize)))
  BY <1>3, <1>5, <1>6, <1>7
<1> QED BY <1>1, <1>8 DEF StreamIsOneShot, Digest, b

(* xxhash.c:651-694, 768-827: whatever pieces a stream is fed in, and whatever an  *)
(* earlier stream left in the state, its digest is the hash of the same    *)
(* bytes as one block, for both widths and every length.                   *)
THEOREM DigestIsOneShot == HashSpec => []StreamIsOneShot
<1>1. HashInit => HashInv
  BY HashBegins
<1>2. HashInv /\ [HashNext]_hashvars => HashInv'
  BY HashStep
<1> QED BY <1>1, <1>2, HashIsOneShot, PTL DEF HashSpec

-----------------------------------------------------------------------------
(* Stretches of the stream put one behind the other are a stretch.         *)
Run(q, n) == [x \in 1 .. n |-> 100 * stream + q + x]
Cat(s, t) == s \o t

LEMMA RunIs ==
    ASSUME stream \in Nat, NEW q \in Nat, NEW n \in Nat
    PROVE  /\ Run(q, n) \in Seq(Int) /\ Len(Run(q, n)) = n
           /\ \A x \in 1 .. n : Run(q, n)[x] = 100 * stream + q + x
  BY DEF Run

LEMMA RunsJoin ==
    ASSUME stream \in Nat, NEW q \in Nat, NEW n \in Nat, NEW r \in Nat, NEW m \in Nat,
           r = q + n
    PROVE  Cat(Run(q, n), Run(r, m)) = Run(q, n + m)
<1> DEFINE s == Run(q, n)
           t == Run(r, m)
           u == Run(q, n + m)
<1>0. /\ s \in Seq(Int) /\ Len(s) = n
      /\ \A x \in 1 .. n : s[x] = 100 * stream + q + x
  BY RunIs
<1>1. /\ t \in Seq(Int) /\ Len(t) = m
      /\ \A x \in 1 .. m : t[x] = 100 * stream + r + x
  BY RunIs
<1>2. /\ u \in Seq(Int) /\ Len(u) = n + m
      /\ \A x \in 1 .. n + m : u[x] = 100 * stream + q + x
  <2>1. n + m \in Nat
    OBVIOUS
  <2> QED BY <2>1, RunIs
<1> HIDE DEF s, t, u
<1>3. /\ s \o t \in Seq(Int) /\ Len(s \o t) = Len(s) + Len(t)
      /\ \A x \in 1 .. Len(s) + Len(t) :
            (s \o t)[x] = IF x <= Len(s) THEN s[x] ELSE t[x - Len(s)]
  <2>1. s \in Seq(Int) /\ t \in Seq(Int)
    BY <1>0, <1>1
  <2> QED BY ONLY <2>1, ConcatProperties
<1>4. ASSUME NEW x \in 1 .. n + m PROVE (s \o t)[x] = u[x]
  <2>1. (s \o t)[x] = IF x <= n THEN s[x] ELSE t[x - n]
    BY <1>0, <1>1, <1>3
  <2>2. CASE x <= n
    BY <1>0, <1>1, <1>2, <2>1, <2>2
  <2>3. CASE ~(x <= n)
    <3>1. x - n \in 1 .. m
      BY <2>3
    <3>2. t[x - n] = 100 * stream + r + (x - n)
      BY <1>1, <3>1
    <3> QED BY <1>2, <2>1, <2>3, <3>2
  <2> QED BY <2>2, <2>3
<1>5. s \o t = u
  <2>1. s \o t \in Seq(Int) /\ Len(s \o t) = n + m
    BY <1>0, <1>1, <1>3
  <2> HIDE DEF Cat
  <2> DEFINE c == s \o t
  <2>2. c \in Seq(Int) /\ Len(c) = Len(u) /\ \A x \in 1 .. Len(c) : c[x] = u[x]
    BY <1>2, <1>4, <2>1
  <2> HIDE DEF c
  <2>3. c = u
    BY ONLY <1>2, <2>2, SeqEqual
  <2> QED BY <2>3 DEF c
<1> QED BY <1>5 DEF Cat, s, t, u

(* A set of numbers that has zero and each successor has them all.         *)
LEMMA CountUp ==
    ASSUME NEW T, 0 \in T, \A n \in Nat : n \in T => n + 1 \in T
    PROVE  Nat \subseteq T
<1> DEFINE Missed == Nat \ T
<1> SUFFICES ASSUME Missed # {} PROVE FALSE
  OBVIOUS
<1>1. PICK x \in Missed : \A y \in Missed : ~(<< y, x >> \in OpToRel(<, Nat))
  <2>1. Missed \subseteq Nat
    OBVIOUS
  <2> QED BY <2>1, WFMin, NatLessThanWellFounded, Zenon
<1>2. x \in Nat /\ x # 0 /\ x \notin T
  OBVIOUS
<1>3. x - 1 \in Nat /\ (x - 1) + 1 = x /\ x - 1 < x
  BY <1>2
<1>4. x - 1 \in Missed /\ << x - 1, x >> \in OpToRel(<, Nat)
  BY <1>2, <1>3 DEF OpToRel
<1> QED BY <1>1, <1>4

(* e has where each stretch ends.                                          *)
LEMMA RunsFlatten ==
    ASSUME stream \in Nat, NEW q \in Nat, NEW ss, Len(ss) \in Nat \ {0},
           NEW e \in [0 .. Len(ss) -> Nat], e[0] = 0,
           \A k \in 1 .. Len(ss) :
                e[k - 1] <= e[k] /\ ss[k] = Run(q + e[k - 1], e[k] - e[k - 1])
    PROVE  FlattenSeq(ss) = Run(q, e[Len(ss)])
<1> DEFINE N == Len(ss)
           F(f) == [i \in 1 .. N |-> IF i = 1 THEN ss[i] ELSE Cat(f[i - 1], ss[i])]
           f0 == CHOOSE f : f = F(f)
           h == [i \in 1 .. N |-> Run(q, e[i])]
<1>1. FlattenSeq(ss) = f0[N]
  <2>1. Len(ss) # 0
    OBVIOUS
  <2> QED BY <2>1, Zenon DEF FlattenSeq, Cat
<1> HIDE DEF N
<1>2. /\ N \in Nat /\ N # 0 /\ e \in [0 .. N -> Nat] /\ e[0] = 0
      /\ \A k \in 1 .. N :
            e[k - 1] <= e[k] /\ ss[k] = Run(q + e[k - 1], e[k] - e[k - 1])
  BY DEF N
<1>3. ss[1] = Run(q, e[1])
  <2>1. 1 \in 1 .. N /\ 1 - 1 = 0
    BY <1>2
  <2>2. ss[1] = Run(q + e[0], e[1] - e[0]) /\ e[1] \in Nat
    BY <1>2, <2>1
  <2> QED BY <1>2, <2>2
<1>4. ASSUME NEW i \in 1 .. N, i # 1
      PROVE  Cat(Run(q, e[i - 1]), ss[i]) = Run(q, e[i])
  <2>1. /\ e[i] \in Nat /\ e[i - 1] \in Nat /\ e[i - 1] <= e[i]
        /\ ss[i] = Run(q + e[i - 1], e[i] - e[i - 1])
    BY <1>2
  <2> DEFINE n == e[i - 1]
             m == e[i] - e[i - 1]
             r == q + n
  <2>2. n \in Nat /\ m \in Nat /\ r \in Nat /\ r = q + n /\ n + m = e[i]
    BY <2>1
  <2>3. ss[i] = Run(r, m)
    BY <2>1
  <2> HIDE DEF n, m, r
  <2>4. Cat(Run(q, n), Run(r, m)) = Run(q, n + m)
    BY <2>2, RunsJoin
  <2> QED BY <2>2, <2>3, <2>4 DEF n
<1>5. h = F(h)
  <2>1. ASSUME NEW i \in 1 .. N PROVE h[i] = F(h)[i]
    <3>1. CASE i = 1
      BY <1>3, <3>1
    <3>2. CASE i # 1
      <4>1. i - 1 \in 1 .. N
        BY <1>2, <3>2
      <4>2. h[i - 1] = Run(q, e[i - 1])
        BY <4>1
      <4>3. h[i] = Run(q, e[i])
        OBVIOUS
      <4> HIDE DEF h
      <4>5. \A k \in 1 .. N : F(h)[k] = IF k = 1 THEN ss[k] ELSE Cat(h[k - 1], ss[k])
        OBVIOUS
      <4> HIDE DEF F
      <4>4. F(h)[i] = Cat(h[i - 1], ss[i])
        BY <3>2, <4>5
      <4> QED BY <1>4, <3>2, <4>2, <4>3, <4>4
    <3> QED BY <3>1, <3>2
  <2> QED BY <2>1
<1>6. f0 = F(f0)
  <2> HIDE DEF h, F
  <2> QED BY <1>5, Zenon
<1> HIDE DEF f0
<1>7. /\ f0[1] = ss[1]
      /\ \A i \in 1 .. N : i # 1 => f0[i] = Cat(f0[i - 1], ss[i])
  <2>1. \A i \in 1 .. N : f0[i] = IF i = 1 THEN ss[i] ELSE Cat(f0[i - 1], ss[i])
    <3> DEFINE g == F(f0)
    <3>1. \A i \in 1 .. N : g[i] = IF i = 1 THEN ss[i] ELSE Cat(f0[i - 1], ss[i])
      OBVIOUS
    <3>2. f0 = g
      BY <1>6
    <3> HIDE DEF g, F
    <3> QED BY <3>1, <3>2
  <2>2. 1 \in 1 .. N
    BY <1>2
  <2> QED BY ONLY <2>1, <2>2
<1> DEFINE Good == {n \in Nat : n + 1 <= N => f0[n + 1] = Run(q, e[n + 1])}
<1>8. 0 \in Good
  BY <1>3, <1>7
<1>9. ASSUME NEW n \in Nat, n \in Good PROVE n + 1 \in Good
  <2> DEFINE i == (n + 1) + 1
  <2> SUFFICES ASSUME i <= N PROVE f0[i] = Run(q, e[i])
    OBVIOUS
  <2>1. i \in 1 .. N /\ i # 1 /\ i - 1 = n + 1 /\ n + 1 <= N
    BY <1>2
  <2>2. f0[n + 1] = Run(q, e[n + 1])
    BY <1>9, <2>1
  <2> HIDE DEF i
  <2>3. f0[i] = Cat(f0[i - 1], ss[i])
    BY <1>7, <2>1
  <2>4. Cat(Run(q, e[i - 1]), ss[i]) = Run(q, e[i])
    BY <1>4, <2>1
  <2> QED BY <2>1, <2>2, <2>3, <2>4
<1> HIDE DEF Good
<1>10. Nat \subseteq Good
  BY <1>8, <1>9, CountUp, Zenon
<1>11. N - 1 \in Nat /\ (N - 1) + 1 = N /\ N <= N
  BY <1>2
<1>12. f0[N] = Run(q, e[N])
  <2> DEFINE n == N - 1
  <2>1. n \in Good /\ n + 1 = N /\ n + 1 <= N
    BY <1>10, <1>11
  <2> HIDE DEF n
  <2>2. n + 1 <= N => f0[n + 1] = Run(q, e[n + 1])
    BY ONLY <2>1 DEF Good
  <2> QED BY <2>1, <2>2
<1> QED BY <1>1, <1>12 DEF N

LEMMA CutIs ==
    ASSUME stream \in Nat, NEW p \in Nat, NEW b \in Seq(Int),
           \A i \in 1 .. Len(b) : b[i] = 100 * stream + p + i,
           NEW q \in Nat, NEW n \in Nat, q + n <= Len(b)
    PROVE  SubSeq(b, q + 1, q + n) = Run(p + q, n)
<1> DEFINE lo == q + 1
           hi == q + n
           w == SubSeq(b, lo, hi)
           r == p + q
           t == Run(r, n)
<1>1. /\ lo \in Int /\ hi \in Int /\ r \in Nat
      /\ \A i \in lo .. hi : b[i] \in Int
      /\ \A i \in 1 .. (hi - lo) + 1 : lo + (i - 1) = q + i
      /\ (IF lo <= hi THEN (hi - lo) + 1 ELSE 0) = n /\ (hi - lo) + 1 = n
  OBVIOUS
<1>2. /\ t \in Seq(Int) /\ Len(t) = n
      /\ \A x \in 1 .. n : t[x] = 100 * stream + r + x
  BY <1>1, RunIs, ZenonT(30)
<1> HIDE DEF lo, hi, t
<1>3. /\ w \in Seq(Int) /\ Len(w) = IF lo <= hi THEN hi - lo + 1 ELSE 0
      /\ \A i \in 1 .. hi - lo + 1 : w[i] = b[lo + i - 1]
  BY <1>1, SubSeqProperties, SMTT(30)
<1> HIDE DEF w
<1>4. Len(w) = n /\ \A i \in 1 .. n : w[i] = b[q + i]
  BY <1>1, <1>3
<1>5. ASSUME NEW i \in 1 .. n PROVE w[i] = t[i]
  <2>1. q + i \in 1 .. Len(b)
    OBVIOUS
  <2>2. b[q + i] = 100 * stream + p + (q + i)
    BY <2>1
  <2> QED BY <1>2, <1>4, <2>2
<1>6. w = t
  BY <1>2, <1>3, <1>4, <1>5, SeqEqual
<1> QED BY <1>6 DEF w, t, lo, hi

LEMMA ListIs ==
    ASSUME NEW V, NEW n \in Nat, NEW f, f = [i \in 1 .. n |-> f[i]], \A i \in 1 .. n : f[i] \in V
    PROVE  f \in Seq(V) /\ Len(f) = n
<1> DEFINE e(i) == f[i]
<1>1. f = [i \in 1 .. n |-> e(i)] /\ \A i \in 1 .. n : e(i) \in V
  OBVIOUS
<1> HIDE DEF e
<1> QED BY ONLY n \in Nat, <1>1

(* The finish takes each byte behind the stripes once and in its place.    *)
LEMMA FinishIs ==
    ASSUME stream \in Nat, WidthIs, NEW p \in Nat, NEW b \in Seq(Int),
           \A i \in 1 .. Len(b) : b[i] = 100 * stream + p + i
    PROVE  FlattenSeq(Finish(b)) = Run(p, Len(b))
<1> DEFINE words == Len(b) \div W
           half == IF width = 64 /\ Len(b) - words * W >= 4 THEN 1 ELSE 0
           rest == words * W + 4 * half
           x == [i \in 1 .. words |-> Word(b, (i - 1) * W, W)]
           y == [i \in 1 .. half |-> Word(b, words * W, 4)]
           z == [i \in 1 .. Len(b) - rest |-> << b[rest + i] >>]
           c == Len(b) - rest
           N == words + half + c
           e == [k \in 0 .. N |-> IF k <= words THEN W * k ELSE rest + (k - (words + half))]
<1>1. Finish(b) = x \o y \o z
  BY DEF Finish
<1>2. /\ words \in Nat /\ half \in {0, 1} /\ rest \in Nat /\ rest <= Len(b) /\ W \in Nat
      /\ c \in Nat /\ N \in Nat /\ W # 0 /\ rest = words * W + 4 * half
      /\ (Len(b) = 0 <=> N = 0)
  <2>1. CASE W = 4
    BY <2>1
  <2>2. CASE W = 8
    BY <2>2
  <2> QED BY <2>1, <2>2, SizesAre
<1> HIDE DEF words, half, rest
<1>3. \A i \in 1 .. words :
        (i - 1) * W \in Nat /\ (i - 1) * W + W <= Len(b) /\ (i - 1) * W + W = W * i
  <2>1. CASE W = 4
    BY <1>2, <2>1
  <2>2. CASE W = 8
    BY <1>2, <2>2
  <2> QED BY <2>1, <2>2, SizesAre
<1>4. ASSUME NEW i \in 1 .. words
      PROVE  x[i] = Run(p + (i - 1) * W, W) /\ x[i] \in Seq(Int)
  <2> DEFINE q == (i - 1) * W
  <2>0. q \in Nat /\ q + W <= Len(b)
    BY <1>3
  <2>1. q \in Nat /\ q + W <= Len(b) /\ W \in Nat /\ p + q \in Nat
    <3> HIDE DEF q
    <3> QED BY <1>2, <2>0
  <2>2. x[i] = SubSeq(b, q + 1, q + W)
    BY DEF Word
  <2> HIDE DEF q, x
  <2>3. SubSeq(b, q + 1, q + W) = Run(p + q, W)
    BY <2>1, CutIs, ZenonT(30)
  <2>4. Run(p + q, W) \in Seq(Int)
    BY <2>1, RunIs
  <2> QED BY <2>2, <2>3, <2>4 DEF q
<1>5. ASSUME NEW i \in 1 .. half
      PROVE  y[i] = Run(p + words * W, 4) /\ y[i] \in Seq(Int)
  <2> DEFINE q == words * W
  <2>1. q \in Nat /\ q + 4 <= Len(b) /\ p + q \in Nat /\ 4 \in Nat
    <3>1. half = 1 /\ q \in Nat
      BY <1>2, SizesAre
    <3> HIDE DEF q
    <3>2. q + 4 <= Len(b)
      BY <1>2, <3>1 DEF q
    <3> QED BY <3>1, <3>2
  <2>2. y[i] = SubSeq(b, q + 1, q + 4)
    BY DEF Word
  <2> HIDE DEF q, y
  <2>3. SubSeq(b, q + 1, q + 4) = Run(p + q, 4)
    <3> DEFINE n == 4
    <3>1. n \in Nat /\ q + n <= Len(b)
      BY <2>1
    <3> HIDE DEF n
    <3>2. /\ stream \in Nat /\ p \in Nat /\ b \in Seq(Int)
          /\ \A k \in 1 .. Len(b) : b[k] = 100 * stream + p + k
          /\ q \in Nat /\ n \in Nat /\ q + n <= Len(b)
      BY <2>1, <3>1
    <3>3. SubSeq(b, q + 1, q + n) = Run(p + q, n)
      BY ONLY <3>2, CutIs, ZenonT(30)
    <3> QED BY <3>3 DEF n
  <2>4. Run(p + q, 4) \in Seq(Int)
    BY <2>1, RunIs
  <2> QED BY <2>2, <2>3, <2>4 DEF q
<1>6. ASSUME NEW i \in 1 .. c
      PROVE  z[i] = Run(p + (rest + (i - 1)), 1) /\ z[i] \in Seq(Int)
  <2>1. rest + i \in 1 .. Len(b) /\ p + (rest + (i - 1)) \in Nat
    BY <1>2
  <2>2. z[i] = << b[rest + i] >> /\ b[rest + i] = 100 * stream + p + (rest + i)
    BY <2>1
  <2>3. 100 * stream + p + (rest + i) = 100 * stream + (p + (rest + (i - 1))) + 1
    BY <1>2
  <2>4. Run(p + (rest + (i - 1)), 1) = << 100 * stream + (p + (rest + (i - 1))) + 1 >>
    BY DEF Run
  <2> HIDE DEF z
  <2> QED BY <2>1, <2>2, <2>3, <2>4
<1> DEFINE V == Seq(Int)
           ss == (x \o y) \o z
<1>7. /\ x \in Seq(V) /\ Len(x) = words /\ y \in Seq(V) /\ Len(y) = half
      /\ z \in Seq(V) /\ Len(z) = c
  <2>1. \A i \in 1 .. words : x[i] \in V
    BY <1>4
  <2>2. \A i \in 1 .. half : y[i] \in V
    BY <1>5
  <2>3. \A i \in 1 .. c : z[i] \in V
    BY <1>6
  <2>4. /\ x = [i \in 1 .. words |-> x[i]] /\ y = [i \in 1 .. half |-> y[i]]
        /\ z = [i \in 1 .. c |-> z[i]]
    OBVIOUS
  <2> HIDE DEF x, y, z, c, V
  <2>5. x \in Seq(V) /\ Len(x) = words
    BY <1>2, <2>1, <2>4, ListIs
  <2>6. y \in Seq(V) /\ Len(y) = half
    <3>1. half \in Nat
      BY <1>2
    <3> QED BY <2>2, <2>4, <3>1, ListIs
  <2>7. z \in Seq(V) /\ Len(z) = c
    BY <1>2, <2>3, <2>4, ListIs
  <2> QED BY <2>5, <2>6, <2>7
<1> HIDE DEF x, y, z, c, V
<1>8. /\ Len(ss) = N
      /\ \A k \in 1 .. N : ss[k] = IF k <= words THEN x[k]
                                   ELSE IF k <= words + half THEN y[k - words]
                                   ELSE z[k - (words + half)]
  <2> DEFINE d == x \o y
  <2>1. /\ d \in Seq(V) /\ Len(d) = Len(x) + Len(y)
        /\ \A i \in 1 .. Len(x) + Len(y) :
              d[i] = IF i <= Len(x) THEN x[i] ELSE y[i - Len(x)]
    BY <1>7, ConcatProperties, ZenonT(30)
  <2> HIDE DEF d
  <2>2. /\ Len(d \o z) = Len(d) + Len(z)
        /\ \A i \in 1 .. Len(d) + Len(z) :
              (d \o z)[i] = IF i <= Len(d) THEN d[i] ELSE z[i - Len(d)]
    <3>1. d \in Seq(V) /\ z \in Seq(V)
      BY <1>7, <2>1
    <3> QED BY ONLY <3>1, ConcatProperties
  <2>3. Len(d) = words + half /\ Len(d) + Len(z) = N
    BY <1>2, <1>7, <2>1
  <2> DEFINE g == d \o z
  <2>4. /\ Len(g) = N
        /\ \A i \in 1 .. N : g[i] = IF i <= words + half THEN d[i] ELSE z[i - (words + half)]
    BY <2>2, <2>3
  <2>5. \A i \in 1 .. words + half : d[i] = IF i <= words THEN x[i] ELSE y[i - words]
    BY <1>2, <1>7, <2>1
  <2>6. g = ss
    BY DEF d
  <2> HIDE DEF g, ss
  <2> QED BY <1>2, <2>4, <2>5, <2>6
<1> HIDE DEF ss, e
<1>9. CASE Len(b) = 0
  <2>1. N = 0
    BY <1>2, <1>9
  <2>2. Len(ss) = 0 /\ ss \in Seq(V)
    BY <1>7, <1>8, <2>1 DEF ss
  <2>3. ss = << >> /\ FlattenSeq(ss) = ss
    BY <2>2 DEF FlattenSeq
  <2>4. Run(p, 0) = << >>
    BY DEF Run
  <2> QED BY <1>1, <1>9, <2>3, <2>4 DEF ss
<1>10. CASE Len(b) # 0
  <2>1. Len(ss) \in Nat \ {0}
    BY <1>2, <1>8, <1>10
  <2>2. \A k \in 0 .. N : e[k] = IF k <= words THEN W * k ELSE rest + (k - (words + half))
    BY DEF e
  <2>3. /\ \A k \in 0 .. words : W * k \in Nat
        /\ W * 0 = 0 /\ W * words = words * W
        /\ \A k \in 1 .. words : W * (k - 1) + W = W * k /\ (k - 1) * W = W * (k - 1)
    <3>1. CASE W = 4
      BY <1>2, <3>1
    <3>2. CASE W = 8
      BY <1>2, <3>2
    <3> QED BY <3>1, <3>2, SizesAre
  <2>4. /\ e \in [0 .. N -> Nat] /\ e[0] = 0 /\ e[N] = Len(b)
    <3>1. \A k \in 0 .. N : e[k] \in Nat
      BY <1>2, <2>2, <2>3
    <3>2. e = [k \in 0 .. N |-> e[k]]
      BY DEF e
    <3>3. e[0] = 0
      BY <1>2, <2>2, <2>3
    <3>4. e[N] = Len(b)
      <4>1. CASE N <= words
        <5>1. N = words /\ half = 0 /\ c = 0
          BY <1>2, <4>1
        <5>2. e[N] = words * W
          BY <1>2, <2>2, <2>3, <5>1
        <5> QED BY <1>2, <5>1, <5>2 DEF c
      <4>2. CASE ~(N <= words)
        <5>1. e[N] = rest + c
          BY <1>2, <2>2, <4>2
        <5> QED BY <1>2, <5>1 DEF c
      <4> QED BY <4>1, <4>2
    <3> QED BY <3>1, <3>2, <3>3, <3>4
  <2>5. ASSUME NEW k \in 1 .. N
        PROVE  e[k - 1] <= e[k] /\ ss[k] = Run(p + e[k - 1], e[k] - e[k - 1])
    <3>1. CASE k <= words
      <4>1. k \in 1 .. words /\ k \in 0 .. N /\ k - 1 \in 0 .. N /\ k - 1 <= words
        BY <1>2, <3>1
      <4>2. ss[k] = Run(p + W * (k - 1), W)
        BY <1>4, <1>8, <2>3, <4>1
      <4>3. e[k] = W * k /\ e[k - 1] = W * (k - 1)
        BY <2>2, <4>1
      <4>4. W * (k - 1) + W = W * k /\ W * (k - 1) \in Nat
        BY <2>3, <4>1
      <4> QED BY <1>2, <4>2, <4>3, <4>4
    <3>2. CASE ~(k <= words) /\ k <= words + half
      <4>1. /\ k = words + 1 /\ half = 1 /\ k \in 0 .. N /\ k - 1 \in 0 .. N /\ k - 1 = words
            /\ k - words = 1 /\ k - (words + half) = 0
        BY <1>2, <3>2
      <4>2. ss[k] = y[k - words] /\ 1 \in 1 .. half
        <5>1. k \in 1 .. N /\ ~(k <= words) /\ k <= words + half
          BY <3>2
        <5>2. ss[k] = y[k - words]
          BY <1>2, <1>8, <5>1
        <5>3. 1 \in 1 .. half
          BY <4>1
        <5> QED BY <5>2, <5>3
      <4>3. ss[k] = Run(p + words * W, 4)
        BY <1>5, <4>1, <4>2
      <4>4. e[k] = rest + 0 /\ e[k - 1] = words * W /\ words * W \in Nat
        BY <1>2, <2>2, <2>3, <3>2, <4>1
      <4> QED BY <1>2, <4>1, <4>3, <4>4
    <3>3. CASE ~(k <= words + half)
      <4> DEFINE j == k - (words + half)
      <4>1. j \in 1 .. c /\ k \in 0 .. N /\ k - 1 \in 0 .. N /\ ~(k <= words)
        BY <1>2, <3>3
      <4>2. ss[k] = Run(p + (rest + (j - 1)), 1)
        BY <1>6, <1>8, <3>3, <4>1
      <4>3. e[k] = rest + j
        BY <2>2, <4>1
      <4>4. e[k - 1] = rest + (j - 1)
        <5>1. CASE k - 1 <= words
          <6>1. k - 1 = words /\ half = 0 /\ j = 1
            BY <1>2, <3>3, <5>1
          <6>2. e[k - 1] = words * W
            BY <2>2, <2>3, <4>1, <6>1
          <6> QED BY <1>2, <6>1, <6>2
        <5>2. CASE ~(k - 1 <= words)
          BY <1>2, <2>2, <4>1, <5>2
        <5> QED BY <5>1, <5>2
      <4> HIDE DEF j
      <4>5. e[k] - e[k - 1] = 1 /\ e[k - 1] <= e[k]
        BY <1>2, <4>1, <4>3, <4>4
      <4> QED BY <4>2, <4>4, <4>5
    <3> QED BY <3>1, <3>2, <3>3
  <2>6. FlattenSeq(ss) = Run(p, e[Len(ss)])
    <3>1. /\ e \in [0 .. Len(ss) -> Nat] /\ e[0] = 0
          /\ \A k \in 1 .. Len(ss) :
                e[k - 1] <= e[k] /\ ss[k] = Run(p + e[k - 1], e[k] - e[k - 1])
      BY <1>8, <2>4, <2>5
    <3> QED BY <2>1, <3>1, RunsFlatten, SMTT(30)
  <2> QED BY <1>1, <1>8, <2>4, <2>6 DEF ss
<1> QED BY <1>9, <1>10

(* Word by word, the four lanes take the stripes in order.                 *)
LEMMA LanesAre ==
    ASSUME stream \in Nat, WidthIs, NEW s, NEW n \in Nat \ {0}
    PROVE  LET striped == [j \in 1 .. 4 * n |->
                  Ran(s, n)[1 + ((j - 1) % 4)].words[1 + (j - 1) \div 4]]
           IN  FlattenSeq(striped) = Run(0, S * n)
<1> DEFINE N == 4 * n
           f(j) == Ran(s, n)[1 + ((j - 1) % 4)].words[1 + (j - 1) \div 4]
           striped == [j \in 1 .. N |-> f(j)]
           e == [k \in 0 .. N |-> W * k]
<1>1. N \in Nat /\ N # 0 /\ W \in Nat
  BY SizesAre
<1>2. ASSUME NEW j \in 1 .. N PROVE f(j) = Run(0 + W * (j - 1), W)
  <2> DEFINE k == 1 + ((j - 1) % 4)
             i == 1 + ((j - 1) \div 4)
  <2>1. k \in 1 .. 4 /\ i \in 1 .. n /\ 4 * (i - 1) + (k - 1) = j - 1
    <3>1. j - 1 \in 0 .. N - 1
      BY <1>1
    <3> QED BY <3>1
  <2> HIDE DEF k, i
  <2>2. Ran(s, n)[k].words[i] =
            [x \in 1 .. W |-> 100 * stream + (i - 1) * S + (k - 1) * W + x]
    <3>1. Ran(s, n)[k].words = Taken(k, n)
      BY <2>1 DEF Ran
    <3>2. Taken(k, n)[i] =
              [x \in 1 .. W |-> 100 * stream + (i - 1) * S + (k - 1) * W + x]
      BY <2>1, TakenIs
    <3> QED BY <3>1, <3>2
  <2>3. (i - 1) * S + (k - 1) * W = 0 + W * (j - 1)
    <3>1. CASE W = 4 /\ S = 16
      BY <2>1, <3>1
    <3>2. CASE W = 8 /\ S = 32
      BY <2>1, <3>2
    <3> QED BY <3>1, <3>2, SizesAre
  <2>4. \A x \in 1 .. W : 100 * stream + (i - 1) * S + (k - 1) * W + x =
                          100 * stream + (0 + W * (j - 1)) + x
    <3>1. /\ (i - 1) * S \in Int /\ (k - 1) * W \in Int /\ W * (j - 1) \in Int
      BY <1>1, <2>1, SizesAre
    <3> QED BY <1>1, <2>3, <3>1
  <2>5. Ran(s, n)[k].words[i] = Run(0 + W * (j - 1), W)
    BY <2>2, <2>4 DEF Run
  <2> QED BY <2>5 DEF k, i
<1> HIDE DEF f
<1>3. Len(striped) = N
  BY <1>1
<1>4. /\ e \in [0 .. N -> Nat] /\ e[0] = 0 /\ e[N] = S * n
      /\ \A k \in 1 .. N : e[k - 1] = W * (k - 1) /\ e[k - 1] <= e[k] /\ e[k] - e[k - 1] = W
  <2>1. CASE W = 4 /\ S = 16
    BY <1>1, <2>1
  <2>2. CASE W = 8 /\ S = 32
    BY <1>1, <2>2
  <2> QED BY <2>1, <2>2, SizesAre
<1>5. \A k \in 1 .. N : striped[k] = Run(0 + e[k - 1], e[k] - e[k - 1])
  <2> TAKE k \in 1 .. N
  <2>1. striped[k] = f(k) /\ f(k) = Run(0 + W * (k - 1), W)
    BY <1>2
  <2> HIDE DEF striped, e
  <2> QED BY <1>4, <2>1
<1>6. FlattenSeq(striped) = Run(0, e[Len(striped)])
  <2> DEFINE q == 0
  <2>1. /\ q \in Nat /\ Len(striped) \in Nat \ {0} /\ e \in [0 .. Len(striped) -> Nat]
        /\ e[0] = 0
        /\ \A k \in 1 .. Len(striped) :
              e[k - 1] <= e[k] /\ striped[k] = Run(q + e[k - 1], e[k] - e[k - 1])
    BY <1>1, <1>3, <1>4, <1>5
  <2> HIDE DEF q, striped, e
  <2>2. FlattenSeq(striped) = Run(q, e[Len(striped)])
    BY <2>1, RunsFlatten
  <2> QED BY <2>2 DEF q
<1>7. FlattenSeq(striped) = Run(0, S * n)
  <2> HIDE DEF e, striped
  <2> QED BY <1>3, <1>4, <1>6
<1> QED BY <1>7 DEF f

LEMMA HashTakesAll == HashInv => EveryByteOnce
<1> SUFFICES ASSUME HashInv PROVE EveryByteOnce
  OBVIOUS
<1> DEFINE b == Bytes(fed)
           h == OneShot(b, seed)
           n == IF fed >= S THEN fed \div S ELSE 0
           striped == [j \in 1 .. 4 * n |->
                         h.from[1 + ((j - 1) % 4)].words[1 + (j - 1) \div 4]]
           p == S * Stripes(b, 0)
           cut == SubSeq(b, p + 1, Len(b))
<1>1. /\ WidthIs /\ stream \in Nat /\ fed \in Nat /\ v1_4 = Ran(seed, fed \div S)
      /\ total_len = fed
  BY DEF HashInv
<1>2. /\ fed \div S \in Nat /\ S \in {16, 32} /\ fed - S * (fed \div S) \in 0 .. S - 1
  BY <1>1, SizesAre, Divided
<1>3. /\ b \in Seq(Int) /\ Len(b) = fed
      /\ \A i \in 1 .. fed : b[i] = 100 * stream + i
  BY <1>1, BytesAre
<1> HIDE DEF b
<1>4. n = fed \div S /\ p = S * n /\ p \in Nat /\ p <= fed /\ n \in Nat
  <2>1. n = fed \div S
    BY <1>1, <1>2
  <2>2. Stripes(b, 0) = fed \div S
    BY <1>1, <1>2, <1>3 DEF Stripes
  <2> HIDE DEF n
  <2> QED BY <1>1, <1>2, <2>1, <2>2
<1>5. h = Digest
  BY HashIsOneShot DEF StreamIsOneShot, b
<1>6. /\ h.from = IF fed >= S THEN Ran(seed, n) ELSE << seed >>
      /\ h.steps = Finish(cut)
  <2>1. h.steps = Finish(cut)
    BY DEF OneShot, Merge
  <2>2. h.from = IF fed >= S THEN Ran(seed, n) ELSE << seed >>
    <3> HIDE DEF h, n
    <3> QED BY <1>1, <1>4, <1>5 DEF Digest, Merge
  <2> QED BY <2>1, <2>2
<1> HIDE DEF h
<1>7. FlattenSeq(striped) = Run(0, p)
  <2>1. CASE n = 0
    <3>1. striped = << >> /\ p = 0
      BY <1>2, <1>4, <2>1
    <3>2. FlattenSeq(striped) = << >>
      BY <3>1 DEF FlattenSeq
    <3>3. Run(0, 0) = << >>
      BY DEF Run
    <3> HIDE DEF striped, p
    <3> QED BY <3>1, <3>2, <3>3, Zenon
  <2>2. CASE n # 0
    <3>1. h.from = Ran(seed, n)
      BY <1>1, <1>2, <1>6, <2>2
    <3>2. n \in Nat \ {0}
      BY <1>4, <2>2
    <3> HIDE DEF n, p
    <3>3. FlattenSeq(striped) = Run(0, S * n)
      BY <1>1, <3>1, <3>2, LanesAre
    <3> QED BY <1>4, <3>3
  <2> QED BY <2>1, <2>2
<1> HIDE DEF n, striped, p
<1>8. FlattenSeq(Finish(cut)) = Run(p, fed - p)
  <2> DEFINE m == fed - p
  <2>1. m \in Nat /\ p + m = fed
    BY <1>1, <1>4
  <2>2. cut = SubSeq(Bytes(p + m), p + 1, p + m)
    BY <1>3, <2>1 DEF b
  <2> HIDE DEF m, cut
  <2>3. /\ cut \in Seq(Int) /\ Len(cut) = m
        /\ \A i \in 1 .. m : cut[i] = 100 * stream + p + i
    BY <1>1, <1>4, <2>1, <2>2, PieceIs, ZenonT(30)
  <2>4. FlattenSeq(Finish(cut)) = Run(p, Len(cut))
    BY <1>1, <1>4, <2>3, FinishIs
  <2> QED BY <2>3, <2>4 DEF m
<1>9. FlattenSeq(striped) \o FlattenSeq(h.steps) = b
  <2> DEFINE m == fed - p
             q == 0
  <2>1. q \in Nat /\ p \in Nat /\ m \in Nat /\ p = q + p /\ p + m = fed
    BY <1>1, <1>4
  <2>2. b = Run(q, fed)
    <3>1. \A i \in 1 .. fed : 100 * stream + i = 100 * stream + q + i
      BY <1>1
    <3> QED BY <3>1 DEF b, Bytes, Run
  <2> HIDE DEF q, m
  <2>3. Cat(Run(q, p), Run(p, m)) = Run(q, p + m)
    BY <1>1, <2>1, RunsJoin
  <2>4. FlattenSeq(striped) = Run(q, p) /\ FlattenSeq(h.steps) = Run(p, m)
    BY <1>6, <1>7, <1>8 DEF q, m
  <2> QED BY <2>1, <2>2, <2>3, <2>4 DEF Cat
<1> QED BY <1>9 DEF EveryByteOnce, b, h, n, striped

(* 9p.c:751: the check of a block takes every byte of it, once and in its  *)
(* place, whatever its length and for both widths.                         *)
THEOREM HashTakesEveryByte == HashSpec => []EveryByteOnce
<1>1. HashInit => HashInv
  BY HashBegins
<1>2. HashInv /\ [HashNext]_hashvars => HashInv'
  BY HashStep
<1> QED BY <1>1, <1>2, HashTakesAll, PTL DEF HashSpec

-----------------------------------------------------------------------------
(* The decompressor as loadblock() has it: called again and again, for a   *)
(* block of any bytes, since what the medium has need not be what any      *)
(* compressor wrote, and for any memory and place of dst.  What is decoded *)
(* before dst or elsewhere may be there or not.                            *)
Byte == 0 .. 255
Calls ==
    [endOnInput : {TRUE}, partial : {FALSE}, dst : Nat, outputSize : Nat,
     dict : {"noDict", "withPrefix64k", "usingExtDict"},
     lowPrefix : Int, dictStart : Int, dictSize : Nat]

DecCall ==
    /\ dpc \in {"idle", "end"}
    /\ \E block \in Seq(Byte), args \in Calls, memory \in [Nat -> Int] :
          Decompress(block, memory, args)

DecSpec == DecInit /\ obuf = << >> /\ [][DecCall \/ DecNext]_decvars

(* What lz4.h:131-137 say of LZ4_decompress_safe() (lz4.c:1527): no copy   *)
(* writes past dst or reads past src, those by 8, 16 and 18 bytes          *)
(* included, and the result is no larger than dst.                         *)
StaysInside ==
    dpc # "idle" =>
        /\ written <= outEnd /\ readTo <= Len(cin)
        /\ dpc = "end" => dret <= mode.outputSize

(* The inductive invariant: where a sequence may start and where its match *)
(* may, both ends leave room for the first copy, whatever its length is.   *)
DecInv ==
    /\ dpc \in {"idle", "token", "match", "end"}
    /\ dpc # "idle" =>
        /\ cin \in Seq(Byte) /\ mode \in Calls
        /\ written \in Int /\ readTo \in Int
        /\ written <= outEnd /\ readTo <= Len(cin)
        /\ dpc = "end" => dret <= mode.outputSize
        /\ dpc \in {"token", "match"} =>
              /\ rp \in Nat /\ rp < Len(cin) /\ wp \in Nat
              /\ mode.dst <= wp /\ wp <= outEnd
        /\ dpc = "match" =>
              wp + 8 <= outEnd /\ mlen \in 0 .. 15 /\ offset \in Nat

LEMMA TwoMax ==
    ASSUME NEW a \in Int, NEW b \in Int
    PROVE  Max({a, b}) \in Int /\ Max({a, b}) = IF a >= b THEN a ELSE b
<1> DEFINE m == IF a >= b THEN a ELSE b
<1>1. m \in {a, b} /\ \A y \in {a, b} : m >= y
  OBVIOUS
<1>2. \A x \in {a, b} : (\A y \in {a, b} : x >= y) => x = m
  OBVIOUS
<1> HIDE DEF m
<1>3. Max({a, b}) = m
  BY <1>1, <1>2 DEF Max
<1> QED BY <1>3 DEF m

LEMMA ThreeMax ==
    ASSUME NEW a \in Int, NEW b \in Int, NEW c \in Int
    PROVE  /\ Max({a, b, c}) \in {a, b, c}
           /\ a <= Max({a, b, c}) /\ b <= Max({a, b, c}) /\ c <= Max({a, b, c})
<1> DEFINE m == IF a >= b THEN (IF a >= c THEN a ELSE c) ELSE (IF b >= c THEN b ELSE c)
           T == {a, b, c}
<1>1. m \in T /\ \A y \in T : m >= y
  OBVIOUS
<1> HIDE DEF m, T
<1>2. Max(T) \in T /\ \A y \in T : Max(T) >= y
  BY <1>1 DEF Max
<1> QED BY <1>2 DEF T

(* The least of the numbers of a set.                                      *)
LEMMA LeastIs ==
    ASSUME NEW T, T \subseteq Nat, T # {}
    PROVE  \E x \in T : \A y \in T : x <= y
<1>1. PICK x \in T : \A y \in T : ~(<< y, x >> \in OpToRel(<, Nat))
  BY WFMin, NatLessThanWellFounded, Zenon
<1>2. ASSUME NEW y \in T PROVE x <= y
  <2>1. x \in Nat /\ y \in Nat
    OBVIOUS
  <2>2. ~(y < x)
    BY <1>1, <2>1 DEF OpToRel
  <2> QED BY <2>1, <2>2
<1> QED BY <1>2

LEMMA LeastTaken ==
    ASSUME NEW T, T \subseteq Nat, T # {}
    PROVE  Min(T) \in T /\ \A y \in T : Min(T) <= y
<1>1. \E x \in T : \A y \in T : x <= y
  BY LeastIs
<1> QED BY <1>1 DEF Min

LEMMA InIsByte ==
    ASSUME cin \in Seq(Byte), NEW p \in Nat
    PROVE  In(p) \in 0 .. 255
<1>1. CASE p < Len(cin)
  <2>1. p + 1 \in 1 .. Len(cin)
    BY <1>1
  <2>2. cin[p + 1] \in Byte
    BY <2>1
  <2> QED BY <1>1, <2>2 DEF In, Byte
<1>2. CASE ~(p < Len(cin))
  BY <1>2 DEF In
<1> QED BY <1>1, <1>2

(* A token's halves.                                                       *)
LEMMA TokenIs ==
    ASSUME NEW t \in 0 .. 255
    PROVE  t \div 16 \in 0 .. 15 /\ t % 16 \in 0 .. 15
  OBVIOUS

LEMMA OffsetIs ==
    ASSUME cin \in Seq(Byte), NEW p \in Nat
    PROVE  LE16(p) \in Nat
<1> DEFINE a == In(p)
           b == In(p + 1)
<1>1. a \in 0 .. 255 /\ b \in 0 .. 255
  <2>1. p + 1 \in Nat
    OBVIOUS
  <2> QED BY <2>1, InIsByte
<1>2. LE16(p) = a + 256 * b
  BY DEF LE16
<1> HIDE DEF a, b
<1> QED BY <1>1, <1>2

(* The bytes of a length end before the input does.                        *)
LEMMA ExtraIs ==
    ASSUME cin \in Seq(Byte), NEW p \in Nat, NEW stop \in Int,
           p < stop, stop <= Len(cin) + 1
    PROVE  LET n == Extra(p, stop)
           IN  /\ n \in 1 .. Len(cin) + 1 /\ p + n <= stop
               /\ ExtraLength(p, n) \in Nat
<1> DEFINE Ends(n) == In(p + n - 1) # 255 \/ p + n >= stop
           T == {n \in 1 .. Len(cin) + 1 : Ends(n)}
           Good(n) == /\ In(p + n - 1) # 255 \/ p + n >= stop
                      /\ \A k \in 1 .. n - 1 : In(p + k - 1) = 255 /\ p + k < stop
<1>1. T # {} /\ T \subseteq Nat
  <2>1. stop - p \in 1 .. Len(cin) + 1 /\ p + (stop - p) >= stop
    OBVIOUS
  <2>2. stop - p \in T
    BY <2>1
  <2> QED BY <2>2
<1>2. PICK n \in T : \A k \in T : n <= k
  <2> HIDE DEF T
  <2> QED BY <1>1, LeastIs
<1>3. n \in 1 .. Len(cin) + 1 /\ Good(n)
  <2>1. n \in 1 .. Len(cin) + 1 /\ Ends(n)
    BY <1>2
  <2>2. ASSUME NEW k \in 1 .. n - 1 PROVE In(p + k - 1) = 255 /\ p + k < stop
    <3>1. k \in 1 .. Len(cin) + 1 /\ ~(n <= k)
      BY <2>1
    <3>2. ~Ends(k)
      BY <1>2, <3>1
    <3> QED BY <3>1, <3>2
  <2> QED BY <2>1, <2>2
<1> DEFINE x == Extra(p, stop)
<1>4. x \in 1 .. Len(cin) + 1 /\ Good(x)
  <2>1. x = CHOOSE y \in 1 .. Len(cin) + 1 : Good(y)
    BY DEF Extra
  <2> HIDE DEF x, Good
  <2> QED BY <1>3, <2>1
<1>5. p + x <= stop
  <2> HIDE DEF x
  <2>1. CASE x = 1
    BY <2>1
  <2>2. CASE x # 1
    <3>1. x - 1 \in 1 .. x - 1 /\ x \in Nat
      BY <1>4, <2>2
    <3>2. p + (x - 1) < stop
      BY <1>4, <3>1
    <3> QED BY <3>1, <3>2
  <2> QED BY <2>1, <2>2
<1>6. ExtraLength(p, x) \in Nat
  <2> HIDE DEF x
  <2>1. p + x - 1 \in Nat /\ x - 1 \in Nat
    BY <1>4
  <2> DEFINE y == In(p + x - 1)
  <2>2. y \in 0 .. 255
    BY <2>1, InIsByte
  <2>3. ExtraLength(p, x) = 255 * (x - 1) + y
    BY DEF ExtraLength
  <2> DEFINE u == x - 1
  <2>4. u \in Nat /\ ExtraLength(p, x) = 255 * u + y
    BY <2>1, <2>3
  <2> HIDE DEF y, u
  <2> QED BY <2>2, <2>4
<1> QED BY <1>4, <1>5, <1>6

(* Where a copy by eights ends.                                            *)
LEMMA ChunksAre ==
    ASSUME NEW d \in Int, NEW e \in Int
    PROVE  /\ 8 * Chunks(d, e) \in Int
           /\ d + 8 * Chunks(d, e) <= IF e <= d THEN d + 8 ELSE e + 7
<1> DEFINE c == (e - d + 7) \div 8
<1>1. c \in Int /\ 8 * c <= e - d + 7
  OBVIOUS
<1>2. Chunks(d, e) = IF 1 >= c THEN 1 ELSE c
  BY <1>1, TwoMax DEF Chunks
<1> HIDE DEF c
<1> QED BY <1>1, <1>2

LEMMA DecBegins == DecInit => DecInv
  BY DEF DecInit, DecInv

LEMMA CallKeeps == DecInv /\ DecCall => DecInv'
<1> SUFFICES ASSUME DecInv, DecCall PROVE DecInv'
  OBVIOUS
<1>1. PICK block \in Seq(Byte), args \in Calls, memory \in [Nat -> Int] :
        Decompress(block, memory, args)
  BY DEF DecCall
<1>2. /\ args.dst \in Nat /\ args.outputSize \in Nat /\ args.endOnInput
      /\ cin' = block /\ mode' = args /\ rp' = 0 /\ wp' = args.dst
      /\ written' = 0 /\ readTo' = 0 /\ Len(block) \in Nat
  <2>1. args.dst \in Nat /\ args.outputSize \in Nat /\ args.endOnInput
    BY DEF Calls
  <2>2. /\ cin' = block /\ mode' = args /\ rp' = 0 /\ wp' = args.dst
        /\ written' = 0 /\ readTo' = 0
    BY <1>1 DEF Decompress
  <2> QED BY <2>1, <2>2
<1>3. outEnd' = args.dst + args.outputSize
  BY <1>2 DEF outEnd
<1>4. CASE args.outputSize = 0
  <2>1. dpc' = "end" /\ dret' <= 0
    BY <1>1, <1>2, <1>4 DEF Decompress
  <2> QED BY <1>2, <1>3, <1>4, <2>1 DEF DecInv
<1>5. CASE args.outputSize # 0 /\ block = << >>
  <2>1. dpc' = "end" /\ dret' = -1
    BY <1>1, <1>2, <1>5 DEF Decompress
  <2> QED BY <1>2, <1>3, <2>1, SMTT(30) DEF DecInv
<1>6. CASE args.outputSize # 0 /\ block # << >>
  <2>1. dpc' = "token"
    BY <1>1, <1>2, <1>6 DEF Decompress
  <2>2. Len(block) > 0
    BY <1>6
  <2>3. mode'.dst = args.dst /\ mode'.dst <= wp' /\ wp' <= outEnd'
    BY <1>2, <1>3
  <2> QED BY <1>2, <1>3, <2>1, <2>2, <2>3 DEF DecInv
<1> QED BY <1>4, <1>5, <1>6

(* What the invariant says of a decoding under way.                        *)
LEMMA UnderWay ==
    ASSUME DecInv, dpc \in {"token", "match"}
    PROVE  /\ cin \in Seq(Byte) /\ mode \in Calls /\ safe /\ ~mode.partial
           /\ mode.dst \in Nat /\ mode.outputSize \in Nat
           /\ outEnd = mode.dst + mode.outputSize /\ outEnd \in Nat
           /\ inEnd = Len(cin) /\ Len(cin) \in Nat
           /\ written \in Int /\ readTo \in Int
           /\ written <= outEnd /\ readTo <= Len(cin)
           /\ rp \in Nat /\ rp < Len(cin) /\ wp \in Nat
           /\ mode.dst <= wp /\ wp <= outEnd
<1>1. /\ cin \in Seq(Byte) /\ mode \in Calls
      /\ written \in Int /\ readTo \in Int
      /\ written <= outEnd /\ readTo <= Len(cin)
      /\ rp \in Nat /\ rp < Len(cin) /\ wp \in Nat
      /\ mode.dst <= wp /\ wp <= outEnd
  BY DEF DecInv
<1>2. /\ mode.endOnInput = TRUE /\ mode.partial = FALSE
      /\ mode.dst \in Nat /\ mode.outputSize \in Nat
  BY <1>1 DEF Calls
<1>3. outEnd = mode.dst + mode.outputSize /\ outEnd \in Nat /\ safe
  BY <1>2 DEF outEnd, safe
<1>4. inEnd = Len(cin) /\ Len(cin) \in Nat
  BY <1>1, <1>3 DEF inEnd
<1> QED BY <1>1, <1>2, <1>3, <1>4

LEMMA ShortcutKeeps == DecInv /\ Shortcut => DecInv'
<1> SUFFICES ASSUME DecInv, Shortcut PROVE DecInv'
  OBVIOUS
<1> DEFINE tok == In(rp)
           lit == tok \div 16
           upto == wp + lit
           from == rp + 1 + lit
<1>1. dpc = "token" /\ Short(tok) /\ UNCHANGED << cin, mode, dret >>
  BY DEF Shortcut
<1>2. /\ cin \in Seq(Byte) /\ mode \in Calls /\ safe
      /\ mode.dst \in Nat /\ outEnd \in Nat /\ inEnd = Len(cin) /\ Len(cin) \in Nat
      /\ written \in Int /\ readTo \in Int
      /\ written <= outEnd /\ readTo <= Len(cin)
      /\ rp \in Nat /\ rp < Len(cin) /\ wp \in Nat
      /\ mode.dst <= wp /\ wp <= outEnd
  BY <1>1, UnderWay
<1>3. tok \in 0 .. 255
  BY <1>2, InIsByte
<1>4. /\ lit \in 0 .. 14 /\ tok % 16 \in 0 .. 15
      /\ rp + 17 < Len(cin) /\ wp + 32 <= outEnd
  <2>1. lit \in 0 .. 15 /\ tok % 16 \in 0 .. 15
    <3> HIDE DEF tok
    <3> QED BY <1>3, TokenIs
  <2>2. lit # 15 /\ rp + 1 < (inEnd - 14) - 2 /\ wp <= (outEnd - 14) - 18
    BY <1>1, <1>2 DEF Short
  <2> HIDE DEF lit, tok
  <2> QED BY <1>2, <2>1, <2>2
<1> HIDE DEF lit
<1>5. /\ upto \in Nat /\ upto <= wp + 14 /\ mode.dst <= upto
      /\ from \in Nat /\ from + 2 <= rp + 17 /\ LE16(from) \in Nat
  <2>1. from \in Nat /\ upto \in Nat /\ upto <= wp + 14 /\ from + 2 <= rp + 17 /\ mode.dst <= upto
    BY <1>2, <1>4
  <2> HIDE DEF from, upto
  <2> QED BY <1>2, <2>1, OffsetIs
<1>6. /\ rp' = from + 2 /\ offset' = LE16(from)
      /\ readTo' = Max({readTo, rp + 1 + 16, from + 2})
      /\ \/ /\ tok % 16 # 15 /\ wp' = upto + (tok % 16) + 4
            /\ written' = Max({written, wp + 16, upto + 18})
            /\ dpc' = dpc
         \/ /\ wp' = upto /\ mlen' = tok % 16
            /\ written' = Max({written, wp + 16})
            /\ dpc' = "match"
  <2>1. from = rp + 1 + tok \div 16 /\ upto = wp + tok \div 16
    BY DEF lit
  <2> HIDE DEF tok, from, upto
  <2> QED BY <1>2, <2>1 DEF Shortcut, tok
<1> HIDE DEF tok, from, upto
<1>7. readTo' \in Int /\ readTo' <= Len(cin)
  <2> DEFINE a == rp + 1 + 16
             b == from + 2
  <2>1. a \in Int /\ b \in Int /\ a <= Len(cin) /\ b <= Len(cin)
    BY <1>2, <1>4, <1>5
  <2>2. readTo' = Max({readTo, a, b})
    BY <1>6
  <2> HIDE DEF a, b
  <2> QED BY <1>2, <2>1, <2>2, ThreeMax
<1>8. outEnd' = outEnd /\ rp' \in Nat /\ rp' < Len(cin) /\ offset' \in Nat
  BY <1>1, <1>2, <1>4, <1>5, <1>6 DEF outEnd
<1>9. CASE /\ tok % 16 # 15 /\ wp' = upto + (tok % 16) + 4
           /\ written' = Max({written, wp + 16, upto + 18}) /\ dpc' = dpc
  <2> DEFINE a == wp + 16
             b == upto + 18
  <2>1. a \in Int /\ b \in Int /\ a <= outEnd /\ b <= outEnd
    BY <1>2, <1>4, <1>5
  <2>2. written' = Max({written, a, b})
    BY <1>9
  <2> HIDE DEF a, b
  <2>3. written' \in Int /\ written' <= outEnd
    BY <1>2, <2>1, <2>2, ThreeMax
  <2>4. wp' \in Nat /\ mode.dst <= wp' /\ wp' <= outEnd
    <3> DEFINE half == tok % 16
    <3>1. half \in 0 .. 14
      BY <1>4, <1>9
    <3>2. wp' = upto + half + 4
      BY <1>9
    <3> HIDE DEF half
    <3> QED BY <1>2, <1>4, <1>5, <3>1, <3>2, SMTT(30)
  <2> QED BY <1>1, <1>2, <1>7, <1>8, <1>9, <2>3, <2>4 DEF DecInv
<1>10. CASE /\ wp' = upto /\ mlen' = tok % 16
            /\ written' = Max({written, wp + 16}) /\ dpc' = "match"
  <2> DEFINE a == wp + 16
  <2>1. a \in Int /\ a <= outEnd
    BY <1>2, <1>4
  <2>2. written' = Max({written, a})
    BY <1>10
  <2> HIDE DEF a
  <2>3. written' \in Int /\ written' <= outEnd
    BY <1>2, <2>1, <2>2, TwoMax
  <2>4. wp' \in Nat /\ mode.dst <= wp' /\ wp' + 8 <= outEnd /\ wp' <= outEnd
    BY <1>2, <1>4, <1>5, <1>10
  <2> QED BY <1>1, <1>2, <1>4, <1>7, <1>8, <1>10, <2>3, <2>4 DEF DecInv
<1> QED BY <1>6, <1>9, <1>10

LEMMA LiteralsKeep == DecInv /\ Literals => DecInv'
<1> SUFFICES ASSUME DecInv, Literals PROVE DecInv'
  OBVIOUS
<1> DEFINE tok == In(rp)
           long == tok \div 16 = 15
           p == rp + 1
           n == IF long THEN Extra(p, IF safe THEN inEnd - 15 ELSE Len(cin) + 1) ELSE 0
           from == p + n
           stated == tok \div 16 + (IF long THEN ExtraLength(p, n) ELSE 0)
           nearEnd == IF safe THEN \/ wp + stated > outEnd - MFLimit
                                   \/ from + stated > inEnd - (2 + 1 + LastLits)
                              ELSE wp + stated > outEnd - 8
           length == IF nearEnd /\ mode.partial
                     THEN Min({stated, outEnd - wp}) ELSE stated
           cpy == wp + length
           bad == nearEnd /\ Misplaced(from + length, cpy)
           last == nearEnd /\ (~mode.partial \/ cpy = outEnd)
           short == long /\ safe /\ p >= inEnd - 15
<1>1. dpc = "token" /\ UNCHANGED << cin, mode >>
  BY DEF Literals
<1>2. /\ cin \in Seq(Byte) /\ mode \in Calls /\ safe /\ ~mode.partial
      /\ mode.dst \in Nat /\ mode.outputSize \in Nat
      /\ outEnd = mode.dst + mode.outputSize /\ outEnd \in Nat
      /\ inEnd = Len(cin) /\ Len(cin) \in Nat
      /\ written \in Int /\ readTo \in Int
      /\ written <= outEnd /\ readTo <= Len(cin)
      /\ rp \in Nat /\ rp < Len(cin) /\ wp \in Nat
      /\ mode.dst <= wp /\ wp <= outEnd
  BY <1>1, UnderWay
<1>3. /\ tok \div 16 \in 0 .. 15 /\ tok % 16 \in 0 .. 15
  <2>1. tok \in 0 .. 255
    BY <1>2, InIsByte
  <2> HIDE DEF tok
  <2> QED BY <2>1, TokenIs
<1>4. outEnd' = outEnd
  BY <1>1 DEF outEnd
<1>5. \/ /\ short /\ Fail(p) /\ readTo' = Max({readTo, p}) /\ written' = written
      \/ /\ ~short /\ bad
         /\ Fail(from) /\ readTo' = Max({readTo, from}) /\ written' = written
      \/ /\ ~short /\ ~bad /\ wp' = cpy
         /\ \/ /\ nearEnd /\ last /\ written' = Max({written, cpy})
               /\ rp' = from + length /\ dpc' = "end" /\ dret' = cpy - mode.dst
               /\ readTo' = Max({readTo, rp'})
            \/ /\ ~nearEnd /\ written' = Max({written, wp + 8 * Chunks(wp, cpy)})
               /\ offset' = LE16(from + length) /\ mlen' = tok % 16
               /\ rp' = from + length + 2 /\ dpc' = "match"
               /\ readTo' = Max({readTo, rp', from + 8 * Chunks(wp, cpy)})
  <2>1. IF short
        THEN /\ Fail(p) /\ readTo' = Max({readTo, p})
             /\ UNCHANGED << rp, wp, obuf, written, mlen, offset >>
        ELSE IF bad
        THEN /\ Fail(from) /\ readTo' = Max({readTo, from})
             /\ UNCHANGED << rp, wp, obuf, written, mlen, offset >>
        ELSE /\ wp' = cpy
             /\ obuf' = IF nearEnd THEN CopyIn(obuf, wp, from, length)
                        ELSE CopyIn(obuf, wp, from, 8 * Chunks(wp, cpy))
             /\ written' = Max({written, IF nearEnd THEN cpy
                                         ELSE wp + 8 * Chunks(wp, cpy)})
             /\ IF last
                THEN /\ rp' = from + length /\ dpc' = "end"
                     /\ dret' = IF safe THEN cpy - mode.dst ELSE rp'
                     /\ readTo' = Max({readTo, rp'})
                     /\ UNCHANGED << mlen, offset >>
                ELSE /\ offset' = LE16(from + length)
                     /\ mlen' = tok % 16
                     /\ rp' = from + length + 2 /\ dpc' = "match"
                     /\ readTo' = Max({readTo, rp',
                             IF nearEnd THEN 0 ELSE from + 8 * Chunks(wp, cpy)})
                     /\ UNCHANGED dret
    BY Zenon DEF Literals
  <2>2. last <=> nearEnd
    <3> HIDE DEF nearEnd
    <3> QED BY <1>2
  <2> HIDE DEF tok, short, n, p, from, stated, nearEnd, length, cpy, bad, last
  <2>3. CASE short
    BY <2>1, <2>3
  <2>4. CASE ~short /\ bad
    BY <2>1, <2>4
  <2>5. CASE ~short /\ ~bad /\ nearEnd
    BY <1>2, <2>1, <2>2, <2>5
  <2>6. CASE ~short /\ ~bad /\ ~nearEnd
    BY <2>1, <2>2, <2>6
  <2> QED BY <2>3, <2>4, <2>5, <2>6
<1>6. /\ p \in Nat /\ p <= Len(cin)
      /\ short \/ (from \in Nat /\ from <= Len(cin) /\ stated \in Nat)
  <2>1. p \in Nat /\ p <= Len(cin)
    BY <1>2
  <2>2. CASE ~long
    <3>1. from = p + 0 /\ stated = tok \div 16 + 0
      BY <2>2
    <3> HIDE DEF tok, from, stated
    <3> QED BY <1>3, <2>1, <3>1
  <2>3. CASE long /\ ~short
    <3> DEFINE stop == Len(cin) - 15
               x == Extra(p, stop)
    <3>1. n = x /\ p < stop
      BY <1>2, <2>1, <2>3
    <3>2. stated = tok \div 16 + ExtraLength(p, n) /\ from = p + n
      BY <2>3
    <3>3. stop \in Int /\ stop <= Len(cin) + 1
      BY <1>2
    <3> HIDE DEF tok, from, stated, p, n, stop
    <3>4. x \in 1 .. Len(cin) + 1 /\ p + x <= stop /\ ExtraLength(p, x) \in Nat
      BY <1>2, <2>1, <3>1, <3>3, ExtraIs
    <3> DEFINE y == ExtraLength(p, x)
    <3>5. from = p + x /\ stated = tok \div 16 + y
      BY <3>1, <3>2
    <3>6. p + x <= Len(cin)
      BY <1>2, <2>1, <3>4 DEF stop
    <3>7. x \in Nat /\ y \in Nat
      BY <1>2, <3>4
    <3>8. tok \div 16 \in Nat
      BY <1>3
    <3> DEFINE t == tok \div 16
               l == Len(cin)
    <3> HIDE DEF x, y, t, l
    <3>9. t \in Nat /\ p \in Nat /\ from = p + x /\ stated = t + y /\ from <= l
      BY ONLY <2>1, <3>5, <3>6, <3>8 DEF t, l
    <3>10. from \in Nat /\ stated \in Nat
      BY ONLY <3>7, <3>9
    <3> QED BY <2>1, <3>9, <3>10 DEF l
  <2> QED BY <2>1, <2>2, <2>3
<1>7. CASE short /\ Fail(p) /\ readTo' = Max({readTo, p}) /\ written' = written
  <2> HIDE DEF short, p
  <2>1. readTo' \in Int /\ readTo' <= Len(cin)
    BY <1>2, <1>6, <1>7, TwoMax
  <2>2. dpc' = "end" /\ dret' <= mode.outputSize
    BY <1>2, <1>6, <1>7 DEF Fail
  <2> QED BY <1>1, <1>2, <1>4, <1>7, <2>1, <2>2 DEF DecInv
<1>8. CASE /\ ~short /\ bad
           /\ Fail(from) /\ readTo' = Max({readTo, from}) /\ written' = written
  <2> HIDE DEF short, from, bad
  <2>1. readTo' \in Int /\ readTo' <= Len(cin)
    BY <1>2, <1>6, <1>8, TwoMax, SMTT(30)
  <2>2. dpc' = "end" /\ dret' <= mode.outputSize
    BY <1>2, <1>6, <1>8, SMTT(30) DEF Fail
  <2> QED BY <1>1, <1>2, <1>4, <1>8, <2>1, <2>2 DEF DecInv
<1>9. length = stated
  <2> HIDE DEF nearEnd, stated
  <2> QED BY <1>2
<1> HIDE DEF length
<1>10. CASE /\ ~short /\ ~bad /\ nearEnd /\ wp' = cpy /\ written' = Max({written, cpy})
            /\ rp' = from + length /\ dpc' = "end" /\ dret' = cpy - mode.dst
            /\ readTo' = Max({readTo, rp'})
  <2>1. cpy \in Nat /\ from + length \in Nat
    <3> HIDE DEF from, stated, short
    <3>1. from \in Nat /\ length \in Nat
      BY <1>6, <1>9, <1>10
    <3> QED BY <1>2, <3>1
  <2>2. from + length = inEnd /\ cpy <= outEnd
    <3> HIDE DEF nearEnd, from, cpy
    <3>1. ~Misplaced(from + length, cpy)
      BY <1>10 DEF bad
    <3>2. ~(from + length # inEnd \/ cpy > outEnd)
      BY <1>2, <3>1 DEF Misplaced
    <3> QED BY <1>2, <2>1, <3>2
  <2> HIDE DEF cpy, from, nearEnd, bad, short
  <2>3. /\ written' \in Int /\ written' <= outEnd
        /\ readTo' \in Int /\ readTo' <= Len(cin)
    BY <1>2, <1>10, <2>1, <2>2, TwoMax
  <2>4. dret' <= mode.outputSize
    BY <1>2, <1>10, <2>1, <2>2
  <2> QED BY <1>1, <1>2, <1>4, <1>10, <2>3, <2>4 DEF DecInv
<1>11. CASE /\ ~short /\ ~bad /\ ~nearEnd /\ wp' = cpy
            /\ written' = Max({written, wp + 8 * Chunks(wp, cpy)})
            /\ offset' = LE16(from + length) /\ mlen' = tok % 16
            /\ rp' = from + length + 2 /\ dpc' = "match"
            /\ readTo' = Max({readTo, rp', from + 8 * Chunks(wp, cpy)})
  <2>1. length \in Nat /\ from \in Nat
    <3> HIDE DEF from, stated, short
    <3> QED BY <1>6, <1>9, <1>11
  <2>2. wp + length <= outEnd - 12 /\ from + length <= Len(cin) - 8
    <3> HIDE DEF from, stated
    <3>1. ~(wp + stated > outEnd - MFLimit) /\ ~(from + stated > inEnd - (2 + 1 + LastLits))
      BY <1>2, <1>11
    <3> HIDE DEF nearEnd, short, bad, cpy
    <3>2. stated = length /\ inEnd = Len(cin) /\ outEnd \in Int /\ Len(cin) \in Int
          /\ wp \in Int
      BY <1>2, <1>9
    <3> QED BY ONLY <2>1, <3>1, <3>2 DEF MFLimit, LastLits
  <2> HIDE DEF from, nearEnd, bad, short
  <2>3. cpy \in Nat /\ mode.dst <= cpy /\ cpy + 12 <= outEnd /\ wp <= cpy
    BY <1>2, <2>1, <2>2
  <2> DEFINE eights == 8 * Chunks(wp, cpy)
             a == wp + eights
             b == from + eights
             c == from + length + 2
  <2>4. eights \in Int /\ wp + eights <= IF cpy <= wp THEN wp + 8 ELSE cpy + 7
    <3>1. wp \in Int /\ cpy \in Int
      BY <1>2, <2>3
    <3> HIDE DEF cpy
    <3> QED BY ONLY <3>1, ChunksAre
  <2>5. cpy = wp + length
    OBVIOUS
  <2>6. /\ written' = Max({written, a}) /\ readTo' = Max({readTo, c, b}) /\ rp' = c
    BY <1>11
  <2> HIDE DEF eights, cpy
  <2>7. a \in Int /\ a <= outEnd
    BY <1>2, <2>2, <2>3, <2>4
  <2>8. b \in Int /\ b <= Len(cin)
    BY <1>2, <2>1, <2>2, <2>3, <2>4, <2>5
  <2>9. c \in Nat /\ c < Len(cin) /\ from + length \in Nat
    BY <1>2, <2>1, <2>2
  <2> HIDE DEF a, b, c
  <2>10. written' \in Int /\ written' <= outEnd
    BY <1>2, <2>6, <2>7, TwoMax
  <2>11. readTo' \in Int /\ readTo' <= Len(cin)
    <3>1. readTo \in Int /\ c \in Int /\ b \in Int
      BY <1>2, <2>8, <2>9
    <3>2. readTo' \in {readTo, c, b}
      BY <2>6, <3>1, ThreeMax
    <3> QED BY <1>2, <2>8, <2>9, <3>1, <3>2
  <2>12. offset' \in Nat /\ mlen' \in 0 .. 15
    BY <1>2, <1>3, <1>11, <2>9, OffsetIs
  <2>13. wp' + 8 <= outEnd /\ mode.dst <= wp' /\ wp' \in Nat /\ wp' <= outEnd
    BY <1>2, <1>11, <2>3
  <2> QED BY <1>1, <1>2, <1>4, <1>11, <2>6, <2>9, <2>10, <2>11, <2>12, <2>13 DEF DecInv
<1> QED
  <2> HIDE DEF tok, short, n, p, from, stated, nearEnd, cpy, bad, last
  <2> QED BY <1>5, <1>7, <1>8, <1>10, <1>11

LEMMA CopyKeeps == DecInv /\ CopyMatch => DecInv'
<1> SUFFICES ASSUME DecInv, CopyMatch PROVE DecInv'
  OBVIOUS
<1> DEFINE m == wp - offset
           long == mlen = 15
           n == IF long THEN Extra(rp, Len(cin) + 1) ELSE 0
           cut == {k \in 1 .. n : safe /\ rp + k > inEnd - LastLits}
           length == mlen + (IF long THEN ExtraLength(rp, n) ELSE 0) + 4
           cpy == wp + length
           zeroed == IF mode.partial THEN obuf
                     ELSE [i \in DOMAIN obuf |->
                            IF i \in wp .. wp + 3 THEN 0 ELSE obuf[i]]
           first == First8(zeroed, wp, m)
           op == wp + 8
           from == After8(m)
           oCopyLimit == outEnd - (8 - 1)
           nearEnd == cpy > outEnd - MatchSafeguard
           eights == Max({op, oCopyLimit})
           tailed == CopyBytes(IF op < oCopyLimit
                               THEN WildCopy(first, op, from, oCopyLimit) ELSE first,
                               eights, from + (eights - op), Max({0, cpy - eights}))
           roomy == LET b == CopyOut(first, op, from, 8)
                    IN  IF length > 16 THEN WildCopy(b, op + 8, from + 8, cpy) ELSE b
           far == IF ~nearEnd
                  THEN IF length > 16 THEN op + 8 + 8 * Chunks(op + 8, cpy) ELSE op + 8
                  ELSE IF op < oCopyLimit
                       THEN op + 8 * Chunks(op, oCopyLimit) ELSE cpy
<1>1. dpc = "match" /\ UNCHANGED << cin, mode, mlen, offset >>
  BY DEF CopyMatch
<1>2. /\ cin \in Seq(Byte) /\ mode \in Calls /\ safe /\ ~mode.partial
      /\ mode.dst \in Nat /\ mode.outputSize \in Nat
      /\ outEnd = mode.dst + mode.outputSize /\ outEnd \in Nat
      /\ inEnd = Len(cin) /\ Len(cin) \in Nat
      /\ written \in Int /\ readTo \in Int
      /\ written <= outEnd /\ readTo <= Len(cin)
      /\ rp \in Nat /\ rp < Len(cin) /\ wp \in Nat
      /\ mode.dst <= wp /\ wp <= outEnd
  BY <1>1, UnderWay
<1>3. wp + 8 <= outEnd /\ mlen \in 0 .. 15 /\ offset \in Nat
  BY <1>1 DEF DecInv
<1>4. outEnd' = outEnd
  BY <1>1 DEF outEnd
<1>5. n \in Nat /\ length \in Nat /\ length >= 4
  <2>1. CASE ~long
    <3>1. n = 0 /\ length = mlen + 0 + 4
      BY <2>1
    <3> HIDE DEF n, length
    <3> QED BY <1>3, <3>1
  <2>2. CASE long
    <3> DEFINE stop == Len(cin) + 1
               x == Extra(rp, stop)
               y == ExtraLength(rp, x)
    <3>1. n = x /\ length = mlen + y + 4
      BY <2>2
    <3>2. stop \in Int /\ rp < stop /\ stop <= Len(cin) + 1
      BY <1>2
    <3> HIDE DEF stop
    <3>3. x \in 1 .. Len(cin) + 1 /\ y \in Nat
      BY <1>2, <3>2, ExtraIs
    <3> HIDE DEF n, length, x, y
    <3> QED BY <1>2, <1>3, <3>1, <3>3
  <2> QED BY <2>1, <2>2
<1>6. cpy \in Nat /\ wp + 4 <= cpy /\ (~nearEnd => cpy <= outEnd - 12)
  <2> HIDE DEF length
  <2>1. cpy \in Nat /\ wp + 4 <= cpy
    BY <1>2, <1>5
  <2> HIDE DEF cpy
  <2> QED BY <1>2, <2>1 DEF MatchSafeguard
<1>7. cut # {} => rp + Min(cut) \in Nat /\ rp + Min(cut) <= Len(cin)
  <2> HIDE DEF n
  <2> SUFFICES ASSUME cut # {} PROVE rp + Min(cut) \in Nat /\ rp + Min(cut) <= Len(cin)
    OBVIOUS
  <2> DEFINE k == Min(cut)
  <2>1. cut \subseteq Nat
    BY <1>5
  <2>2. k \in cut /\ \A y \in cut : k <= y
    <3> HIDE DEF cut
    <3> QED BY <2>1, LeastTaken
  <2>3. k \in 1 .. n
    <3> HIDE DEF k
    <3> QED BY <2>2
  <2> HIDE DEF k
  <2>4. CASE k = 1
    BY <1>2, <2>4 DEF k
  <2>5. CASE k # 1
    <3>1. k - 1 \in 1 .. n /\ ~(k <= k - 1)
      BY <1>5, <2>3, <2>5
    <3>2. k - 1 \notin cut
      <4> HIDE DEF cut
      <4> QED BY <2>2, <3>1
    <3>3. ~(rp + (k - 1) > inEnd - LastLits)
      BY <1>2, <3>1, <3>2
    <3>4. rp + k \in Nat /\ rp + k <= Len(cin)
      BY <1>2, <1>5, <2>3, <3>3 DEF LastLits
    <3> QED BY <3>4 DEF k
  <2> QED BY <2>4, <2>5
<1>8. cut = {} => rp + n \in Nat /\ rp + n < Len(cin)
  <2> HIDE DEF n
  <2> SUFFICES ASSUME cut = {} PROVE rp + n \in Nat /\ rp + n < Len(cin)
    OBVIOUS
  <2>1. CASE n = 0
    BY <1>2, <2>1
  <2>2. CASE n # 0
    <3>1. n \in 1 .. n
      BY <1>5, <2>2
    <3>2. ~(rp + n > inEnd - LastLits)
      BY <1>2, <3>1
    <3> QED BY <1>2, <1>5, <3>2 DEF LastLits
  <2> QED BY <2>1, <2>2
<1>9. \/ Fail(rp) /\ written' = written /\ readTo' = readTo
      \/ /\ cut # {} /\ Fail(rp + Min(cut)) /\ written' = written
         /\ readTo' = Max({readTo, rp + Min(cut)})
      \/ /\ cut = {} /\ Fail(rp + n) /\ readTo' = Max({readTo, rp + n})
         /\ written' = written \/ written' = Max({written, op})
      \/ /\ cut = {} /\ cpy <= outEnd - 5 /\ wp' = cpy /\ rp' = rp + n
         /\ readTo' = Max({readTo, rp + n}) /\ dpc' = "token"
         /\ written' = Max({written, cpy}) \/ written' = Max({written, op, far})
  <2>1. IF Outside(m)
        THEN Fail(rp) /\ UNCHANGED << rp, wp, obuf, written, readTo >>
        ELSE IF cut # {}
        THEN /\ Fail(rp + Min(cut)) /\ readTo' = Max({readTo, rp + Min(cut)})
             /\ UNCHANGED << rp, wp, obuf, written >>
        ELSE IF mode.dict = "usingExtDict" /\ m < mode.lowPrefix
        THEN LET short == IF cpy > outEnd - LastLits /\ mode.partial
                          THEN Min({length, outEnd - wp}) ELSE length
             IN  /\ readTo' = Max({readTo, rp + n})
                 /\ IF cpy > outEnd - LastLits /\ ~mode.partial
                    THEN Fail(rp + n) /\ UNCHANGED << rp, wp, obuf, written >>
                    ELSE /\ obuf' = CopyFromDict(zeroed, m, short)
                         /\ wp' = wp + short /\ rp' = rp + n
                         /\ written' = Max({written, wp'})
                         /\ dpc' = "token" /\ UNCHANGED dret
        ELSE IF mode.partial /\ nearEnd
        THEN LET short == Min({length, outEnd - wp})
             IN  /\ obuf' = CopyBytes(obuf, wp, m, short)
                 /\ wp' = wp + short /\ written' = Max({written, wp'})
                 /\ rp' = rp + n /\ readTo' = Max({readTo, rp'})
                 /\ IF wp' = outEnd
                    THEN dpc' = "end" /\ dret' = wp' - mode.dst
                    ELSE dpc' = "token" /\ UNCHANGED dret
        ELSE IF nearEnd /\ cpy > outEnd - LastLits
        THEN /\ Fail(rp + n) /\ readTo' = Max({readTo, rp + n})
             /\ obuf' = first /\ written' = Max({written, op})
             /\ UNCHANGED << rp, wp >>
        ELSE /\ obuf' = IF nearEnd THEN tailed ELSE roomy
             /\ written' = Max({written, op, far})
             /\ wp' = cpy /\ rp' = rp + n /\ readTo' = Max({readTo, rp'})
             /\ dpc' = "token" /\ UNCHANGED dret
    BY Zenon DEF CopyMatch
  <2> HIDE DEF m, n, cut, length, zeroed, first, op, from, oCopyLimit, nearEnd,
               eights, tailed, roomy, far
  <2>2. cpy = wp + length
    OBVIOUS
  <2> HIDE DEF cpy
  <2>3. cpy > outEnd - LastLits \/ cpy <= outEnd - 5
    BY <1>2, <1>6 DEF LastLits
  <2>4. CASE Outside(m)
    BY <2>1, <2>4
  <2>5. CASE ~Outside(m) /\ cut # {}
    BY <2>1, <2>5
  <2>6. CASE /\ ~Outside(m) /\ cut = {}
             /\ mode.dict = "usingExtDict" /\ m < mode.lowPrefix
    <3>1. CASE cpy > outEnd - LastLits
      BY <1>2, <2>1, <2>6, <3>1
    <3>2. CASE ~(cpy > outEnd - LastLits)
      <4>1. /\ readTo' = Max({readTo, rp + n}) /\ wp' = wp + length /\ rp' = rp + n
            /\ written' = Max({written, wp'}) /\ dpc' = "token"
        BY <2>1, <2>6, <3>2
      <4> QED BY <2>2, <2>3, <2>6, <3>2, <4>1
    <3> QED BY <3>1, <3>2
  <2>7. CASE /\ ~Outside(m) /\ cut = {}
             /\ ~(mode.dict = "usingExtDict" /\ m < mode.lowPrefix)
    <3>1. CASE nearEnd /\ cpy > outEnd - LastLits
      BY <1>2, <2>1, <2>7, <3>1
    <3>2. CASE ~(nearEnd /\ cpy > outEnd - LastLits)
      <4>1. /\ readTo' = Max({readTo, rp + n}) /\ wp' = cpy /\ rp' = rp + n
            /\ written' = Max({written, op, far}) /\ dpc' = "token"
        BY <1>2, <2>1, <2>7, <3>2
      <4>2. cpy <= outEnd - 5
        BY <1>2, <1>6, <2>3, <3>2
      <4> QED BY <2>7, <4>1, <4>2
    <3> QED BY <3>1, <3>2
  <2> QED BY <2>4, <2>5, <2>6, <2>7
<1>10. op \in Nat /\ op <= outEnd /\ (cpy <= outEnd - 5 => far \in Int /\ far <= outEnd)
  <2>1. op \in Nat /\ op <= outEnd
    BY <1>2, <1>3
  <2> SUFFICES ASSUME cpy <= outEnd - 5 PROVE far \in Int /\ far <= outEnd
    BY <2>1
  <2> HIDE DEF nearEnd, length
  <2>2. CASE ~nearEnd /\ length > 16
    <3> DEFINE d == op + 8
               c == 8 * Chunks(d, cpy)
    <3>1. far = d + c
      BY <2>2
    <3>2. d \in Int /\ cpy \in Int
      BY <1>2, <1>6
    <3>3. d + 8 <= outEnd
      BY <1>2, <1>5, <1>6, <2>2
    <3> HIDE DEF d, cpy
    <3>4. c \in Int /\ d + c <= IF cpy <= d THEN d + 8 ELSE cpy + 7
      BY <3>2, ChunksAre
    <3> HIDE DEF c, far
    <3> QED BY <1>2, <1>6, <2>2, <3>1, <3>2, <3>3, <3>4, SMTT(30)
  <2>3. CASE ~nearEnd /\ ~(length > 16)
    <3>1. far = op + 8
      BY <2>3
    <3> HIDE DEF far
    <3> QED BY <1>2, <1>6, <2>3, <3>1
  <2>4. CASE nearEnd /\ op < oCopyLimit
    <3> DEFINE c == 8 * Chunks(op, oCopyLimit)
    <3>1. far = op + c
      BY <2>4
    <3>2. op \in Int /\ oCopyLimit \in Int /\ oCopyLimit = outEnd - 7
      BY <1>2
    <3> HIDE DEF op, oCopyLimit
    <3>3. c \in Int /\ op + c <= IF oCopyLimit <= op THEN op + 8 ELSE oCopyLimit + 7
      BY <3>2, ChunksAre
    <3> HIDE DEF c, far
    <3> QED BY <1>2, <2>1, <2>4, <3>1, <3>2, <3>3
  <2>5. CASE nearEnd /\ ~(op < oCopyLimit)
    <3>1. far = cpy
      BY <2>5
    <3> HIDE DEF far, cpy
    <3> QED BY <1>2, <1>6, <3>1
  <2> QED BY <2>2, <2>3, <2>4, <2>5
<1> HIDE DEF m, n, cut, length, cpy, zeroed, first, op, from, oCopyLimit, nearEnd,
             eights, tailed, roomy, far
<1>11. CASE Fail(rp) /\ written' = written /\ readTo' = readTo
  <2>1. dpc' = "end" /\ dret' <= mode.outputSize
    BY <1>2, <1>11 DEF Fail
  <2> QED BY <1>1, <1>2, <1>4, <1>11, <2>1 DEF DecInv
<1>12. CASE /\ cut # {} /\ Fail(rp + Min(cut)) /\ written' = written
            /\ readTo' = Max({readTo, rp + Min(cut)})
  <2> DEFINE spot == rp + Min(cut)
  <2>1. spot \in Nat /\ spot <= Len(cin) /\ Fail(spot) /\ readTo' = Max({readTo, spot})
    BY <1>7, <1>12
  <2> HIDE DEF spot
  <2>2. dpc' = "end" /\ dret' <= mode.outputSize
    BY <1>2, <2>1 DEF Fail
  <2>3. readTo' \in Int /\ readTo' <= Len(cin)
    BY <1>2, <2>1, TwoMax
  <2> QED BY <1>1, <1>2, <1>4, <1>12, <2>2, <2>3 DEF DecInv
<1>13. CASE /\ cut = {} /\ Fail(rp + n) /\ readTo' = Max({readTo, rp + n})
            /\ written' = written \/ written' = Max({written, op})
  <2> DEFINE spot == rp + n
  <2>1. spot \in Nat /\ spot <= Len(cin) /\ Fail(spot) /\ readTo' = Max({readTo, spot})
    BY <1>2, <1>8, <1>13
  <2> HIDE DEF spot
  <2>2. dpc' = "end" /\ dret' <= mode.outputSize
    BY <1>2, <2>1 DEF Fail
  <2>3. readTo' \in Int /\ readTo' <= Len(cin)
    BY <1>2, <2>1, TwoMax
  <2>4. written' \in Int /\ written' <= outEnd
    BY <1>2, <1>10, <1>13, TwoMax, SMTT(30)
  <2> QED BY <1>1, <1>2, <1>4, <2>2, <2>3, <2>4 DEF DecInv
<1>14. CASE /\ cut = {} /\ cpy <= outEnd - 5 /\ wp' = cpy /\ rp' = rp + n
            /\ readTo' = Max({readTo, rp + n}) /\ dpc' = "token"
            /\ written' = Max({written, cpy}) \/ written' = Max({written, op, far})
  <2> DEFINE spot == rp + n
  <2>1. spot \in Nat /\ spot < Len(cin) /\ rp' = spot /\ readTo' = Max({readTo, spot})
    BY <1>8, <1>14
  <2> HIDE DEF spot
  <2>2. readTo' \in Int /\ readTo' <= Len(cin)
    BY <1>2, <2>1, TwoMax
  <2>3. written' \in Int /\ written' <= outEnd
    <3>1. cpy \in Int /\ cpy <= outEnd /\ far \in Int /\ far <= outEnd /\ op \in Int
      BY <1>2, <1>6, <1>10, <1>14
    <3>2. CASE written' = Max({written, cpy})
      BY <1>2, <3>1, <3>2, TwoMax
    <3>3. CASE written' = Max({written, op, far})
      <4>1. written' \in {written, op, far}
        BY <1>2, <3>1, <3>3, ThreeMax
      <4> QED BY <1>2, <1>10, <3>1, <4>1
    <3> QED BY <1>14, <3>2, <3>3
  <2>4. wp' \in Nat /\ mode.dst <= wp' /\ wp' <= outEnd
    BY <1>2, <1>6, <1>14, SMTT(30)
  <2> QED BY <1>1, <1>2, <1>4, <1>14, <2>1, <2>2, <2>3, <2>4 DEF DecInv
<1> QED BY <1>9, <1>11, <1>12, <1>13, <1>14

LEMMA DecStep == DecInv /\ [DecCall \/ DecNext]_decvars => DecInv'
<1> SUFFICES ASSUME DecInv, [DecCall \/ DecNext]_decvars PROVE DecInv'
  OBVIOUS
<1>1. CASE DecCall
  BY <1>1, CallKeeps
<1>2. CASE Shortcut
  BY <1>2, ShortcutKeeps
<1>3. CASE Literals
  BY <1>3, LiteralsKeep
<1>4. CASE CopyMatch
  BY <1>4, CopyKeeps
<1>5. CASE UNCHANGED decvars
  BY <1>5 DEF decvars, DecInv, outEnd
<1> QED BY <1>1, <1>2, <1>3, <1>4, <1>5 DEF DecNext

(* 9p.c:787, the call of LZ4_decompress_safe() in loadblock(): whatever    *)
(* the bytes of the block are, and however long it and dst are, no copy of *)
(* the decoder leaves its two buffers.                                     *)
THEOREM DecodesInside == DecSpec => []StaysInside
<1>1. DecInit => DecInv
  BY DecBegins
<1>2. DecInv /\ [DecCall \/ DecNext]_decvars => DecInv'
  BY DecStep
<1>3. DecInv => StaysInside
  BY DEF DecInv, StaysInside
<1> QED BY <1>1, <1>2, <1>3, PTL DEF DecSpec
-----------------------------------------------------------------------------
(* Copying.  b has, below d and e, what T has.                             *)
Like(b, T, d, e) == \A i \in 0 .. d - 1 : i < e => b[i] = T[i]

(* T repeats from d up to e what is p before.                              *)
Repeats(T, d, e, p) == \A i \in Nat : d <= i /\ i < e => T[i] = T[i - p]

(* So what is from d up to e comes round and round from s on.              *)
Spread(T, d, e, s) ==
    \A i \in Nat : d <= i /\ i < e => T[i] = T[s + ((i - d) % (d - s))]

LEMMA RestIs ==
    ASSUME NEW x \in Nat, NEW p \in Nat, p > 0
    PROVE  /\ x % p \in 0 .. p - 1
           /\ x < p => x % p = x
           /\ x >= p => x % p = (x - p) % p
<1>1. x % p \in 0 .. p - 1 /\ x = p * (x \div p) + (x % p) /\ x \div p \in Int
  OBVIOUS
<1>2. x < p => x % p = x
  OBVIOUS
<1>3. ASSUME x >= p PROVE x % p = (x - p) % p
  <2> DEFINE y == x - p
             q == x \div p
             r == x % p
             u == y \div p
             v == y % p
  <2>1. y \in Nat
    BY <1>3
  <2>2. v \in 0 .. p - 1 /\ y = p * u + v /\ u \in Int
    <3> HIDE DEF y
    <3> QED BY <2>1
  <2>3. r \in 0 .. p - 1 /\ x = p * q + r /\ q \in Int
    BY <1>1
  <2> HIDE DEF q, r, u, v
  <2>4. p * q + r = p * u + v + p
    BY <2>2, <2>3
  <2> DEFINE k == q - u - 1
  <2>5. k \in Int /\ p * k = p * q - p * u - p
    BY <2>2, <2>3
  <2>6. p * q \in Int /\ p * u \in Int
    BY <2>2, <2>3
  <2> HIDE DEF k
  <2>7. p * k = v - r
    BY <2>2, <2>3, <2>4, <2>5, <2>6
  <2> DEFINE w == v - r
  <2>8. w \in Int /\ -p < w /\ w < p /\ p * k = w
    BY <2>2, <2>3, <2>7
  <2> HIDE DEF w
  <2>9. w = 0
    BY <2>5, <2>8, SMTT(30)
  <2>10. r = v
    BY <2>2, <2>3, <2>9 DEF w
  <2> QED BY <2>10 DEF r, v, y
<1> QED BY <1>1, <1>2, <1>3

LEMMA CopyOutLike ==
    ASSUME NEW b, NEW T, NEW N \in Nat, NEW e \in Nat, NEW d \in Nat, NEW s \in Nat,
           NEW n \in Nat, DOMAIN b = 0 .. N - 1, e <= N, s + n <= d,
           Like(b, T, d, e), Repeats(T, d, e, d - s)
    PROVE  /\ DOMAIN CopyOut(b, d, s, n) = 0 .. N - 1
           /\ Like(CopyOut(b, d, s, n), T, d + n, e)
<1> DEFINE c == CopyOut(b, d, s, n)
<1>1. DOMAIN c = 0 .. N - 1
  BY DEF CopyOut
<1>2. ASSUME NEW i \in 0 .. d + n - 1, i < e PROVE c[i] = T[i]
  <2>1. i \in DOMAIN b
    BY <1>2
  <2>2. CASE i < d
    <3>1. c[i] = b[i]
      BY <2>1, <2>2 DEF CopyOut
    <3> QED BY <1>2, <2>2, <3>1 DEF Like
  <2>3. CASE ~(i < d)
    <3>1. c[i] = b[s + i - d]
      BY <2>1, <2>3 DEF CopyOut
    <3>2. s + i - d \in 0 .. d - 1 /\ s + i - d < e /\ s + i - d = i - (d - s)
      BY <1>2, <2>3
    <3>3. b[s + i - d] = T[s + i - d]
      BY <3>2 DEF Like
    <3>4. i \in Nat /\ d <= i
      BY <2>3
    <3>5. T[i] = T[i - (d - s)]
      BY <1>2, <3>4 DEF Repeats
    <3> QED BY <3>1, <3>2, <3>3, <3>5
  <2> QED BY <2>2, <2>3
<1> QED BY <1>1, <1>2 DEF Like

LEMMA SpreadIs ==
    ASSUME NEW T, NEW e \in Nat, NEW d \in Nat, NEW s \in Nat, s < d,
           Repeats(T, d, e, d - s)
    PROVE  Spread(T, d, e, s)
<1> DEFINE p == d - s
           Holds(x) == d + x < e => T[d + x] = T[s + (x % p)]
           Done == {x \in Nat : \A y \in 0 .. x : Holds(y)}
<1>1. p \in Nat /\ p > 0
  OBVIOUS
<1> HIDE DEF p
<1>2. ASSUME NEW y \in Nat, \A x \in Nat : x < y => Holds(x) PROVE Holds(y)
  <2> SUFFICES ASSUME d + y < e PROVE T[d + y] = T[s + (y % p)]
    OBVIOUS
  <2>1. d + y \in Nat /\ d <= d + y
    OBVIOUS
  <2>2. T[d + y] = T[(d + y) - p]
    BY <2>1 DEF Repeats, p
  <2>3. CASE y < p
    <3>1. y % p = y
      BY <1>1, <2>3, RestIs
    <3>2. (d + y) - p = s + y
      BY DEF p
    <3> QED BY <2>2, <3>1, <3>2
  <2>4. CASE ~(y < p)
    <3> DEFINE x == y - p
    <3>1. x \in Nat /\ x < y /\ d + x < e /\ d + x = (d + y) - p
      BY <1>1, <2>4
    <3>2. y % p = x % p
      <4>1. y >= p => y % p = (y - p) % p
        BY <1>1, RestIs
      <4> QED BY <1>1, <2>4, <4>1
    <3> HIDE DEF x
    <3>3. T[d + x] = T[s + (x % p)]
      BY <1>2, <3>1
    <3> QED BY <2>2, <3>1, <3>2, <3>3
  <2> QED BY <2>3, <2>4
<1>3. 0 \in Done
  <2>1. Holds(0)
    <3> HIDE DEF Holds
    <3> QED BY <1>2
  <2> HIDE DEF Holds
  <2> QED BY <2>1
<1>4. ASSUME NEW x \in Nat, x \in Done PROVE x + 1 \in Done
  <2> HIDE DEF Holds
  <2>1. \A y \in 0 .. x : Holds(y)
    BY <1>4
  <2>2. Holds(x + 1)
    BY <1>2, <2>1
  <2> QED BY <2>1, <2>2
<1>5. Nat \subseteq Done
  <2> HIDE DEF Done
  <2> QED BY <1>3, <1>4, CountUp
<1>6. ASSUME NEW i \in Nat, d <= i, i < e PROVE T[i] = T[s + ((i - d) % p)]
  <2> DEFINE x == i - d
  <2>1. x \in Nat /\ d + x = i
    BY <1>6
  <2>2. Holds(x)
    <3> HIDE DEF Holds, x
    <3>1. x \in Done /\ x \in 0 .. x
      BY <1>5, <2>1
    <3> QED BY <3>1
  <2> HIDE DEF x
  <2>3. T[d + x] = T[s + (x % p)]
    BY <1>6, <2>1, <2>2
  <2> QED BY <2>1, <2>3 DEF x
<1> QED BY <1>6 DEF Spread, p

LEMMA CopyBytesLike ==
    ASSUME NEW b, NEW T, NEW N \in Nat, NEW e \in Nat, NEW d \in Nat, NEW s \in Nat,
           NEW n \in Int, DOMAIN b = 0 .. N - 1, e <= N, s < d,
           Like(b, T, d, e), Repeats(T, d, e, d - s)
    PROVE  /\ DOMAIN CopyBytes(b, d, s, n) = 0 .. N - 1
           /\ Like(CopyBytes(b, d, s, n), T, d + n, e)
<1> DEFINE c == CopyBytes(b, d, s, n)
<1>1. DOMAIN c = 0 .. N - 1
  BY DEF CopyBytes
<1>2. ASSUME NEW i \in 0 .. d + n - 1, i < e PROVE c[i] = T[i]
  <2>1. i \in DOMAIN b
    BY <1>2
  <2>2. CASE i < d
    <3>1. c[i] = b[i]
      BY <2>1, <2>2 DEF CopyBytes
    <3> QED BY <1>2, <2>2, <3>1 DEF Like
  <2>3. CASE ~(i < d)
    <3> DEFINE r == (i - d) % (d - s)
    <3>1. c[i] = b[s + r]
      BY <2>1, <2>3 DEF CopyBytes
    <3>2. r \in 0 .. (d - s) - 1
      <4>1. i - d \in Nat /\ d - s \in Nat /\ d - s > 0
        BY <2>3
      <4> QED BY <4>1, RestIs
    <3>3. T[i] = T[s + r]
      <4>1. Spread(T, d, e, s)
        BY SpreadIs
      <4>2. i \in Nat /\ d <= i
        BY <2>3
      <4> QED BY <1>2, <4>1, <4>2, Zenon DEF Spread
    <3> HIDE DEF r
    <3>4. s + r \in 0 .. d - 1 /\ s + r < e
      BY <1>2, <2>3, <3>2
    <3>5. b[s + r] = T[s + r]
      BY <3>4 DEF Like
    <3> QED BY <3>1, <3>3, <3>5
  <2> QED BY <2>2, <2>3
<1> QED BY <1>1, <1>2 DEF Like

LEMMA LikeLess ==
    ASSUME NEW b, NEW T, NEW d \in Int, NEW c \in Int, NEW e, c <= d, Like(b, T, d, e)
    PROVE  Like(b, T, c, e)
<1> SUFFICES ASSUME NEW i \in 0 .. c - 1 PROVE i \in 0 .. d - 1
  BY DEF Like
<1> QED OBVIOUS

(* What repeats at a distance repeats at its multiples.                    *)
LEMMA RepeatsAgain ==
    ASSUME NEW T, NEW w \in Nat, NEW e \in Nat, NEW off \in Nat, off <= w,
           Repeats(T, w, e, off)
    PROVE  \A k \in Nat : Repeats(T, w + k * off, e, (k + 1) * off)
<1> DEFINE Good == {k \in Nat : Repeats(T, w + k * off, e, (k + 1) * off)}
<1>1. 0 \in Good
  <2>1. w + 0 * off = w /\ (0 + 1) * off = off
    OBVIOUS
  <2> QED BY <2>1
<1>2. ASSUME NEW k \in Nat, k \in Good PROVE k + 1 \in Good
  <2> DEFINE f == k * off
  <2>1. f \in Nat /\ (k + 1) * off = f + off /\ ((k + 1) + 1) * off = f + off + off
    OBVIOUS
  <2>2. Repeats(T, w + f, e, f + off)
    BY <1>2, <2>1
  <2> HIDE DEF f
  <2>3. Repeats(T, w + (f + off), e, f + off + off)
    <3> SUFFICES ASSUME NEW i \in Nat, w + (f + off) <= i, i < e
                 PROVE  T[i] = T[i - (f + off + off)]
      BY DEF Repeats
    <3> DEFINE j == i - (f + off)
    <3>1. w + f <= i /\ j \in Nat /\ w <= j /\ j < e
      BY <2>1
    <3>2. T[i] = T[j]
      BY <2>2, <3>1 DEF Repeats
    <3> HIDE DEF j
    <3>3. T[j] = T[j - off]
      BY <3>1 DEF Repeats
    <3>4. j - off = i - (f + off + off)
      BY <2>1 DEF j
    <3> QED BY <3>2, <3>3, <3>4
  <2> HIDE DEF Good
  <2>4. Repeats(T, w + (k + 1) * off, e, ((k + 1) + 1) * off)
    BY <2>1, <2>3
  <2> QED BY <2>4 DEF Good
<1>3. Nat \subseteq Good
  <2> HIDE DEF Good
  <2> QED BY <1>1, <1>2, CountUp
<1> QED BY <1>3

LEMMA RepeatsLess ==
    ASSUME NEW T, NEW c \in Int, NEW d \in Int, NEW e, NEW p, c <= d, Repeats(T, c, e, p)
    PROVE  Repeats(T, d, e, p)
<1> SUFFICES ASSUME NEW i \in Nat, d <= i PROVE c <= i
  BY DEF Repeats
<1> QED OBVIOUS

(* The two tables of the code move the source of a match that is closer    *)
(* than 8 so that its distance is a multiple of the match's, first within  *)
(* eight bytes and then at least eight (lz4.c:1305).                       *)
LEMMA TablesFit ==
    ASSUME NEW off \in 1 .. 7
    PROVE  LET inc == inc32table[off + 1]
               dec == dec64table[off + 1]
           IN  /\ inc \in 0 .. off /\ dec \in Int
               /\ \E k \in Nat : 4 + off - inc = (k + 1) * off /\ k * off <= 4
               /\ 8 <= 8 + off - inc + dec /\ inc - dec >= -off
               /\ \E k \in Nat : 8 + off - inc + dec = (k + 1) * off /\ k * off <= 8
<1> DEFINE inc == inc32table[off + 1]
           dec == dec64table[off + 1]
<1>1. CASE off = 1
  <2>1. inc = 1 /\ dec = 0
    BY <1>1 DEF inc32table, dec64table
  <2>2. 4 + off - inc = (3 + 1) * off /\ 3 * off <= 4
    BY <1>1, <2>1
  <2>3. 8 + off - inc + dec = (7 + 1) * off /\ 7 * off <= 8
    BY <1>1, <2>1
  <2> HIDE DEF inc, dec
  <2>4. \E k \in Nat : 4 + off - inc = (k + 1) * off /\ k * off <= 4
    <3> WITNESS 3 \in Nat
    <3> QED BY <2>2
  <2>5. \E k \in Nat : 8 + off - inc + dec = (k + 1) * off /\ k * off <= 8
    <3> WITNESS 7 \in Nat
    <3> QED BY <2>3
  <2>6. inc \in 0 .. off /\ dec \in Int /\ 8 <= 8 + off - inc + dec /\ inc - dec >= -off
    BY <1>1, <2>1
  <2> QED BY <2>4, <2>5, <2>6 DEF inc, dec
<1>2. CASE off = 2
  <2>1. inc = 2 /\ dec = 0
    BY <1>2 DEF inc32table, dec64table
  <2>2. 4 + off - inc = (1 + 1) * off /\ 1 * off <= 4
    BY <1>2, <2>1
  <2>3. 8 + off - inc + dec = (3 + 1) * off /\ 3 * off <= 8
    BY <1>2, <2>1
  <2> HIDE DEF inc, dec
  <2>4. \E k \in Nat : 4 + off - inc = (k + 1) * off /\ k * off <= 4
    <3> WITNESS 1 \in Nat
    <3> QED BY <2>2
  <2>5. \E k \in Nat : 8 + off - inc + dec = (k + 1) * off /\ k * off <= 8
    <3> WITNESS 3 \in Nat
    <3> QED BY <2>3
  <2>6. inc \in 0 .. off /\ dec \in Int /\ 8 <= 8 + off - inc + dec /\ inc - dec >= -off
    BY <1>2, <2>1
  <2> QED BY <2>4, <2>5, <2>6 DEF inc, dec
<1>3. CASE off = 3
  <2>1. inc = 1 /\ dec = -1
    BY <1>3 DEF inc32table, dec64table
  <2>2. 4 + off - inc = (1 + 1) * off /\ 1 * off <= 4
    BY <1>3, <2>1
  <2>3. 8 + off - inc + dec = (2 + 1) * off /\ 2 * off <= 8
    BY <1>3, <2>1
  <2> HIDE DEF inc, dec
  <2>4. \E k \in Nat : 4 + off - inc = (k + 1) * off /\ k * off <= 4
    <3> WITNESS 1 \in Nat
    <3> QED BY <2>2
  <2>5. \E k \in Nat : 8 + off - inc + dec = (k + 1) * off /\ k * off <= 8
    <3> WITNESS 2 \in Nat
    <3> QED BY <2>3
  <2>6. inc \in 0 .. off /\ dec \in Int /\ 8 <= 8 + off - inc + dec /\ inc - dec >= -off
    BY <1>3, <2>1
  <2> QED BY <2>4, <2>5, <2>6 DEF inc, dec
<1>4. CASE off = 4
  <2>1. inc = 0 /\ dec = -4
    BY <1>4 DEF inc32table, dec64table
  <2>2. 4 + off - inc = (1 + 1) * off /\ 1 * off <= 4
    BY <1>4, <2>1
  <2>3. 8 + off - inc + dec = (1 + 1) * off /\ 1 * off <= 8
    BY <1>4, <2>1
  <2> HIDE DEF inc, dec
  <2>4. \E k \in Nat : 4 + off - inc = (k + 1) * off /\ k * off <= 4
    <3> WITNESS 1 \in Nat
    <3> QED BY <2>2
  <2>5. \E k \in Nat : 8 + off - inc + dec = (k + 1) * off /\ k * off <= 8
    <3> WITNESS 1 \in Nat
    <3> QED BY <2>3
  <2>6. inc \in 0 .. off /\ dec \in Int /\ 8 <= 8 + off - inc + dec /\ inc - dec >= -off
    BY <1>4, <2>1
  <2> QED BY <2>4, <2>5, <2>6 DEF inc, dec
<1>5. CASE off \in {5, 6, 7}
  <2>1. inc = 4 /\ dec = off - 4
    BY <1>5 DEF inc32table, dec64table
  <2>2. 4 + off - inc = (0 + 1) * off /\ 0 * off <= 4
    BY <1>5, <2>1
  <2>3. 8 + off - inc + dec = (1 + 1) * off /\ 1 * off <= 8
    BY <1>5, <2>1
  <2> HIDE DEF inc, dec
  <2>4. \E k \in Nat : 4 + off - inc = (k + 1) * off /\ k * off <= 4
    <3> WITNESS 0 \in Nat
    <3> QED BY <2>2
  <2>5. \E k \in Nat : 8 + off - inc + dec = (k + 1) * off /\ k * off <= 8
    <3> WITNESS 1 \in Nat
    <3> QED BY <2>3
  <2>6. inc \in 0 .. off /\ dec \in Int /\ 8 <= 8 + off - inc + dec /\ inc - dec >= -off
    BY <1>5, <2>1
  <2> QED BY <2>4, <2>5, <2>6 DEF inc, dec
<1> QED BY <1>1, <1>2, <1>3, <1>4, <1>5

(* What is copied before and behind the first eight bytes of a match.      *)
Starts(b, T, N, w, e) ==
    DOMAIN b = 0 .. N - 1 /\ Like(b, T, w, e)

LEMMA FirstLike ==
    ASSUME NEW b, NEW T, NEW N \in Nat, NEW e \in Nat, NEW w \in Nat,
           offset \in 1 .. w, e <= N, Starts(b, T, N, w, e), Repeats(T, w, e, offset)
    PROVE  LET f == First8(b, w, w - offset)
               s == After8(w - offset)
           IN  /\ Starts(f, T, N, w + 8, e)
               /\ s \in Nat /\ s + 8 <= w + 8
               /\ Repeats(T, w + 8, e, (w + 8) - s)
<1> DEFINE m == w - offset
           f == First8(b, w, m)
           s == After8(m)
<1>1. m \in Nat /\ m < w /\ w - m = offset /\ offset \in Nat
  OBVIOUS
<1>2. DOMAIN b = 0 .. N - 1 /\ Like(b, T, w, e)
  BY DEF Starts
<1> HIDE DEF m
<1>3. CASE offset >= 8
  <2>1. f = CopyOut(b, w, m, 8) /\ s = m + 8
    BY <1>1, <1>3 DEF First8, After8
  <2>2. m + 8 <= w
    BY <1>1, <1>3
  <2>3. Starts(f, T, N, w + 8, e)
    <3> DEFINE c == CopyOut(b, w, m, 8)
    <3>1. Repeats(T, w, e, w - m)
      BY <1>1
    <3>2. DOMAIN c = 0 .. N - 1 /\ Like(c, T, w + 8, e)
      BY <1>1, <1>2, <2>2, <3>1, CopyOutLike
    <3> QED BY <2>1, <3>2 DEF Starts
  <2>4. s \in Nat /\ s + 8 <= w + 8 /\ (w + 8) - s = offset
    BY <1>1, <2>1, <2>2
  <2>5. Repeats(T, w + 8, e, offset)
    <3>1. w \in Int /\ w + 8 \in Int /\ w <= w + 8
      OBVIOUS
    <3> QED BY <3>1, RepeatsLess
  <2> HIDE DEF f, s
  <2> QED BY <2>3, <2>4, <2>5 DEF m, f, s
<1>4. CASE ~(offset >= 8)
  <2> DEFINE inc == inc32table[offset + 1]
             dec == dec64table[offset + 1]
             four == CopyBytes(b, w, m, 4)
  <2>1. f = CopyOut(four, w + 4, m + inc, 4) /\ s = m + inc - dec
    BY <1>1, <1>4 DEF First8, After8
  <2>2. offset \in 1 .. 7
    BY <1>4
  <2>3. /\ inc \in 0 .. offset /\ dec \in Int
        /\ \E k \in Nat : 4 + offset - inc = (k + 1) * offset /\ k * offset <= 4
        /\ 8 <= 8 + offset - inc + dec /\ inc - dec >= -offset
        /\ \E k \in Nat : 8 + offset - inc + dec = (k + 1) * offset /\ k * offset <= 8
    BY <2>2, TablesFit
  <2> HIDE DEF inc, dec, f, s
  <2>4. Starts(four, T, N, w + 4, e)
    <3>1. Repeats(T, w, e, w - m)
      BY <1>1
    <3>2. 4 \in Int
      OBVIOUS
    <3>3. DOMAIN four = 0 .. N - 1 /\ Like(four, T, w + 4, e)
      BY <1>1, <1>2, <3>1, <3>2, CopyBytesLike
    <3> QED BY <3>3 DEF Starts
  <2> HIDE DEF four
  <2>5. \A k \in Nat : Repeats(T, w + k * offset, e, (k + 1) * offset)
    <3>1. offset <= w /\ offset \in Nat /\ w \in Nat /\ e \in Nat /\ Repeats(T, w, e, offset)
      BY <1>1
    <3> QED BY <3>1, RepeatsAgain
  <2>6. Starts(f, T, N, w + 8, e)
    <3>1. PICK k \in Nat : 4 + offset - inc = (k + 1) * offset /\ k * offset <= 4
      BY <2>3
    <3> DEFINE c == w + k * offset
               d == w + 4
               a == m + inc
               p == (k + 1) * offset
    <3>2. Repeats(T, c, e, p)
      BY <2>5
    <3>3. k * offset \in Int
      BY <1>1
    <3>4. c \in Int /\ d \in Nat /\ c <= d /\ a \in Nat /\ a + 4 <= d /\ d - a = p
          /\ d + 4 = w + 8
      BY <1>1, <2>3, <3>1, <3>3
    <3>5. f = CopyOut(four, d, a, 4)
      BY <2>1
    <3>6. Starts(four, T, N, d, e)
      BY <2>4
    <3> HIDE DEF c, d, a, p
    <3>7. Repeats(T, d, e, p)
      BY <3>2, <3>4, RepeatsLess
    <3>8. Repeats(T, d, e, d - a)
      BY <3>4, <3>7
    <3>9. /\ DOMAIN CopyOut(four, d, a, 4) = 0 .. N - 1
          /\ Like(CopyOut(four, d, a, 4), T, d + 4, e)
      BY <3>4, <3>6, <3>8, CopyOutLike DEF Starts
    <3> QED BY <3>4, <3>5, <3>9 DEF Starts
  <2>7. s \in Nat /\ s + 8 <= w + 8 /\ Repeats(T, w + 8, e, (w + 8) - s)
    <3>1. PICK k \in Nat : 8 + offset - inc + dec = (k + 1) * offset /\ k * offset <= 8
      BY <2>3
    <3> DEFINE c == w + k * offset
               p == (k + 1) * offset
    <3>2. Repeats(T, c, e, p)
      BY <2>5
    <3>3. k * offset \in Int
      BY <1>1
    <3>4. c \in Int /\ c <= w + 8 /\ s \in Nat /\ s + 8 <= w + 8 /\ (w + 8) - s = p
      BY <1>1, <2>1, <2>3, <3>1, <3>3
    <3> HIDE DEF c, p
    <3>5. Repeats(T, w + 8, e, p)
      <4>1. w + 8 \in Int
        OBVIOUS
      <4> QED BY <3>2, <3>4, <4>1, RepeatsLess
    <3> QED BY <3>4, <3>5
  <2> QED BY <2>6, <2>7 DEF m, f, s
<1> QED BY <1>3, <1>4

-----------------------------------------------------------------------------
(* A length that the four bits of a token cannot tell goes on in bytes of  *)
(* 255 and a last one, from p of c on.                                     *)
Extras(n) == (n + 240) \div 255
Nibble(n) == IF n < 15 THEN n ELSE 15
Extended(c, p, n) ==
    n >= 15 => /\ \A k \in 1 .. Extras(n) - 1 : c[p + k] = 255
               /\ c[p + Extras(n)] = (n - 15) % 255

(* Behind a token at p of c, the n bytes of r from a on as they are.       *)
OffsetAt(p, n) == p + 1 + Extras(n) + n
Literally(c, r, p, a, n) ==
    /\ Extended(c, p + 1, n)
    /\ \A k \in 1 .. n : c[p + 1 + Extras(n) + k] = r[a + k - 1]

(* A sequence at p of c that tells r from a on, as q has it: literals, and *)
(* a match that repeats what is so many bytes behind.                      *)
Sequence(c, r, p, a, q) ==
    LET o == OffsetAt(p, q.lits)
    IN  /\ q.lits \in Nat /\ q.len \in Nat /\ q.len >= 4 /\ q.off \in 1 .. a + q.lits
        /\ c[p + 1] = 16 * Nibble(q.lits) + Nibble(q.len - 4)
        /\ Literally(c, r, p, a, q.lits)
        /\ c[o + 1] = q.off % 256 /\ c[o + 2] = q.off \div 256
        /\ Extended(c, o + 2, q.len - 4)
        /\ Repeats(r, a + q.lits, a + q.lits + q.len, q.off)
NextMark(z, q) ==
    [at |-> OffsetAt(z.at, q.lits) + 2 + Extras(q.len - 4),
     from |-> z.from + q.lits + q.len]

(* c tells the first n bytes of r: M has the places where its sequences    *)
(* start, each with what was told before it, up to the last literals at e, *)
(* a bytes into r.  If these are enough for a decompressor, no match       *)
(* starts in the last MFLimit bytes.                                       *)
Kept(a, n) == a > 0 => n - a >= LastLits
Tells(M, c, r, e, a, n) ==
    /\ e \in Nat /\ a \in Nat /\ n \in Nat /\ a <= n
    /\ c[e + 1] = 16 * Nibble(n - a) /\ Literally(c, r, e, a, n - a)
    /\ Len(c) = OffsetAt(e, n - a)
    /\ [at |-> 0, from |-> 0] \in M
    /\ \A z \in M :
          /\ z.at \in Nat /\ z.from \in Nat /\ z.at <= e /\ z.from <= a
          /\ \/ z.at = e /\ z.from = a
             \/ \E q : /\ Sequence(c, r, z.at, z.from, q)
                       /\ NextMark(z, q) \in M
                       /\ Kept(a, n) => z.from + q.lits + MFLimit <= n

LEMMA ExtrasAre ==
    ASSUME NEW n \in Nat
    PROVE  /\ Extras(n) \in Nat /\ 255 * Extras(n) <= n + 240
           /\ n < 15 => Extras(n) = 0
  BY DEF Extras

LEMMA ExtrasTell ==
    ASSUME NEW n \in Nat, n >= 15
    PROVE  /\ Extras(n) \in Nat /\ Extras(n) >= 1
           /\ (n - 15) % 255 \in 0 .. 254
           /\ 255 * (Extras(n) - 1) + ((n - 15) % 255) = n - 15
<1> DEFINE m == n - 15
           d == m \div 255
           w == m % 255
<1>1. m \in Nat /\ n + 240 = m + 255
  OBVIOUS
<1> HIDE DEF m
<1>2. d \in Nat /\ w \in 0 .. 254 /\ m = 255 * d + w
  BY <1>1
<1>3. (m + 255) \div 255 = d + 1
  BY <1>1
<1>4. Extras(n) = d + 1
  BY <1>1, <1>3 DEF Extras
<1> HIDE DEF d, w
<1>5. /\ Extras(n) \in Nat /\ Extras(n) >= 1 /\ w \in 0 .. 254
      /\ 255 * (Extras(n) - 1) + w = m
  BY <1>2, <1>4
<1> QED BY <1>5 DEF w, m

(* The bytes that extend a length, whatever is in the input.               *)
LEMMA ExtraGood ==
    ASSUME Len(cin) \in Nat, NEW p \in Nat, NEW stop \in Int,
           p < stop, stop <= Len(cin) + 1
    PROVE  LET n == Extra(p, stop)
           IN  /\ n \in 1 .. Len(cin) + 1 /\ p + n <= stop
               /\ In(p + n - 1) # 255 \/ p + n >= stop
               /\ \A k \in 1 .. n - 1 : In(p + k - 1) = 255
<1> DEFINE Stops(n) == In(p + n - 1) # 255 \/ p + n >= stop
           T == {n \in 1 .. Len(cin) + 1 : Stops(n)}
           Good(n) == /\ In(p + n - 1) # 255 \/ p + n >= stop
                      /\ \A k \in 1 .. n - 1 : In(p + k - 1) = 255 /\ p + k < stop
<1>1. T # {} /\ T \subseteq Nat
  <2>1. stop - p \in 1 .. Len(cin) + 1 /\ p + (stop - p) >= stop
    OBVIOUS
  <2>2. stop - p \in T
    BY <2>1
  <2> QED BY <2>2
<1>2. PICK n \in T : \A k \in T : n <= k
  <2> HIDE DEF T
  <2> QED BY <1>1, LeastIs
<1>3. n \in 1 .. Len(cin) + 1 /\ Good(n)
  <2>1. n \in 1 .. Len(cin) + 1 /\ Stops(n)
    BY <1>2
  <2>2. ASSUME NEW k \in 1 .. n - 1 PROVE In(p + k - 1) = 255 /\ p + k < stop
    <3>1. k \in 1 .. Len(cin) + 1 /\ ~(n <= k)
      BY <2>1
    <3>2. ~Stops(k)
      BY <1>2, <3>1
    <3> QED BY <3>1, <3>2
  <2> QED BY <2>1, <2>2
<1> DEFINE x == Extra(p, stop)
<1>4. x \in 1 .. Len(cin) + 1 /\ Good(x)
  <2>1. x = CHOOSE y \in 1 .. Len(cin) + 1 : Good(y)
    BY DEF Extra
  <2> HIDE DEF x, Good
  <2> QED BY <1>3, <2>1
<1>5. p + x <= stop
  <2> HIDE DEF x
  <2>1. CASE x = 1
    BY <2>1
  <2>2. CASE x # 1
    <3>1. x - 1 \in 1 .. x - 1 /\ x \in Nat
      BY <1>4, <2>2
    <3>2. p + (x - 1) < stop
      BY <1>4, <3>1
    <3> QED BY <3>1, <3>2
  <2> QED BY <2>1, <2>2
<1> QED BY <1>4, <1>5

(* The input is c or its beginning.                                        *)
Begins(c) ==
    /\ Len(cin) \in Nat /\ Len(c) \in Nat /\ Len(cin) <= Len(c)
    /\ \A k \in 1 .. Len(cin) : cin[k] = c[k]

LEMMA InIs ==
    ASSUME NEW c, Begins(c), NEW p \in Nat
    PROVE  In(p) = IF p < Len(cin) THEN c[p + 1] ELSE 0
<1>1. CASE p < Len(cin)
  <2>1. p + 1 \in 1 .. Len(cin)
    BY <1>1 DEF Begins
  <2> QED BY <1>1, <2>1 DEF Begins, In
<1> QED BY <1>1 DEF In

(* What extends a length in c does so in the input, or where the input     *)
(* ends it is not known to the end.                                        *)
LEMMA ExtraTold ==
    ASSUME NEW c, Begins(c), NEW p \in Nat, NEW stop \in Int,
           p < stop, stop <= Len(cin) + 1, NEW n \in Nat, n >= 15, Extended(c, p, n)
    PROVE  LET x == Extra(p, stop)
               E == Extras(n)
           IN  /\ x \in Nat /\ x >= 1 /\ x <= E /\ p + x <= stop
               /\ \/ x = E /\ p + x <= Len(cin) /\ ExtraLength(p, x) = n - 15
                  \/ /\ p + x = stop /\ (x < E \/ stop = Len(cin) + 1)
                     /\ stop <= Len(cin) => ExtraLength(p, x) = 255 * x
<1> DEFINE x == Extra(p, stop)
           E == Extras(n)
           L == Len(cin)
<1>1. L \in Nat
  BY DEF Begins
<1>2. /\ x \in 1 .. L + 1 /\ p + x <= stop
      /\ In(p + x - 1) # 255 \/ p + x >= stop
      /\ \A k \in 1 .. x - 1 : In(p + k - 1) = 255
  BY <1>1, ExtraGood
<1>3. /\ E \in Nat /\ E >= 1 /\ (n - 15) % 255 \in 0 .. 254
      /\ 255 * (E - 1) + ((n - 15) % 255) = n - 15
  BY ExtrasTell
<1>4. (\A k \in 1 .. E - 1 : c[p + k] = 255) /\ c[p + E] = (n - 15) % 255
  BY DEF Extended
<1>5. ExtraLength(p, x) = 255 * (x - 1) + In(p + x - 1)
  BY DEF ExtraLength
<1> HIDE DEF x, E, L
<1>6. ASSUME NEW k \in 1 .. L + 1 PROVE In(p + k - 1) = IF p + k <= L THEN c[p + k] ELSE 0
  <2>1. p + k - 1 \in Nat /\ (p + k - 1) + 1 = p + k /\ (p + k - 1 < L <=> p + k <= L)
    BY <1>1
  <2> QED BY <2>1, InIs DEF L
<1>7. x <= E
  <2> SUFFICES ASSUME E < x PROVE FALSE
    BY <1>2, <1>3
  <2>1. E \in 1 .. x - 1 /\ E \in 1 .. L + 1
    BY <1>1, <1>2, <1>3
  <2>2. In(p + E - 1) = 255
    BY <1>2, <2>1
  <2> QED BY <1>3, <1>4, <1>6, <2>1, <2>2
<1>8. CASE x = E /\ p + x <= L
  <2>1. In(p + x - 1) = (n - 15) % 255
    BY <1>2, <1>4, <1>6, <1>8
  <2>2. ExtraLength(p, x) = n - 15
    BY <1>3, <1>5, <1>8, <2>1
  <2> QED BY <1>2, <1>7, <1>8, <2>2 DEF x, E, L
<1>9. CASE p + x > L
  <2>1. p + x = stop /\ stop = L + 1
    BY <1>1, <1>2, <1>9 DEF L
  <2> QED BY <1>1, <1>2, <1>7, <2>1 DEF x, E, L
<1>10. CASE x # E /\ p + x <= L
  <2>1. x < E /\ x \in 1 .. E - 1
    BY <1>2, <1>3, <1>7, <1>10
  <2>2. In(p + x - 1) = 255
    BY <1>2, <1>4, <1>6, <1>10, <2>1
  <2>3. p + x = stop
    BY <1>2, <2>2
  <2>4. ExtraLength(p, x) = 255 * x
    BY <1>2, <1>5, <2>2
  <2> QED BY <1>2, <1>7, <2>1, <2>3, <2>4 DEF x, E, L
<1> QED BY <1>1, <1>2, <1>8, <1>9, <1>10 DEF L

LEMMA NibbleIs ==
    ASSUME NEW n \in Nat
    PROVE  /\ Nibble(n) \in 0 .. 15
           /\ Nibble(n) = 15 <=> n >= 15
           /\ Nibble(n) # 15 => Nibble(n) = n
           /\ n < 15 => Nibble(n) = n
           /\ n >= 15 => Nibble(n) = 15
           /\ Nibble(n) <= n
  BY DEF Nibble

LEMMA TokenTold ==
    ASSUME NEW n \in Nat, NEW m \in Nat, NEW t, t = 16 * Nibble(n) + Nibble(m)
    PROVE  t \div 16 = Nibble(n) /\ t % 16 = Nibble(m)
<1> DEFINE x == Nibble(n)
           y == Nibble(m)
<1>1. x \in 0 .. 15 /\ y \in 0 .. 15
  BY NibbleIs
<1> HIDE DEF x, y
<1>2. t = 16 * x + y
  BY DEF x, y
<1>3. t \div 16 = x /\ t % 16 = y
  BY <1>1, <1>2
<1> QED BY <1>3 DEF x, y

(* Where a sequence is.                                                    *)
LEMMA SequenceIs ==
    ASSUME NEW M, NEW c, NEW r, NEW e, NEW a, NEW n, Tells(M, c, r, e, a, n),
           NEW z \in M, NEW q, Sequence(c, r, z.at, z.from, q), NextMark(z, q) \in M
    PROVE  LET o == OffsetAt(z.at, q.lits)
               x == Extras(q.len - 4)
           IN  /\ z.at \in Nat /\ z.from \in Nat /\ e \in Nat /\ a \in Nat /\ n \in Nat
               /\ q.lits \in Nat /\ q.len \in Nat /\ q.len >= 4
               /\ q.off \in 1 .. z.from + q.lits
               /\ Extras(q.lits) \in Nat /\ x \in Nat /\ o \in Nat
               /\ o = z.at + 1 + Extras(q.lits) + q.lits
               /\ NextMark(z, q).at = o + 2 + x
               /\ NextMark(z, q).from = z.from + q.lits + q.len
               /\ o + 2 + x <= e /\ z.from + q.lits + q.len <= a
               /\ Len(c) \in Nat /\ e + 1 <= Len(c) /\ e + 1 + (n - a) <= Len(c) /\ a <= n
               /\ Kept(a, n) => a + 5 <= n /\ e + 6 <= Len(c)
<1> DEFINE o == OffsetAt(z.at, q.lits)
           x == Extras(q.len - 4)
           y == NextMark(z, q)
<1>1. z.at \in Nat /\ z.from \in Nat /\ e \in Nat /\ a \in Nat /\ n \in Nat /\ a <= n
  BY DEF Tells
<1>2. q.lits \in Nat /\ q.len \in Nat /\ q.len >= 4 /\ q.off \in 1 .. z.from + q.lits
  BY DEF Sequence
<1>3. Extras(q.lits) \in Nat /\ x \in Nat
  <2>1. q.len - 4 \in Nat
    BY <1>2
  <2> QED BY <1>2, <2>1, ExtrasAre
<1>4. o = z.at + 1 + Extras(q.lits) + q.lits
  BY DEF OffsetAt
<1>5. y.at = o + 2 + x /\ y.from = z.from + q.lits + q.len
  BY DEF NextMark
<1>6. y.at <= e /\ y.from <= a
  BY DEF Tells
<1>7. Len(c) = e + 1 + Extras(n - a) + (n - a) /\ Extras(n - a) \in Nat
  <2>1. n - a \in Nat
    BY <1>1
  <2> QED BY <2>1, ExtrasAre DEF Tells, OffsetAt
<1> HIDE DEF o, x, y
<1>8. Kept(a, n) => n - a >= 5
  BY <1>1, <1>2, <1>5, <1>6 DEF Kept, LastLits
<1>9. o \in Nat
  BY <1>1, <1>2, <1>3, <1>4
<1>10. /\ Len(c) \in Nat /\ e + 1 <= Len(c) /\ e + 1 + (n - a) <= Len(c)
       /\ Kept(a, n) => a + 5 <= n /\ e + 6 <= Len(c)
  BY <1>1, <1>7, <1>8
<1>11. o + 2 + x <= e /\ z.from + q.lits + q.len <= a
  BY <1>5, <1>6
<1> QED BY <1>1, <1>2, <1>3, <1>4, <1>5, <1>9, <1>10, <1>11 DEF o, x, y

-----------------------------------------------------------------------------
(* A decoder of the block c of n bytes: one of all of it, into any buffer, *)
(* one that knows only the size of the result or wants no more than a      *)
(* part, or one of its beginning.                                          *)
BlockMode(c, n) ==
    /\ Begins(c)
    /\ mode.dst = 0 /\ mode.outputSize \in Nat
    /\ mode.endOnInput \in BOOLEAN /\ mode.partial \in BOOLEAN
    /\ mode.dictSize = 0 /\ mode.dict # "usingExtDict"
    /\ IF safe THEN mode.lowPrefix = 0 ELSE mode.dict = "withPrefix64k"
    /\ \/ cin = c
       \/ Len(cin) < Len(c) /\ safe /\ ~mode.partial /\ mode.outputSize = n
    /\ ~safe => ~mode.partial /\ mode.outputSize = n /\ cin = c
    /\ mode.partial => mode.outputSize <= n

(* Where a sequence starts, and where its match does: what is in front of  *)
(* it is there.                                                            *)
AtMark(M, r) ==
    \E z \in M :
        /\ rp = z.at /\ wp = z.from /\ rp < Len(cin) /\ wp <= outEnd
        /\ Starts(obuf, r, outEnd, wp, outEnd)

AtCopy(M, c, r, a, n) ==
    \E z \in M : \E q :
        /\ Sequence(c, r, z.at, z.from, q) /\ NextMark(z, q) \in M
        /\ Kept(a, n) => z.from + q.lits + MFLimit <= n
        /\ rp = OffsetAt(z.at, q.lits) + 2 /\ wp = z.from + q.lits
        /\ rp < Len(cin) /\ wp <= outEnd /\ (~mode.partial => wp + 8 <= outEnd)
        /\ mlen = Nibble(q.len - 4) /\ offset = q.off
        /\ Starts(obuf, r, outEnd, wp, outEnd)

(* What a decoder answers.                                                 *)
Gives(c, n) == cin = c /\ (mode.partial \/ mode.outputSize >= n)
Answers(c, r, a, n) ==
    /\ Gives(c, n) /\ Kept(a, n) =>
          /\ dret = IF ~safe THEN Len(cin)
                    ELSE IF mode.partial THEN mode.outputSize ELSE n
          /\ \A k \in 0 .. outEnd - 1 : k < n => obuf[k] = r[k]
    /\ safe /\ ~mode.partial /\ mode.outputSize < n => dret < 0
    /\ cin # c /\ Kept(a, n) /\ n > 0 =>
          /\ dret \in Int /\ dret < n
          /\ \A k \in Nat : k < dret => obuf[k] = r[k]

OnTrack(M, c, r, a, n) ==
    /\ BlockMode(c, n)
    /\ written \in Int /\ readTo \in Int /\ written <= outEnd
    /\ safe \/ Kept(a, n) => readTo <= Len(cin)
    /\ dpc \in {"token", "match", "end"}
    /\ dpc = "token" => AtMark(M, r)
    /\ dpc = "match" => AtCopy(M, c, r, a, n)
    /\ dpc = "end" => Answers(c, r, a, n)

LEMMA ModeIs ==
    ASSUME NEW c, NEW n, BlockMode(c, n)
    PROVE  /\ outEnd \in Nat /\ outEnd = mode.outputSize /\ Len(cin) \in Nat
           /\ inEnd = IF safe THEN Len(cin) ELSE 0
           /\ Len(c) \in Nat /\ Len(cin) <= Len(c)
           /\ ~safe => ~mode.partial /\ outEnd = n /\ cin = c
           /\ mode.partial => safe /\ cin = c /\ outEnd <= n
           /\ cin # c => safe /\ ~mode.partial /\ outEnd = n /\ Len(cin) < Len(c)
           /\ cin = c => Len(cin) = Len(c)
<1>1. outEnd = mode.outputSize
  BY DEF BlockMode, outEnd
<1>2. Len(cin) \in Nat /\ Len(c) \in Nat /\ Len(cin) <= Len(c)
  BY DEF BlockMode, Begins
<1>3. inEnd = IF safe THEN Len(cin) ELSE 0
  BY DEF inEnd
<1> QED BY <1>1, <1>2, <1>3 DEF BlockMode

(* What a step of the decoder leaves alone.                                *)
LEMMA ModeStays ==
    ASSUME NEW c, NEW n, BlockMode(c, n), UNCHANGED << cin, mode >>
    PROVE  BlockMode(c, n)' /\ outEnd' = outEnd /\ safe' = safe
  BY DEF BlockMode, Begins, safe, outEnd

(* To refuse is right where the whole cannot be given.                     *)
LEMMA Refuses ==
    ASSUME NEW c, NEW r, NEW a, NEW n \in Nat, ~(Gives(c, n) /\ Kept(a, n)),
           UNCHANGED << cin, mode >>, dret' \in Int, dret' < 0
    PROVE  Answers(c, r, a, n)'
<1>1. ~(Gives(c, n)' /\ Kept(a, n))
  BY DEF Gives
<1>2. dret' < n /\ \A k \in Nat : ~(k < dret')
  OBVIOUS
<1> QED BY <1>1, <1>2 DEF Answers

(* The k bytes of the input from p on are those of T from d on.            *)
Comes(p, T, d, k) == \A j \in 0 .. k - 1 : In(p + j) = T[d + j]

LEMMA CopyInLike ==
    ASSUME NEW b, NEW T, NEW N \in Nat, NEW e \in Nat, NEW d \in Nat, NEW p \in Nat,
           NEW k \in Nat, NEW m \in Int, k <= m, DOMAIN b = 0 .. N - 1, e <= N,
           Like(b, T, d, e), Comes(p, T, d, k)
    PROVE  /\ DOMAIN CopyIn(b, d, p, m) = 0 .. N - 1
           /\ Like(CopyIn(b, d, p, m), T, d + k, e)
<1> DEFINE c == CopyIn(b, d, p, m)
<1>1. DOMAIN c = 0 .. N - 1
  BY DEF CopyIn
<1>2. ASSUME NEW i \in 0 .. d + k - 1, i < e PROVE c[i] = T[i]
  <2>1. i \in DOMAIN b
    BY <1>2
  <2>2. CASE i < d
    <3>1. c[i] = b[i]
      BY <2>1, <2>2 DEF CopyIn
    <3> QED BY <1>2, <2>2, <3>1 DEF Like
  <2>3. CASE ~(i < d)
    <3>1. i \in d .. d + m - 1
      BY <2>3
    <3>2. c[i] = In(p + i - d)
      BY <2>1, <3>1 DEF CopyIn
    <3> DEFINE j == i - d
    <3>3. j \in 0 .. k - 1 /\ p + i - d = p + j /\ d + j = i
      BY <2>3
    <3> HIDE DEF j
    <3>4. In(p + j) = T[d + j]
      BY <3>3 DEF Comes
    <3> QED BY <3>2, <3>3, <3>4
  <2> QED BY <2>2, <2>3
<1> QED BY <1>1, <1>2 DEF Like

(* The literals of a sequence, as far as they are in the input.            *)
LEMMA LiteralsIn ==
    ASSUME NEW c, Begins(c), NEW r, NEW p \in Nat, NEW a \in Nat, NEW n \in Nat,
           Literally(c, r, p, a, n), NEW f, f = p + 1 + Extras(n),
           NEW k \in Nat, k <= n, f + k <= Len(cin)
    PROVE  Comes(f, r, a, k)
<1> SUFFICES ASSUME NEW j \in 0 .. k - 1 PROVE In(f + j) = r[a + j]
  BY DEF Comes
<1>1. Extras(n) \in Nat /\ Len(cin) \in Nat
  BY ExtrasAre DEF Begins
<1>2. f \in Nat /\ f + j \in Nat /\ f + j < Len(cin)
  BY <1>1
<1>3. In(f + j) = c[f + j + 1]
  BY <1>2, InIs
<1>4. c[p + 1 + Extras(n) + (j + 1)] = r[a + (j + 1) - 1]
  <2>1. j + 1 \in 1 .. n
    OBVIOUS
  <2> QED BY <2>1 DEF Literally
<1>5. p + 1 + Extras(n) + (j + 1) = f + j + 1 /\ a + (j + 1) - 1 = a + j
  BY <1>1
<1> QED BY <1>3, <1>4, <1>5

(* The offset of a sequence's match.                                       *)
LEMMA OffsetTold ==
    ASSUME NEW c, Begins(c), NEW r, NEW p \in Nat, NEW a \in Nat, NEW q,
           Sequence(c, r, p, a, q), NEW o \in Nat, o = OffsetAt(p, q.lits),
           o + 2 <= Len(cin)
    PROVE  LE16(o) = q.off
<1>1. c[o + 1] = q.off % 256 /\ c[o + 2] = q.off \div 256
  BY Zenon DEF Sequence
<1>2. Len(cin) \in Nat /\ q.off \in Nat
  <2>1. q.lits \in Nat /\ q.off \in 1 .. a + q.lits
    BY DEF Sequence
  <2> QED BY <2>1 DEF Begins
<1>3. In(o) = c[o + 1]
  BY <1>2, InIs
<1>4. In(o + 1) = c[o + 2]
  <2>1. o + 1 \in Nat /\ o + 1 < Len(cin) /\ (o + 1) + 1 = o + 2
    BY <1>2
  <2> QED BY <2>1, InIs
<1>5. LE16(o) = (q.off % 256) + 256 * (q.off \div 256)
  BY <1>1, <1>3, <1>4 DEF LE16
<1> DEFINE x == q.off
<1>6. x \in Nat
  BY <1>2
<1> HIDE DEF x
<1>7. (x % 256) + 256 * (x \div 256) = x
  BY <1>6
<1> QED BY <1>5, <1>7 DEF x

-----------------------------------------------------------------------------
(* A token of the block: its last, or that of a sequence.                  *)
LEMMA MarkIs ==
    ASSUME NEW M, NEW c, NEW r, NEW e, NEW a, NEW n, Tells(M, c, r, e, a, n),
           Begins(c), NEW z \in M, z.at < Len(cin)
    PROVE  /\ z.at \in Nat /\ z.from \in Nat /\ e \in Nat /\ a \in Nat /\ n \in Nat /\ a <= n
           /\ \/ /\ z.at = e /\ z.from = a
                 /\ In(z.at) \div 16 = Nibble(n - a)
                 /\ Len(c) = e + 1 + Extras(n - a) + (n - a)
              \/ \E q : /\ Sequence(c, r, z.at, z.from, q) /\ NextMark(z, q) \in M
                        /\ Kept(a, n) => z.from + q.lits + MFLimit <= n
                        /\ In(z.at) \div 16 = Nibble(q.lits)
                        /\ In(z.at) % 16 = Nibble(q.len - 4)
<1>1. z.at \in Nat /\ z.from \in Nat /\ e \in Nat /\ a \in Nat /\ n \in Nat /\ a <= n
  BY DEF Tells
<1>2. In(z.at) = c[z.at + 1]
  BY <1>1, InIs
<1>3. CASE z.at = e /\ z.from = a
  <2>1. n - a \in Nat /\ 0 \in Nat /\ Nibble(0) = 0 /\ Nibble(n - a) \in Nat
    BY <1>1 DEF Nibble
  <2>2. In(z.at) = 16 * Nibble(n - a) + Nibble(0)
    BY <1>2, <1>3, <2>1 DEF Tells
  <2>3. In(z.at) \div 16 = Nibble(n - a)
    BY <2>1, <2>2, TokenTold
  <2>4. Len(c) = e + 1 + Extras(n - a) + (n - a)
    BY DEF Tells, OffsetAt
  <2> QED BY <1>1, <1>3, <2>3, <2>4
<1>4. CASE ~(z.at = e /\ z.from = a)
  <2>1. PICK q : /\ Sequence(c, r, z.at, z.from, q)
                 /\ NextMark(z, q) \in M
                 /\ Kept(a, n) => z.from + q.lits + MFLimit <= n
    BY <1>4 DEF Tells
  <2>2. /\ c[z.at + 1] = 16 * Nibble(q.lits) + Nibble(q.len - 4)
        /\ q.lits \in Nat /\ q.len \in Nat /\ q.len >= 4
    BY <2>1, Zenon DEF Sequence
  <2>3. q.len - 4 \in Nat
    BY <2>2
  <2>4. In(z.at) \div 16 = Nibble(q.lits) /\ In(z.at) % 16 = Nibble(q.len - 4)
    BY <1>2, <2>2, <2>3, TokenTold
  <2> QED BY <1>1, <2>1, <2>4
<1> QED BY <1>3, <1>4

LEMMA ShortcutTracks ==
    ASSUME NEW M, NEW c, NEW r, NEW e, NEW a, NEW n, Tells(M, c, r, e, a, n),
           OnTrack(M, c, r, a, n), Shortcut
    PROVE  OnTrack(M, c, r, a, n)'
<1> DEFINE tok == In(rp)
           k == IF safe THEN 16 ELSE 8
           upto == wp + tok \div 16
           from == rp + 1 + tok \div 16
           off == LE16(from)
           m == upto - off
           lits == CopyIn(obuf, wp, rp + 1, k)
           quick == /\ tok % 16 # 15 /\ off >= 8
                    /\ mode.dict = "withPrefix64k" \/ m >= mode.lowPrefix
           far == CopyOut(CopyOut(CopyOut(lits, upto, m, 8), upto + 8, m + 8, 8),
                          upto + 16, m + 16, 2)
           L == Len(cin)
           C == Len(c)
<1>1. /\ dpc = "token" /\ Short(tok) /\ UNCHANGED << cin, mode, dret >>
      /\ rp' = from + 2 /\ offset' = off
      /\ readTo' = Max({readTo, rp + 1 + k, from + 2})
      /\ IF quick
         THEN /\ obuf' = far /\ wp' = upto + (tok % 16) + 4
              /\ written' = Max({written, wp + k, upto + 18})
              /\ UNCHANGED << mlen, dpc >>
         ELSE /\ obuf' = lits /\ wp' = upto /\ mlen' = tok % 16
              /\ written' = Max({written, wp + k})
              /\ dpc' = "match"
  BY Zenon DEF Shortcut
<1>a. /\ k \in Nat /\ (safe => k = 16) /\ (~safe => k = 8)
      /\ upto = wp + tok \div 16 /\ from = rp + 1 + tok \div 16 /\ m = upto - off
  OBVIOUS
<1> HIDE DEF tok, k, upto, from, off, m, lits, quick, far, L, C
<1>2. BlockMode(c, n) /\ Begins(c)
  BY DEF OnTrack, BlockMode
<1>3. /\ outEnd \in Nat /\ L \in Nat /\ C \in Nat /\ L <= C
      /\ inEnd = IF safe THEN L ELSE 0
      /\ ~safe => outEnd = n /\ L = C
  BY <1>2, ModeIs DEF L, C
<1>4. /\ written \in Int /\ readTo \in Int /\ written <= outEnd
      /\ safe \/ Kept(a, n) => readTo <= L
  BY DEF OnTrack, L
<1>5. PICK z \in M : /\ rp = z.at /\ wp = z.from /\ rp < L /\ wp <= outEnd
                     /\ Starts(obuf, r, outEnd, wp, outEnd)
  BY <1>1 DEF OnTrack, AtMark, L
<1>6. /\ rp \in Nat /\ wp \in Nat /\ e \in Nat /\ a \in Nat /\ n \in Nat /\ a <= n
      /\ \/ /\ rp = e /\ wp = a /\ tok \div 16 = Nibble(n - a)
            /\ Len(c) = e + 1 + Extras(n - a) + (n - a)
         \/ \E q : /\ Sequence(c, r, z.at, z.from, q) /\ NextMark(z, q) \in M
                   /\ Kept(a, n) => z.from + q.lits + MFLimit <= n
                   /\ tok \div 16 = Nibble(q.lits) /\ tok % 16 = Nibble(q.len - 4)
  BY <1>2, <1>5, MarkIs, SMTT(30) DEF tok, L
<1>b. Short(tok)
  BY <1>1
<1>c. rp \in Nat /\ wp \in Nat /\ e \in Nat /\ a \in Nat /\ n \in Nat /\ a <= n
  BY <1>6
<1>d. wp <= outEnd /\ rp < L /\ rp = z.at /\ wp = z.from
  BY <1>5
<1>7. /\ IF safe THEN tok \div 16 # 15 ELSE tok \div 16 <= 8
      /\ safe => rp + 17 < L /\ wp + 32 <= outEnd
      /\ ~safe => wp + 26 <= outEnd
  BY <1>b, <1>c, <1>3 DEF Short
<1>8. ASSUME rp = e, wp = a, tok \div 16 = Nibble(n - a),
             Len(c) = e + 1 + Extras(n - a) + (n - a)
      PROVE  FALSE
  <2> DEFINE d == n - a
  <2>1. d \in Nat /\ n = a + d
    BY <1>c
  <2>2. d < 15 /\ tok \div 16 = d /\ (~safe => d <= 8) /\ Extras(d) = 0
    <3>1. d \in Nat /\ n - a = d
      BY <2>1
    <3>2. PICK b : b = Nibble(d) /\ b = tok \div 16
      BY <1>8
    <3>3. b \in Nat /\ b < 15 /\ (~safe => b <= 8)
      <4>1. b \in Nat /\ b <= 15
        BY ONLY <3>1, <3>2, NibbleIs
      <4>2. (safe => b # 15) /\ (~safe => b <= 8)
        BY ONLY <1>7, <3>2, Zenon
      <4> QED BY ONLY <4>1, <4>2
    <3>4. d < 15 /\ b = d
      BY ONLY <3>1, <3>2, <3>3, NibbleIs
    <3>5. Extras(d) = 0
      BY ONLY <3>1, <3>4, ExtrasAre
    <3> HIDE DEF d
    <3> QED BY ONLY <3>2, <3>3, <3>4, <3>5
  <2> HIDE DEF d
  <2>3. C = e + 1 + d
    BY <1>8, <1>c, <2>2 DEF C, d
  <2> QED BY <1>3, <1>c, <1>7, <1>8, <2>1, <2>2, <2>3
<1>9. PICK q : /\ Sequence(c, r, z.at, z.from, q) /\ NextMark(z, q) \in M
               /\ Kept(a, n) => z.from + q.lits + MFLimit <= n
               /\ tok \div 16 = Nibble(q.lits) /\ tok % 16 = Nibble(q.len - 4)
  BY <1>6, <1>8
<1> DEFINE x == Extras(q.len - 4)
           o == OffsetAt(z.at, q.lits)
           y == NextMark(z, q)
           lit == q.lits
           v == q.len
           w == q.off
<1>10. /\ lit \in Nat /\ v \in Nat /\ v >= 4 /\ w \in 1 .. wp + lit
       /\ x \in Nat /\ o \in Nat /\ o = rp + 1 + Extras(lit) + lit
       /\ o + 2 + x <= e /\ wp + lit + v <= a
       /\ e + 1 <= C /\ (Kept(a, n) => e + 6 <= C)
  BY <1>9, <1>d, SequenceIs DEF C
<1>y. y.at = o + 2 + x /\ y.from = wp + lit + v /\ y \in M
  BY <1>9, <1>d, SequenceIs
<1>t. tok \div 16 = Nibble(lit) /\ tok % 16 = Nibble(v - 4)
  BY <1>9
<1>q. Sequence(c, r, rp, wp, q)
  BY <1>9, <1>d
<1>r. Repeats(r, wp + lit, wp + lit + v, w) /\ Literally(c, r, rp, wp, lit)
  BY <1>q, Zenon DEF Sequence
<1> HIDE DEF x, o, y, lit, v, w
<1>11. lit < 15 /\ tok \div 16 = lit /\ (~safe => lit <= 8)
  BY <1>7, <1>10, <1>t, NibbleIs
<1>12. Extras(lit) = 0
  BY <1>10, <1>11, ExtrasAre
<1>e. /\ lit < 15 /\ lit \in Nat /\ (~safe => lit <= 8)
      /\ (safe => k = 16) /\ (~safe => k = 8) /\ lit <= k /\ k \in Nat
      /\ upto = wp + lit /\ from = rp + 1 + lit /\ from = o
      /\ upto \in Nat /\ from \in Nat
  <2>1. upto = wp + lit /\ from = rp + 1 + lit
    BY <1>11, <1>a
  <2>2. lit < 15 /\ lit \in Nat /\ (~safe => lit <= 8)
    BY <1>10, <1>11
  <2> QED BY <1>c, <1>10, <1>12, <1>a, <2>1, <2>2
<1>f. /\ safe => rp + 17 < L /\ wp + 32 <= outEnd
      /\ ~safe => wp + 26 <= outEnd
  BY <1>7
<1>g. /\ o + 2 < L /\ wp + k <= outEnd /\ upto + 18 <= outEnd
      /\ safe \/ Kept(a, n) => rp + 1 + k <= L
  <2>1. CASE safe
    BY <1>3, <1>c, <1>e, <1>f, <2>1
  <2>2. CASE ~safe
    BY <1>3, <1>c, <1>e, <1>f, <1>10, <2>2
  <2> QED BY <2>1, <2>2
<1>13. off = w
  <2>1. o \in Nat /\ o = OffsetAt(rp, q.lits) /\ o + 2 <= Len(cin)
    BY <1>3, <1>10, <1>g, <1>d DEF o, L
  <2>2. LE16(o) = q.off
    BY <1>2, <1>c, <1>q, <2>1, OffsetTold
  <2> QED BY <1>e, <2>2 DEF off, w
<1>14. /\ readTo' \in Int /\ (safe \/ Kept(a, n) => readTo' <= L)
       /\ rp' = o + 2 /\ rp' < L
  <2>1. rp + 1 + k \in Int /\ from + 2 \in Int /\ readTo' = Max({readTo, rp + 1 + k, from + 2})
    BY <1>1, <1>c, <1>e
  <2>2. readTo' \in {readTo, rp + 1 + k, from + 2}
    BY <1>4, <2>1, ThreeMax
  <2>3. rp' = o + 2
    BY <1>1, <1>e
  <2> QED BY <1>3, <1>4, <1>c, <1>e, <1>g, <2>1, <2>2, <2>3
<1>15. DOMAIN obuf = 0 .. outEnd - 1 /\ Like(obuf, r, wp, outEnd)
  BY <1>5 DEF Starts
<1>16. DOMAIN lits = 0 .. outEnd - 1 /\ Like(lits, r, upto, outEnd)
  <2> DEFINE f == rp + 1
  <2>1. f \in Nat /\ f = rp + 1 + Extras(lit) /\ f + lit <= L /\ lit <= lit
    BY <1>3, <1>c, <1>e, <1>g, <1>12
  <2> HIDE DEF f
  <2>2. Comes(f, r, wp, lit)
    <3>1. f + lit <= Len(cin)
      BY <2>1 DEF L
    <3>2. rp \in Nat /\ wp \in Nat /\ lit \in Nat
      BY <1>c, <1>e
    <3> QED BY <1>2, <1>r, <2>1, <3>1, <3>2, LiteralsIn
  <2>3. k \in Int /\ outEnd <= outEnd
    BY <1>3, <1>e
  <2>4. /\ DOMAIN CopyIn(obuf, wp, f, k) = 0 .. outEnd - 1
        /\ Like(CopyIn(obuf, wp, f, k), r, wp + lit, outEnd)
    <3>1. rp \in Nat /\ wp \in Nat /\ lit \in Nat /\ lit <= k /\ outEnd \in Nat
      BY <1>3, <1>c, <1>e
    <3>2. /\ outEnd \in Nat /\ wp \in Nat /\ f \in Nat /\ lit \in Nat /\ k \in Int
          /\ lit <= k /\ DOMAIN obuf = 0 .. outEnd - 1 /\ outEnd <= outEnd
          /\ Like(obuf, r, wp, outEnd) /\ Comes(f, r, wp, lit)
      BY <1>15, <2>1, <2>2, <2>3, <3>1
    <3> QED BY <3>2, CopyInLike, ZenonT(30)
  <2> QED BY <1>e, <2>4 DEF lits, f
<1>17. BlockMode(c, n)' /\ outEnd' = outEnd /\ safe' = safe /\ L' = L
  BY <1>1, <1>2, ModeStays DEF L
<1>18. Repeats(r, upto, upto + v, w)
  BY <1>e, <1>r
<1>19. CASE quick
  <2>1. /\ obuf' = far /\ wp' = upto + (tok % 16) + 4 /\ dpc' = "token"
        /\ written' = Max({written, wp + k, upto + 18})
    BY <1>1, <1>19
  <2>2. v - 4 < 15 /\ tok % 16 = v - 4 /\ x = 0 /\ w >= 8
    <3>1. v - 4 \in Nat
      BY <1>10
    <3>2. v - 4 < 15 /\ tok % 16 = v - 4
      BY <1>19, <1>t, <3>1, NibbleIs DEF quick
    <3>3. Extras(v - 4) = 0
      BY <3>1, <3>2, ExtrasAre
    <3> QED BY <1>13, <1>19, <3>2, <3>3 DEF x, quick, v
  <2>3. wp' = upto + v
    BY <1>e, <1>10, <2>1, <2>2
  <2>4. written' \in Int /\ written' <= outEnd
    <3>1. wp + k \in Int /\ upto + 18 \in Int
      BY <1>c, <1>e
    <3>2. PICK s, t : s = wp + k /\ t = upto + 18
      OBVIOUS
    <3>3. s \in Int /\ t \in Int /\ s <= outEnd /\ t <= outEnd
      BY <1>g, <3>1, <3>2
    <3>4. written' = Max({written, s, t})
      BY <2>1, <3>2, Zenon
    <3>5. written \in Int /\ written <= outEnd
      BY <1>4
    <3>6. written' \in {written, s, t}
      BY ONLY <3>3, <3>4, <3>5, ThreeMax
    <3> QED BY ONLY <3>3, <3>5, <3>6
  <2>5. m \in Nat /\ m + 8 <= upto /\ upto - m = w
    BY <1>c, <1>e, <1>10, <1>13, <1>a, <2>2
  <2> DEFINE E == upto + v
             c1 == CopyOut(lits, upto, m, 8)
             c2 == CopyOut(c1, upto + 8, m + 8, 8)
             c3 == CopyOut(c2, upto + 16, m + 16, 2)
  <2>6. E \in Nat /\ E <= outEnd /\ E <= upto + 18
    BY <1>3, <1>10, <1>e, <1>g, <2>2
  <2>8. far = c3
    BY DEF far
  <2> HIDE DEF E, c1, c2, c3
  <2>7. Like(lits, r, upto, E)
    BY <1>3, <1>e, <1>16, <2>6 DEF Like
  <2>9. Repeats(r, upto, E, w)
    BY <1>18 DEF E
  <2>10. DOMAIN c1 = 0 .. outEnd - 1 /\ Like(c1, r, upto + 8, E)
    <3>1. outEnd \in Nat /\ upto \in Nat /\ Repeats(r, upto, E, upto - m)
      BY <1>3, <1>e, <2>5, <2>9
    <3> QED BY <1>16, <2>5, <2>6, <2>7, <3>1, CopyOutLike DEF c1
  <2>11. DOMAIN c2 = 0 .. outEnd - 1 /\ Like(c2, r, upto + 16, E)
    <3> DEFINE d == upto + 8
               s == m + 8
    <3>1. d \in Nat /\ s \in Nat /\ s + 8 <= d /\ d - s = w /\ d + 8 = upto + 16
          /\ upto <= d /\ d \in Int /\ upto \in Int
      BY <1>e, <1>10, <2>5
    <3>2. Like(c1, r, d, E) /\ c2 = CopyOut(c1, d, s, 8)
      BY <2>10 DEF c2
    <3> HIDE DEF d, s
    <3>3. Repeats(r, d, E, d - s)
      BY <2>9, <3>1, RepeatsLess
    <3>4. DOMAIN CopyOut(c1, d, s, 8) = 0 .. outEnd - 1 /\ Like(CopyOut(c1, d, s, 8), r, d + 8, E)
      BY <1>3, <2>6, <2>10, <3>1, <3>2, <3>3, CopyOutLike
    <3> QED BY <3>1, <3>2, <3>4
  <2>12. DOMAIN c3 = 0 .. outEnd - 1 /\ Like(c3, r, upto + 18, E)
    <3> DEFINE d == upto + 16
               s == m + 16
    <3>1. d \in Nat /\ s \in Nat /\ s + 2 <= d /\ d - s = w /\ d + 2 = upto + 18
          /\ upto <= d /\ d \in Int /\ upto \in Int
      BY <1>e, <1>10, <2>5
    <3>2. Like(c2, r, d, E) /\ c3 = CopyOut(c2, d, s, 2)
      BY <2>11 DEF c3
    <3> HIDE DEF d, s
    <3>3. Repeats(r, d, E, d - s)
      BY <2>9, <3>1, RepeatsLess
    <3>4. DOMAIN CopyOut(c2, d, s, 2) = 0 .. outEnd - 1 /\ Like(CopyOut(c2, d, s, 2), r, d + 2, E)
      BY <1>3, <2>6, <2>11, <3>1, <3>2, <3>3, CopyOutLike
    <3> QED BY <3>1, <3>2, <3>4
  <2>13. Starts(obuf', r, outEnd, E, outEnd)
    <3>1. Like(c3, r, E, outEnd)
      BY <1>e, <2>6, <2>12 DEF Like
    <3> QED BY <2>1, <2>8, <2>12, <3>1 DEF Starts
  <2>14. rp' = y.at /\ wp' = y.from /\ wp' <= outEnd /\ wp' = E
    BY <1>y, <1>14, <1>e, <1>10, <2>2, <2>3, <2>6 DEF E
  <2>15. AtMark(M, r)'
    <3>1. /\ rp' = y.at /\ wp' = y.from /\ rp' < Len(cin') /\ wp' <= outEnd'
          /\ Starts(obuf', r, outEnd', wp', outEnd')
      BY <1>14, <1>17, <2>13, <2>14 DEF L
    <3> QED BY <1>y, <3>1 DEF AtMark
  <2> QED BY <1>14, <1>17, <2>1, <2>4, <2>15 DEF OnTrack, L
<1>20. CASE ~quick
  <2>1. /\ obuf' = lits /\ wp' = upto /\ mlen' = tok % 16 /\ offset' = off
        /\ written' = Max({written, wp + k}) /\ dpc' = "match"
    BY <1>1, <1>20
  <2>2. wp + k \in Int /\ wp + k <= outEnd /\ upto + 8 <= outEnd /\ upto <= outEnd
    BY <1>3, <1>c, <1>e, <1>g
  <2>3. written' \in Int /\ written' <= outEnd
    BY <1>3, <1>4, <2>1, <2>2, TwoMax
  <2>4. AtCopy(M, c, r, a, n)'
    <3>1. rp' = OffsetAt(z.at, q.lits) + 2 /\ wp' = z.from + q.lits
      BY <1>d, <1>14, <1>e, <2>1 DEF o, lit
    <3>2. mlen' = Nibble(q.len - 4) /\ offset' = q.off
      BY <1>t, <1>13, <2>1 DEF v, w
    <3>3. rp' < Len(cin') /\ wp' <= outEnd' /\ wp' + 8 <= outEnd'
          /\ Starts(obuf', r, outEnd', wp', outEnd')
      BY <1>14, <1>16, <1>17, <2>1, <2>2 DEF Starts, L
    <3> QED BY <1>9, <3>1, <3>2, <3>3 DEF AtCopy
  <2> QED BY <1>14, <1>17, <2>1, <2>3, <2>4 DEF OnTrack, L
<1> QED BY <1>19, <1>20

-----------------------------------------------------------------------------
(* A decoder that refuses what it is given, at a place of the input.       *)
RefusesAt(pos) ==
    /\ pos \in Nat /\ pos <= Len(cin) /\ Fail(pos) /\ readTo' = Max({readTo, pos})
    /\ written' \in Int /\ written' <= outEnd /\ UNCHANGED << cin, mode >>

LEMMA RefusedTracks ==
    ASSUME NEW M, NEW c, NEW r, NEW a, NEW n \in Nat, OnTrack(M, c, r, a, n),
           NEW pos, RefusesAt(pos), ~(Gives(c, n) /\ Kept(a, n))
    PROVE  OnTrack(M, c, r, a, n)'
<1>1. /\ pos \in Nat /\ pos <= Len(cin) /\ readTo' = Max({readTo, pos})
      /\ written' \in Int /\ written' <= outEnd /\ UNCHANGED << cin, mode >>
      /\ dpc' = "end" /\ dret' = -pos - 1
  BY DEF RefusesAt, Fail
<1>2. BlockMode(c, n) /\ readTo \in Int /\ (safe \/ Kept(a, n) => readTo <= Len(cin))
  BY DEF OnTrack
<1>3. BlockMode(c, n)' /\ outEnd' = outEnd /\ safe' = safe
  BY <1>1, <1>2, ModeStays
<1>4. readTo' \in Int /\ (safe \/ Kept(a, n) => readTo' <= Len(cin))
  <2>1. Len(cin) \in Nat
    BY <1>2, ModeIs
  <2> DEFINE L == Len(cin)
  <2> HIDE DEF L
  <2>2. L \in Nat /\ pos <= L /\ (safe \/ Kept(a, n) => readTo <= L)
    BY <1>1, <1>2, <2>1 DEF L
  <2>3. readTo' \in Int /\ readTo' \in {readTo, pos}
    BY <1>1, <1>2, TwoMax
  <2> QED BY <2>2, <2>3 DEF L
<1>5. dret' \in Int /\ dret' < 0
  BY <1>1
<1>6. Answers(c, r, a, n)'
  BY <1>1, <1>5, Refuses
<1> QED BY <1>1, <1>3, <1>4, <1>6 DEF OnTrack

(* Literals once it is known where they are and how many.                  *)
PutLiterals(from, stated) ==
    LET nearEnd == IF safe THEN \/ wp + stated > outEnd - MFLimit
                                \/ from + stated > inEnd - (2 + 1 + LastLits)
                           ELSE wp + stated > outEnd - 8
        length == IF nearEnd /\ mode.partial
                  THEN Min({stated, outEnd - wp}) ELSE stated
        cpy == wp + length
        bad == nearEnd /\ Misplaced(from + length, cpy)
        last == nearEnd /\ (~mode.partial \/ cpy = outEnd)
    IN  IF bad
        THEN /\ Fail(from) /\ readTo' = Max({readTo, from})
             /\ UNCHANGED << rp, wp, obuf, written, mlen, offset >>
        ELSE /\ wp' = cpy
             /\ obuf' = IF nearEnd THEN CopyIn(obuf, wp, from, length)
                        ELSE CopyIn(obuf, wp, from, 8 * Chunks(wp, cpy))
             /\ written' = Max({written, IF nearEnd THEN cpy
                                         ELSE wp + 8 * Chunks(wp, cpy)})
             /\ IF last
                THEN /\ rp' = from + length /\ dpc' = "end"
                     /\ dret' = IF safe THEN cpy - mode.dst ELSE rp'
                     /\ readTo' = Max({readTo, rp'})
                     /\ UNCHANGED << mlen, offset >>
                ELSE /\ offset' = LE16(from + length)
                     /\ mlen' = In(rp) % 16
                     /\ rp' = from + length + 2 /\ dpc' = "match"
                     /\ readTo' = Max({readTo, rp',
                             IF nearEnd THEN 0 ELSE from + 8 * Chunks(wp, cpy)})
                     /\ UNCHANGED dret

LEMMA LiteralsTold ==
    ASSUME NEW c, NEW n0, BlockMode(c, n0), Literals, written \in Int, written <= outEnd,
           rp \in Nat, rp < Len(cin), NEW num \in Nat, In(rp) \div 16 = Nibble(num),
           Extended(c, rp + 1, num), rp + 1 + Extras(num) + num <= Len(c)
    PROVE  \/ cin # c /\ \E pos : RefusesAt(pos)
           \/ /\ UNCHANGED << cin, mode >> /\ PutLiterals(rp + 1 + Extras(num), num)
              /\ rp + 1 + Extras(num) <= Len(cin)
<1> DEFINE tok == In(rp)
           long == tok \div 16 = 15
           p == rp + 1
           stop == IF safe THEN inEnd - 15 ELSE Len(cin) + 1
           n == IF long THEN Extra(p, stop) ELSE 0
           from == p + n
           stated == tok \div 16 + (IF long THEN ExtraLength(p, n) ELSE 0)
           nearEnd == IF safe THEN \/ wp + stated > outEnd - MFLimit
                                   \/ from + stated > inEnd - (2 + 1 + LastLits)
                              ELSE wp + stated > outEnd - 8
           length == IF nearEnd /\ mode.partial
                     THEN Min({stated, outEnd - wp}) ELSE stated
           cpy == wp + length
           bad == nearEnd /\ Misplaced(from + length, cpy)
           L == Len(cin)
           C == Len(c)
           E == Extras(num)
           short == long /\ safe /\ p >= inEnd - 15
<1>1. UNCHANGED << cin, mode >>
  BY DEF Literals
<1>2. IF short
      THEN /\ Fail(p) /\ readTo' = Max({readTo, p})
           /\ UNCHANGED << rp, wp, obuf, written, mlen, offset >>
      ELSE PutLiterals(from, stated)
  BY Zenon DEF Literals, PutLiterals
<1>3. /\ outEnd \in Nat /\ L \in Nat /\ C \in Nat /\ L <= C /\ (cin = c => L = C)
      /\ inEnd = IF safe THEN L ELSE 0
      /\ cin # c => safe /\ ~mode.partial
      /\ Begins(c)
  BY ModeIs DEF L, C, BlockMode
<1>4. E \in Nat /\ (num < 15 => E = 0) /\ rp + 1 + E + num <= C /\ rp < L
  BY ExtrasAre
<1>5. /\ num < 15 => ~long /\ tok \div 16 = num
      /\ num >= 15 => long /\ tok \div 16 = 15
  BY NibbleIs
<1> HIDE DEF L, C, E, tok
<1>6. CASE num < 15
  <2>1. ~long /\ n = 0 /\ stated = num + 0
    BY <1>5, <1>6
  <2>2. from = rp + 1 + E /\ stated = num
    BY <1>4, <1>6, <2>1
  <2> HIDE DEF from, stated, long
  <2>3. PutLiterals(from, stated)
    BY <1>2, <2>1
  <2>4. rp + 1 + E <= L
    BY <1>3, <1>4, <1>6
  <2> QED BY <1>1, <2>2, <2>3, <2>4 DEF E, L
<1>7. CASE num >= 15 /\ short
  <2>1. p \in Nat /\ p <= L /\ safe /\ p >= L - 15
    BY <1>3, <1>4, <1>7
  <2>2. E >= 1
    BY <1>7, ExtrasTell DEF E
  <2>3. cin # c
    BY <1>3, <1>4, <1>7, <2>1, <2>2
  <2>4. Fail(p) /\ readTo' = Max({readTo, p}) /\ written' = written
    BY <1>2, <1>7
  <2> HIDE DEF p, short, long
  <2>5. RefusesAt(p)
    BY <1>1, <2>1, <2>4 DEF RefusesAt, L
  <2> QED BY <2>3, <2>5
<1>8. CASE num >= 15 /\ ~short
  <2>1. n = Extra(p, stop) /\ stated = 15 + ExtraLength(p, n) /\ PutLiterals(from, stated)
    BY <1>2, <1>5, <1>8
  <2>2. p \in Nat /\ stop \in Int /\ p < stop /\ stop <= L + 1 /\ (safe => stop = L - 15)
        /\ (~safe => stop = L + 1)
    BY <1>3, <1>4, <1>5, <1>8 DEF L
  <2> DEFINE y == ExtraLength(p, n)
  <2> HIDE DEF n, stop
  <2>3. /\ n \in Nat /\ n >= 1 /\ n <= E /\ p + n <= stop
        /\ \/ n = E /\ p + n <= L /\ y = num - 15
           \/ /\ p + n = stop /\ (n < E \/ stop = L + 1)
              /\ stop <= L => y = 255 * n
    <3>1. Extended(c, p, num) /\ stop <= Len(cin) + 1
      BY <2>2 DEF L
    <3> HIDE DEF p
    <3> QED BY <1>3, <1>8, <2>1, <2>2, <3>1, ExtraTold DEF y, E, L
  <2>4. E >= 1 /\ (num - 15) % 255 \in 0 .. 254
        /\ 255 * (E - 1) + ((num - 15) % 255) = num - 15
    BY <1>8, ExtrasTell DEF E
  <2> DEFINE w == (num - 15) % 255
  <2>5. w \in 0 .. 254 /\ 255 * (E - 1) + w = num - 15 /\ p = rp + 1
    BY <2>4
  <2>6. stated = 15 + y
    BY <2>1
  <2> HIDE DEF y, w, p, stated, nearEnd, long
  <2>7. CASE n = E /\ p + n <= L /\ y = num - 15
    <3>1. from = rp + 1 + E /\ stated = num
      BY <1>4, <2>5, <2>6, <2>7
    <3> HIDE DEF from
    <3>2. rp + 1 + E <= L
      BY <2>5, <2>7
    <3> QED BY <1>1, <2>1, <3>1, <3>2 DEF E, L
  <2>8. CASE ~(n = E /\ p + n <= L /\ y = num - 15)
    <3>1. p + n = stop /\ (n < E \/ stop = L + 1) /\ (stop <= L => y = 255 * n)
      BY <2>3, <2>8
    <3>2. safe /\ p + n = L - 15 /\ n < E /\ y = 255 * n
      BY <1>3, <1>4, <2>2, <2>3, <2>5, <3>1
    <3>3. p + n + 1 + 15 + 255 <= C
      BY <1>3, <1>4, <2>3, <2>5, <3>2
    <3>4. cin # c /\ ~mode.partial
      BY <1>3, <3>2, <3>3
    <3>5. stated \in Nat /\ stated >= 270 /\ from = L - 15 /\ from \in Nat
      BY <1>3, <1>4, <2>3, <2>5, <2>6, <3>2
    <3> HIDE DEF from
    <3>6. nearEnd
      BY <1>3, <3>2, <3>5 DEF nearEnd, LastLits
    <3>7. length = stated
      BY <3>4, <3>6
    <3>8. from + length # inEnd
      BY <1>3, <3>2, <3>5, <3>7
    <3> HIDE DEF length, cpy
    <3>9. bad
      BY <3>2, <3>4, <3>6, <3>8 DEF Misplaced
    <3>10. Fail(from) /\ readTo' = Max({readTo, from}) /\ written' = written
      BY <2>1, <3>9, Zenon DEF PutLiterals, bad, cpy, length, nearEnd
    <3>11. from <= L
      BY <1>3, <3>5
    <3>12. RefusesAt(from)
      BY <1>1, <3>5, <3>10, <3>11 DEF RefusesAt, L
    <3> QED BY <3>4, <3>12
  <2> QED BY <2>7, <2>8
<1> QED BY <1>6, <1>7, <1>8

-----------------------------------------------------------------------------
LEMMA ChunksCover ==
    ASSUME NEW d \in Int, NEW e \in Int
    PROVE  8 * Chunks(d, e) \in Int /\ 8 <= 8 * Chunks(d, e) /\ e <= d + 8 * Chunks(d, e)
<1> DEFINE c == (e - d + 7) \div 8
<1>1. c \in Int /\ e - d <= 8 * c
  OBVIOUS
<1>2. Chunks(d, e) = IF 1 >= c THEN 1 ELSE c
  BY <1>1, TwoMax DEF Chunks
<1> HIDE DEF c
<1> QED BY <1>1, <1>2

(* A copy from the input of literals that are all in it.                   *)
LEMMA LiteralsCopied ==
    ASSUME NEW c, Begins(c), NEW r, NEW b, NEW N \in Nat, NEW p \in Nat, NEW a \in Nat,
           NEW num \in Nat, Literally(c, r, p, a, num), Starts(b, r, N, a, N),
           NEW f \in Nat, f = p + 1 + Extras(num), NEW k \in Nat, k <= num,
           f + k <= Len(cin), NEW m \in Int, k <= m
    PROVE  Starts(CopyIn(b, a, f, m), r, N, a + k, N)
<1>1. Comes(f, r, a, k)
  BY LiteralsIn
<1>2. DOMAIN b = 0 .. N - 1 /\ Like(b, r, a, N) /\ N <= N
  BY DEF Starts
<1>3. /\ DOMAIN CopyIn(b, a, f, m) = 0 .. N - 1
      /\ Like(CopyIn(b, a, f, m), r, a + k, N)
  <2>1. /\ N \in Nat /\ a \in Nat /\ f \in Nat /\ k \in Nat /\ m \in Int
        /\ k <= m /\ DOMAIN b = 0 .. N - 1 /\ N <= N
        /\ Like(b, r, a, N) /\ Comes(f, r, a, k)
    BY <1>1, <1>2
  <2> QED BY ONLY <2>1, CopyInLike, ZenonT(60)
<1> QED BY <1>3 DEF Starts

(* The literals that end the block.                                        *)
LEMMA LastTracks ==
    ASSUME NEW M, NEW c, NEW r, NEW e, NEW a, NEW n, Tells(M, c, r, e, a, n),
           OnTrack(M, c, r, a, n), rp = e, wp = a, wp <= outEnd, rp < Len(cin),
           Starts(obuf, r, outEnd, wp, outEnd), UNCHANGED << cin, mode >>,
           rp + 1 + Extras(n - a) <= Len(cin), PutLiterals(rp + 1 + Extras(n - a), n - a)
    PROVE  OnTrack(M, c, r, a, n)'
<1> DEFINE d == n - a
           from == rp + 1 + Extras(d)
           nearEnd == IF safe THEN \/ wp + d > outEnd - MFLimit
                                   \/ from + d > inEnd - (2 + 1 + LastLits)
                              ELSE wp + d > outEnd - 8
           length == IF nearEnd /\ mode.partial THEN Min({d, outEnd - wp}) ELSE d
           cpy == wp + length
           bad == nearEnd /\ Misplaced(from + length, cpy)
           last == nearEnd /\ (~mode.partial \/ cpy = outEnd)
           L == Len(cin)
           C == Len(c)
<1>1. IF bad
      THEN /\ Fail(from) /\ readTo' = Max({readTo, from})
           /\ UNCHANGED << rp, wp, obuf, written, mlen, offset >>
      ELSE /\ wp' = cpy
           /\ obuf' = IF nearEnd THEN CopyIn(obuf, wp, from, length)
                      ELSE CopyIn(obuf, wp, from, 8 * Chunks(wp, cpy))
           /\ written' = Max({written, IF nearEnd THEN cpy
                                       ELSE wp + 8 * Chunks(wp, cpy)})
           /\ IF last
              THEN /\ rp' = from + length /\ dpc' = "end"
                   /\ dret' = IF safe THEN cpy - mode.dst ELSE rp'
                   /\ readTo' = Max({readTo, rp'})
                   /\ UNCHANGED << mlen, offset >>
              ELSE /\ offset' = LE16(from + length)
                   /\ mlen' = In(rp) % 16
                   /\ rp' = from + length + 2 /\ dpc' = "match"
                   /\ readTo' = Max({readTo, rp',
                           IF nearEnd THEN 0 ELSE from + 8 * Chunks(wp, cpy)})
                   /\ UNCHANGED dret
  BY Zenon DEF PutLiterals
<1>2. BlockMode(c, n) /\ Begins(c) /\ mode.dst = 0
  BY DEF OnTrack, BlockMode
<1>3. /\ outEnd \in Nat /\ outEnd = mode.outputSize /\ L \in Nat /\ C \in Nat /\ L <= C
      /\ inEnd = IF safe THEN L ELSE 0
      /\ ~safe => ~mode.partial /\ outEnd = n /\ cin = c
      /\ mode.partial => safe /\ cin = c /\ outEnd <= n
      /\ cin # c => safe /\ ~mode.partial /\ outEnd = n /\ L < C
      /\ cin = c => L = C
  BY <1>2, ModeIs DEF L, C
<1>4. /\ written \in Int /\ readTo \in Int /\ written <= outEnd
      /\ safe \/ Kept(a, n) => readTo <= L
  BY DEF OnTrack, L
<1>5. /\ e \in Nat /\ a \in Nat /\ n \in Nat /\ a <= n
      /\ Literally(c, r, e, a, d) /\ C = e + 1 + Extras(d) + d
  BY DEF Tells, OffsetAt, C
<1>6. /\ d \in Nat /\ n = wp + d /\ wp \in Nat /\ rp \in Nat
      /\ from \in Nat /\ C = from + d /\ wp <= outEnd /\ rp < L /\ from <= L
  <2>1. d \in Nat
    BY <1>5
  <2>2. Extras(d) \in Nat
    BY <2>1, ExtrasAre
  <2> DEFINE x == Extras(d)
  <2>3. x \in Nat /\ from = rp + 1 + x /\ C = e + 1 + x + d /\ n = a + d
    BY <1>5, <2>2
  <2>4. rp < L /\ from <= L
    OBVIOUS
  <2> HIDE DEF d, x, from, L, C
  <2> QED BY <1>5, <2>1, <2>3, <2>4
<1>7. BlockMode(c, n)' /\ outEnd' = outEnd /\ safe' = safe
  BY <1>2, ModeStays
<1>8. nearEnd
  <2> HIDE DEF from, L, C
  <2>1. CASE safe
    <3>1. from + d > inEnd - (2 + 1 + LastLits)
      BY <1>3, <1>6, <2>1 DEF LastLits
    <3> QED BY <2>1, <3>1
  <2>2. CASE ~safe
    <3>1. wp + d > outEnd - 8
      BY <1>3, <1>6, <2>2
    <3> QED BY <2>2, <3>1
  <2> QED BY <2>1, <2>2
<1>9. IF mode.partial THEN length = outEnd - wp ELSE length = d
  <2>1. CASE mode.partial
    <3>1. outEnd - wp \in Nat /\ outEnd - wp <= d
      BY <1>3, <1>6, <2>1
    <3> DEFINE T == {d, outEnd - wp}
    <3>2. Min(T) \in T /\ \A y \in T : Min(T) <= y
      <4>1. T \subseteq Nat /\ T # {}
        BY <1>6, <3>1
      <4> QED BY <4>1, LeastTaken
    <3>3. length = Min(T)
      BY <1>8, <2>1
    <3> HIDE DEF T, length, nearEnd, d
    <3>4. Min(T) = outEnd - wp
      <4>1. Min(T) \in {d, outEnd - wp} /\ Min(T) <= outEnd - wp
        BY <3>2 DEF T
      <4> QED BY <1>6, <3>1, <4>1
    <3> QED BY <2>1, <3>3, <3>4
  <2>2. CASE ~mode.partial
    BY <1>8, <2>2
  <2> QED BY <2>1, <2>2
<1> HIDE DEF length, nearEnd, d
<1>10. /\ length \in Nat /\ length <= d /\ cpy \in Nat /\ cpy = wp + length
       /\ mode.partial => cpy = outEnd
       /\ ~mode.partial => cpy = n
  BY <1>3, <1>6, <1>9
<1>11. last
  BY <1>8, <1>10
<1> HIDE DEF from, cpy, L, C
<1>12. CASE bad
  <2>1. ~(Gives(c, n) /\ Kept(a, n))
    <3> SUFFICES ASSUME cin = c, mode.partial \/ mode.outputSize >= n PROVE FALSE
      BY DEF Gives
    <3>1. Misplaced(from + length, cpy)
      BY <1>12
    <3>2. from + length <= L /\ (~mode.partial => from + length = L)
      BY <1>3, <1>6, <1>9, <1>10
    <3> QED BY <1>3, <1>6, <1>10, <3>1, <3>2 DEF Misplaced
  <2>2. Fail(from) /\ readTo' = Max({readTo, from}) /\ written' = written
    BY <1>1, <1>12
  <2>3. RefusesAt(from)
    BY <1>4, <1>6, <2>2 DEF RefusesAt, L
  <2> QED BY <1>5, <2>1, <2>3, RefusedTracks
<1>13. CASE ~bad
  <2>1. /\ wp' = cpy /\ obuf' = CopyIn(obuf, wp, from, length)
        /\ written' = Max({written, cpy})
        /\ rp' = from + length /\ dpc' = "end"
        /\ dret' = IF safe THEN cpy - mode.dst ELSE from + length
        /\ readTo' = Max({readTo, from + length})
    BY <1>1, <1>8, <1>11, <1>13
  <2>2. from + length \in Nat /\ cpy <= outEnd /\ from + length <= L
        /\ (~mode.partial => from + d = L)
    <3>1. ~Misplaced(from + length, cpy)
      BY <1>8, <1>13 DEF bad
    <3> QED BY <1>3, <1>6, <1>9, <1>10, <3>1 DEF Misplaced
  <2>3. cin = c /\ L = C
    BY <1>3, <1>6, <2>2
  <2>4. written' \in Int /\ written' <= outEnd /\ readTo' \in Int
        /\ (safe \/ Kept(a, n) => readTo' <= L)
    <3>1. written' \in {written, cpy} /\ readTo' \in {readTo, from + length}
      BY <1>4, <1>10, <2>1, <2>2, TwoMax
    <3> QED BY <1>3, <1>4, <1>10, <2>2, <3>1
  <2>5. dret' = IF ~safe THEN L ELSE IF mode.partial THEN mode.outputSize ELSE n
    BY <1>2, <1>3, <1>6, <1>9, <1>10, <2>1, <2>2
  <2>6. Starts(obuf', r, outEnd, cpy, outEnd)
    <3>1. from = rp + 1 + Extras(d) /\ from \in Nat
      BY <1>6 DEF from
    <3>2. length \in Nat /\ length \in Int /\ length <= d /\ length <= length /\ from + length <= Len(cin)
          /\ d \in Nat /\ rp \in Nat /\ wp \in Nat /\ outEnd \in Nat
      BY <1>3, <1>6, <1>10, <2>2 DEF L
    <3>3. Literally(c, r, rp, wp, d)
      BY <1>5
    <3>4. Starts(CopyIn(obuf, wp, from, length), r, outEnd, wp + length, outEnd)
      BY <1>2, <3>1, <3>2, <3>3, LiteralsCopied
    <3> QED BY <1>10, <2>1, <3>4
  <2>7. outEnd < n \/ cpy = n \/ mode.partial
    BY <1>10
  <2>8. \A k \in 0 .. outEnd - 1 : k < n => obuf'[k] = r[k]
    <3> SUFFICES ASSUME NEW k \in 0 .. outEnd - 1, k < n PROVE obuf'[k] = r[k]
      OBVIOUS
    <3>1. k \in 0 .. cpy - 1 /\ k < outEnd
      BY <1>3, <1>6, <1>10
    <3> QED BY <2>6, <3>1 DEF Starts, Like
  <2>9. ~mode.partial => mode.outputSize >= n
    BY <1>3, <1>6, <1>10, <2>2
  <2>10. Answers(c, r, a, n)'
    <3>1. mode.outputSize < n => mode.partial
      BY <1>3, <1>6, <2>9
    <3>2. dret' = IF ~safe' THEN Len(cin') ELSE IF mode'.partial THEN mode'.outputSize ELSE n
      BY <1>7, <2>5 DEF L
    <3> QED BY <1>7, <2>3, <2>8, <3>1, <3>2 DEF Answers
  <2> QED BY <1>7, <2>1, <2>4, <2>10 DEF OnTrack, L
<1> QED BY <1>12, <1>13

-----------------------------------------------------------------------------
(* The literals of a sequence.                                             *)
Meets(c, r, z, q) ==
    /\ Sequence(c, r, z.at, z.from, q)
    /\ In(rp) % 16 = Nibble(q.len - 4)
    /\ rp = z.at /\ wp = z.from /\ wp <= outEnd /\ rp < Len(cin)
    /\ Starts(obuf, r, outEnd, wp, outEnd)
    /\ rp + 1 + Extras(q.lits) <= Len(cin)
Early(a, n, z, q) == Kept(a, n) => z.from + q.lits + MFLimit <= n

LEMMA SequenceTracks ==
    ASSUME NEW M, NEW c, NEW r, NEW e, NEW a, NEW n, Tells(M, c, r, e, a, n),
           OnTrack(M, c, r, a, n), NEW z \in M, NEW q, Meets(c, r, z, q),
           NextMark(z, q) \in M, Early(a, n, z, q), UNCHANGED << cin, mode >>,
           PutLiterals(rp + 1 + Extras(q.lits), q.lits)
    PROVE  OnTrack(M, c, r, a, n)'
<1> DEFINE d == q.lits
           v == q.len
           w == q.off
           x == Extras(q.len - 4)
           from == rp + 1 + Extras(d)
           nearEnd == IF safe THEN \/ wp + d > outEnd - MFLimit
                                   \/ from + d > inEnd - (2 + 1 + LastLits)
                              ELSE wp + d > outEnd - 8
           length == IF nearEnd /\ mode.partial THEN Min({d, outEnd - wp}) ELSE d
           cpy == wp + length
           bad == nearEnd /\ Misplaced(from + length, cpy)
           last == nearEnd /\ (~mode.partial \/ cpy = outEnd)
           L == Len(cin)
           C == Len(c)
<1>1. IF bad
      THEN /\ Fail(from) /\ readTo' = Max({readTo, from})
           /\ UNCHANGED << rp, wp, obuf, written, mlen, offset >>
      ELSE /\ wp' = cpy
           /\ obuf' = IF nearEnd THEN CopyIn(obuf, wp, from, length)
                      ELSE CopyIn(obuf, wp, from, 8 * Chunks(wp, cpy))
           /\ written' = Max({written, IF nearEnd THEN cpy
                                       ELSE wp + 8 * Chunks(wp, cpy)})
           /\ IF last
              THEN /\ rp' = from + length /\ dpc' = "end"
                   /\ dret' = IF safe THEN cpy - mode.dst ELSE rp'
                   /\ readTo' = Max({readTo, rp'})
                   /\ UNCHANGED << mlen, offset >>
              ELSE /\ offset' = LE16(from + length)
                   /\ mlen' = In(rp) % 16
                   /\ rp' = from + length + 2 /\ dpc' = "match"
                   /\ readTo' = Max({readTo, rp',
                           IF nearEnd THEN 0 ELSE from + 8 * Chunks(wp, cpy)})
                   /\ UNCHANGED dret
  BY Zenon DEF PutLiterals
<1>2. BlockMode(c, n) /\ Begins(c) /\ mode.dst = 0
  BY DEF OnTrack, BlockMode
<1>3. /\ outEnd \in Nat /\ outEnd = mode.outputSize /\ L \in Nat /\ C \in Nat /\ L <= C
      /\ inEnd = IF safe THEN L ELSE 0
      /\ ~safe => ~mode.partial /\ outEnd = n /\ cin = c
      /\ mode.partial => safe /\ cin = c /\ outEnd <= n
      /\ cin # c => safe /\ ~mode.partial /\ outEnd = n /\ L < C
      /\ cin = c => L = C
  BY <1>2, ModeIs DEF L, C
<1>4. /\ written \in Int /\ readTo \in Int /\ written <= outEnd
      /\ safe \/ Kept(a, n) => readTo <= L
  BY DEF OnTrack, L
<1>5. /\ rp \in Nat /\ wp \in Nat /\ e \in Nat /\ a \in Nat /\ n \in Nat
      /\ d \in Nat /\ v \in Nat /\ v >= 4 /\ w \in 1 .. wp + d
      /\ x \in Nat /\ from \in Nat /\ from + d = OffsetAt(rp, d)
      /\ from + d + 2 + x <= e /\ wp + d + v <= a
      /\ e + 1 <= C /\ a <= n /\ (Kept(a, n) => e + 6 <= C)
      /\ wp <= outEnd /\ rp < L /\ from <= L
      /\ Kept(a, n) => wp + d + 12 <= n
  <2>1. /\ rp \in Nat /\ wp \in Nat /\ e \in Nat /\ a \in Nat /\ n \in Nat
        /\ d \in Nat /\ v \in Nat /\ v >= 4 /\ w \in 1 .. wp + d
        /\ Extras(d) \in Nat /\ x \in Nat /\ OffsetAt(rp, d) \in Nat
        /\ OffsetAt(rp, d) = rp + 1 + Extras(d) + d
        /\ OffsetAt(rp, d) + 2 + x <= e /\ wp + d + v <= a
        /\ e + 1 <= C /\ a <= n /\ (Kept(a, n) => e + 6 <= C)
    BY SequenceIs DEF Meets
  <2>2. wp <= outEnd /\ rp < L /\ from <= L /\ from = rp + 1 + Extras(d)
    BY DEF Meets
  <2>3. Kept(a, n) => wp + d + 12 <= n
    BY DEF MFLimit, Early, Meets
  <2> DEFINE y == OffsetAt(rp, d)
             g == Extras(d)
  <2> HIDE DEF d, v, w, x, L, C, y, g, from
  <2>4. from \in Nat /\ from + d = y
    BY <2>1, <2>2 DEF y, g
  <2> QED BY <2>1, <2>2, <2>3, <2>4 DEF y
<1>6. BlockMode(c, n)' /\ outEnd' = outEnd /\ safe' = safe
  BY <1>2, ModeStays
<1>7. Literally(c, r, rp, wp, d)
  <2>1. Sequence(c, r, rp, wp, q)
    BY DEF Meets
  <2> QED BY <2>1, Zenon DEF Sequence
<1>8. from = rp + 1 + Extras(d)
  OBVIOUS
<1>9. mode.partial \/ length = d
  OBVIOUS
<1> HIDE DEF d, v, w, x, from, L, C
<1>10. length \in Int /\ length <= d /\ (length = d \/ (nearEnd /\ mode.partial /\ length = outEnd - wp))
       /\ length \in Nat /\ (nearEnd /\ mode.partial => length <= outEnd - wp)
  <2>1. CASE nearEnd /\ mode.partial
    <3> DEFINE T == {d, outEnd - wp}
    <3>1. d \in Nat /\ outEnd - wp \in Nat
      BY <1>3, <1>5
    <3>2. Min(T) \in T /\ \A y \in T : Min(T) <= y
      <4>1. T \subseteq Nat /\ T # {}
        BY <3>1
      <4> QED BY <4>1, LeastTaken
    <3>3. length = Min(T)
      BY <2>1
    <3> HIDE DEF length, nearEnd
    <3>4. length \in {d, outEnd - wp} /\ length <= d /\ length <= outEnd - wp
      BY <3>2, <3>3
    <3>5. length \in Nat /\ length \in Int
      BY <3>1, <3>4
    <3> QED BY <2>1, <3>4, <3>5, Zenon
  <2>2. CASE ~(nearEnd /\ mode.partial)
    <3>1. length = d
      BY <2>2
    <3> HIDE DEF length, nearEnd
    <3>2. length \in Int /\ length <= d /\ length \in Nat
      BY <1>5, <3>1
    <3> QED BY <2>2, <3>1, <3>2, Zenon
  <2> QED BY <2>1, <2>2
<1>11. /\ safe /\ ~nearEnd => wp + d + 12 <= outEnd /\ from + d + 8 <= L
       /\ ~safe /\ ~nearEnd => wp + d + 8 <= outEnd
       /\ safe /\ wp + d + 12 <= outEnd /\ from + d + 8 <= L => ~nearEnd
       /\ ~safe /\ wp + d + 8 <= outEnd => ~nearEnd
  <2>1. CASE safe
    <3>1. nearEnd <=> wp + d > outEnd - 12 \/ from + d > L - 8
      BY <1>3, <2>1 DEF MFLimit, LastLits
    <3> HIDE DEF nearEnd, length
    <3> QED BY <1>3, <1>5, <2>1, <3>1
  <2>2. CASE ~safe
    <3>1. nearEnd <=> wp + d > outEnd - 8
      BY <2>2
    <3> HIDE DEF nearEnd, length
    <3> QED BY <1>3, <1>5, <2>2, <3>1
  <2> QED BY <2>1, <2>2
<1> HIDE DEF length, nearEnd
<1>12. cpy \in Nat /\ cpy = wp + length
  BY <1>5, <1>10
<1> HIDE DEF cpy
<1>13. ASSUME Gives(c, n), Kept(a, n), nearEnd PROVE mode.partial
  <2>1. cin = c /\ (mode.partial \/ outEnd >= n) /\ L = C
    BY <1>3, <1>13 DEF Gives
  <2> QED BY <1>3, <1>5, <1>11, <1>13, <2>1
<1>19. Starts(obuf, r, outEnd, wp, outEnd)
  BY DEF Meets
<1>15. CASE bad
  <2>1. ~(Gives(c, n) /\ Kept(a, n))
    <3> SUFFICES ASSUME Gives(c, n), Kept(a, n) PROVE FALSE
      OBVIOUS
    <3>1. Misplaced(from + length, cpy) /\ mode.partial /\ cin = c
      BY <1>13, <1>15 DEF Gives
    <3>2. from + length > L
      BY <1>3, <3>1 DEF Misplaced
    <3> QED BY <1>3, <1>5, <1>10, <3>1, <3>2
  <2>2. Fail(from) /\ readTo' = Max({readTo, from}) /\ written' = written
    BY <1>1, <1>15
  <2>3. RefusesAt(from)
    BY <1>4, <1>5, <2>2 DEF RefusesAt, L
  <2> QED BY <1>5, <2>1, <2>3, RefusedTracks
<1>16. ASSUME NEW m \in Int, length <= m, from + length <= L
       PROVE  Starts(CopyIn(obuf, wp, from, m), r, outEnd, cpy, outEnd)
  <2>1. /\ from \in Nat /\ length \in Nat /\ length <= d /\ length <= m
        /\ from + length <= Len(cin) /\ d \in Nat /\ rp \in Nat /\ wp \in Nat /\ outEnd \in Nat
    BY <1>3, <1>5, <1>10, <1>16 DEF L
  <2>2. Starts(CopyIn(obuf, wp, from, m), r, outEnd, wp + length, outEnd)
    BY <1>2, <1>7, <1>8, <1>19, <2>1, LiteralsCopied
  <2> QED BY <1>12, <2>2
<1>17. CASE ~bad /\ last
  <2>1. /\ wp' = cpy /\ obuf' = CopyIn(obuf, wp, from, length)
        /\ written' = Max({written, cpy})
        /\ rp' = from + length /\ dpc' = "end"
        /\ dret' = IF safe THEN cpy - mode.dst ELSE from + length
        /\ readTo' = Max({readTo, from + length}) /\ nearEnd
    BY <1>1, <1>17
  <2>2. CASE mode.partial
    <3>1. cpy = outEnd /\ cin = c /\ safe /\ outEnd <= n /\ L = C
      BY <1>3, <1>17, <2>2
    <3>2. from + length <= L /\ from + length \in Nat
      BY <1>3, <1>5, <1>10, <3>1
    <3>3. written' \in Int /\ written' <= outEnd /\ readTo' \in Int
          /\ (safe \/ Kept(a, n) => readTo' <= L)
      <4>1. written' \in {written, cpy} /\ readTo' \in {readTo, from + length}
        BY <1>4, <1>12, <2>1, <3>2, TwoMax
      <4> QED BY <1>3, <1>4, <1>12, <3>1, <3>2, <4>1
    <3>4. dret' = mode.outputSize
      BY <1>2, <1>3, <1>12, <2>1, <3>1
    <3>5. Starts(obuf', r, outEnd, outEnd, outEnd)
      BY <1>10, <1>16, <2>1, <3>1, <3>2
    <3>6. \A k \in 0 .. outEnd - 1 : obuf'[k] = r[k]
      BY <1>3, <3>5 DEF Starts, Like
    <3>7. Answers(c, r, a, n)'
      BY <1>6, <2>2, <3>1, <3>4, <3>6 DEF Answers
    <3> QED BY <1>6, <2>1, <3>3, <3>7 DEF OnTrack, L
  <2>3. CASE ~mode.partial
    <3>1. ~Misplaced(from + length, cpy) /\ length = d
      BY <1>9, <1>17, <2>1, <2>3 DEF bad
    <3>2. safe /\ from + length = L /\ cpy <= outEnd
      <4>1. CASE safe
        BY <1>3, <1>5, <1>12, <2>3, <3>1, <4>1 DEF Misplaced
      <4>2. CASE ~safe
        <5>1. cpy = outEnd /\ outEnd = n
          BY <1>3, <2>3, <3>1, <4>2 DEF Misplaced
        <5> QED BY <1>5, <1>12, <3>1, <5>1
      <4> QED BY <4>1, <4>2
    <3>3. cin # c /\ outEnd = n /\ cpy < n
      BY <1>3, <1>5, <1>12, <3>1, <3>2
    <3>4. written' \in Int /\ written' <= outEnd /\ readTo' \in Int
          /\ (safe \/ Kept(a, n) => readTo' <= L)
      <4>1. written' \in {written, cpy} /\ readTo' \in {readTo, from + length}
        BY <1>3, <1>4, <1>12, <2>1, <3>2, TwoMax
      <4> QED BY <1>3, <1>4, <1>12, <3>2, <4>1
    <3>5. dret' = cpy
      BY <1>2, <1>12, <2>1, <3>2
    <3>6. Starts(obuf', r, outEnd, cpy, outEnd)
      BY <1>3, <1>10, <1>16, <2>1, <3>2
    <3>7. \A k \in Nat : k < cpy => obuf'[k] = r[k]
      <4> SUFFICES ASSUME NEW k \in Nat, k < cpy PROVE obuf'[k] = r[k]
        OBVIOUS
      <4>1. k \in 0 .. cpy - 1 /\ k < outEnd
        BY <1>3, <1>12, <3>2
      <4> QED BY <3>6, <4>1 DEF Starts, Like
    <3>8. Answers(c, r, a, n)'
      <4>1. ~(cin' = c) /\ ~(mode'.outputSize < n) /\ dret' \in Int /\ dret' < n
        BY <1>3, <1>5, <1>12, <3>3, <3>5
      <4>2. \A k \in Nat : k < dret' => obuf'[k] = r[k]
        BY <3>5, <3>7
      <4> QED BY <4>1, <4>2 DEF Answers, Gives
    <3> QED BY <1>6, <2>1, <3>4, <3>8 DEF OnTrack, L
  <2> QED BY <2>2, <2>3
<1>18. CASE ~bad /\ ~last
  <2> DEFINE k == IF nearEnd THEN length ELSE 8 * Chunks(wp, cpy)
             g == from + length
             rd == IF nearEnd THEN 0 ELSE from + 8 * Chunks(wp, cpy)
             wr == IF nearEnd THEN cpy ELSE wp + 8 * Chunks(wp, cpy)
  <2>1. /\ wp' = cpy /\ obuf' = CopyIn(obuf, wp, from, k)
        /\ written' = Max({written, wr})
        /\ offset' = LE16(g) /\ mlen' = In(rp) % 16
        /\ rp' = g + 2 /\ dpc' = "match"
        /\ readTo' = Max({readTo, g + 2, rd})
    BY <1>1, <1>18
  <2>2. nearEnd => mode.partial /\ cpy # outEnd
    BY <1>18
  <2>3. length = d
    BY <1>3, <1>5, <1>10, <1>12, <2>2
  <2>4. g = OffsetAt(rp, d) /\ g \in Nat /\ g = from + d /\ cpy = wp + d
    BY <1>5, <1>12, <2>3
  <2>5. g + 2 < L /\ cpy <= outEnd /\ (~mode.partial => cpy + 8 <= outEnd)
    <3>1. CASE nearEnd
      <4>1. L = C /\ mode.partial
        BY <1>3, <2>2, <3>1
      <4>2. cpy <= outEnd
        BY <1>3, <1>5, <1>10, <1>12, <3>1, <4>1
      <4> HIDE DEF g, k, rd, wr
      <4>3. g + 2 < L
        BY <1>3, <1>5, <2>4, <4>1
      <4> QED BY <4>1, <4>2, <4>3
    <3>2. CASE ~nearEnd /\ safe
      BY <1>3, <1>5, <1>11, <2>4, <3>2
    <3>3. CASE ~nearEnd /\ ~safe
      BY <1>3, <1>5, <1>11, <2>4, <3>3
    <3> QED BY <3>1, <3>2, <3>3
  <2> DEFINE more == 8 * Chunks(wp, cpy)
  <2>6. /\ more \in Int /\ 8 <= more /\ cpy <= wp + more
        /\ wp + more <= IF cpy <= wp THEN wp + 8 ELSE cpy + 7
    <3>1. wp \in Int /\ cpy \in Int
      BY <1>5, <1>12
    <3> QED BY ONLY <3>1, ChunksAre, ChunksCover
  <2>7. /\ k = IF nearEnd THEN length ELSE more
        /\ rd = IF nearEnd THEN 0 ELSE from + more
        /\ wr = IF nearEnd THEN cpy ELSE wp + more
    OBVIOUS
  <2> HIDE DEF more, k, rd, wr, g
  <2>8. k \in Int /\ length <= k
    BY <1>5, <1>12, <2>3, <2>4, <2>6, <2>7
  <2>9. wr \in Int /\ wr <= outEnd
    <3>1. CASE nearEnd
      BY <1>3, <1>12, <2>5, <2>7, <3>1
    <3>2. CASE ~nearEnd
      <4>1. cpy + 8 <= outEnd
        <5>1. CASE safe
          BY <1>3, <1>5, <1>11, <2>4, <3>2, <5>1
        <5>2. CASE ~safe
          BY <1>3, <1>5, <1>11, <2>4, <3>2, <5>2
        <5> QED BY <5>1, <5>2
      <4> QED BY <1>3, <1>5, <1>12, <2>4, <2>6, <2>7, <3>2, <4>1
    <3> QED BY <3>1, <3>2
  <2>10. rd \in Int /\ (safe \/ Kept(a, n) => rd <= L)
    <3>1. CASE nearEnd
      BY <1>3, <2>7, <3>1
    <3>2. CASE ~nearEnd
      <4>1. rd \in Int /\ rd <= from + d + 8
        BY <1>5, <1>12, <2>4, <2>6, <2>7, <3>2
      <4>2. safe \/ Kept(a, n) => from + d + 8 <= L
        <5>1. CASE safe
          BY <1>3, <1>5, <1>11, <3>2, <5>1
        <5>2. CASE ~safe
          BY <1>3, <1>5, <5>2
        <5> QED BY <5>1, <5>2
      <4> QED BY <1>3, <1>5, <4>1, <4>2
    <3> QED BY <3>1, <3>2
  <2>11. written' \in Int /\ written' <= outEnd
    BY <1>3, <1>4, <2>1, <2>9, TwoMax
  <2>12. readTo' \in Int /\ (safe \/ Kept(a, n) => readTo' <= L)
    <3>1. g + 2 \in Int
      BY <2>4
    <3>2. readTo' \in {readTo, g + 2, rd}
      BY <1>4, <2>1, <2>10, <3>1, ThreeMax
    <3> QED BY <1>3, <1>4, <2>5, <2>10, <3>1, <3>2
  <2>13. Starts(obuf', r, outEnd, cpy, outEnd)
    <3>1. from + length <= L
      BY <1>3, <1>5, <2>3, <2>4, <2>5
    <3> QED BY <1>16, <2>1, <2>8, <3>1
  <2>14. LE16(g) = w
    <3>1. Sequence(c, r, rp, wp, q)
      BY DEF Meets
    <3>2. g = OffsetAt(rp, q.lits) /\ g \in Nat /\ g + 2 <= Len(cin)
      BY <1>3, <2>4, <2>5 DEF d, L
    <3> QED BY <1>2, <1>5, <3>1, <3>2, OffsetTold DEF w
  <2>15. AtCopy(M, c, r, a, n)'
    <3>1. /\ rp' = OffsetAt(z.at, q.lits) + 2 /\ wp' = z.from + q.lits
          /\ mlen' = Nibble(q.len - 4) /\ offset' = q.off
      <4>1. rp = z.at /\ wp = z.from /\ In(rp) % 16 = Nibble(q.len - 4)
        BY DEF Meets
      <4> QED BY <2>1, <2>4, <2>14, <4>1 DEF d, w
    <3>2. /\ rp' < Len(cin') /\ wp' <= outEnd' /\ (~mode'.partial => wp' + 8 <= outEnd')
          /\ Starts(obuf', r, outEnd', wp', outEnd')
      BY <1>6, <2>1, <2>5, <2>13 DEF L
    <3>3. /\ Sequence(c, r, z.at, z.from, q) /\ NextMark(z, q) \in M
          /\ Kept(a, n) => z.from + q.lits + MFLimit <= n
      BY DEF Meets, Early
    <3> QED BY <3>1, <3>2, <3>3 DEF AtCopy
  <2> QED BY <1>6, <2>1, <2>11, <2>12, <2>15 DEF OnTrack, L
<1> QED BY <1>15, <1>17, <1>18

-----------------------------------------------------------------------------
LEMMA LiteralsTrack ==
    ASSUME NEW M, NEW c, NEW r, NEW e, NEW a, NEW n, Tells(M, c, r, e, a, n),
           OnTrack(M, c, r, a, n), Literals
    PROVE  OnTrack(M, c, r, a, n)'
<1>1. dpc = "token" /\ UNCHANGED << cin, mode >>
  BY DEF Literals
<1>2. BlockMode(c, n) /\ Begins(c) /\ written \in Int /\ written <= outEnd
  BY DEF OnTrack, BlockMode
<1>3. PICK z \in M : /\ rp = z.at /\ wp = z.from /\ rp < Len(cin) /\ wp <= outEnd
                     /\ Starts(obuf, r, outEnd, wp, outEnd)
  BY <1>1 DEF OnTrack, AtMark
<1> DEFINE Ended == /\ z.at = e /\ z.from = a
                    /\ In(z.at) \div 16 = Nibble(n - a)
                    /\ Len(c) = e + 1 + Extras(n - a) + (n - a)
           Told1(q) == /\ Sequence(c, r, z.at, z.from, q) /\ NextMark(z, q) \in M
                       /\ Kept(a, n) => z.from + q.lits + MFLimit <= n
                       /\ In(z.at) \div 16 = Nibble(q.lits)
                       /\ In(z.at) % 16 = Nibble(q.len - 4)
<1>4. /\ rp \in Nat /\ wp \in Nat /\ e \in Nat /\ a \in Nat /\ n \in Nat /\ a <= n
      /\ Ended \/ \E q : Told1(q)
  BY <1>2, <1>3, MarkIs
<1>5. ASSUME cin # c, NEW pos, RefusesAt(pos) PROVE OnTrack(M, c, r, a, n)'
  BY <1>4, <1>5, RefusedTracks DEF Gives
<1>6. CASE Ended
  <2> DEFINE d == n - a
  <2>1. d \in Nat /\ In(rp) \div 16 = Nibble(d) /\ Extended(c, rp + 1, d)
    BY <1>3, <1>4, <1>6 DEF Tells, Literally
  <2>2. rp + 1 + Extras(d) + d <= Len(c)
    <3>1. Extras(d) \in Nat
      BY <2>1, ExtrasAre
    <3>2. Len(c) = e + 1 + Extras(d) + d /\ rp = e
      BY <1>3, <1>6
    <3> HIDE DEF d
    <3> QED BY <1>4, <2>1, <3>1, <3>2
  <2>3. \/ cin # c /\ \E pos : RefusesAt(pos)
        \/ /\ UNCHANGED << cin, mode >> /\ PutLiterals(rp + 1 + Extras(d), d)
           /\ rp + 1 + Extras(d) <= Len(cin)
    <3> HIDE DEF d
    <3> QED BY <1>2, <1>3, <1>4, <2>1, <2>2, LiteralsTold
  <2>4. CASE PutLiterals(rp + 1 + Extras(d), d) /\ rp + 1 + Extras(d) <= Len(cin)
    <3>1. rp = e /\ wp = a
      BY <1>3, <1>6
    <3> QED BY <1>1, <1>3, <2>4, <3>1, LastTracks
  <2> QED BY <1>5, <2>3, <2>4
<1>7. ASSUME NEW q, Told1(q) PROVE OnTrack(M, c, r, a, n)'
  <2> DEFINE d == q.lits
  <2>1. Sequence(c, r, rp, wp, q) /\ In(rp) \div 16 = Nibble(d)
    BY <1>3, <1>7
  <2>2. d \in Nat /\ Extended(c, rp + 1, d)
    BY <2>1 DEF Sequence, Literally
  <2>3. rp + 1 + Extras(d) + d <= Len(c)
    <3> DEFINE o == OffsetAt(rp, d)
               x == Extras(q.len - 4)
               C == Len(c)
    <3>1. /\ o = rp + 1 + Extras(d) + d /\ o \in Nat /\ x \in Nat /\ o + 2 + x <= e
          /\ e + 1 <= C /\ C \in Nat
      BY <1>3, <1>7, SequenceIs
    <3> HIDE DEF o, x, d, C
    <3>2. o <= C
      BY <1>4, <3>1
    <3> QED BY <3>1, <3>2 DEF C
  <2>4. \/ cin # c /\ \E pos : RefusesAt(pos)
        \/ /\ UNCHANGED << cin, mode >> /\ PutLiterals(rp + 1 + Extras(d), d)
           /\ rp + 1 + Extras(d) <= Len(cin)
    <3> HIDE DEF d
    <3> QED BY <1>2, <1>3, <1>4, <2>1, <2>2, <2>3, LiteralsTold
  <2>5. CASE PutLiterals(rp + 1 + Extras(d), d) /\ rp + 1 + Extras(d) <= Len(cin)
    <3>1. Meets(c, r, z, q) /\ Early(a, n, z, q)
      BY <1>3, <1>7, <2>5 DEF Meets, Early
    <3> QED BY <1>1, <1>7, <2>5, <3>1, SequenceTracks
  <2> QED BY <1>5, <2>4, <2>5
<1> QED BY <1>4, <1>6, <1>7

(* Copies of a match behind its first eight bytes, in both ways the code   *)
(* has.                                                                    *)
LEMMA WildCopyLike ==
    ASSUME NEW b, NEW T, NEW N \in Nat, NEW e \in Nat, NEW d \in Nat, NEW s \in Nat,
           NEW f \in Nat, e <= N, s + 8 <= d, Starts(b, T, N, d, e),
           Repeats(T, d, e, d - s)
    PROVE  Starts(WildCopy(b, d, s, f), T, N, f, e)
<1> DEFINE k == 8 * Chunks(d, f)
<1>1. k \in Int /\ f <= d + k
  <2>1. d \in Int /\ f \in Int
    OBVIOUS
  <2> QED BY <2>1, ChunksCover
<1>2. WildCopy(b, d, s, f) = CopyBytes(b, d, s, k)
  <2>1. d - s >= 8
    OBVIOUS
  <2> QED BY <2>1 DEF WildCopy
<1> HIDE DEF k
<1> DEFINE w == CopyBytes(b, d, s, k)
<1>3. DOMAIN w = 0 .. N - 1 /\ Like(w, T, d + k, e)
  <2>1. /\ s < d /\ k \in Int /\ N \in Nat /\ e \in Nat /\ d \in Nat /\ s \in Nat
        /\ DOMAIN b = 0 .. N - 1 /\ e <= N /\ Like(b, T, d, e) /\ Repeats(T, d, e, d - s)
    BY <1>1 DEF Starts
  <2> QED BY ONLY <2>1, CopyBytesLike, ZenonT(30)
<1> HIDE DEF w
<1>4. Like(w, T, f, e)
  BY <1>1, <1>3, LikeLess
<1> QED BY <1>2, <1>3, <1>4 DEF Starts, w

LEMMA RoomyLike ==
    ASSUME NEW b, NEW T, NEW N \in Nat, NEW e \in Nat, NEW d \in Nat, NEW s \in Nat,
           e <= N, s + 8 <= d, Starts(b, T, N, d, e), Repeats(T, d, e, d - s),
           NEW length \in Nat, e = d - 8 + length
    PROVE  LET w == CopyOut(b, d, s, 8)
           IN  Starts(IF length > 16 THEN WildCopy(w, d + 8, s + 8, e) ELSE w, T, N, e, e)
<1> DEFINE w == CopyOut(b, d, s, 8)
           d8 == d + 8
           s8 == s + 8
<1>1. DOMAIN w = 0 .. N - 1 /\ Like(w, T, d + 8, e)
  <2>1. DOMAIN b = 0 .. N - 1 /\ Like(b, T, d, e) /\ 8 \in Nat
    BY DEF Starts
  <2> QED BY <2>1, CopyOutLike
<1> HIDE DEF w
<1>2. d8 \in Nat /\ s8 \in Nat /\ s8 + 8 <= d8 /\ d8 - s8 = d - s /\ d <= d8
      /\ d8 \in Int /\ d \in Int
  OBVIOUS
<1>3. Starts(w, T, N, d8, e)
  BY <1>1 DEF Starts
<1> HIDE DEF d8, s8
<1>4. Repeats(T, d8, e, d8 - s8)
  BY <1>2, RepeatsLess
<1>5. CASE length > 16
  <2>1. Starts(WildCopy(w, d8, s8, e), T, N, e, e)
    BY <1>2, <1>3, <1>4, WildCopyLike
  <2> QED BY <1>5, <2>1 DEF w, d8, s8
<1>6. CASE ~(length > 16)
  <2>1. e <= d8 /\ e \in Int
    BY <1>6 DEF d8
  <2>2. Like(w, T, e, e)
    BY <1>2, <1>3, <2>1, LikeLess DEF Starts
  <2> QED BY <1>3, <1>6, <2>2 DEF Starts, w
<1> QED BY <1>5, <1>6

LEMMA TailedLike ==
    ASSUME NEW b, NEW T, NEW N \in Nat, NEW e \in Nat, NEW d \in Nat, NEW s \in Nat,
           e <= N, s + 8 <= d, Starts(b, T, N, d, e), Repeats(T, d, e, d - s),
           NEW limit \in Int
    PROVE  LET eights == Max({d, limit})
           IN  Starts(CopyBytes(IF d < limit THEN WildCopy(b, d, s, limit) ELSE b,
                                eights, s + (eights - d), Max({0, e - eights})), T, N, e, e)
<1> DEFINE eights == Max({d, limit})
           w == IF d < limit THEN WildCopy(b, d, s, limit) ELSE b
           t == s + (eights - d)
           k == Max({0, e - eights})
<1>1. eights = IF d >= limit THEN d ELSE limit
  BY TwoMax
<1> HIDE DEF eights
<1>2. eights \in Nat /\ d <= eights
  BY <1>1
<1>3. k \in Int /\ e <= eights + k
  <2>1. k = IF 0 >= e - eights THEN 0 ELSE e - eights
    BY <1>2, TwoMax
  <2> HIDE DEF k
  <2> QED BY <1>2, <2>1
<1>4. Starts(w, T, N, eights, e)
  <2>1. CASE d < limit
    <3>1. limit \in Nat /\ eights = limit
      BY <1>1, <2>1
    <3>2. Starts(WildCopy(b, d, s, limit), T, N, limit, e)
      BY <3>1, WildCopyLike
    <3> QED BY <2>1, <3>1, <3>2
  <2>2. CASE ~(d < limit)
    BY <1>1, <2>2
  <2> QED BY <2>1, <2>2
<1>5. t \in Nat /\ t < eights /\ eights - t = d - s
  BY <1>2
<1> HIDE DEF w, t, k
<1>6. Repeats(T, eights, e, eights - t)
  <2>1. d \in Int /\ eights \in Int
    BY <1>2
  <2> QED BY <1>2, <1>5, <2>1, RepeatsLess
<1> DEFINE o == CopyBytes(w, eights, t, k)
<1>7. DOMAIN o = 0 .. N - 1 /\ Like(o, T, eights + k, e)
  <2>1. /\ k \in Int /\ N \in Nat /\ e \in Nat /\ eights \in Nat /\ t \in Nat /\ t < eights
        /\ DOMAIN w = 0 .. N - 1 /\ e <= N /\ Like(w, T, eights, e)
        /\ Repeats(T, eights, e, eights - t)
    BY <1>2, <1>3, <1>4, <1>5, <1>6 DEF Starts
  <2> QED BY ONLY <2>1, CopyBytesLike, ZenonT(30)
<1> HIDE DEF o
<1>8. Like(o, T, e, e)
  BY <1>2, <1>3, <1>7, LikeLess
<1> QED BY <1>7, <1>8 DEF Starts, o, w, t, k, eights

-----------------------------------------------------------------------------
(* The bytes that extend the length of a match, and where they are too     *)
(* near the end of the input.                                              *)
Stretch == IF mlen = 15 THEN Extra(rp, Len(cin) + 1) ELSE 0
Cut == {k \in 1 .. Stretch : safe /\ rp + k > inEnd - LastLits}
Measure == mlen + (IF mlen = 15 THEN ExtraLength(rp, Stretch) ELSE 0) + 4

LEMMA MatchTold ==
    ASSUME NEW c, NEW n0, BlockMode(c, n0), rp \in Nat, rp < Len(cin),
           NEW num \in Nat, mlen = Nibble(num), Extended(c, rp, num),
           NEW e \in Nat, rp + Extras(num) <= e, e < Len(c)
    PROVE  \/ /\ Cut # {} /\ Min(Cut) \in Nat /\ rp + Min(Cut) <= Len(cin)
              /\ cin = c => rp + Extras(num) + LastLits > Len(c)
           \/ /\ Cut = {} /\ Stretch = Extras(num) /\ Measure = num + 4
              /\ rp + Extras(num) < Len(cin)
<1> DEFINE L == Len(cin)
           C == Len(c)
           E == Extras(num)
           x == Stretch
<1>1. /\ L \in Nat /\ C \in Nat /\ L <= C /\ (cin = c => L = C)
      /\ inEnd = IF safe THEN L ELSE 0
      /\ cin # c => safe
      /\ Begins(c)
  BY ModeIs DEF L, C, BlockMode
<1>2. E \in Nat /\ (num < 15 => E = 0) /\ rp + E <= e /\ e < C /\ rp < L
  BY ExtrasAre
<1>3. /\ num < 15 => mlen # 15 /\ mlen = num
      /\ num >= 15 => mlen = 15
  BY NibbleIs
<1> HIDE DEF L, C, E
<1>4. CASE num < 15
  <2>1. x = 0 /\ Measure = num + 0 + 4
    BY <1>3, <1>4 DEF Stretch, Measure
  <2>2. Cut = {}
    <3>1. 1 .. x = {}
      BY <2>1
    <3> QED BY <3>1 DEF Cut
  <2> HIDE DEF x
  <2>3. rp + E < L
    BY <1>1, <1>2, <1>4
  <2>4. x = E /\ Measure = num + 4
    BY <1>2, <1>4, <2>1
  <2> QED BY <2>2, <2>3, <2>4 DEF x, E, L
<1>5. CASE num >= 15
  <2> DEFINE y == ExtraLength(rp, x)
             stop == L + 1
  <2>1. x = Extra(rp, stop) /\ Measure = 15 + y + 4
    BY <1>3, <1>5 DEF Stretch, Measure, L
  <2>2. stop \in Int /\ rp < stop /\ stop <= Len(cin) + 1
    BY <1>1, <1>2 DEF L
  <2> HIDE DEF x, y, stop
  <2>3. /\ x \in Nat /\ x >= 1 /\ x <= E /\ rp + x <= stop
        /\ \/ x = E /\ rp + x <= L /\ y = num - 15
           \/ /\ rp + x = stop /\ (x < E \/ stop = L + 1)
              /\ stop <= L => y = 255 * x
    BY <1>1, <1>5, <2>1, <2>2, ExtraTold DEF y, E, L, stop
  <2>4. \A k : k \in Cut <=> k \in 1 .. x /\ safe /\ rp + k > L - 5
    BY <1>1 DEF Cut, LastLits, x
  <2>5. CASE Cut # {}
    <3> DEFINE k == Min(Cut)
    <3>1. Cut \subseteq Nat
      BY <2>3, <2>4
    <3>2. k \in Cut /\ \A l \in Cut : k <= l
      BY <2>5, <3>1, LeastTaken
    <3> HIDE DEF k
    <3>3. k \in 1 .. x /\ safe /\ rp + k > L - 5
      BY <2>4, <3>2
    <3>4. rp + k <= L
      <4> SUFFICES ASSUME rp + k > L PROVE FALSE
        BY <1>1, <2>3, <3>3
      <4>1. k - 1 \in 1 .. x /\ rp + (k - 1) > L - 5 /\ ~(k <= k - 1)
        BY <1>1, <1>2, <2>3, <3>3
      <4> QED BY <2>4, <3>2, <3>3, <4>1
    <3>5. cin = c => rp + E + 5 > C
      BY <1>1, <1>2, <2>3, <3>3
    <3> QED BY <2>5, <3>3, <3>4, <3>5 DEF k, E, L, C, LastLits
  <2>6. CASE Cut = {}
    <3>1. x \in 1 .. x
      BY <2>3
    <3>2. safe => rp + x <= L - 5
      <4> SUFFICES ASSUME safe, ~(rp + x <= L - 5) PROVE FALSE
        OBVIOUS
      <4>1. rp + x > L - 5
        BY <1>1, <2>3
      <4> QED BY <2>4, <2>6, <3>1, <4>1
    <3>3. x = E /\ y = num - 15 /\ rp + x < L
      <4>1. CASE safe
        BY <1>1, <2>3, <3>2, <4>1 DEF stop
      <4>2. CASE ~safe
        BY <1>1, <1>2, <2>3, <4>2 DEF stop
      <4> QED BY <4>1, <4>2
    <3>4. Measure = num + 4
      BY <2>1, <3>3
    <3> QED BY <2>6, <3>3, <3>4 DEF x, E, L
  <2> QED BY <2>5, <2>6
<1> QED BY <1>4, <1>5

-----------------------------------------------------------------------------
LEMMA CopyTracks ==
    ASSUME NEW M, NEW c, NEW r, NEW e, NEW a, NEW n, Tells(M, c, r, e, a, n),
           OnTrack(M, c, r, a, n), CopyMatch
    PROVE  OnTrack(M, c, r, a, n)'
<1> DEFINE m == wp - offset
           length == Measure
           cpy == wp + length
           zeroed == IF mode.partial THEN obuf
                     ELSE [i \in DOMAIN obuf |->
                            IF i \in wp .. wp + 3 THEN 0 ELSE obuf[i]]
           first == First8(zeroed, wp, m)
           op == wp + 8
           from == After8(m)
           limit == outEnd - (8 - 1)
           nearEnd == cpy > outEnd - MatchSafeguard
           eights == Max({op, limit})
           tailed == CopyBytes(IF op < limit
                               THEN WildCopy(first, op, from, limit) ELSE first,
                               eights, from + (eights - op), Max({0, cpy - eights}))
           roomy == LET b == CopyOut(first, op, from, 8)
                    IN  IF length > 16 THEN WildCopy(b, op + 8, from + 8, cpy) ELSE b
           short == Min({length, outEnd - wp})
           L == Len(cin)
           C == Len(c)
<1>1. dpc = "match" /\ UNCHANGED << cin, mode >>
  BY DEF CopyMatch
<1>2. BlockMode(c, n) /\ Begins(c) /\ mode.dst = 0 /\ mode.dictSize = 0
      /\ mode.dict # "usingExtDict" /\ (safe => mode.lowPrefix = 0)
  BY DEF OnTrack, BlockMode
<1>3. PICK z \in M : \E q :
        /\ Sequence(c, r, z.at, z.from, q) /\ NextMark(z, q) \in M
        /\ Kept(a, n) => z.from + q.lits + MFLimit <= n
        /\ rp = OffsetAt(z.at, q.lits) + 2 /\ wp = z.from + q.lits
        /\ rp < Len(cin) /\ wp <= outEnd /\ (~mode.partial => wp + 8 <= outEnd)
        /\ mlen = Nibble(q.len - 4) /\ offset = q.off
        /\ Starts(obuf, r, outEnd, wp, outEnd)
  BY <1>1 DEF OnTrack, AtCopy
<1>4. PICK q :
        /\ Sequence(c, r, z.at, z.from, q) /\ NextMark(z, q) \in M
        /\ Kept(a, n) => z.from + q.lits + MFLimit <= n
        /\ rp = OffsetAt(z.at, q.lits) + 2 /\ wp = z.from + q.lits
        /\ rp < Len(cin) /\ wp <= outEnd /\ (~mode.partial => wp + 8 <= outEnd)
        /\ mlen = Nibble(q.len - 4) /\ offset = q.off
        /\ Starts(obuf, r, outEnd, wp, outEnd)
  BY <1>3
<1> DEFINE v == q.len
           x == Extras(q.len - 4)
           y == NextMark(z, q)
<1>5. /\ outEnd \in Nat /\ outEnd = mode.outputSize /\ L \in Nat /\ C \in Nat /\ L <= C
      /\ inEnd = IF safe THEN L ELSE 0
      /\ ~safe => ~mode.partial /\ outEnd = n /\ cin = c
      /\ mode.partial => safe /\ cin = c /\ outEnd <= n
      /\ cin # c => safe /\ ~mode.partial /\ outEnd = n /\ L < C
      /\ cin = c => L = C
  BY <1>2, ModeIs DEF L, C
<1>6. /\ written \in Int /\ readTo \in Int /\ written <= outEnd
      /\ safe \/ Kept(a, n) => readTo <= L
  BY DEF OnTrack, L
<1>7. /\ rp \in Nat /\ wp \in Nat /\ e \in Nat /\ a \in Nat /\ n \in Nat
      /\ v \in Nat /\ v >= 4 /\ offset \in 1 .. wp /\ x \in Nat
      /\ rp + x <= e /\ wp + v <= a /\ e + 1 <= C /\ a <= n
      /\ Kept(a, n) => e + 6 <= C /\ a + 5 <= n
      /\ y.at = rp + x /\ y.from = wp + v /\ y \in M
      /\ wp <= outEnd /\ rp < L /\ (~mode.partial => wp + 8 <= outEnd)
  <2> DEFINE o == OffsetAt(z.at, q.lits)
             d == q.lits
             f == z.from
             w == q.off
  <2>1. /\ z.at \in Nat /\ f \in Nat /\ e \in Nat /\ a \in Nat /\ n \in Nat
        /\ d \in Nat /\ v \in Nat /\ v >= 4 /\ w \in 1 .. f + d
        /\ x \in Nat /\ o \in Nat /\ y.at = o + 2 + x /\ y.from = f + d + v
        /\ o + 2 + x <= e /\ f + d + v <= a /\ C \in Nat /\ e + 1 <= C /\ a <= n
        /\ Kept(a, n) => a + 5 <= n /\ e + 6 <= C
    BY <1>4, SequenceIs
  <2>2. /\ y \in M /\ wp <= outEnd /\ rp < L /\ (~mode.partial => wp + 8 <= outEnd)
        /\ rp = o + 2 /\ wp = f + d /\ offset = w
    BY <1>4
  <2> HIDE DEF o, d, f, w, v, x, y, L, C
  <2> QED BY <2>1, <2>2
<1>8. Repeats(r, wp, wp + v, offset) /\ Starts(obuf, r, outEnd, wp, outEnd)
  <2>1. Sequence(c, r, z.at, z.from, q) /\ wp = z.from + q.lits /\ offset = q.off
        /\ Starts(obuf, r, outEnd, wp, outEnd)
    BY <1>4
  <2>2. Repeats(r, z.from + q.lits, z.from + q.lits + q.len, q.off)
    BY <2>1, Zenon DEF Sequence
  <2> QED BY <2>1, <2>2
<1>9. BlockMode(c, n)' /\ outEnd' = outEnd /\ safe' = safe
  BY <1>1, <1>2, ModeStays
<1>10. \/ /\ Cut # {} /\ Min(Cut) \in Nat /\ rp + Min(Cut) <= L
          /\ cin = c => rp + x + LastLits > C
       \/ /\ Cut = {} /\ Stretch = x /\ Measure = v
          /\ rp + x < L
  <2> DEFINE num == q.len - 4
  <2>1. num \in Nat /\ mlen = Nibble(num) /\ x = Extras(num) /\ num + 4 = v
    <3>1. v \in Nat /\ v >= 4
      BY <1>7, Zenon
    <3>2. num \in Nat /\ num + 4 = v
      BY ONLY <3>1
    <3>3. mlen = Nibble(num)
      BY <1>4, Zenon
    <3>4. x = Extras(num)
      OBVIOUS
    <3> QED BY ONLY <3>2, <3>3, <3>4, Zenon
  <2>2. Extended(c, rp, num)
    BY <1>4, Zenon DEF Sequence
  <2>3. rp \in Nat /\ rp < Len(cin) /\ e \in Nat /\ rp + Extras(num) <= e /\ e < Len(c)
    <3>1. e < C
      BY <1>5, <1>7
    <3> QED BY <1>7, <2>1, <3>1 DEF L, C
  <2> HIDE DEF num, x, v
  <2> QED BY <1>2, <2>1, <2>2, <2>3, MatchTold DEF L, C
<1>11. ~Outside(m)
  <2>1. m \in Nat
    BY <1>7
  <2> HIDE DEF m
  <2> QED BY <1>2, <2>1 DEF Outside
<1>12. IF Cut # {}
       THEN /\ Fail(rp + Min(Cut)) /\ readTo' = Max({readTo, rp + Min(Cut)})
            /\ UNCHANGED << rp, wp, obuf, written >>
       ELSE IF mode.partial /\ nearEnd
       THEN /\ obuf' = CopyBytes(obuf, wp, m, short)
            /\ wp' = wp + short /\ written' = Max({written, wp'})
            /\ rp' = rp + Stretch /\ readTo' = Max({readTo, rp'})
            /\ IF wp' = outEnd
               THEN dpc' = "end" /\ dret' = wp' - mode.dst
               ELSE dpc' = "token" /\ UNCHANGED dret
       ELSE IF nearEnd /\ cpy > outEnd - LastLits
       THEN /\ Fail(rp + Stretch) /\ readTo' = Max({readTo, rp + Stretch})
            /\ obuf' = first /\ written' = Max({written, op})
            /\ UNCHANGED << rp, wp >>
       ELSE /\ obuf' = IF nearEnd THEN tailed ELSE roomy
            /\ written' = Max({written, op,
                 IF ~nearEnd
                 THEN IF length > 16 THEN op + 8 + 8 * Chunks(op + 8, cpy)
                                     ELSE op + 8
                 ELSE IF op < limit
                      THEN op + 8 * Chunks(op, limit) ELSE cpy})
            /\ wp' = cpy /\ rp' = rp + Stretch /\ readTo' = Max({readTo, rp'})
            /\ dpc' = "token" /\ UNCHANGED dret
  BY <1>2, <1>11, Zenon DEF CopyMatch, Cut, Stretch, Measure
<1> HIDE DEF L, C, v, x, y
<1>13. CASE Cut # {}
  <2> DEFINE k == rp + Min(Cut)
  <2>1. k \in Nat /\ k <= L /\ (cin = c => rp + x + 5 > C)
    BY <1>7, <1>10, <1>13 DEF LastLits
  <2>2. Fail(k) /\ readTo' = Max({readTo, k}) /\ written' = written
    BY <1>12, <1>13
  <2> HIDE DEF k
  <2>3. ~(Gives(c, n) /\ Kept(a, n))
    <3> SUFFICES ASSUME cin = c, Kept(a, n) PROVE FALSE
      BY DEF Gives
    <3> QED BY <1>5, <1>7, <2>1
  <2>4. RefusesAt(k)
    BY <1>1, <1>6, <2>1, <2>2 DEF RefusesAt, L
  <2> QED BY <1>7, <2>3, <2>4, RefusedTracks
<1> DEFINE g == rp + x
           E == wp + v
<1>14. CASE Cut = {}
  <2>1. Stretch = x /\ length = v /\ cpy = E /\ rp + Stretch = g /\ rp + x < L
    BY <1>10, <1>14
  <2>2. g \in Nat /\ g < L /\ E \in Nat /\ E <= a /\ g = y.at /\ E = y.from
        /\ Max({readTo, g}) \in Int /\ (safe \/ Kept(a, n) => Max({readTo, g}) <= L)
    <3>1. g \in Nat /\ g < L /\ E \in Nat /\ E <= a /\ g = y.at /\ E = y.from
      BY <1>7, <2>1
    <3> HIDE DEF g, E
    <3>2. Max({readTo, g}) \in Int /\ Max({readTo, g}) \in {readTo, g}
      BY <1>6, <3>1, TwoMax
    <3> QED BY <1>5, <1>6, <3>1, <3>2
  <2>3. m \in Nat /\ m < wp /\ wp - m = offset
    BY <1>7
  <2> HIDE DEF g, E, length, cpy, m, nearEnd
  <2>4. CASE mode.partial /\ nearEnd
    <3>1. /\ obuf' = CopyBytes(obuf, wp, m, short)
          /\ wp' = wp + short /\ written' = Max({written, wp + short})
          /\ rp' = g /\ readTo' = Max({readTo, g})
          /\ wp' = outEnd => dpc' = "end" /\ dret' = wp' - mode.dst
          /\ wp' # outEnd => dpc' = "token"
      <4> HIDE DEF short
      <4>1. /\ obuf' = CopyBytes(obuf, wp, m, short)
            /\ wp' = wp + short /\ written' = Max({written, wp'})
            /\ rp' = rp + Stretch /\ readTo' = Max({readTo, rp'})
            /\ IF wp' = outEnd
               THEN dpc' = "end" /\ dret' = wp' - mode.dst
               ELSE dpc' = "token" /\ UNCHANGED dret
        BY <1>12, <1>14, <2>4, Zenon
      <4>2. wp' = wp + short /\ rp' = g /\ readTo' = Max({readTo, g})
        BY <2>1, <4>1
      <4>3. written' = Max({written, wp + short})
        BY <4>1, <4>2
      <4>4. /\ wp' = outEnd => dpc' = "end" /\ dret' = wp' - mode.dst
            /\ wp' # outEnd => dpc' = "token"
        BY <4>1, Zenon
      <4> QED BY <4>1, <4>2, <4>3, <4>4
    <3>2. /\ short \in Nat /\ short <= v /\ wp + short <= outEnd
          /\ short = v \/ wp + short = outEnd
      <4> DEFINE T == {v, outEnd - wp}
      <4>1. v \in Nat /\ outEnd - wp \in Nat
        BY <1>5, <1>7
      <4>2. Min(T) \in T /\ \A i \in T : Min(T) <= i
        <5>1. T \subseteq Nat /\ T # {}
          BY <4>1
        <5> QED BY <5>1, LeastTaken
      <4>3. short = Min(T)
        BY <2>1
      <4> HIDE DEF short
      <4>4. short \in {v, outEnd - wp} /\ short <= v /\ short <= outEnd - wp
        BY <4>2, <4>3
      <4> HIDE DEF T
      <4> QED BY <1>5, <1>7, <4>1, <4>4
    <3> DEFINE K == wp + short
    <3> HIDE DEF short
    <3>3. K \in Nat /\ K <= outEnd /\ K <= E /\ wp <= K /\ (K = E \/ K = outEnd)
      BY <1>7, <3>2 DEF E
    <3> HIDE DEF K
    <3>4. Starts(obuf', r, outEnd, K, outEnd)
      <4> DEFINE o == CopyBytes(obuf, wp, m, short)
      <4>1. Like(obuf, r, wp, K) /\ DOMAIN obuf = 0 .. outEnd - 1
        BY <1>5, <1>7, <1>8, <3>3 DEF Starts, Like
      <4>2. Repeats(r, wp, K, wp - m)
        BY <1>7, <1>8, <2>2, <2>3, <3>3 DEF Repeats, E
      <4>3. DOMAIN o = 0 .. outEnd - 1 /\ Like(o, r, wp + short, K)
        <5>1. /\ m < wp /\ short \in Int /\ outEnd \in Nat /\ K \in Nat /\ wp \in Nat /\ m \in Nat
              /\ DOMAIN obuf = 0 .. outEnd - 1 /\ K <= outEnd /\ Like(obuf, r, wp, K)
              /\ Repeats(r, wp, K, wp - m)
          BY <1>5, <1>7, <2>3, <3>2, <3>3, <4>1, <4>2
        <5> QED BY ONLY <5>1, CopyBytesLike, ZenonT(30)
      <4>4. obuf' = o
        BY <3>1
      <4> HIDE DEF o
      <4>5. Like(o, r, K, outEnd)
        BY <3>3, <4>3 DEF Like, K
      <4> QED BY <4>3, <4>4, <4>5 DEF Starts
    <3>5. written' \in Int /\ written' <= outEnd /\ wp' = K
      <4>1. written' = Max({written, K}) /\ wp' = K
        BY <3>1 DEF K
      <4> QED BY <1>5, <1>6, <3>3, <4>1, TwoMax
    <3>6. readTo' \in Int /\ (safe \/ Kept(a, n) => readTo' <= L)
      BY <2>2, <3>1
    <3>7. safe /\ cin = c /\ outEnd <= n
      BY <1>5, <2>4
    <3>8. CASE K = outEnd
      <4>1. dpc' = "end" /\ dret' = mode.outputSize
        <5>1. wp' = outEnd
          BY <3>5, <3>8
        <5>2. dpc' = "end" /\ dret' = outEnd - mode.dst
          BY <3>1, <5>1
        <5> QED BY <1>2, <1>5, <5>2
      <4>2. \A k \in 0 .. outEnd - 1 : obuf'[k] = r[k]
        BY <1>5, <3>4, <3>8 DEF Starts, Like
      <4>3. Answers(c, r, a, n)'
        BY <1>1, <1>9, <2>4, <3>7, <4>1, <4>2 DEF Answers
      <4> QED BY <1>1, <1>9, <3>5, <3>6, <4>1, <4>3 DEF OnTrack, L
    <3>9. CASE K # outEnd
      <4>1. dpc' = "token" /\ K = E
        BY <3>1, <3>3, <3>5, <3>9
      <4>2. AtMark(M, r)'
        <5>1. /\ rp' = y.at /\ wp' = y.from /\ rp' < Len(cin') /\ wp' <= outEnd'
              /\ Starts(obuf', r, outEnd', wp', outEnd')
          BY <1>1, <1>9, <2>2, <3>1, <3>3, <3>4, <3>5, <4>1 DEF L
        <5> QED BY <1>7, <5>1 DEF AtMark
      <4> QED BY <1>1, <1>9, <3>5, <3>6, <4>1, <4>2 DEF OnTrack, L
    <3> QED BY <3>8, <3>9
  <2>5. CASE ~(mode.partial /\ nearEnd) /\ nearEnd /\ cpy > outEnd - LastLits
    <3>1. /\ Fail(g) /\ readTo' = Max({readTo, g}) /\ written' = Max({written, wp + 8})
      BY <1>12, <1>14, <2>1, <2>5
    <3>2. ~mode.partial /\ E + 5 > outEnd /\ wp + 8 <= outEnd
      BY <1>5, <1>7, <2>1, <2>2, <2>5 DEF LastLits
    <3>3. ~(Gives(c, n) /\ Kept(a, n))
      <4> SUFFICES ASSUME cin = c, outEnd >= n, Kept(a, n) PROVE FALSE
        BY <1>5, <3>2 DEF Gives
      <4> QED BY <1>5, <1>7, <2>2, <3>2
    <3>4. written' \in Int /\ written' <= outEnd
      <4>1. wp + 8 \in Int
        BY <1>7
      <4> QED BY <1>6, <3>1, <3>2, <4>1, TwoMax
    <3>5. RefusesAt(g)
      BY <1>1, <1>5, <2>2, <3>1, <3>4 DEF RefusesAt, L
    <3> QED BY <1>7, <3>3, <3>5, RefusedTracks
  <2>6. CASE ~(mode.partial /\ nearEnd) /\ ~(nearEnd /\ cpy > outEnd - LastLits)
    <3>1. /\ obuf' = IF nearEnd THEN tailed ELSE roomy
          /\ written' = Max({written, op,
               IF ~nearEnd
               THEN IF length > 16 THEN op + 8 + 8 * Chunks(op + 8, cpy)
                                   ELSE op + 8
               ELSE IF op < limit
                    THEN op + 8 * Chunks(op, limit) ELSE cpy})
          /\ wp' = E /\ rp' = g /\ readTo' = Max({readTo, g})
          /\ dpc' = "token"
      BY <1>12, <1>14, <2>1, <2>6
    <3>2. /\ E + 5 <= outEnd /\ (~nearEnd => E + 12 <= outEnd)
      <4>1. nearEnd <=> E > outEnd - 12
        BY <2>1 DEF nearEnd, MatchSafeguard
      <4>2. nearEnd => ~(E > outEnd - 5)
        BY <2>1, <2>6 DEF LastLits
      <4> HIDE DEF E
      <4> QED BY <1>5, <2>2, <4>1, <4>2
    <3>3. wp + 8 <= outEnd
      BY <1>5, <1>7, <2>6, <3>2 DEF E
    <3>4. Starts(zeroed, r, outEnd, wp, E)
      <4>1. CASE mode.partial
        <5>1. zeroed = obuf
          BY <4>1
        <5> HIDE DEF zeroed
        <5>2. E <= outEnd
          BY <1>5, <2>2, <3>2
        <5>3. Starts(obuf, r, outEnd, wp, E)
          <6>1. DOMAIN obuf = 0 .. outEnd - 1 /\ Like(obuf, r, wp, outEnd)
            BY <1>8 DEF Starts
          <6>2. ASSUME NEW i \in 0 .. wp - 1, i < E PROVE obuf[i] = r[i]
            <7>1. i < outEnd
              BY <1>5, <1>7, <2>2, <5>2, <6>2
            <7> QED BY <6>1, <7>1 DEF Like
          <6> QED BY <6>1, <6>2 DEF Starts, Like
        <5> QED BY <5>1, <5>3
      <4>2. CASE ~mode.partial
        <5>1. zeroed = [i \in DOMAIN obuf |-> IF i \in wp .. wp + 3 THEN 0 ELSE obuf[i]]
              /\ DOMAIN obuf = 0 .. outEnd - 1 /\ Like(obuf, r, wp, outEnd)
          BY <1>8, <4>2 DEF Starts
        <5> HIDE DEF zeroed
        <5>2. ASSUME NEW i \in 0 .. wp - 1, i < E PROVE zeroed[i] = r[i]
          <6>1. i \in DOMAIN obuf /\ i < outEnd /\ ~(i \in wp .. wp + 3)
            BY <1>5, <1>7, <5>1, <5>2
          <6> QED BY <5>1, <5>2, <6>1 DEF Like
        <5> QED BY <5>1, <5>2 DEF Starts, Like
      <4> QED BY <4>1, <4>2
    <3> HIDE DEF zeroed
    <3>5. Repeats(r, wp, E, offset)
      BY <1>8 DEF E
    <3>6. /\ Starts(first, r, outEnd, op, E)
          /\ from \in Nat /\ from + 8 <= op
          /\ Repeats(r, op, E, op - from)
      <4>1. /\ offset \in 1 .. wp /\ E <= outEnd /\ outEnd \in Nat /\ E \in Nat /\ wp \in Nat
            /\ Starts(zeroed, r, outEnd, wp, E) /\ Repeats(r, wp, E, offset)
            /\ m = wp - offset
        BY <1>5, <1>7, <2>2, <3>2, <3>4, <3>5 DEF m
      <4> HIDE DEF E
      <4> QED BY <4>1, FirstLike
    <3> HIDE DEF first, from
    <3>7. op \in Nat /\ limit \in Int /\ E = op - 8 + length /\ length \in Nat
      BY <1>5, <1>7, <2>1 DEF E
    <3>8. Starts(obuf', r, outEnd, E, E)
      <4>0. cpy = E /\ E <= outEnd
        BY <1>5, <2>1, <2>2, <3>2
      <4>1. CASE nearEnd
        <5>1. obuf' = tailed
          BY <3>1, <4>1
        <5> HIDE DEF op, limit, E
        <5>2. Starts(CopyBytes(IF op < limit THEN WildCopy(first, op, from, limit) ELSE first,
                               Max({op, limit}), from + (Max({op, limit}) - op),
                               Max({0, E - Max({op, limit})})), r, outEnd, E, E)
          BY <1>5, <2>2, <3>6, <3>7, <4>0, TailedLike
        <5> QED BY <4>0, <5>1, <5>2
      <4>2. CASE ~nearEnd
        <5>1. obuf' = roomy
          BY <3>1, <4>2
        <5> HIDE DEF op, E
        <5>2. Starts(IF length > 16 THEN WildCopy(CopyOut(first, op, from, 8), op + 8, from + 8, E)
                     ELSE CopyOut(first, op, from, 8), r, outEnd, E, E)
          BY <1>5, <2>2, <3>6, <3>7, <4>0, RoomyLike
        <5> QED BY <4>0, <5>1, <5>2
      <4> QED BY <4>1, <4>2
    <3>9. Starts(obuf', r, outEnd, E, outEnd)
      BY <1>5, <2>2, <3>2, <3>8 DEF Starts, Like
    <3> DEFINE wr == IF ~nearEnd
                     THEN IF length > 16 THEN op + 8 + 8 * Chunks(op + 8, E) ELSE op + 8
                     ELSE IF op < limit THEN op + 8 * Chunks(op, limit) ELSE E
    <3>10. written' = Max({written, op, wr})
      BY <2>1, <3>1
    <3>11. wr \in Int /\ wr <= outEnd
      <4>1. CASE ~nearEnd /\ length > 16
        <5> DEFINE d == op + 8
                   more == 8 * Chunks(d, E)
        <5>1. d \in Int /\ E \in Int /\ d < E
          BY <1>7, <2>1, <2>2, <3>7, <4>1
        <5>2. wr = d + more
          BY <4>1
        <5> HIDE DEF d, wr, E
        <5>3. more \in Int /\ d + more <= IF E <= d THEN d + 8 ELSE E + 7
          BY ONLY <5>1, ChunksAre
        <5> HIDE DEF more
        <5> QED BY <1>5, <2>2, <3>2, <4>1, <5>1, <5>2, <5>3
      <4>2. CASE ~nearEnd /\ ~(length > 16)
        <5>1. wr = op + 8
          BY <4>2
        <5> HIDE DEF wr
        <5> QED BY <1>5, <1>7, <2>1, <3>2, <4>2, <5>1 DEF E
      <4>3. CASE nearEnd /\ op < limit
        <5> DEFINE more == 8 * Chunks(op, limit)
        <5>1. wr = op + more
          BY <4>3
        <5>2. op \in Int /\ limit \in Int /\ op < limit
          BY <3>7, <4>3
        <5> HIDE DEF wr, op
        <5>3. more \in Int /\ op + more <= IF limit <= op THEN op + 8 ELSE limit + 7
          BY <5>2, ChunksAre
        <5> HIDE DEF more
        <5> QED BY <1>5, <5>1, <5>2, <5>3
      <4>4. CASE nearEnd /\ ~(op < limit)
        <5>1. wr = E
          BY <4>4
        <5> QED BY <1>5, <2>2, <3>2, <5>1
      <4> QED BY <4>1, <4>2, <4>3, <4>4
    <3> HIDE DEF wr
    <3>12. written' \in Int /\ written' <= outEnd
      <4>1. op \in Int /\ op <= outEnd
        BY <3>3, <3>7
      <4> HIDE DEF op
      <4>2. written' \in {written, op, wr}
        BY <1>6, <3>10, <3>11, <4>1, ThreeMax
      <4> QED BY <1>5, <1>6, <3>11, <4>1, <4>2
    <3>13. AtMark(M, r)'
      <4>1. /\ rp' = y.at /\ wp' = y.from /\ rp' < Len(cin') /\ wp' <= outEnd'
            /\ Starts(obuf', r, outEnd', wp', outEnd')
        <5>1. E <= outEnd
          BY <1>5, <2>2, <3>2
        <5> QED BY <1>1, <1>9, <2>2, <3>1, <3>9, <5>1 DEF L
      <4> QED BY <1>7, <4>1 DEF AtMark
    <3>14. readTo' \in Int /\ (safe \/ Kept(a, n) => readTo' <= L)
      BY <2>2, <3>1
    <3> QED BY <1>1, <1>9, <3>1, <3>12, <3>13, <3>14 DEF OnTrack, L
  <2> QED BY <2>4, <2>5, <2>6
<1> QED BY <1>13, <1>14

-----------------------------------------------------------------------------
(* A block that tells nothing is its token, and no other is.               *)
LEMMA EmptyTold ==
    ASSUME NEW M, NEW c, NEW r, NEW e, NEW a, NEW n, Tells(M, c, r, e, a, n)
    PROVE  /\ e \in Nat /\ a \in Nat /\ n \in Nat /\ a <= n
           /\ Len(c) >= 1
           /\ n = 0 => Len(c) = 1 /\ c[1] = 0
           /\ n > 0 => ~(Len(c) = 1 /\ c[1] = 0)
<1> DEFINE z == [at |-> 0, from |-> 0]
           d == n - a
           C == Len(c)
<1>1. /\ e \in Nat /\ a \in Nat /\ n \in Nat /\ a <= n /\ z \in M
      /\ C = e + 1 + Extras(d) + d /\ c[e + 1] = 16 * Nibble(d)
  BY DEF Tells, OffsetAt
<1>2. d \in Nat /\ n = a + d
  BY <1>1
<1>3. Extras(d) \in Nat /\ (d < 15 => Extras(d) = 0)
  BY <1>2, ExtrasAre
<1>4. \/ e = 0 /\ a = 0
      \/ e >= 1 /\ a >= 4
  <2>1. z.at = 0 /\ z.from = 0
    OBVIOUS
  <2>2. CASE e = 0 /\ a = 0
    BY <2>2
  <2>3. CASE ~(e = 0 /\ a = 0)
    <3>1. ~(z.at = e /\ z.from = a)
      BY <2>1, <2>3
    <3> HIDE DEF z
    <3>2. PICK q : Sequence(c, r, z.at, z.from, q) /\ NextMark(z, q) \in M
      BY <1>1, <3>1, Zenon DEF Tells
    <3> DEFINE o == OffsetAt(z.at, q.lits)
               x == Extras(q.len - 4)
               l == q.lits
               v == q.len
    <3>3. /\ x \in Nat /\ o \in Nat /\ l \in Nat /\ v \in Nat /\ v >= 4
          /\ o + 2 + x <= e /\ z.from + l + v <= a
      BY <1>1, <3>2, SequenceIs
    <3> HIDE DEF o, x, l, v
    <3>4. e >= 1 /\ a >= 4
      BY <1>1, <2>1, <3>3
    <3> QED BY <3>4
  <2> QED BY <2>2, <2>3
<1> DEFINE x == Extras(d)
           w == Nibble(d)
<1> HIDE DEF C, x, d, w
<1>5. C >= 1 /\ C \in Nat
  BY <1>1, <1>2, <1>3 DEF x
<1>6. ASSUME n = 0 PROVE C = 1 /\ c[1] = 0
  <2>1. e = 0 /\ d = 0
    BY <1>1, <1>2, <1>4, <1>6
  <2>2. C = 1
    BY <1>1, <1>3, <2>1
  <2>3. Nibble(d) = 0
    BY <2>1 DEF Nibble
  <2>4. c[1] = 0
    BY <1>1, <2>1, <2>3
  <2> QED BY <2>2, <2>4
<1>7. ASSUME n > 0, C = 1, c[1] = 0 PROVE FALSE
  <2>1. e = 0 /\ d = 0
    BY <1>1, <1>2, <1>3, <1>7
  <2> QED BY <1>1, <1>2, <1>4, <1>7, <2>1
<1> QED BY <1>1, <1>5, <1>6, <1>7 DEF C

(* Every call for one block, of all of it or of its beginning.             *)
LEMMA StartTracks ==
    ASSUME NEW M, NEW c \in Seq(Int), NEW r, NEW e, NEW a, NEW n, Tells(M, c, r, e, a, n),
           NEW block \in Seq(Int), block = c \/ Len(block) < Len(c),
           \A k \in 1 .. Len(block) : block[k] = c[k],
           NEW args, NEW size \in Nat, args.dst = 0, args.outputSize = size,
           args.endOnInput \in BOOLEAN, args.partial \in BOOLEAN, args.dictSize = 0,
           args.dict # "usingExtDict",
           IF args.endOnInput THEN args.lowPrefix = 0 ELSE args.dict = "withPrefix64k",
           args.partial => args.endOnInput /\ block = c /\ size \in 1 .. n,
           block # c => args.endOnInput /\ ~args.partial /\ size = n,
           ~args.endOnInput => size = n /\ block = c /\ ~args.partial,
           Decompress(block, [i \in 0 .. size - 1 |-> Unset], args)
    PROVE  OnTrack(M, c, r, a, n)'
<1> DEFINE memory == [i \in 0 .. size - 1 |-> Unset]
<1>1. /\ cin' = block /\ mode' = args /\ wp' = 0 /\ rp' = 0
      /\ obuf' = memory /\ written' = 0 /\ readTo' = 0
      /\ IF size = 0
         THEN /\ dpc' = "end"
              /\ dret' = CASE args.endOnInput -> IF block = << 0 >> THEN 0 ELSE -1
                           [] OTHER -> IF Head(block) = 0 THEN 1 ELSE -1
         ELSE IF args.endOnInput /\ block = << >>
              THEN dpc' = "end" /\ dret' = -1
              ELSE dpc' = "token" /\ dret' = 0
  BY DEF Decompress
<1>2. /\ e \in Nat /\ a \in Nat /\ n \in Nat /\ a <= n /\ Len(c) >= 1
      /\ n = 0 => Len(c) = 1 /\ c[1] = 0
      /\ n > 0 => ~(Len(c) = 1 /\ c[1] = 0)
  BY EmptyTold
<1>3. Len(c) \in Nat /\ Len(block) \in Nat /\ (block = << >> <=> Len(block) = 0)
      /\ Len(block) <= Len(c)
  OBVIOUS
<1>4. safe' = args.endOnInput /\ outEnd' = size
  BY <1>1 DEF safe, outEnd
<1>5. BlockMode(c, n)'
  <2>1. Begins(c)'
    BY <1>1, <1>3 DEF Begins
  <2> QED BY <1>1, <1>2, <1>4, <2>1 DEF BlockMode
<1>6. /\ written' \in Int /\ readTo' \in Int /\ written' <= outEnd'
      /\ readTo' <= Len(cin')
  BY <1>1, <1>3, <1>4
<1>7. CASE size = 0
  <2>1. /\ dpc' = "end" /\ ~args.partial /\ (block # c => n = 0)
        /\ args.endOnInput => dret' = IF block = << 0 >> THEN 0 ELSE -1
        /\ ~args.endOnInput => dret' = IF Head(block) = 0 THEN 1 ELSE -1
    BY <1>1, <1>2, <1>7
  <2>2. block = << 0 >> <=> Len(block) = 1 /\ block[1] = 0
    <3>1. ASSUME Len(block) = 1, block[1] = 0 PROVE block = << 0 >>
      <4>1. block = [i \in 1 .. Len(block) |-> block[i]]
        OBVIOUS
      <4>2. << 0 >> = [i \in 1 .. 1 |-> 0]
        OBVIOUS
      <4>3. \A i \in 1 .. 1 : block[i] = 0
        BY <3>1
      <4> QED BY <3>1, <4>1, <4>2, <4>3
    <3> QED BY <3>1
  <2>3. Head(block) = block[1]
    BY <1>2, <1>3
  <2>4. (Gives(c, n) /\ Kept(a, n) =>
          /\ dret = IF ~safe THEN Len(cin)
                    ELSE IF mode.partial THEN mode.outputSize ELSE n
          /\ \A k \in 0 .. outEnd - 1 : k < n => obuf[k] = r[k])'
    <3> SUFFICES ASSUME block = c, size >= n
                 PROVE  /\ dret' = IF ~args.endOnInput THEN Len(block) ELSE n
                        /\ \A k \in 0 .. size - 1 : k < n => obuf'[k] = r[k]
      BY <1>1, <1>4, <2>1 DEF Gives
    <3>1. n = 0 /\ Len(block) = 1 /\ block[1] = 0
      BY <1>2, <1>7
    <3> QED BY <1>7, <2>1, <2>2, <2>3, <3>1
  <2>5. (safe /\ ~mode.partial /\ mode.outputSize < n => dret < 0)'
    <3> SUFFICES ASSUME args.endOnInput, size < n PROVE dret' < 0
      BY <1>1, <1>4
    <3>1. block = c /\ n > 0
      BY <1>2, <1>7
    <3>2. block # << 0 >>
      BY <1>2, <2>2, <3>1
    <3> QED BY <2>1, <3>2
  <2>6. (cin # c /\ Kept(a, n) /\ n > 0 =>
          /\ dret \in Int /\ dret < n
          /\ \A k \in Nat : k < dret => obuf[k] = r[k])'
    BY <1>1, <2>1
  <2>7. Answers(c, r, a, n)'
    BY <2>4, <2>5, <2>6 DEF Answers
  <2> QED BY <1>4, <1>5, <1>6, <2>1, <2>7 DEF OnTrack
<1>8. CASE size # 0 /\ args.endOnInput /\ block = << >>
  <2>1. dpc' = "end" /\ dret' = -1
    BY <1>1, <1>8
  <2>2. block # c
    BY <1>2, <1>3, <1>8
  <2>3. Answers(c, r, a, n)'
    <3>1. ~(cin' = c) /\ -1 < 0 /\ -1 < n /\ \A k \in Nat : ~(k < -1)
      BY <1>1, <1>2, <2>2
    <3> QED BY <2>1, <3>1 DEF Answers, Gives
  <2> QED BY <1>5, <1>6, <2>1, <2>3 DEF OnTrack
<1>9. CASE size # 0 /\ ~(args.endOnInput /\ block = << >>)
  <2>1. dpc' = "token"
    BY <1>1, <1>9
  <2>2. 0 < Len(block)
    <3>1. CASE block = << >>
      <4>1. block = c
        BY <1>9, <3>1
      <4> QED BY <1>2, <4>1
    <3>2. CASE block # << >>
      BY <1>3, <3>2
    <3> QED BY <3>1, <3>2
  <2>3. Starts(memory, r, size, 0, size)
    <3>1. DOMAIN memory = 0 .. size - 1 /\ 0 .. 0 - 1 = {}
      OBVIOUS
    <3> QED BY <3>1 DEF Starts, Like
  <2>4. AtMark(M, r)'
    <3> DEFINE z == [at |-> 0, from |-> 0]
    <3>1. z \in M /\ z.at = 0 /\ z.from = 0
      BY DEF Tells
    <3> HIDE DEF z, memory
    <3>2. /\ rp' = z.at /\ wp' = z.from /\ rp' < Len(cin') /\ wp' <= outEnd'
          /\ Starts(obuf', r, outEnd', wp', outEnd')
      BY <1>1, <1>4, <2>2, <2>3, <3>1
    <3> QED BY <3>1, <3>2 DEF AtMark
  <2> QED BY <1>5, <1>6, <2>1, <2>4 DEF OnTrack
<1> QED BY <1>7, <1>8, <1>9
=============================================================================
