------------------------------- MODULE MCLz4 -------------------------------
(* Small instances of Lz4: inputs pieced together from runs, repeated      *)
(* words and stretches without a repetition, and one run long enough for   *)
(* every length to need bytes of 255; and the ways lz4.h describes to send *)
(* a message whose words come again after a few bytes, near the end of the *)
(* window or just outside of it.                                           *)
EXTENDS Lz4

Run(b, n) == [k \in 1 .. n |-> b]
Cycle(w, n) == [k \in 1 .. n |-> w[1 + ((k - 1) % Len(w))]]
Fresh(n) == [k \in 1 .. n |-> 10 + k]

Pieces == {<< 1 >>, Run(2, 9), Cycle(<< 1, 2, 3 >>, 14), Fresh(6)}
Pieced == {<< p \o q \o r \o << 3, 3, 3, 3, 3, 1, 2 >> >> :
              p \in Pieces, q \in Pieces, r \in Pieces}
Spread == {<< Cycle([k \in 1 .. d |-> k], 30) >> : d \in 2 .. 9}
Long == {<< Run(1, 310) >>, << Run(1, 1300) >>,
         << Fresh(20) \o Run(1, 20) \o Fresh(20) >>,
         << Fresh(4) \o [k \in 1 .. 75 |-> 30 + k] \o Fresh(16) >>}
(* The word at 0 again at 31, the far end of the window, and at 32.        *)
Edge == {<< Fresh(31) \o Fresh(11) >>, << Fresh(32) \o Fresh(12) >>}
Chained == {<< Cycle(<< 1, 2, 3, 4, 5 >>, 16), Cycle(<< 1, 2, 3, 4, 5 >>, 14),
               Cycle(<< 1, 2, 3, 4, 5 >>, 13) >>}
Spare == {-9, -1, 0, 1, 8, 30}
LongRun == {<< Run(1, 1300) >>}
AllInputs == Pieced \cup Spread \cup Long \cup Edge \cup Chained
NoInputs == {}

-----------------------------------------------------------------------------
(* Messages whose words come again after so many bytes, with or without a  *)
(* byte now and then that is another every time.                           *)
Periods == {5, 12, 16, 31, 32}
Shapes == [period : Periods, broken : BOOLEAN]
Words(shape, n) ==
    [k \in 1 .. n |-> IF shape.broken /\ k % 9 = 0 THEN 100 + k
                      ELSE Cycle(Fresh(shape.period), n)[k]]

(* The sender's ways: a ring of two largest blocks or a larger one, two    *)
(* buffers, and one behind the place where so much of the last is saved.   *)
Ring(size) == [sender |-> "ring", origin |-> 0, ring |-> size, keep |-> 0]
Double == [sender |-> "double", origin |-> 0, ring |-> 0, keep |-> 0]
Save(keep, gap) == [sender |-> "save", origin |-> KB64 + gap, ring |-> 0, keep |-> keep]

(* The receiver's: the ring that fits any sender; one in step with the     *)
(* sender's, and one that is larger by a block; and one buffer with what   *)
(* it decoded before in front of it or a byte away.                        *)
AnyRing == [receiver |-> "ring", rorigin |-> 0,
            rring |-> LZ4_DECODER_RING_BUFFER_SIZE, exact |-> FALSE]
InStep(s) == [receiver |-> s.sender, rorigin |-> s.origin, rring |-> s.ring, exact |-> TRUE]
Larger(s) == [AnyRing EXCEPT !.rring = s.ring + MaxBlock]
Saved(gap) == [receiver |-> "save", rorigin |-> KB64 + gap, rring |-> 0, exact |-> FALSE]

Plain == [sizes |-> {14, 22}, how |-> "none", d |-> 0, fast |-> FALSE,
          again |-> FALSE, forced |-> FALSE, caps |-> {}, length |-> 78]
Dictionary(how, size, gap) ==
    [Plain EXCEPT !.how = how, !.d = size, !.sizes = {14, 20, 22}, !.length = 50]
Behind(place, size) ==
    IF "origin" \in DOMAIN place THEN [place EXCEPT !.origin = @ + size]
                                 ELSE [place EXCEPT !.rorigin = @ + size]

Smallest == Ring(2 * MaxBlock)
Kinds ==
    {s @@ r @@ [Plain EXCEPT !.fast = f] :
        s \in {Smallest, Double, Save(KB64, 0), Save(KB64, 1), Save(10, 1), Save(3, 1)},
        r \in {AnyRing, Saved(0), Saved(1)}, f \in BOOLEAN}
    \cup {s @@ InStep(s) @@ [Plain EXCEPT !.fast = f, !.sizes = {3, 14, 22}, !.length = 44] :
        s \in {Smallest, Double}, f \in BOOLEAN}
    \cup {Smallest @@ Larger(Smallest) @@ Plain}
    \cup {Ring(size) @@ AnyRing @@ [Plain EXCEPT !.sizes = {22}, !.length = 132] :
        size \in {85, 132}}
    \cup {Behind(Smallest, size + gap) @@ Behind(AnyRing, size + gap)
             @@ Dictionary(how, size, gap) :
        how \in {"load", "attach"}, size \in {3, 7, 11, 40}, gap \in {0, 1}}
    \cup {Behind(Smallest, 12) @@ Behind(AnyRing, 12)
             @@ [Dictionary("attach", 11, 1) EXCEPT !.again = TRUE, !.length = 34]}
    \cup {Smallest @@ AnyRing @@ plain :
        plain \in {[Plain EXCEPT !.again = TRUE, !.length = 36],
                   [Plain EXCEPT !.caps = {8, 12}, !.length = 36]}}
    \cup {Ring(66) @@ AnyRing @@ [Plain EXCEPT !.forced = TRUE, !.length = 44]}

WayOf(kind, shape) ==
    kind @@ [dict |-> Words(shape, kind.d),
             text |-> SubSeq(Words(shape, kind.d + kind.length), kind.d + 1,
                             kind.d + kind.length)]
AllWays == {WayOf(kind, shape) : kind \in Kinds, shape \in Shapes}
NoWays == {}

(* A ring with room for one largest block only, and a message of records   *)
(* that begin alike.                                                       *)
SmallRing ==
    {Ring(30) @@ InStep(Ring(30)) @@ Plain @@
        [dict |-> << >>,
         text |-> Fresh(8) \o [k \in 1 .. 14 |-> 40 + k] \o
                  Fresh(8) \o [k \in 1 .. 14 |-> 60 + k]]}
=============================================================================
