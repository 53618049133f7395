-------------------------- MODULE BlockTreeProofs --------------------------
(***************************************************************************)
(* What the walks of loadinodes() and loaddatablocklist() over a tree of   *)
(* block references have in common: what lies behind the places they have  *)
(* passed, and what a step of theirs adds to it.                           *)
(***************************************************************************)
EXTENDS BlockTree, TLAPS, FiniteSetTheorems, SequenceTheorems, WellFoundedInduction
-----------------------------------------------------------------------------
(* A set of numbers that has zero and each successor has them all.         *)
LEMMA Counting ==
    ASSUME NEW S, 0 \in S, \A n \in Nat : n \in S => n + 1 \in S
    PROVE  Nat \subseteq S
<1>1. SUFFICES ASSUME Nat \ S # {} PROVE FALSE
  OBVIOUS
<1> DEFINE T == Nat \ S
<1>2. PICK x \in T : \A y \in T : ~ (<<y, x>> \in OpToRel(<, Nat))
  <2>1. T \subseteq Nat /\ T # {}
    BY <1>1
  <2>2. QED
    BY <2>1, WFMin, NatLessThanWellFounded, Zenon
<1>3. x \in Nat /\ x \notin S /\ x # 0
  OBVIOUS
<1>4. x - 1 \in Nat /\ x - 1 + 1 = x
  BY <1>3
<1>5. x - 1 \in T
  BY <1>3, <1>4
<1>6. <<x - 1, x>> \in OpToRel(<, Nat)
  BY <1>3, <1>4 DEF OpToRel
<1> HIDE DEF T
<1>7. QED
  BY <1>2, <1>5, <1>6, Zenon

-----------------------------------------------------------------------------
Cat(s, t) == s \o t

LEMMA CatType ==
    ASSUME NEW S, NEW s \in Seq(S), NEW t \in Seq(S)
    PROVE  Cat(s, t) \in Seq(S)
  BY ConcatProperties DEF Cat

LEMMA CatEmpty ==
    ASSUME NEW S, NEW s \in Seq(S)
    PROVE  Cat(<<>>, s) = s /\ Cat(s, <<>>) = s
  BY ConcatEmptySeq DEF Cat

(* Sequences put one behind the other.  g has what is there after each.    *)
Joins(g, ss) ==
    /\ g[0] = <<>>
    /\ \A k \in 1 .. Len(ss) : g[k] = Cat(g[k - 1], ss[k])

LEMMA JoinsOver ==
    ASSUME NEW V, NEW ss \in Seq(V), <<>> \in V, \A s, t \in V : Cat(s, t) \in V
    PROVE  \E g \in [0 .. Len(ss) -> V] : Joins(g, ss)
<1> DEFINE Upto(n, g) == g[0] = <<>> /\ \A k \in 1 .. n : g[k] = Cat(g[k - 1], ss[k])
           N == Len(ss)
           Good == {n \in Nat : n <= N => \E g \in [0 .. n -> V] : Upto(n, g)}
<1>1. 0 \in Good
  <2>1. [k \in 0 .. 0 |-> <<>>] \in [0 .. 0 -> V]
    OBVIOUS
  <2>2. Upto(0, [k \in 0 .. 0 |-> <<>>])
    OBVIOUS
  <2>3. QED
    BY <2>1, <2>2
<1>2. ASSUME NEW n \in Nat, n \in Good
      PROVE  n + 1 \in Good
  <2>1. SUFFICES ASSUME n + 1 <= N
                 PROVE  \E g \in [0 .. n + 1 -> V] : Upto(n + 1, g)
    OBVIOUS
  <2>2. PICK g \in [0 .. n -> V] : Upto(n, g)
    BY <1>2, <2>1
  <2> DEFINE last == Cat(g[n], ss[n + 1])
             h == [k \in 0 .. n + 1 |-> IF k <= n THEN g[k] ELSE last]
  <2>3. n \in 0 .. n /\ n + 1 \in 1 .. N
    BY <2>1
  <2>4. g[n] \in V /\ ss[n + 1] \in V
    BY <2>3
  <2>5. last \in V
    BY <2>4
  <2>6. last = Cat(g[n], ss[n + 1])
    OBVIOUS
  <2> HIDE DEF last
  <2>7. h \in [0 .. n + 1 -> V]
    BY <2>5
  <2>8. h[0] = <<>>
    BY <2>2
  <2>9. ASSUME NEW k \in 1 .. n + 1 PROVE h[k] = Cat(h[k - 1], ss[k])
    <3>1. CASE k <= n
      <4>1. k \in 1 .. n /\ k \in 0 .. n + 1 /\ k - 1 \in 0 .. n + 1 /\ k - 1 <= n
        BY <3>1
      <4>2. QED
        BY <3>1, <4>1, <2>2
    <3>2. CASE k = n + 1
      <4>1. k \in 0 .. n + 1 /\ ~ k <= n /\ k - 1 = n /\ n \in 0 .. n + 1
        BY <3>2
      <4>2. h[k] = last /\ h[k - 1] = g[n]
        BY <4>1
      <4>3. QED
        BY <4>2, <3>2, <2>6
    <3>3. QED
      BY <3>1, <3>2
  <2>10. QED
    BY <2>7, <2>8, <2>9
<1> HIDE DEF Good
<1>3. Nat \subseteq Good
  BY <1>1, <1>2, Counting, Zenon
<1>4. N \in Good
  BY <1>3
<1>5. QED
  BY <1>4 DEF Good, Joins

LEMMA JoinsExist ==
    ASSUME NEW S, NEW ss \in Seq(Seq(S))
    PROVE  \E g \in [0 .. Len(ss) -> Seq(S)] : Joins(g, ss)
<1>1. <<>> \in Seq(S) /\ \A s, t \in Seq(S) : Cat(s, t) \in Seq(S)
  BY CatType
<1> DEFINE V == Seq(S)
<1>2. <<>> \in V /\ (\A s, t \in V : Cat(s, t) \in V) /\ ss \in Seq(V)
  BY <1>1
<1>3. QED
  BY <1>2, JoinsOver, Zenon

LEMMA FlattenIs ==
    ASSUME NEW S, NEW ss \in Seq(Seq(S)), NEW g \in [0 .. Len(ss) -> Seq(S)], Joins(g, ss)
    PROVE  FlattenSeq(ss) = g[Len(ss)]
<1> DEFINE N == Len(ss)
           F(f) == [i \in 1 .. N |-> IF i = 1 THEN ss[i] ELSE Cat(f[i - 1], ss[i])]
           f0 == CHOOSE f : f = F(f)
<1>1. CASE N = 0
  <2>1. FlattenSeq(ss) = ss /\ ss = <<>>
    BY <1>1 DEF FlattenSeq
  <2>2. QED
    BY <2>1, <1>1 DEF Joins
<1>2. CASE N # 0
  <2>1. FlattenSeq(ss) = f0[N]
    BY <1>2, Zenon DEF FlattenSeq, Cat
  <2> DEFINE h == [i \in 1 .. N |-> g[i]]
  <2>2. h = F(h)
    <3>1. ASSUME NEW i \in 1 .. N PROVE h[i] = F(h)[i]
      <4>1. CASE i = 1
        <5>1. g[1] = Cat(<<>>, ss[1])
          BY <4>1 DEF Joins
        <5>2. ss[1] \in Seq(S)
          BY <4>1
        <5>3. Cat(<<>>, ss[1]) = ss[1]
          BY <5>2, CatEmpty
        <5>4. QED
          BY <4>1, <5>1, <5>3
      <4>2. CASE i # 1
        <5>1. i - 1 \in 1 .. N
          BY <4>2
        <5>2. QED
          BY <4>2, <5>1 DEF Joins
      <4>3. QED
        BY <4>1, <4>2
    <3>2. QED
      BY <3>1
  <2>3. f0 = F(f0)
    <3> HIDE DEF h, F
    <3>1. QED
      BY <2>2, Zenon
  <2> HIDE DEF f0
  <2>a. \A i \in 1 .. N : i # 1 => f0[i] = Cat(f0[i - 1], ss[i])
    BY <2>3
  <2> DEFINE Good == {n \in Nat : n + 1 <= N => f0[n + 1] = g[n + 1]}
  <2>4. 0 \in Good
    <3>1. f0[1] = ss[1]
      BY <1>2, <2>3
    <3>2. g[1] = Cat(<<>>, ss[1]) /\ ss[1] \in Seq(S)
      BY <1>2 DEF Joins
    <3>3. Cat(<<>>, ss[1]) = ss[1]
      BY <3>2, CatEmpty
    <3>4. QED
      BY <3>1, <3>2, <3>3
  <2>5. ASSUME NEW n \in Nat, n \in Good
        PROVE  n + 1 \in Good
    <3>1. SUFFICES ASSUME n + 2 <= N PROVE f0[n + 2] = g[n + 2]
      BY \A m \in Nat : m + 1 + 1 = m + 2
    <3>2. n + 2 \in 1 .. N /\ n + 2 # 1 /\ n + 2 - 1 = n + 1 /\ n + 1 <= N
      BY <3>1
    <3>3. f0[n + 2] = Cat(f0[n + 1], ss[n + 2])
      BY ONLY <2>a, <3>2
    <3>4. g[n + 2] = Cat(g[n + 1], ss[n + 2])
      BY <3>2 DEF Joins
    <3>5. QED
      BY <3>2, <3>3, <3>4, <2>5
  <2> HIDE DEF Good
  <2>6. Nat \subseteq Good
    BY <2>4, <2>5, Counting, Zenon
  <2>7. N - 1 \in Nat /\ N - 1 + 1 = N /\ N <= N
    BY <1>2
  <2>8. f0[N] = g[N]
    <3>1. N - 1 \in Good
      BY <2>6, <2>7
    <3>2. N - 1 + 1 <= N => f0[N - 1 + 1] = g[N - 1 + 1]
      BY <3>1, Zenon DEF Good
    <3>3. QED
      BY <3>2, <2>7, Zenon
  <2>9. QED
    BY <2>1, <2>8
<1>3. QED
  BY <1>1, <1>2

LEMMA FlattenType ==
    ASSUME NEW S, NEW ss \in Seq(Seq(S))
    PROVE  FlattenSeq(ss) \in Seq(S)
<1>1. PICK g \in [0 .. Len(ss) -> Seq(S)] : Joins(g, ss)
  BY JoinsExist
<1>2. FlattenSeq(ss) = g[Len(ss)]
  BY <1>1, FlattenIs
<1>3. QED
  BY <1>2

(* One more sequence adds its elements.                                    *)
LEMMA FlattenMore ==
    ASSUME NEW S, NEW ss \in Seq(Seq(S)), NEW tt \in Seq(Seq(S)), Len(tt) = Len(ss) + 1,
           \A k \in 1 .. Len(ss) : tt[k] = ss[k]
    PROVE  FlattenSeq(tt) = Cat(FlattenSeq(ss), tt[Len(tt)])
<1>1. PICK g \in [0 .. Len(tt) -> Seq(S)] : Joins(g, tt)
  BY JoinsExist
<1> DEFINE h == [k \in 0 .. Len(ss) |-> g[k]]
<1>2. h \in [0 .. Len(ss) -> Seq(S)] /\ Joins(h, ss)
  BY <1>1 DEF Joins
<1>3. FlattenSeq(ss) = h[Len(ss)] /\ FlattenSeq(tt) = g[Len(tt)]
  <2> HIDE DEF h
  <2>1. QED
    BY <1>1, <1>2, FlattenIs
<1>4. Len(tt) \in 1 .. Len(tt) /\ Len(tt) - 1 = Len(ss) /\ h[Len(ss)] = g[Len(ss)]
  OBVIOUS
<1>5. g[Len(tt)] = Cat(g[Len(tt) - 1], tt[Len(tt)])
  BY <1>1, <1>4, Zenon DEF Joins
<1>6. QED
  BY <1>3, <1>4, <1>5, Zenon

LEMMA FlattenNone == FlattenSeq(<<>>) = <<>>
  BY DEF FlattenSeq

(* Some of a list, in its order.                                           *)
Kept(type, r) == IF r.type = type THEN << r >> ELSE <<>>

LEMMA OfTypeMore ==
    ASSUME NEW S, NEW s \in Seq(S), NEW r \in S, NEW type
    PROVE  /\ OfType(type, s) \in Seq(S)
           /\ OfType(type, Append(s, r)) =
                 IF r.type = type THEN Append(OfType(type, s), r) ELSE OfType(type, s)
<1> DEFINE t == Append(s, r)
           ss == [k \in 1 .. Len(s) |-> Kept(type, s[k])]
           tt == [k \in 1 .. Len(s) + 1 |-> Kept(type, t[k])]
<1>1. /\ t \in Seq(S) /\ Len(t) = Len(s) + 1 /\ t[Len(t)] = r
      /\ \A k \in 1 .. Len(s) : t[k] = s[k]
  BY AppendProperties
<1>2. DOMAIN s = 1 .. Len(s) /\ DOMAIN t = 1 .. Len(s) + 1
  BY <1>1
<1>3. OfType(type, s) = FlattenSeq(ss) /\ OfType(type, t) = FlattenSeq(tt)
  BY <1>2, Zenon DEF OfType, Kept
<1>4. \A x \in S : Kept(type, x) \in Seq(S)
  BY DEF Kept
<1> HIDE DEF t
<1>5. ss \in Seq(Seq(S)) /\ Len(ss) = Len(s)
  BY <1>4
<1>6. tt \in Seq(Seq(S)) /\ Len(tt) = Len(s) + 1
  BY <1>1, <1>4
<1>7. \A k \in 1 .. Len(ss) : tt[k] = ss[k]
  BY <1>1, <1>5
<1>8. tt[Len(tt)] = Kept(type, r)
  BY <1>1, <1>6
<1> HIDE DEF ss, tt
<1>9. FlattenSeq(ss) \in Seq(S)
  BY <1>5, FlattenType
<1>10. FlattenSeq(tt) = Cat(FlattenSeq(ss), tt[Len(tt)])
  BY <1>5, <1>6, <1>7, FlattenMore
<1>11. CASE r.type = type
  <2>1. FlattenSeq(tt) = FlattenSeq(ss) \o << r >>
    BY <1>8, <1>10, <1>11 DEF Kept, Cat
  <2>2. FlattenSeq(ss) \o << r >> = Append(FlattenSeq(ss), r)
    BY <1>9, AppendIsConcat
  <2>3. QED
    BY <1>3, <1>9, <1>11, <2>1, <2>2, Zenon DEF t
<1>12. CASE r.type # type
  <2>1. FlattenSeq(tt) = Cat(FlattenSeq(ss), <<>>)
    BY <1>8, <1>10, <1>12 DEF Kept
  <2>2. Cat(FlattenSeq(ss), <<>>) = FlattenSeq(ss)
    BY <1>9, CatEmpty
  <2>3. QED
    BY <1>3, <1>9, <1>12, <2>1, <2>2, Zenon DEF t
<1>13. QED
  BY <1>11, <1>12

LEMMA OfTypeNone == ASSUME NEW type PROVE OfType(type, <<>>) = <<>>
<1>1. DOMAIN <<>> = {}
  OBVIOUS
<1>2. [k \in DOMAIN <<>> |-> IF <<>>[k].type = type THEN << <<>>[k] >> ELSE <<>>] = <<>>
  BY <1>1
<1>3. QED
  BY <1>2, FlattenNone, Zenon DEF OfType
-----------------------------------------------------------------------------
(* What was lost: places, at a bounded depth, and the references that were *)
(* taken for those of the blocks there.                                    *)
Losses(lost) ==
    /\ DOMAIN lost \subseteq Seq(Nat)
    /\ \A q \in DOMAIN lost : lost[q] \in Seq(BlockRef)
    /\ \E d \in Nat : \A q \in DOMAIN lost : Len(q) <= d

LEMMA NoLosses == Losses(<<>>)
<1>1. DOMAIN <<>> = {}
  OBVIOUS
<1>2. 0 \in Nat
  OBVIOUS
<1> QED BY <1>1, <1>2 DEF Losses

LEMMA MoreLosses ==
    ASSUME NEW lost, Losses(lost), NEW q \in Seq(Nat), NEW blocks \in Seq(BlockRef)
    PROVE  /\ Losses(Losing(lost, q, blocks))
           /\ DOMAIN Losing(lost, q, blocks) = DOMAIN lost \cup {q}
           /\ Losing(lost, q, blocks)[q] = blocks
           /\ \A p \in DOMAIN lost : p # q => Losing(lost, q, blocks)[p] = lost[p]
<1> DEFINE more == Losing(lost, q, blocks)
<1>1. /\ DOMAIN more = DOMAIN lost \cup {q} /\ more[q] = blocks
      /\ \A p \in DOMAIN lost : p # q => more[p] = lost[p]
  BY DEF Losing
<1> HIDE DEF more
<1>2. PICK d \in Nat : \A p \in DOMAIN lost : Len(p) <= d
  BY DEF Losses
<1>3. \A p \in DOMAIN lost : Len(p) \in Nat
  BY LenProperties DEF Losses
<1>4. Len(q) \in Nat
  BY LenProperties
<1>5. PICK m \in Nat : m >= d /\ m >= Len(q)
  BY <1>4
<1>6. \A p \in DOMAIN more : Len(p) <= m
  <2>1. ASSUME NEW p \in DOMAIN lost PROVE Len(p) <= m
    BY <1>2, <1>3, <1>5
  <2> QED BY <1>1, <1>5, <2>1
<1>7. \A p \in DOMAIN more : more[p] \in Seq(BlockRef)
  BY <1>1 DEF Losses
<1> QED BY <1>1, <1>6, <1>7 DEF Losses, more

LEMMA HeldType ==
    ASSUME NEW lost, Losses(lost), NEW n \in Node \cup {None}, NEW path
    PROVE  Held(lost, n, path) \in Seq(BlockRef)
<1>1. BlocksOf(n) \in Seq(BlockRef)
  BY TreeAssumption DEF BlocksOf
<1> QED BY <1>1 DEF Held, Losses

(* The equation of Leaves.                                                 *)
Places == (Node \cup {None}) \X Seq(Nat)
HeldAt(lost, x) == Held(lost, x[1], x[2])
Branch(L, lost, x) == FlattenSeq(Behind(L, HeldAt(lost, x), x[2]))

LEMMA HeldAtType ==
    ASSUME NEW lost, Losses(lost), NEW x \in Places
    PROVE  HeldAt(lost, x) \in Seq(BlockRef) /\ x[2] \in Seq(Nat)
<1>1. x[1] \in Node \cup {None} /\ x[2] \in Seq(Nat)
  BY DEF Places
<1> QED BY <1>1, HeldType DEF HeldAt

LEMMA BehindType ==
    ASSUME NEW L \in [Places -> Seq(BlockRef)], NEW refs \in Seq(BlockRef),
           NEW path \in Seq(Nat)
    PROVE  Behind(L, refs, path) \in Seq(Seq(BlockRef)) /\ Len(Behind(L, refs, path)) = Len(refs)
<1>1. ASSUME NEW k \in 1 .. Len(refs)
      PROVE  (IF refs[k].type = "indirect" THEN L[<<refs[k].to, Append(path, k)>>]
              ELSE << refs[k] >>) \in Seq(BlockRef)
  <2>1. refs[k] \in BlockRef
    OBVIOUS
  <2>2. refs[k].to \in Node \cup {None} /\ Append(path, k) \in Seq(Nat)
    BY <2>1, AppendProperties DEF BlockRef
  <2>3. <<refs[k].to, Append(path, k)>> \in Places
    BY <2>2 DEF Places
  <2>4. L[<<refs[k].to, Append(path, k)>>] \in Seq(BlockRef)
    BY <2>3
  <2>5. << refs[k] >> \in Seq(BlockRef)
    BY <2>1
  <2>6. QED
    BY <2>4, <2>5
<1>2. QED
  BY <1>1 DEF Behind

LEMMA BranchType ==
    ASSUME NEW L \in [Places -> Seq(BlockRef)], NEW lost, Losses(lost), NEW x \in Places
    PROVE  Branch(L, lost, x) \in Seq(BlockRef)
  BY HeldAtType, BehindType, FlattenType DEF Branch

(* An order of the blocks of the tree, of which those below one are less,  *)
(* and a depth below which nothing was lost.                               *)
Ranks(rank) ==
    /\ rank \in [Node -> 0 .. Cardinality(Node)]
    /\ \A n \in Node : \A k \in 1 .. Len(Refs[n]) :
          LET r == Refs[n][k]
          IN  (r.type = "indirect" /\ r.to # None) => rank[r.to] < rank[n]
Ordered(rank, depth, lost) ==
    /\ Ranks(rank) /\ Cardinality(Node) \in Nat
    /\ depth \in Nat /\ \A q \in DOMAIN lost : Len(q) <= depth

LEMMA OrderExists ==
    ASSUME NEW lost, Losses(lost)
    PROVE  \E rank, depth : Ordered(rank, depth, lost)
<1>1. PICK rank : Ranks(rank)
  BY AcyclicAssumption, Zenon DEF Ranks
<1>2. PICK depth \in Nat : \A q \in DOMAIN lost : Len(q) <= depth
  BY DEF Losses
<1>3. Cardinality(Node) \in Nat
  BY AcyclicAssumption, FS_CardinalityType
<1> QED BY <1>1, <1>2, <1>3 DEF Ordered

(* How many blocks may follow one another from a place on: down to that    *)
(* depth a damaged block may refer to any other, below it the tree does.   *)
Height(rank, depth, x) ==
    IF Len(x[2]) <= depth THEN Cardinality(Node) + 2 + depth - Len(x[2])
    ELSE IF x[1] = None THEN 0 ELSE rank[x[1]] + 1
Low(rank, depth, x, d) == Height(rank, depth, x) < d

LEMMA HeightType ==
    ASSUME NEW rank, NEW depth, NEW lost, Ordered(rank, depth, lost), NEW x \in Places
    PROVE  /\ Height(rank, depth, x) \in Nat
           /\ Cardinality(Node) + 3 + depth \in Nat
           /\ Low(rank, depth, x, Cardinality(Node) + 3 + depth)
<1> DEFINE c == Cardinality(Node)
           n == Len(x[2])
<1>1. c \in Nat /\ depth \in Nat
  BY DEF Ordered
<1>2. x[1] \in Node \cup {None} /\ n \in Nat
  BY LenProperties DEF Places
<1>3. x[1] # None => rank[x[1]] \in 0 .. c
  BY <1>2 DEF Ordered, Ranks
<1>4. Height(rank, depth, x) =
         IF n <= depth THEN c + 2 + depth - n ELSE IF x[1] = None THEN 0 ELSE rank[x[1]] + 1
  BY DEF Height
<1> HIDE DEF c, n
<1>5. Height(rank, depth, x) \in Nat /\ Height(rank, depth, x) < c + 3 + depth
  BY <1>1, <1>2, <1>3, <1>4
<1> QED BY <1>1, <1>5 DEF Low, c

(* A place behind another one is lower.                                    *)
LEMMA LowerBehind ==
    ASSUME NEW rank, NEW depth, NEW lost, Ordered(rank, depth, lost), Losses(lost),
           NEW x \in Places, NEW d \in Nat, Low(rank, depth, x, d + 1),
           NEW k \in 1 .. Len(HeldAt(lost, x)), HeldAt(lost, x)[k].type = "indirect"
    PROVE  LET y == <<HeldAt(lost, x)[k].to, Append(x[2], k)>>
           IN  y \in Places /\ y[2] = Append(x[2], k) /\ Low(rank, depth, y, d)
<1> DEFINE r == HeldAt(lost, x)[k]
           p == Append(x[2], k)
           y == <<r.to, p>>
           c == Cardinality(Node)
           n == Len(x[2])
<1>1. c \in Nat /\ depth \in Nat
  BY DEF Ordered
<1>2. HeldAt(lost, x) \in Seq(BlockRef) /\ x[2] \in Seq(Nat) /\ x[1] \in Node \cup {None}
  BY HeldAtType DEF Places
<1>3. r \in BlockRef
  BY <1>2
<1>4. p \in Seq(Nat) /\ Len(p) = n + 1 /\ n \in Nat
  BY <1>2, AppendProperties, LenProperties
<1>5. r.to \in Node \cup {None}
  <2> HIDE DEF r
  <2> QED BY <1>3 DEF BlockRef
<1>6. y \in Places /\ y[1] = r.to /\ y[2] = p
  <2> HIDE DEF r, p
  <2> QED BY <1>4, <1>5 DEF Places
<1>7. r.to # None => rank[r.to] \in 0 .. c
  <2> HIDE DEF r
  <2> QED BY <1>5 DEF Ordered, Ranks
<1>8. ASSUME ~ n <= depth
      PROVE  x[1] # None /\ (r.to # None => rank[r.to] < rank[x[1]]) /\ rank[x[1]] \in 0 .. c
  <2>1. x[2] \notin DOMAIN lost
    BY <1>8 DEF Ordered
  <2>2. HeldAt(lost, x) = BlocksOf(x[1])
    BY <2>1 DEF HeldAt, Held
  <2>3. x[1] # None
    <3> SUFFICES ASSUME x[1] = None PROVE FALSE
      OBVIOUS
    <3>1. Len(HeldAt(lost, x)) = 0
      BY <2>2 DEF BlocksOf
    <3> QED BY <3>1
  <2>4. HeldAt(lost, x) = Refs[x[1]] /\ x[1] \in Node
    BY <1>2, <2>2, <2>3 DEF BlocksOf
  <2> QED BY <2>3, <2>4 DEF Ordered, Ranks
<1>9. /\ Height(rank, depth, x) =
            IF n <= depth THEN c + 2 + depth - n ELSE IF x[1] = None THEN 0 ELSE rank[x[1]] + 1
      /\ Height(rank, depth, y) =
            IF n + 1 <= depth THEN c + 2 + depth - (n + 1)
            ELSE IF r.to = None THEN 0 ELSE rank[r.to] + 1
  <2>1. Len(y[2]) = n + 1 /\ y[1] = r.to
    BY <1>4, <1>6
  <2> HIDE DEF y, r
  <2> QED BY <2>1 DEF Height
<1>10. Height(rank, depth, x) < d + 1
  BY DEF Low
<1> HIDE DEF c, n, y, r
<1>11. Height(rank, depth, y) < d
  <2>1. CASE n <= depth
    <3>1. c + 2 + depth - n < d + 1
      BY <1>9, <1>10, <2>1
    <3>2. CASE n + 1 <= depth
      BY <1>1, <1>4, <1>9, <3>1, <3>2
    <3>3. CASE ~ n + 1 <= depth /\ r.to = None
      <4>1. Height(rank, depth, y) = 0
        BY <1>9, <3>3
      <4> QED BY <1>1, <1>4, <2>1, <3>1, <4>1
    <3>4. CASE ~ n + 1 <= depth /\ r.to # None
      <4>1. Height(rank, depth, y) = rank[r.to] + 1
        BY <1>9, <3>4
      <4>2. PICK i \in 0 .. c : i = rank[r.to]
        BY <1>7, <3>4
      <4>3. n = depth
        BY <1>1, <1>4, <2>1, <3>4
      <4>4. i + 1 < d
        BY <1>1, <3>1, <4>3
      <4> QED BY <4>1, <4>2, <4>4
    <3> QED BY <3>2, <3>3, <3>4
  <2>2. CASE ~ n <= depth
    <3>1. ~ n + 1 <= depth
      BY <1>1, <1>4, <2>2
    <3>2. PICK h \in 0 .. c : h = rank[x[1]]
      BY <1>8, <2>2
    <3>3. h + 1 < d + 1
      BY <1>8, <1>9, <1>10, <2>2, <3>2
    <3>4. CASE r.to = None
      <4>1. Height(rank, depth, y) = 0
        BY <1>9, <3>1, <3>4
      <4> QED BY <1>1, <3>3, <4>1
    <3>5. CASE r.to # None
      <4>1. Height(rank, depth, y) = rank[r.to] + 1
        BY <1>9, <3>1, <3>5
      <4>2. PICK i \in 0 .. c : i = rank[r.to]
        BY <1>7, <3>5
      <4>3. i < h
        BY <1>8, <2>2, <3>2, <3>5, <4>2
      <4>4. i + 1 < d
        BY <1>1, <3>3, <4>3
      <4> QED BY <4>1, <4>2, <4>4
    <3> QED BY <3>4, <3>5
  <2> QED BY <2>1, <2>2
<1> QED BY <1>6, <1>11 DEF Low, y, r

(* What is behind a place depends on what is behind lower places.          *)
LEMMA BranchOfLower ==
    ASSUME NEW rank, NEW depth, NEW lost, Ordered(rank, depth, lost), Losses(lost),
           NEW d \in Nat, NEW f, NEW g, NEW x \in Places, Low(rank, depth, x, d + 1),
           \A y \in Places : Low(rank, depth, y, d) => f[y] = g[y]
    PROVE  Branch(f, lost, x) = Branch(g, lost, x)
<1> DEFINE refs == HeldAt(lost, x)
           path == x[2]
<1>1. ASSUME NEW k \in 1 .. Len(refs), refs[k].type = "indirect"
      PROVE  f[<<refs[k].to, Append(path, k)>>] = g[<<refs[k].to, Append(path, k)>>]
  <2> DEFINE y == <<refs[k].to, Append(path, k)>>
  <2>1. y \in Places /\ Low(rank, depth, y, d)
    BY <1>1, LowerBehind
  <2> QED BY <2>1
<1>2. Behind(f, refs, path) = Behind(g, refs, path)
  <2> HIDE DEF refs, path
  <2> QED BY <1>1 DEF Behind
<1> QED BY <1>2 DEF Branch

LEMMA LeavesExist ==
    ASSUME NEW lost, Losses(lost)
    PROVE  \E f \in [Places -> Seq(BlockRef)] : \A x \in Places : f[x] = Branch(f, lost, x)
<1>1. PICK rank, depth : Ordered(rank, depth, lost)
  BY OrderExists
<1> DEFINE V == [Places -> Seq(BlockRef)]
           last == Cardinality(Node) + 3 + depth
           Upto(f, d) == \A x \in Places : Low(rank, depth, x, d) => f[x] = Branch(f, lost, x)
           Good == {d \in Nat : \E f \in V : Upto(f, d)}
<1>2. 0 \in Good
  <2> DEFINE f0 == [x \in Places |-> <<>>]
  <2>1. f0 \in V
    OBVIOUS
  <2>2. ASSUME NEW x \in Places PROVE ~ Low(rank, depth, x, 0)
    <3>1. Height(rank, depth, x) \in Nat
      BY <1>1, HeightType
    <3> QED BY <3>1 DEF Low
  <2>3. QED
    BY <2>1, <2>2
<1>3. ASSUME NEW d \in Nat, d \in Good
      PROVE  d + 1 \in Good
  <2>1. PICK f \in V : Upto(f, d)
    BY <1>3
  <2> DEFINE h == [x \in Places |-> IF Low(rank, depth, x, d) THEN f[x] ELSE Branch(f, lost, x)]
  <2>2. h \in V
    BY BranchType
  <2>3. \A y \in Places : Low(rank, depth, y, d) => f[y] = h[y]
    OBVIOUS
  <2>4. ASSUME NEW x \in Places, Low(rank, depth, x, d + 1) PROVE h[x] = Branch(h, lost, x)
    <3>1. Branch(f, lost, x) = Branch(h, lost, x)
      <4> HIDE DEF h, V, Upto, Good, last
      <4>1. QED
        BY ONLY <1>1, <2>3, <2>4, BranchOfLower, Losses(lost), d \in Nat, x \in Places
    <3>2. h[x] = Branch(f, lost, x)
      BY <2>1
    <3>3. QED
      BY <3>1, <3>2, Zenon
  <2> HIDE DEF h
  <2>5. Upto(h, d + 1)
    BY <2>4
  <2>6. \E g \in V : Upto(g, d + 1)
    BY <2>2, <2>5
  <2> HIDE DEF Upto, V
  <2>7. QED
    BY <2>6
<1> HIDE DEF Good
<1>4. Nat \subseteq Good
  BY <1>2, <1>3, Counting, Zenon
<1>5. last \in Nat /\ \A x \in Places : Low(rank, depth, x, last)
  <2>1. last \in Nat
    BY <1>1 DEF Ordered
  <2> QED BY <1>1, <2>1, HeightType
<1>6. PICK f \in V : Upto(f, last)
  BY <1>4, <1>5 DEF Good
<1>7. QED
  BY <1>5, <1>6

LEMMA LeavesIs ==
    ASSUME NEW lost, Losses(lost)
    PROVE  /\ Leaves(lost) \in [Places -> Seq(BlockRef)]
           /\ \A x \in Places : Leaves(lost)[x] = Branch(Leaves(lost), lost, x)
<1> DEFINE F(f) == [x \in Places |-> Branch(f, lost, x)]
           L == CHOOSE f : f = F(f)
<1>1. Leaves(lost) = L
  BY Zenon DEF Leaves, Branch, HeldAt, Places
<1>2. PICK f \in [Places -> Seq(BlockRef)] : \A x \in Places : f[x] = Branch(f, lost, x)
  BY LeavesExist
<1>3. f = F(f)
  <2>1. F(f) \in [Places -> Seq(BlockRef)]
    BY BranchType
  <2>2. \A x \in Places : f[x] = F(f)[x]
    BY <1>2
  <2> HIDE DEF F
  <2>3. QED
    BY <2>1, <2>2
<1>4. L = F(L)
  <2> HIDE DEF F
  <2>1. QED
    BY <1>3, Zenon
<1> HIDE DEF L
<1>5. \A x \in Places : L[x] = Branch(L, lost, x)
  BY <1>4, Zenon
<1>6. PICK rank, depth : Ordered(rank, depth, lost)
  BY OrderExists
<1> DEFINE last == Cardinality(Node) + 3 + depth
           Good == {d \in Nat : \A x \in Places : Low(rank, depth, x, d) => L[x] = f[x]}
<1>7. 0 \in Good
  <2>1. ASSUME NEW x \in Places PROVE ~ Low(rank, depth, x, 0)
    <3>1. Height(rank, depth, x) \in Nat
      BY <1>6, HeightType
    <3> QED BY <3>1 DEF Low
  <2>2. QED
    BY <2>1
<1>8. ASSUME NEW d \in Nat, d \in Good
      PROVE  d + 1 \in Good
  <2>1. ASSUME NEW x \in Places, Low(rank, depth, x, d + 1) PROVE L[x] = f[x]
    <3>1. \A y \in Places : Low(rank, depth, y, d) => L[y] = f[y]
      BY <1>8
    <3>2. Branch(L, lost, x) = Branch(f, lost, x)
      BY <1>6, <2>1, <3>1, BranchOfLower
    <3>3. QED
      BY <3>2, <1>2, <1>5
  <2>2. QED
    BY <2>1
<1> HIDE DEF Good
<1>9. Nat \subseteq Good
  BY <1>7, <1>8, Counting, Zenon
<1>10. \A x \in Places : L[x] = f[x]
  <2>1. SUFFICES ASSUME NEW x \in Places PROVE L[x] = f[x]
    OBVIOUS
  <2>2. last \in Good /\ Low(rank, depth, x, last)
    BY <1>6, <1>9, HeightType
  <2>3. QED
    BY <2>2 DEF Good
<1>11. L \in [Places -> Seq(BlockRef)]
  <2>1. L = [x \in Places |-> Branch(L, lost, x)]
    BY <1>4
  <2>2. \A x \in Places : L[x] \in Seq(BlockRef)
    BY <1>10
  <2>3. QED
    BY <2>1, <2>2
<1>12. QED
  BY <1>1, <1>5, <1>11, Zenon

-----------------------------------------------------------------------------
(* A place is above another one, or is that one.                           *)
Leads(p, q) == Len(p) <= Len(q) /\ \A j \in 1 .. Len(p) : p[j] = q[j]

LEMMA NotBelow ==
    ASSUME NEW p \in Seq(Nat), NEW q \in Seq(Nat), NEW k \in Nat, ~ Leads(p, q)
    PROVE  p # q /\ ~ Leads(Append(p, k), q)
<1> DEFINE a == Append(p, k)
<1>1. a \in Seq(Nat) /\ Len(a) = Len(p) + 1 /\ \A j \in 1 .. Len(p) : a[j] = p[j]
  BY AppendProperties
<1>2. p # q
  BY DEF Leads
<1> HIDE DEF a
<1>3. ~ Leads(a, q)
  <2> SUFFICES ASSUME Leads(a, q) PROVE Leads(p, q)
    OBVIOUS
  <2>1. Len(p) \in Nat /\ Len(q) \in Nat
    BY LenProperties
  <2>2. Len(p) <= Len(q) /\ \A j \in 1 .. Len(p) : j \in 1 .. Len(a)
    BY <1>1, <2>1 DEF Leads
  <2>3. \A j \in 1 .. Len(p) : p[j] = q[j]
    BY <1>1, <2>2 DEF Leads
  <2> QED BY <2>2, <2>3 DEF Leads
<1>4. QED
  BY <1>2, <1>3 DEF a

(* What is lost at one place changes nothing at places that do not lead    *)
(* there.                                                                  *)
LEMMA LeavesKept ==
    ASSUME NEW lost, Losses(lost), NEW q \in Seq(Nat), NEW blocks \in Seq(BlockRef)
    PROVE  \A x \in Places :
              ~ Leads(x[2], q) => Leaves(Losing(lost, q, blocks))[x] = Leaves(lost)[x]
<1> DEFINE more == Losing(lost, q, blocks)
           L == Leaves(lost)
           M == Leaves(more)
<1>0. /\ Losses(more) /\ DOMAIN more = DOMAIN lost \cup {q}
      /\ \A p \in DOMAIN lost : p # q => more[p] = lost[p]
  BY MoreLosses
<1> HIDE DEF more
<1>1. PICK rank, depth : Ordered(rank, depth, more)
  BY <1>0, OrderExists
<1>a. Ordered(rank, depth, lost)
  BY <1>0, <1>1 DEF Ordered
<1> DEFINE last == Cardinality(Node) + 3 + depth
           Good == {d \in Nat : \A x \in Places :
                       (Low(rank, depth, x, d) /\ ~ Leads(x[2], q)) => M[x] = L[x]}
<1>2. /\ \A x \in Places : L[x] = Branch(L, lost, x)
      /\ \A x \in Places : M[x] = Branch(M, more, x)
  BY <1>0, LeavesIs
<1> HIDE DEF L, M
<1>3. 0 \in Good
  <2>1. ASSUME NEW x \in Places PROVE ~ Low(rank, depth, x, 0)
    <3>1. Height(rank, depth, x) \in Nat
      BY <1>1, HeightType
    <3> QED BY <3>1 DEF Low
  <2>2. QED
    BY <2>1
<1>4. ASSUME NEW d \in Nat, d \in Good
      PROVE  d + 1 \in Good
  <2>1. ASSUME NEW x \in Places, Low(rank, depth, x, d + 1), ~ Leads(x[2], q)
        PROVE  M[x] = L[x]
    <3> DEFINE refs == HeldAt(lost, x)
               path == x[2]
    <3>1. refs \in Seq(BlockRef) /\ path \in Seq(Nat)
      BY HeldAtType
    <3>2. path # q
      BY <2>1, <3>1, NotBelow
    <3>3. HeldAt(more, x) = refs
      BY <1>0, <3>2 DEF HeldAt, Held
    <3>4. ASSUME NEW k \in 1 .. Len(refs), refs[k].type = "indirect"
          PROVE  M[<<refs[k].to, Append(path, k)>>] = L[<<refs[k].to, Append(path, k)>>]
      <4> DEFINE y == <<refs[k].to, Append(path, k)>>
      <4>1. y \in Places /\ y[2] = Append(path, k) /\ Low(rank, depth, y, d)
        BY <1>a, <2>1, <3>4, LowerBehind
      <4>2. k \in Nat
        OBVIOUS
      <4>3. ~ Leads(Append(path, k), q)
        <5> HIDE DEF path
        <5> QED BY <2>1, <3>1, <4>2, NotBelow DEF path
      <4>4. ~ Leads(y[2], q)
        BY <4>1, <4>3
      <4> HIDE DEF y
      <4>5. M[y] = L[y]
        BY <1>4, <4>1, <4>4
      <4> QED BY <4>5 DEF y
    <3>5. Behind(M, refs, path) = Behind(L, refs, path)
      <4> HIDE DEF refs, path
      <4> QED BY <3>4 DEF Behind
    <3>6. Branch(M, more, x) = Branch(L, lost, x)
      BY <3>3, <3>5 DEF Branch
    <3> QED BY <3>6, <1>2
  <2>2. QED
    BY <2>1
<1> HIDE DEF Good
<1>5. Nat \subseteq Good
  BY <1>3, <1>4, Counting, Zenon
<1>6. SUFFICES ASSUME NEW x \in Places, ~ Leads(x[2], q) PROVE M[x] = L[x]
  BY DEF L, M, more
<1>7. last \in Good /\ Low(rank, depth, x, last)
  BY <1>1, <1>5, HeightType
<1>8. QED
  BY <1>6, <1>7 DEF Good
-----------------------------------------------------------------------------
(* What lies behind the first n references of a level at a place.          *)
Got(lost, blocks, n, path) ==
    FlattenSeq([j \in 1 .. n |-> Behind(Leaves(lost), blocks, path)[j]])

LEMMA GotFacts ==
    ASSUME NEW lost, Losses(lost), NEW blocks \in Seq(BlockRef), NEW n \in 0 .. Len(blocks),
           NEW path \in Seq(Nat)
    PROVE  /\ Got(lost, blocks, n, path) \in Seq(BlockRef)
           /\ n = 0 => Got(lost, blocks, n, path) = <<>>
           /\ n = Len(blocks) =>
                 Got(lost, blocks, n, path) = FlattenSeq(Behind(Leaves(lost), blocks, path))
           /\ n < Len(blocks) =>
                 Got(lost, blocks, n + 1, path) =
                    Cat(Got(lost, blocks, n, path), Behind(Leaves(lost), blocks, path)[n + 1])
<1> DEFINE B == Behind(Leaves(lost), blocks, path)
           S == [j \in 1 .. n |-> B[j]]
           T == [j \in 1 .. n + 1 |-> B[j]]
<1>1. B \in Seq(Seq(BlockRef)) /\ Len(B) = Len(blocks)
  BY LeavesIs, BehindType
<1> HIDE DEF B
<1>2. S \in Seq(Seq(BlockRef)) /\ Len(S) = n
  BY <1>1
<1>3. n < Len(blocks) => T \in Seq(Seq(BlockRef)) /\ Len(T) = n + 1
  BY <1>1
<1>4. n = Len(blocks) => S = B
  BY <1>1
<1>5. Got(lost, blocks, n, path) = FlattenSeq(S) /\ Got(lost, blocks, n + 1, path) = FlattenSeq(T)
  BY DEF Got, B
<1>6. n = 0 => S = <<>>
  BY <1>2
<1>7. n < Len(blocks) => (\A j \in 1 .. n : T[j] = S[j]) /\ T[n + 1] = B[n + 1]
  OBVIOUS
<1> HIDE DEF S, T
<1>8. FlattenSeq(S) \in Seq(BlockRef)
  BY <1>2, FlattenType
<1>9. n < Len(blocks) => FlattenSeq(T) = Cat(FlattenSeq(S), T[n + 1])
  BY <1>2, <1>3, <1>7, FlattenMore
<1>10. QED
  BY <1>4, <1>5, <1>6, <1>7, <1>8, <1>9, FlattenNone DEF B

LEMMA GotKept ==
    ASSUME NEW lost, Losses(lost), NEW blocks \in Seq(BlockRef), NEW n \in 0 .. Len(blocks),
           NEW path \in Seq(Nat), NEW q \in Seq(Nat), NEW took \in Seq(BlockRef),
           \A j \in 1 .. n : ~ Leads(Append(path, j), q)
    PROVE  Got(Losing(lost, q, took), blocks, n, path) = Got(lost, blocks, n, path)
<1> DEFINE L == Leaves(lost)
           M == Leaves(Losing(lost, q, took))
<1>1. ASSUME NEW j \in 1 .. n
      PROVE  Behind(M, blocks, path)[j] = Behind(L, blocks, path)[j]
  <2>1. j \in 1 .. Len(blocks) /\ blocks[j] \in BlockRef
    OBVIOUS
  <2> DEFINE y == <<blocks[j].to, Append(path, j)>>
  <2>2. blocks[j].to \in Node \cup {None} /\ Append(path, j) \in Seq(Nat)
    BY <2>1, AppendProperties DEF BlockRef
  <2>3. y \in Places /\ y[2] = Append(path, j)
    BY <2>2 DEF Places
  <2>4. M[y] = L[y]
    <3> HIDE DEF y
    <3>1. QED
      BY <2>3, LeavesKept
  <2> HIDE DEF L, M
  <2>5. QED
    BY <2>1, <2>4 DEF Behind
<1>2. [j \in 1 .. n |-> Behind(M, blocks, path)[j]] = [j \in 1 .. n |-> Behind(L, blocks, path)[j]]
  <2> HIDE DEF L, M
  <2>1. QED
    BY <1>1
<1>4. QED
  BY <1>2, Zenon DEF Got

-----------------------------------------------------------------------------
(* The chain of levels of a walk, outermost first: the place of a level,   *)
(* the reference taken at it, and what lies behind the places passed.      *)
Place(fs, k) == [j \in 1 .. k - 1 |-> fs[j].offset]
Taken(fs, k) == fs[k].blocks[fs[k].offset]
GotAbove(lost, fs, k) == Got(lost, fs[k].blocks, fs[k].offset - 1, Place(fs, k))
Before(lost, fs, n) == FlattenSeq([k \in 1 .. n |-> GotAbove(lost, fs, k)])
GotAt(lost, fs, k) == Got(lost, fs[k].blocks, fs[k].offset, Place(fs, k))
Walked(lost, fs) == Cat(Before(lost, fs, Len(fs) - 1), GotAt(lost, fs, Len(fs)))

Levels(fs) ==
    /\ fs \in Seq(Level) /\ Len(fs) > 0
    /\ \A k \in 1 .. Len(fs) :
          /\ fs[k].offset <= Len(fs[k].blocks)
          /\ k < Len(fs) => fs[k].offset > 0

(* Each level below the first is of the block that was referred to, or has *)
(* what was taken for it.                                                  *)
OnTree(set, lost, fs) ==
    /\ fs[1].blocks = set
    /\ \A k \in 1 .. Len(fs) - 1 :
          /\ Taken(fs, k).type = "indirect"
          /\ fs[k + 1].blocks = Held(lost, Taken(fs, k).to, Place(fs, k + 1))

(* What was lost the walk has come to.                                     *)
LostBehind(lost, fs) ==
    \A q \in DOMAIN lost : \A k \in 1 .. Len(fs) :
        (Len(q) >= k /\ \A j \in 1 .. k - 1 : q[j] = fs[j].offset) => q[k] <= fs[k].offset

WalkInv(set, lost, fs) ==
    Losses(lost) /\ Levels(fs) /\ OnTree(set, lost, fs) /\ LostBehind(lost, fs)

LEMMA OneLevel ==
    ASSUME NEW x \in Level
    PROVE  /\ x.blocks \in Seq(BlockRef) /\ x.offset \in Nat
           /\ LET y == [x EXCEPT !.offset = @ + 1]
              IN  y \in Level /\ y.blocks = x.blocks /\ y.offset = x.offset + 1
<1> DEFINE B == Seq(BlockRef)
<1>1. x \in [blocks : B, offset : Nat]
  BY DEF Level
<1> HIDE DEF B
<1> DEFINE y == [x EXCEPT !.offset = @ + 1]
<1>2. x.blocks \in B /\ x.offset \in Nat
  BY <1>1
<1>3. y \in [blocks : B, offset : Nat] /\ y.blocks = x.blocks /\ y.offset = x.offset + 1
  BY <1>1
<1>4. QED
  BY <1>2, <1>3, Zenon DEF B, Level

LEMMA LevelFacts ==
    ASSUME NEW fs, Levels(fs), NEW k \in 1 .. Len(fs)
    PROVE  /\ fs[k].blocks \in Seq(BlockRef) /\ fs[k].offset \in 0 .. Len(fs[k].blocks)
           /\ k < Len(fs) => fs[k].offset - 1 \in 0 .. Len(fs[k].blocks)
           /\ Place(fs, k) \in Seq(Nat) /\ Len(Place(fs, k)) = k - 1
           /\ \A j \in 1 .. k - 1 : Place(fs, k)[j] = fs[j].offset
<1>1. \A j \in 1 .. Len(fs) : fs[j] \in Level /\ fs[j].offset \in Nat
  <2>1. \A j \in 1 .. Len(fs) : fs[j] \in Level
    BY DEF Levels
  <2>2. QED
    BY <2>1, OneLevel
<1>2. fs[k].blocks \in Seq(BlockRef) /\ fs[k].offset \in 0 .. Len(fs[k].blocks)
  <2>1. fs[k] \in Level /\ fs[k].offset <= Len(fs[k].blocks)
    BY <1>1 DEF Levels
  <2>2. fs[k].blocks \in Seq(BlockRef) /\ fs[k].offset \in Nat
    BY <2>1, OneLevel
  <2> DEFINE b == fs[k].blocks
             B == BlockRef
  <2> HIDE DEF b, B
  <2>3. b \in Seq(B) => Len(b) \in Nat
    OBVIOUS
  <2>4. QED
    BY <2>1, <2>2, <2>3 DEF b, B
<1>3. k < Len(fs) => fs[k].offset > 0
  BY DEF Levels
<1>4. \A j \in 1 .. k - 1 : j \in 1 .. Len(fs)
  BY DEF Levels
<1>5. Place(fs, k) \in [1 .. k - 1 -> Nat] /\ k - 1 \in Nat
  BY <1>1, <1>4 DEF Place
<1>6. Place(fs, k) \in Seq(Nat) /\ Len(Place(fs, k)) = k - 1
  BY <1>5
<1>7. QED
  BY <1>2, <1>3, <1>6 DEF Place

LEMMA BeforeFacts ==
    ASSUME NEW fs, Levels(fs), NEW lost, Losses(lost), NEW n \in 0 .. Len(fs) - 1
    PROVE  /\ Before(lost, fs, n) \in Seq(BlockRef)
           /\ n < Len(fs) - 1 =>
                 Before(lost, fs, n + 1) = Cat(Before(lost, fs, n), GotAbove(lost, fs, n + 1))
<1> DEFINE S == [k \in 1 .. n |-> GotAbove(lost, fs, k)]
           T == [k \in 1 .. n + 1 |-> GotAbove(lost, fs, k)]
<1>1. \A k \in 1 .. Len(fs) - 1 : GotAbove(lost, fs, k) \in Seq(BlockRef)
  <2>1. SUFFICES ASSUME NEW k \in 1 .. Len(fs) - 1
                 PROVE  GotAbove(lost, fs, k) \in Seq(BlockRef)
    OBVIOUS
  <2>2. k \in 1 .. Len(fs) /\ k < Len(fs)
    BY DEF Levels
  <2>3. QED
    BY <2>2, LevelFacts, GotFacts DEF GotAbove
<1>2. Len(fs) \in Nat
  BY DEF Levels
<1>3. S \in Seq(Seq(BlockRef)) /\ Len(S) = n
  BY <1>1, <1>2
<1>4. n < Len(fs) - 1 => T \in Seq(Seq(BlockRef)) /\ Len(T) = n + 1
  BY <1>1, <1>2
<1>5. (\A k \in 1 .. n : T[k] = S[k]) /\ T[n + 1] = GotAbove(lost, fs, n + 1)
  OBVIOUS
<1>6. Before(lost, fs, n) = FlattenSeq(S) /\ Before(lost, fs, n + 1) = FlattenSeq(T)
  BY DEF Before
<1> HIDE DEF S, T
<1>7. QED
  BY <1>3, <1>4, <1>5, <1>6, FlattenType, FlattenMore

(* The levels above are passed as before when they are the same, and what  *)
(* is lost below changes nothing of it.                                    *)
LEMMA BeforeSame ==
    ASSUME NEW fs, NEW gs, NEW lost, NEW n \in Nat, \A k \in 1 .. n : gs[k] = fs[k]
    PROVE  Before(lost, gs, n) = Before(lost, fs, n)
<1>1. ASSUME NEW k \in 1 .. n PROVE GotAbove(lost, gs, k) = GotAbove(lost, fs, k)
  <2>1. Place(gs, k) = Place(fs, k)
    <3>1. \A j \in 1 .. k - 1 : j \in 1 .. n
      OBVIOUS
    <3>2. QED
      BY <3>1 DEF Place
  <2>2. QED
    BY <2>1 DEF GotAbove
<1>2. QED
  BY <1>1, Zenon DEF Before

LEMMA BeforeKept ==
    ASSUME NEW fs, Levels(fs), NEW lost, Losses(lost), NEW n \in 0 .. Len(fs) - 1,
           NEW q \in Seq(Nat), NEW took \in Seq(BlockRef),
           Len(q) >= n, \A j \in 1 .. n : q[j] = fs[j].offset
    PROVE  Before(Losing(lost, q, took), fs, n) = Before(lost, fs, n)
<1> DEFINE more == Losing(lost, q, took)
<1>1. ASSUME NEW k \in 1 .. n
      PROVE  GotAbove(more, fs, k) = GotAbove(lost, fs, k)
  <2>1. k \in 1 .. Len(fs) /\ k < Len(fs) /\ Len(fs) \in Nat
    BY DEF Levels
  <2> DEFINE p == Place(fs, k)
             blocks == fs[k].blocks
             off == fs[k].offset
  <2>2. /\ blocks \in Seq(BlockRef) /\ off - 1 \in 0 .. Len(blocks)
        /\ p \in Seq(Nat) /\ Len(p) = k - 1 /\ off \in Nat
    BY <2>1, LevelFacts
  <2>3. q[k] = off /\ Len(q) >= k
    OBVIOUS
  <2> HIDE DEF p, off
  <2>5. ASSUME NEW j \in 1 .. off - 1 PROVE ~ Leads(Append(p, j), q)
    <3>1. Len(Append(p, j)) = k /\ Append(p, j)[k] = j
      <4>1. j \in Nat /\ Len(p) + 1 = k
        BY <2>1, <2>2
      <4>2. p \in Seq(Nat)
        BY <2>2
      <4>3. Len(Append(p, j)) = Len(p) + 1 /\ Append(p, j)[Len(p) + 1] = j
        BY ONLY <4>1, <4>2, AppendProperties
      <4>4. QED
        BY ONLY <4>1, <4>3
    <3>2. q[k] # j /\ k \in 1 .. k
      BY <2>2, <2>3
    <3>3. QED
      BY <3>1, <3>2 DEF Leads
  <2>6. Got(more, blocks, off - 1, p) = Got(lost, blocks, off - 1, p)
    <3> HIDE DEF blocks
    <3>1. PICK m : m = off - 1
      OBVIOUS
    <3>2. m \in 0 .. Len(blocks) /\ \A j \in 1 .. m : ~ Leads(Append(p, j), q)
      BY <2>2, <2>5, <3>1
    <3>3. /\ blocks \in Seq(BlockRef) /\ p \in Seq(Nat) /\ q \in Seq(Nat)
          /\ took \in Seq(BlockRef) /\ Losses(lost)
      BY <2>2
    <3>4. Got(more, blocks, m, p) = Got(lost, blocks, m, p)
      BY ONLY <3>2, <3>3, GotKept
    <3>5. QED
      BY <3>1, <3>4
  <2> HIDE DEF more
  <2>7. QED
    BY <2>6 DEF GotAbove, p, off
<1>2. QED
  BY <1>1, Zenon DEF Before
-----------------------------------------------------------------------------
(* Going on to the next reference of a level.                              *)
Advanced(fs) == [fs EXCEPT ![Len(fs)].offset = @ + 1]

LEMMA AdvancedFacts ==
    ASSUME NEW fs, Levels(fs), fs[Len(fs)].offset < Len(fs[Len(fs)].blocks)
    PROVE  LET gs == Advanced(fs)
               m == Len(fs)
           IN  /\ gs \in Seq(Level) /\ Len(gs) = m /\ m \in Nat \ {0}
               /\ \A k \in 1 .. m - 1 : gs[k] = fs[k]
               /\ gs[m].blocks = fs[m].blocks /\ gs[m].offset = fs[m].offset + 1
               /\ Levels(gs)
<1> DEFINE m == Len(fs)
           f == [fs[m] EXCEPT !.offset = @ + 1]
           gs == [fs EXCEPT ![m] = f]
<1>1. gs = Advanced(fs)
  BY DEF Advanced
<1>2. m \in Nat \ {0} /\ fs \in Seq(Level) /\ fs[m] \in Level
  BY DEF Levels
<1>3. f \in Level /\ f.blocks = fs[m].blocks /\ f.offset = fs[m].offset + 1
  BY <1>2, OneLevel
<1> HIDE DEF f
<1>4. gs \in Seq(Level) /\ Len(gs) = m /\ gs[m] = f /\ \A k \in 1 .. m - 1 : gs[k] = fs[k]
  BY <1>2, <1>3
<1> HIDE DEF gs
<1>5. Levels(gs)
  <2>1. ASSUME NEW k \in 1 .. m
        PROVE  gs[k].offset <= Len(gs[k].blocks) /\ (k < m => gs[k].offset > 0)
    <3>1. CASE k = m
      <4>1. fs[m].offset \in Nat /\ Len(fs[m].blocks) \in Nat
        <5>1. fs[m].blocks \in Seq(BlockRef) /\ fs[m].offset \in Nat
          BY <1>2, OneLevel
        <5>2. QED
          BY <5>1, LenProperties
      <4>2. QED
        BY <3>1, <4>1, <1>3, <1>4
    <3>2. CASE k # m
      BY <3>2, <1>2, <1>4 DEF Levels
    <3>3. QED
      BY <3>1, <3>2
  <2>2. QED
    BY <1>2, <1>4, <2>1 DEF Levels
<1>6. QED
  BY <1>1, <1>2, <1>3, <1>4, <1>5

(* The order of the walk is kept by going on.                              *)
LEMMA LostAdvanced ==
    ASSUME NEW fs, Levels(fs), fs[Len(fs)].offset < Len(fs[Len(fs)].blocks),
           NEW lost, Losses(lost), LostBehind(lost, fs)
    PROVE  /\ LostBehind(lost, Advanced(fs))
           /\ Append(Place(fs, Len(fs)), fs[Len(fs)].offset + 1) \notin DOMAIN lost
<1> DEFINE m == Len(fs)
           gs == Advanced(fs)
           off == fs[m].offset
<1>1. /\ m \in Nat \ {0} /\ Len(gs) = m /\ \A k \in 1 .. m - 1 : gs[k] = fs[k]
      /\ gs[m].offset = off + 1
  BY AdvancedFacts
<1>2. off \in Nat /\ Place(fs, m) \in Seq(Nat) /\ Len(Place(fs, m)) = m - 1
      /\ \A j \in 1 .. m - 1 : Place(fs, m)[j] = fs[j].offset
  <2>1. m \in 1 .. Len(fs)
    BY <1>1
  <2>2. off \in 0 .. Len(fs[m].blocks)
    BY <2>1, LevelFacts
  <2>3. off \in Nat
    BY <2>2
  <2>4. /\ Place(fs, m) \in Seq(Nat) /\ Len(Place(fs, m)) = m - 1
        /\ \A j \in 1 .. m - 1 : Place(fs, m)[j] = fs[j].offset
    <3> HIDE DEF m
    <3>1. QED
      BY <2>1, LevelFacts
  <2>5. QED
    BY <2>3, <2>4
<1> HIDE DEF gs
<1>3. ASSUME NEW q \in DOMAIN lost, NEW k \in 1 .. m, Len(q) >= k,
             \A j \in 1 .. k - 1 : q[j] = gs[j].offset
      PROVE  q[k] <= gs[k].offset
  <2>1. \A j \in 1 .. k - 1 : j \in 1 .. m - 1
    BY <1>1
  <2>2. \A j \in 1 .. k - 1 : q[j] = fs[j].offset
    BY <1>1, <1>3, <2>1
  <2>3. q[k] <= fs[k].offset
    BY <1>3, <2>2 DEF LostBehind
  <2>4. q \in Seq(Nat)
    BY DEF Losses
  <2>5. q[k] \in Nat
    BY <2>4, <1>3
  <2>6. CASE k = m
    BY <1>1, <1>2, <2>3, <2>5, <2>6
  <2>7. CASE k # m
    BY <1>1, <2>3, <2>7
  <2>8. QED
    BY <2>6, <2>7
<1>4. LostBehind(lost, gs)
  BY <1>1, <1>3 DEF LostBehind
<1>5. ASSUME NEW q \in DOMAIN lost, q = Append(Place(fs, m), off + 1) PROVE FALSE
  <2> DEFINE p == Place(fs, m)
  <2>1. Len(q) = m /\ q[m] = off + 1 /\ \A j \in 1 .. m - 1 : q[j] = p[j]
    <3> HIDE DEF p, m, off
    <3>1. QED
      BY <1>1, <1>2, <1>5, AppendProperties DEF p
  <2>a. m \in 1 .. Len(fs) /\ \A j \in 1 .. m - 1 : q[j] = fs[j].offset
    BY <1>1, <1>2, <2>1
  <2>b. Len(q) >= m
    BY <1>1, <2>1
  <2>2. q[m] <= off
    <3> HIDE DEF p, m
    <3>1. q[m] <= fs[m].offset
      BY <2>a, <2>b DEF LostBehind
    <3>2. QED
      BY <3>1
  <2>3. QED
    BY <1>2, <2>1, <2>2
<1>6. QED
  BY <1>4, <1>5 DEF gs

(* Passing a reference that is not one to an indirect block.               *)
LEMMA WalkPasses ==
    ASSUME NEW set, NEW lost, NEW fs, WalkInv(set, lost, fs),
           LET f == fs[Len(fs)]
           IN  f.offset < Len(f.blocks) /\ f.blocks[f.offset + 1].type # "indirect"
    PROVE  LET f == fs[Len(fs)]
               r == f.blocks[f.offset + 1]
           IN  /\ WalkInv(set, lost, Advanced(fs))
               /\ r \in BlockRef /\ Walked(lost, fs) \in Seq(BlockRef)
               /\ Walked(lost, Advanced(fs)) = Append(Walked(lost, fs), r)
<1> DEFINE m == Len(fs)
           gs == Advanced(fs)
           off == fs[m].offset
           blocks == fs[m].blocks
           r == blocks[off + 1]
           p == Place(fs, m)
<1>1. /\ gs \in Seq(Level) /\ Len(gs) = m /\ m \in Nat \ {0}
      /\ \A k \in 1 .. m - 1 : gs[k] = fs[k]
      /\ gs[m].blocks = blocks /\ gs[m].offset = off + 1 /\ Levels(gs)
  BY AdvancedFacts DEF WalkInv
<1>2. /\ blocks \in Seq(BlockRef) /\ off \in 0 .. Len(blocks) /\ off < Len(blocks)
      /\ p \in Seq(Nat) /\ r.type # "indirect"
  <2>1. m \in 1 .. Len(fs) /\ Levels(fs)
    BY <1>1 DEF WalkInv
  <2>2. blocks \in Seq(BlockRef) /\ off \in 0 .. Len(blocks) /\ p \in Seq(Nat)
    BY <2>1, LevelFacts
  <2>3. QED
    BY <2>2
<1>3. \A k \in 1 .. m : Place(gs, k) = Place(fs, k)
  <2>1. SUFFICES ASSUME NEW k \in 1 .. m PROVE Place(gs, k) = Place(fs, k)
    OBVIOUS
  <2>2. \A j \in 1 .. k - 1 : j \in 1 .. m - 1
    BY <1>1
  <2>3. QED
    BY <1>1, <2>2 DEF Place
<1>4. r \in BlockRef
  <2> HIDE DEF blocks, off
  <2>1. QED
    BY <1>2
<1> DEFINE X == Before(lost, fs, m - 1)
           Y == GotAt(lost, fs, m)
<1>5. X \in Seq(BlockRef) /\ Before(lost, gs, m - 1) = X
  <2>1. m - 1 \in 0 .. m - 1 /\ m - 1 \in Nat
    BY <1>1
  <2>2. X \in Seq(BlockRef)
    BY <2>1, BeforeFacts DEF WalkInv
  <2>3. Before(lost, gs, m - 1) = X
    <3> HIDE DEF gs, m
    <3>1. QED
      BY <1>1, <2>1, BeforeSame
  <2>4. QED
    BY <2>2, <2>3
<1>6. Y = Got(lost, blocks, off, p) /\ GotAt(lost, gs, m) = Got(lost, blocks, off + 1, p)
  <2>1. m \in 1 .. m
    BY <1>1
  <2> HIDE DEF gs
  <2>2. QED
    BY <1>1, <1>3, <2>1 DEF GotAt
<1>7. Y \in Seq(BlockRef)
  <2>0. Losses(lost)
    BY DEF WalkInv
  <2> HIDE DEF blocks, off, p, Y
  <2>1. QED
    BY ONLY <1>2, <1>6, <2>0, GotFacts
<1>8. GotAt(lost, gs, m) = Cat(Y, << r >>)
  <2>1. off + 1 \in 1 .. Len(blocks)
    <3>1. Len(blocks) \in Nat
      BY <1>2, LenProperties
    <3> HIDE DEF blocks, off
    <3>2. QED
      BY <1>2, <3>1
  <2>2. Behind(Leaves(lost), blocks, p)[off + 1] = << r >>
    <3> HIDE DEF blocks, off, p
    <3>1. QED
      BY <1>2, <2>1 DEF Behind
  <2> HIDE DEF blocks, off, p, r, gs, Y
  <2>a. Losses(lost)
    BY DEF WalkInv
  <2>3. Got(lost, blocks, off + 1, p) =
           Cat(Got(lost, blocks, off, p), Behind(Leaves(lost), blocks, p)[off + 1])
    BY ONLY <1>2, <2>a, GotFacts
  <2>4. QED
    BY <1>6, <2>2, <2>3, Zenon
<1>10. Walked(lost, fs) = Cat(X, Y) /\ Walked(lost, gs) = Cat(X, GotAt(lost, gs, m))
  BY <1>1, <1>5 DEF Walked
<1> HIDE DEF X, Y
<1>11. Cat(X, Y) \in Seq(BlockRef)
  BY <1>5, <1>7, CatType
<1>12. Cat(X, Cat(Y, << r >>)) = Append(Cat(X, Y), r)
  <2>1. << r >> \in Seq(BlockRef)
    BY <1>4
  <2> HIDE DEF r
  <2>2. X \o (Y \o << r >>) = (X \o Y) \o << r >>
    BY <1>5, <1>7, <2>1, ConcatAssociative
  <2>3. (X \o Y) \o << r >> = Append(X \o Y, r)
    BY <1>11, <1>4, AppendIsConcat DEF Cat
  <2>4. QED
    BY <2>2, <2>3 DEF Cat
<1>14. OnTree(set, lost, gs)
  <2>1. gs[1].blocks = set
    <3>1. gs[1].blocks = fs[1].blocks
      <4>1. 1 \in 1 .. m - 1 \/ m = 1
        BY <1>1
      <4>2. QED
        BY <1>1, <4>1
    <3>2. QED
      BY <3>1 DEF WalkInv, OnTree
  <2>2. ASSUME NEW k \in 1 .. m - 1
        PROVE  /\ Taken(gs, k).type = "indirect"
               /\ gs[k + 1].blocks = Held(lost, Taken(gs, k).to, Place(gs, k + 1))
    <3>1. k \in 1 .. m /\ k + 1 \in 1 .. m /\ (k + 1 \in 1 .. m - 1 \/ k + 1 = m)
      BY <1>1
    <3>2. gs[k] = fs[k] /\ Taken(gs, k) = Taken(fs, k)
      BY <1>1 DEF Taken
    <3>3. gs[k + 1].blocks = fs[k + 1].blocks
      BY <1>1, <3>1
    <3>4. Place(gs, k + 1) = Place(fs, k + 1)
      BY <1>3, <3>1
    <3>5. /\ Taken(fs, k).type = "indirect"
          /\ fs[k + 1].blocks = Held(lost, Taken(fs, k).to, Place(fs, k + 1))
      BY DEF WalkInv, OnTree
    <3>6. QED
      BY <3>2, <3>3, <3>4, <3>5, Zenon
  <2>3. QED
    BY <1>1, <2>1, <2>2 DEF OnTree
<1>15. WalkInv(set, lost, gs)
  BY <1>1, <1>14, LostAdvanced DEF WalkInv
<1> HIDE DEF gs, r, p
<1>16. Walked(lost, gs) = Append(Walked(lost, fs), r)
  BY <1>8, <1>10, <1>12
<1>17. QED
  BY <1>4, <1>10, <1>11, <1>15, <1>16 DEF gs, r

-----------------------------------------------------------------------------
(* Going down to the references behind one, as they are or as they were    *)
(* taken from the buffer of a lost block.                                  *)
Entered(fs, blocks) == Append(Advanced(fs), Enter(blocks))
PlaceBelow(fs) == Append(Place(fs, Len(fs)), fs[Len(fs)].offset + 1)

LEMMA EnteredFacts ==
    ASSUME NEW fs, Levels(fs), fs[Len(fs)].offset < Len(fs[Len(fs)].blocks),
           NEW blocks \in Seq(BlockRef)
    PROVE  LET hs == Entered(fs, blocks)
               m == Len(fs)
           IN  /\ Levels(hs) /\ Len(hs) = m + 1 /\ m \in Nat \ {0}
               /\ \A k \in 1 .. m : hs[k] = Advanced(fs)[k]
               /\ \A k \in 1 .. m - 1 : hs[k] = fs[k]
               /\ hs[m].blocks = fs[m].blocks /\ hs[m].offset = fs[m].offset + 1
               /\ hs[m + 1].blocks = blocks /\ hs[m + 1].offset = 0
               /\ \A k \in 1 .. m : Place(hs, k) = Place(fs, k)
               /\ Place(hs, m + 1) = PlaceBelow(fs) /\ PlaceBelow(fs) \in Seq(Nat)
               /\ Len(PlaceBelow(fs)) = m
               /\ \A j \in 1 .. m : PlaceBelow(fs)[j] = hs[j].offset
<1> DEFINE m == Len(fs)
           gs == Advanced(fs)
           new == Enter(blocks)
           hs == Append(gs, new)
<1>1. /\ gs \in Seq(Level) /\ Len(gs) = m /\ m \in Nat \ {0}
      /\ \A k \in 1 .. m - 1 : gs[k] = fs[k]
      /\ gs[m].blocks = fs[m].blocks /\ gs[m].offset = fs[m].offset + 1
      /\ Levels(gs)
  BY AdvancedFacts
<1>2. new \in Level /\ new.blocks = blocks /\ new.offset = 0
  <2> DEFINE B == Seq(BlockRef)
  <2>1. blocks \in B
    OBVIOUS
  <2> HIDE DEF B
  <2>2. [blocks |-> blocks, offset |-> 0] \in [blocks : B, offset : Nat]
    BY <2>1
  <2>3. QED
    BY <2>2 DEF Enter, Level, B
<1> HIDE DEF gs, new
<1>3. /\ hs \in Seq(Level) /\ Len(hs) = m + 1 /\ hs[m + 1] = new
      /\ \A k \in 1 .. m : hs[k] = gs[k]
  BY <1>1, <1>2, AppendProperties
<1> HIDE DEF hs
<1>4. Levels(hs)
  <2>1. ASSUME NEW k \in 1 .. m + 1
        PROVE  hs[k].offset <= Len(hs[k].blocks) /\ (k < m + 1 => hs[k].offset > 0)
    <3>1. CASE k = m + 1
      <4>1. Len(blocks) \in Nat
        BY LenProperties
      <4>2. QED
        BY <3>1, <4>1, <1>1, <1>2, <1>3
    <3>2. CASE k = m
      <4>1. fs[m].offset \in Nat
        <5>1. m \in 1 .. Len(fs)
          BY <1>1
        <5>2. fs[m].offset \in 0 .. Len(fs[m].blocks)
          BY <5>1, LevelFacts
        <5>3. QED
          BY <5>2
      <4>2. hs[k] = gs[m] /\ gs[m].offset <= Len(gs[m].blocks)
        BY <3>2, <1>1, <1>3 DEF Levels
      <4>3. gs[m].offset > 0
        BY <4>1, <1>1
      <4>4. QED
        BY <4>2, <4>3
    <3>3. CASE k \in 1 .. m - 1
      <4>1. k \in 1 .. Len(gs) /\ k < Len(gs) /\ hs[k] = gs[k]
        BY <3>3, <1>1, <1>3
      <4>2. QED
        BY <4>1, <1>1 DEF Levels
    <3>4. QED
      BY <1>1, <3>1, <3>2, <3>3
  <2>2. QED
    BY <1>1, <1>3, <2>1 DEF Levels
<1>5. \A k \in 1 .. m - 1 : hs[k] = fs[k]
  BY <1>1, <1>3
<1>6. ASSUME NEW k \in 1 .. m PROVE Place(hs, k) = Place(fs, k)
  <2>1. \A j \in 1 .. k - 1 : j \in 1 .. m - 1
    BY <1>1
  <2>2. QED
    BY <1>5, <2>1 DEF Place
<1>7. m \in 1 .. m + 1 /\ m + 1 \in 1 .. m + 1 /\ m \in 1 .. m
  BY <1>1
<1>8. hs[m].blocks = fs[m].blocks /\ hs[m].offset = fs[m].offset + 1
  BY <1>1, <1>3, <1>7
<1> DEFINE p == Place(fs, m)
           q == Append(p, fs[m].offset + 1)
           off == fs[m].offset
<1>9. /\ p \in Seq(Nat) /\ Len(p) = m - 1 /\ \A j \in 1 .. m - 1 : p[j] = fs[j].offset
      /\ fs[m].offset + 1 \in Nat
  <2>1. m \in 1 .. Len(fs)
    BY <1>1
  <2>2. off \in 0 .. Len(fs[m].blocks)
    BY <2>1, LevelFacts
  <2>3. off + 1 \in Nat
    BY <2>2
  <2> HIDE DEF m, off
  <2>4. p \in Seq(Nat) /\ Len(p) = m - 1 /\ \A j \in 1 .. m - 1 : p[j] = fs[j].offset
    BY <2>1, LevelFacts
  <2>5. QED
    BY <2>3, <2>4 DEF off
<1> HIDE DEF p
<1>10. /\ q \in Seq(Nat) /\ Len(q) = m /\ q[m] = fs[m].offset + 1
       /\ \A j \in 1 .. m - 1 : q[j] = p[j]
  <2> HIDE DEF m
  <2>1. QED
    BY <1>1, <1>9, AppendProperties
<1> HIDE DEF q
<1>11. \A j \in 1 .. m : q[j] = hs[j].offset
  <2>1. SUFFICES ASSUME NEW j \in 1 .. m PROVE q[j] = hs[j].offset
    OBVIOUS
  <2>2. j = m \/ j \in 1 .. m - 1
    BY <1>1
  <2>3. QED
    BY <2>2, <1>5, <1>8, <1>9, <1>10
<1>12. Place(hs, m + 1) = q
  <2>1. m + 1 - 1 = m
    BY <1>1
  <2>2. Place(hs, m + 1) = [j \in 1 .. m |-> hs[j].offset]
    BY <2>1 DEF Place
  <2>3. q = [j \in 1 .. m |-> q[j]]
    BY <1>10
  <2>4. QED
    BY <1>11, <2>2, <2>3
<1>13. hs = Entered(fs, blocks) /\ q = PlaceBelow(fs)
  BY DEF hs, gs, new, p, q, Entered, PlaceBelow
<1>14. QED
  BY <1>1, <1>2, <1>3, <1>4, <1>5, <1>6, <1>8, <1>10, <1>11, <1>12, <1>13 DEF gs

LEMMA WalkEnters ==
    ASSUME NEW set, NEW lost, NEW fs, WalkInv(set, lost, fs), NEW blocks \in Seq(BlockRef),
           NEW more,
           LET f == fs[Len(fs)]
               r == f.blocks[f.offset + 1]
           IN  /\ f.offset < Len(f.blocks) /\ r.type = "indirect"
               /\ \/ more = lost /\ blocks = BlocksOf(r.to)
                  \/ more = Losing(lost, PlaceBelow(fs), blocks)
    PROVE  /\ WalkInv(set, more, Entered(fs, blocks))
           /\ Walked(more, Entered(fs, blocks)) = Walked(lost, fs)
<1> DEFINE m == Len(fs)
           hs == Entered(fs, blocks)
           q == PlaceBelow(fs)
           off == fs[m].offset
           r == fs[m].blocks[off + 1]
<1>0. Losses(lost) /\ Levels(fs) /\ OnTree(set, lost, fs) /\ LostBehind(lost, fs)
  BY DEF WalkInv
<1>1. /\ Levels(hs) /\ Len(hs) = m + 1 /\ m \in Nat \ {0}
      /\ \A k \in 1 .. m - 1 : hs[k] = fs[k]
      /\ hs[m].blocks = fs[m].blocks /\ hs[m].offset = off + 1
      /\ hs[m + 1].blocks = blocks /\ hs[m + 1].offset = 0
      /\ \A k \in 1 .. m : Place(hs, k) = Place(fs, k)
      /\ Place(hs, m + 1) = q /\ q \in Seq(Nat) /\ Len(q) = m
      /\ \A j \in 1 .. m : q[j] = hs[j].offset
  BY <1>0, EnteredFacts
<1>2. m \in 1 .. m /\ m + 1 \in 1 .. m + 1 /\ m - 1 \in 0 .. m - 1
  BY <1>1
<1>3. /\ fs[m].blocks \in Seq(BlockRef) /\ off \in 0 .. Len(fs[m].blocks) /\ off \in Nat
      /\ off + 1 \in 1 .. Len(fs[m].blocks)
  <2> DEFINE b == fs[m].blocks
  <2>1. b \in Seq(BlockRef) /\ off \in 0 .. Len(b) /\ off < Len(b)
    BY <1>0, <1>2, LevelFacts
  <2>2. Len(b) \in Nat
    BY <2>1, LenProperties
  <2> HIDE DEF b, off
  <2>3. off \in Nat /\ off + 1 \in 1 .. Len(b)
    BY <2>1, <2>2
  <2>4. QED
    BY <2>1, <2>3 DEF b
<1>5. q \notin DOMAIN lost
  BY <1>0, LostAdvanced DEF PlaceBelow
<1>6. /\ Losses(more) /\ \A x \in DOMAIN more : x \in DOMAIN lost \/ x = q
      /\ Held(more, r.to, q) = blocks
      /\ \A x : x # q => \A n : Held(more, n, x) = Held(lost, n, x)
  <2> HIDE DEF q, r
  <2>1. CASE more = lost /\ blocks = BlocksOf(r.to)
    BY <1>0, <1>5, <2>1 DEF Held
  <2>2. CASE more = Losing(lost, q, blocks)
    <3>1. /\ Losses(more) /\ DOMAIN more = DOMAIN lost \cup {q} /\ more[q] = blocks
          /\ \A x \in DOMAIN lost : x # q => more[x] = lost[x]
      <4>1. Losses(lost) /\ q \in Seq(Nat) /\ blocks \in Seq(BlockRef)
        BY <1>0, <1>1
      <4> DEFINE new == Losing(lost, q, blocks)
      <4>2. /\ Losses(new) /\ DOMAIN new = DOMAIN lost \cup {q} /\ new[q] = blocks
            /\ \A x \in DOMAIN lost : x # q => new[x] = lost[x]
        <5>1. PICK z : z = q
          OBVIOUS
        <5>2. z \in Seq(Nat)
          BY <4>1, <5>1
        <5>3. /\ Losses(Losing(lost, z, blocks))
              /\ DOMAIN Losing(lost, z, blocks) = DOMAIN lost \cup {z}
              /\ Losing(lost, z, blocks)[z] = blocks
              /\ \A x \in DOMAIN lost : x # z => Losing(lost, z, blocks)[x] = lost[x]
          BY ONLY <4>1, <5>2, MoreLosses
        <5>4. QED
          BY ONLY <5>1, <5>3
      <4>3. more = new
        BY <2>2
      <4> HIDE DEF new
      <4>4. QED
        BY ONLY <4>2, <4>3
    <3>2. Held(more, r.to, q) = blocks
      BY <3>1 DEF Held
    <3>3. ASSUME NEW x, x # q, NEW n PROVE Held(more, n, x) = Held(lost, n, x)
      <4>1. x \in DOMAIN more <=> x \in DOMAIN lost
        BY <3>1, <3>3
      <4>2. x \in DOMAIN lost => more[x] = lost[x]
        BY <3>1, <3>3
      <4>3. QED
        BY <4>1, <4>2 DEF Held
    <3>4. QED
      BY <3>1, <3>2, <3>3, Zenon
  <2>3. QED
    BY <2>1, <2>2 DEF q, r, off
<1>7. \/ more = lost
      \/ more = Losing(lost, q, blocks)
  OBVIOUS
<1> HIDE DEF hs, q, r, off
<1>10. OnTree(set, more, hs)
  <2>1. hs[1].blocks = set
    <3>1. hs[1].blocks = fs[1].blocks
      <4>1. 1 \in 1 .. m - 1 \/ m = 1
        BY <1>1
      <4>2. QED
        BY <1>1, <4>1
    <3>2. QED
      BY <1>0, <3>1 DEF OnTree
  <2>3. ASSUME NEW k \in 1 .. m - 1
        PROVE  /\ Taken(hs, k).type = "indirect"
               /\ hs[k + 1].blocks = Held(more, Taken(hs, k).to, Place(hs, k + 1))
    <3>1. k \in 1 .. m /\ k + 1 \in 1 .. m /\ (k + 1 \in 1 .. m - 1 \/ k + 1 = m)
      BY <1>1
    <3>2. hs[k] = fs[k] /\ Taken(hs, k) = Taken(fs, k)
      BY <1>1 DEF Taken
    <3>3. hs[k + 1].blocks = fs[k + 1].blocks
      BY <1>1, <3>1
    <3>4. Place(hs, k + 1) = Place(fs, k + 1)
      BY <1>1, <3>1
    <3>5. /\ Taken(fs, k).type = "indirect"
          /\ fs[k + 1].blocks = Held(lost, Taken(fs, k).to, Place(fs, k + 1))
      BY <1>0 DEF OnTree
    <3>6. Place(fs, k + 1) \in Seq(Nat) /\ Len(Place(fs, k + 1)) = k
      <4>1. Place(fs, k + 1) \in Seq(Nat) /\ Len(Place(fs, k + 1)) = k + 1 - 1
        <5> HIDE DEF m
        <5>1. QED
          BY <1>0, <3>1, LevelFacts DEF m
      <4>2. QED
        BY <4>1
    <3>7. Place(fs, k + 1) # q
      BY <1>1, <3>6
    <3>8. QED
      BY <1>6, <3>2, <3>3, <3>4, <3>5, <3>7, Zenon
  <2>4. /\ Taken(hs, m).type = "indirect"
        /\ hs[m + 1].blocks = Held(more, Taken(hs, m).to, Place(hs, m + 1))
    <3>1. Taken(hs, m) = r
      BY <1>1 DEF Taken, r
    <3>2. r.type = "indirect"
      BY DEF r, off
    <3>3. QED
      BY <3>1, <3>2, <1>1, <1>6, Zenon
  <2>5. \A k \in 1 .. m : k \in 1 .. m - 1 \/ k = m
    BY <1>1
  <2>6. Len(hs) - 1 = m
    BY <1>1
  <2>7. QED
    BY <2>1, <2>3, <2>4, <2>5, <2>6, Zenon DEF OnTree
<1>11. LostBehind(more, hs)
  <2>1. ASSUME NEW x \in DOMAIN lost, NEW k \in 1 .. m + 1, Len(x) >= k,
               \A j \in 1 .. k - 1 : x[j] = hs[j].offset
        PROVE  x[k] <= hs[k].offset
    <3>1. x \in Seq(Nat)
      BY <1>0 DEF Losses
    <3>2. CASE k \in 1 .. m
      <4>1. \A j \in 1 .. k - 1 : j \in 1 .. m - 1
        BY <3>2, <1>1
      <4>2. \A j \in 1 .. k - 1 : x[j] = fs[j].offset
        BY <2>1, <4>1, <1>1
      <4>3. x[k] <= fs[k].offset
        BY <1>0, <2>1, <3>2, <4>2 DEF LostBehind
      <4>4. x[k] \in Nat
        <5>1. Len(x) \in Nat /\ k \in 1 .. Len(x)
          BY <3>1, <3>2, <2>1, LenProperties
        <5>2. QED
          BY ONLY <3>1, <5>1, ElementOfSeq
      <4>5. CASE k = m
        BY <4>3, <4>4, <4>5, <1>1, <1>3 DEF off
      <4>6. CASE k # m
        <5>1. k \in 1 .. m - 1
          BY <4>6, <3>2, <1>1
        <5>2. hs[k] = fs[k]
          BY <5>1, <1>1
        <5>3. QED
          BY <4>3, <5>2
      <4>7. QED
        BY <4>5, <4>6
    <3>3. CASE k = m + 1
      <4>1. \A j \in 1 .. m : x[j] = hs[j].offset
        BY <2>1, <3>3, <1>1
      <4>2. \A j \in 1 .. m - 1 : j \in 1 .. m /\ x[j] = fs[j].offset
        BY <4>1, <1>1
      <4>3. Len(x) >= m
        BY <2>1, <3>1, <3>3, <1>1, LenProperties
      <4>4. x[m] <= fs[m].offset
        BY <1>0, <1>2, <4>2, <4>3 DEF LostBehind
      <4>5. x[m] = off + 1
        BY <1>1, <1>2, <4>1
      <4>6. QED
        BY <1>3, <4>4, <4>5 DEF off
    <3>4. QED
      BY <3>2, <3>3, <1>1
  <2>2. ASSUME NEW k \in 1 .. m + 1, Len(q) >= k PROVE q[k] <= hs[k].offset
    <3>1. k \in 1 .. m
      BY <1>1, <2>2
    <3>2. q[k] = hs[k].offset /\ q[k] \in Nat
      BY <1>1, <3>1
    <3>3. QED
      BY <3>2
  <2>4. \A x \in DOMAIN more : x \in DOMAIN lost \/ x = q
    BY <1>6
  <2>5. Len(hs) = m + 1
    BY <1>1
  <2>6. ASSUME NEW x \in DOMAIN more, NEW k \in 1 .. Len(hs), Len(x) >= k,
               \A j \in 1 .. k - 1 : x[j] = hs[j].offset
        PROVE  x[k] <= hs[k].offset
    <3>1. CASE x \in DOMAIN lost
      BY <2>1, <2>5, <2>6, <3>1
    <3>2. CASE x = q
      BY <2>2, <2>5, <2>6, <3>2
    <3>3. QED
      BY <2>4, <3>1, <3>2
  <2>7. QED
    BY <2>6 DEF LostBehind
<1>12. Before(more, hs, m) = Walked(lost, fs)
  <2>1. Before(more, hs, m) = Before(lost, hs, m)
    <3>1. m \in 0 .. Len(hs) - 1 /\ Len(q) >= m
      BY <1>1
    <3>2. Before(Losing(lost, q, blocks), hs, m) = Before(lost, hs, m)
      <4>1. /\ Levels(hs) /\ q \in Seq(Nat) /\ \A j \in 1 .. m : q[j] = hs[j].offset
            /\ blocks \in Seq(BlockRef) /\ Losses(lost)
        BY <1>0, <1>1
      <4> HIDE DEF m
      <4>2. QED
        BY ONLY <3>1, <4>1, BeforeKept
    <3>3. QED
      BY <1>7, <3>2
  <2>2. m - 1 \in 0 .. Len(hs) - 1 /\ m - 1 < Len(hs) - 1 /\ m - 1 + 1 = m
    BY <1>1
  <2>3. Before(lost, hs, m) = Cat(Before(lost, hs, m - 1), GotAbove(lost, hs, m))
    <3> HIDE DEF m
    <3>1. Before(lost, hs, m - 1 + 1) =
             Cat(Before(lost, hs, m - 1), GotAbove(lost, hs, m - 1 + 1))
      BY <1>0, <1>1, <2>2, BeforeFacts
    <3>2. QED
      BY <2>2, <3>1
  <2>4. Before(lost, hs, m - 1) = Before(lost, fs, m - 1)
    <3>1. PICK d : d = m - 1
      OBVIOUS
    <3>2. d \in Nat /\ \A k \in 1 .. d : hs[k] = fs[k]
      BY <1>1, <3>1
    <3>3. Before(lost, hs, d) = Before(lost, fs, d)
      BY ONLY <3>2, BeforeSame
    <3>4. QED
      BY ONLY <3>1, <3>3
  <2>5. GotAbove(lost, hs, m) = GotAt(lost, fs, m)
    <3>1. hs[m].offset - 1 = off
      BY <1>1, <1>3
    <3>2. Place(hs, m) = Place(fs, m)
      BY <1>1, <1>2
    <3>3. QED
      BY <1>1, <3>1, <3>2 DEF GotAbove, GotAt, off
  <2>6. QED
    BY <2>1, <2>3, <2>4, <2>5 DEF Walked
<1>13. Walked(more, hs) = Walked(lost, fs)
  <2>1. GotAt(more, hs, m + 1) = <<>>
    <3>1. GotAt(more, hs, m + 1) = Got(more, blocks, 0, q)
      BY <1>1, Zenon DEF GotAt
    <3>2. PICK k \in 0 .. Len(blocks) : k = 0
      BY LenProperties
    <3>3. q \in Seq(Nat) /\ blocks \in Seq(BlockRef) /\ Losses(more)
      BY <1>1, <1>6
    <3>4. Got(more, blocks, k, q) = <<>>
      BY ONLY <3>2, <3>3, k \in 0 .. Len(blocks), GotFacts
    <3>5. QED
      BY ONLY <3>1, <3>2, <3>4
  <2>2. Before(more, hs, m) \in Seq(BlockRef)
    <3>1. m \in 0 .. Len(hs) - 1
      BY <1>1
    <3> HIDE DEF m
    <3>2. QED
      BY <1>1, <1>6, <3>1, BeforeFacts
  <2>3. Walked(more, hs) = Cat(Before(more, hs, m), GotAt(more, hs, m + 1))
    <3>1. Len(hs) - 1 = m
      BY <1>1
    <3>2. QED
      BY <1>1, <3>1, Zenon DEF Walked
  <2>4. QED
    BY <1>12, <2>1, <2>2, <2>3, CatEmpty
<1>14. QED
  BY <1>1, <1>6, <1>10, <1>11, <1>13, Zenon DEF WalkInv, hs

-----------------------------------------------------------------------------
(* Going back to the level above.                                          *)
LEMMA WalkLeaves ==
    ASSUME NEW set, NEW lost, NEW fs, WalkInv(set, lost, fs), Len(fs) > 1,
           fs[Len(fs)].offset >= Len(fs[Len(fs)].blocks)
    PROVE  /\ WalkInv(set, lost, Front(fs)) /\ Len(Front(fs)) = Len(fs) - 1
           /\ Walked(lost, Front(fs)) = Walked(lost, fs)
<1> DEFINE n == Len(fs) - 1
           gs == Front(fs)
<1>0. Losses(lost) /\ Levels(fs) /\ OnTree(set, lost, fs) /\ LostBehind(lost, fs)
  BY DEF WalkInv
<1>1. n \in Nat \ {0} /\ Len(fs) = n + 1 /\ fs \in Seq(Level)
  BY <1>0 DEF Levels
<1>2. gs \in Seq(Level) /\ Len(gs) = n /\ \A k \in 1 .. n : gs[k] = fs[k]
  BY <1>1 DEF Front
<1> HIDE DEF gs, n
<1>3. \A k \in 1 .. n : k \in 1 .. Len(fs) /\ k < Len(fs)
  BY <1>1
<1>4. Levels(gs)
  <2>1. \A k \in 1 .. n : gs[k].offset <= Len(gs[k].blocks) /\ gs[k].offset > 0
    BY <1>0, <1>2, <1>3 DEF Levels
  <2>2. QED
    BY <1>1, <1>2, <2>1 DEF Levels
<1>5. ASSUME NEW k \in 1 .. n PROVE Place(gs, k) = Place(fs, k)
  <2>1. \A j \in 1 .. k - 1 : j \in 1 .. n
    BY <1>1
  <2>2. QED
    BY <1>2, <2>1 DEF Place
<1>6. OnTree(set, lost, gs)
  <2>1. gs[1].blocks = set
    BY <1>0, <1>1, <1>2 DEF OnTree
  <2>2. ASSUME NEW k \in 1 .. n - 1
        PROVE  /\ Taken(gs, k).type = "indirect"
               /\ gs[k + 1].blocks = Held(lost, Taken(gs, k).to, Place(gs, k + 1))
    <3>1. k \in 1 .. n /\ k + 1 \in 1 .. n /\ k \in 1 .. Len(fs) - 1
      BY <1>1
    <3>2. gs[k] = fs[k] /\ gs[k + 1] = fs[k + 1] /\ Place(gs, k + 1) = Place(fs, k + 1)
      BY <1>2, <1>5, <3>1
    <3>3. /\ Taken(fs, k).type = "indirect"
          /\ fs[k + 1].blocks = Held(lost, Taken(fs, k).to, Place(fs, k + 1))
      BY <1>0, <3>1 DEF OnTree
    <3>4. QED
      BY <3>2, <3>3, Zenon DEF Taken
  <2>3. QED
    BY <1>2, <2>1, <2>2 DEF OnTree
<1>7. LostBehind(lost, gs)
  <2>1. ASSUME NEW q \in DOMAIN lost, NEW k \in 1 .. n, Len(q) >= k,
               \A j \in 1 .. k - 1 : q[j] = gs[j].offset
        PROVE  q[k] <= gs[k].offset
    <3>1. \A j \in 1 .. k - 1 : j \in 1 .. n
      BY <1>1
    <3>2. \A j \in 1 .. k - 1 : q[j] = fs[j].offset
      BY <1>2, <2>1, <3>1
    <3>3. q[k] <= fs[k].offset
      BY <1>0, <1>3, <2>1, <3>2 DEF LostBehind
    <3>4. QED
      BY <1>2, <3>3
  <2>2. QED
    BY <1>2, <2>1 DEF LostBehind
<1> DEFINE last == fs[n + 1]
           up == fs[n]
           r == Taken(fs, n)
           p == Place(fs, n)
           q == Place(fs, n + 1)
<1>8. /\ n \in 1 .. Len(fs) /\ n + 1 \in 1 .. Len(fs) /\ n < Len(fs)
      /\ n \in 1 .. Len(fs) - 1 /\ n \in 1 .. n
  BY <1>1
<1>9. /\ up.blocks \in Seq(BlockRef) /\ up.offset \in 0 .. Len(up.blocks)
      /\ up.offset - 1 \in 0 .. Len(up.blocks) /\ p \in Seq(Nat) /\ Len(p) = n - 1
      /\ \A j \in 1 .. n - 1 : p[j] = fs[j].offset
  BY <1>0, <1>8, LevelFacts
<1>10. /\ last.blocks \in Seq(BlockRef) /\ last.offset \in 0 .. Len(last.blocks)
       /\ q \in Seq(Nat)
  BY <1>0, <1>8, LevelFacts
<1>11. last.offset = Len(last.blocks) /\ Len(last.blocks) \in 0 .. Len(last.blocks)
  <2>1. last.offset >= Len(last.blocks)
    BY <1>1
  <2>2. Len(last.blocks) \in Nat
    BY <1>10, LenProperties
  <2> HIDE DEF last
  <2>3. QED
    BY <2>1, <2>2, <1>10
<1>12. r.type = "indirect"
  BY <1>0, <1>8 DEF OnTree
<1>13. last.blocks = Held(lost, r.to, q)
  BY <1>0, <1>8 DEF OnTree
<1>14. /\ up.offset \in 1 .. Len(up.blocks) /\ up.blocks[up.offset] = r
       /\ up.offset - 1 < Len(up.blocks) /\ up.offset - 1 + 1 = up.offset
       /\ up.offset \in Nat /\ r \in BlockRef
  <2> DEFINE b == up.blocks
             o == up.offset
  <2>1. b \in Seq(BlockRef) /\ o \in 0 .. Len(b) /\ o - 1 \in 0 .. Len(b) /\ Len(b) \in Nat
    BY <1>9, LenProperties
  <2>2. r = b[o]
    BY DEF Taken
  <2> HIDE DEF b, o, r
  <2>3. o \in 1 .. Len(b) /\ o - 1 < Len(b) /\ o - 1 + 1 = o /\ o \in Nat /\ b[o] \in BlockRef
    BY <2>1
  <2>4. QED
    BY <2>2, <2>3 DEF b, o
<1>16. q = Append(p, up.offset)
  <2>1. q = [j \in 1 .. n |-> fs[j].offset]
    <3>2. \A k : Place(fs, k) = [j \in 1 .. k - 1 |-> fs[j].offset]
      BY Zenon DEF Place
    <3> DEFINE k == n + 1
    <3>3. Place(fs, k) = [j \in 1 .. k - 1 |-> fs[j].offset]
      BY <3>2, Zenon
    <3>4. k - 1 = n
      BY <1>1
    <3> HIDE DEF k
    <3>5. Place(fs, k) = [j \in 1 .. n |-> fs[j].offset]
      BY <3>3, <3>4
    <3>6. QED
      BY <3>5 DEF k
  <2> DEFINE a == Append(p, up.offset)
             o == up.offset
  <2>2. /\ a \in Seq(Nat) /\ Len(a) = n /\ a[n] = up.offset
        /\ \A j \in 1 .. n - 1 : a[j] = p[j]
    <3>1. o \in Nat
      BY <1>14
    <3> HIDE DEF p, o
    <3>2. QED
      BY <1>1, <1>9, <3>1, AppendProperties DEF o
  <2> HIDE DEF a, p
  <2>3. a = [j \in 1 .. n |-> a[j]]
    BY <2>2
  <2>4. ASSUME NEW j \in 1 .. n PROVE a[j] = fs[j].offset
    <3>1. j = n \/ j \in 1 .. n - 1
      BY <1>1
    <3>2. QED
      BY <3>1, <1>9, <2>2
  <2>5. QED
    BY <2>1, <2>3, <2>4 DEF a
<1>17. Behind(Leaves(lost), up.blocks, p)[up.offset] = GotAt(lost, fs, n + 1)
  <2> DEFINE L == Leaves(lost)
             x == <<r.to, q>>
  <2>1. x \in Places
    <3>1. r.to \in Node \cup {None}
      BY <1>14 DEF BlockRef
    <3>2. QED
      BY <3>1, <1>10 DEF Places
  <2>2. Behind(L, up.blocks, p)[up.offset] = L[x]
    <3> HIDE DEF up, L, r, q, p
    <3>1. QED
      BY <1>12, <1>14, <1>16 DEF Behind
  <2>3. L[x] = Branch(L, lost, x) /\ x[1] = r.to /\ x[2] = q
    <3> HIDE DEF q, r
    <3>1. x[1] = r.to /\ x[2] = q
      OBVIOUS
    <3> HIDE DEF x, L
    <3>2. \A y \in Places : L[y] = Branch(L, lost, y)
      BY <1>0, LeavesIs DEF L
    <3>3. QED
      BY <2>1, <3>1, <3>2, Zenon
  <2>4. GotAt(lost, fs, n + 1) = Got(lost, last.blocks, last.offset, q)
    BY DEF GotAt
  <2> HIDE DEF L, x, last, q, r, up, p
  <2>5. Branch(L, lost, x) = FlattenSeq(Behind(L, last.blocks, q))
    BY <1>13, <2>3 DEF Branch, HeldAt
  <2>6. Got(lost, last.blocks, last.offset, q) = FlattenSeq(Behind(L, last.blocks, q))
    BY <1>0, <1>10, <1>11, GotFacts DEF L
  <2>7. QED
    BY <2>2, <2>3, <2>4, <2>5, <2>6 DEF L
<1>18. GotAt(lost, gs, n) = Cat(GotAbove(lost, fs, n), GotAt(lost, fs, n + 1))
  <2>1. GotAt(lost, gs, n) = Got(lost, up.blocks, up.offset, p)
    BY <1>2, <1>5, <1>8 DEF GotAt
  <2>2. GotAbove(lost, fs, n) = Got(lost, up.blocks, up.offset - 1, p)
    BY DEF GotAbove
  <2> DEFINE o == up.offset - 1
  <2>3. o \in 0 .. Len(up.blocks) /\ o < Len(up.blocks) /\ o + 1 = up.offset
    BY <1>9, <1>14
  <2> HIDE DEF up, p, o
  <2>4. Got(lost, up.blocks, o + 1, p) =
           Cat(Got(lost, up.blocks, o, p), Behind(Leaves(lost), up.blocks, p)[o + 1])
    BY <1>0, <1>9, <2>3, GotFacts
  <2>5. QED
    BY <1>17, <2>1, <2>2, <2>3, <2>4 DEF o
<1> HIDE DEF last, up, r, p, q
<1> DEFINE X == Before(lost, fs, n - 1)
           Y == GotAbove(lost, fs, n)
           Z == GotAt(lost, fs, n + 1)
<1>19. /\ n - 1 \in 0 .. Len(fs) - 1 /\ n - 1 < Len(fs) - 1 /\ n - 1 + 1 = n /\ n - 1 \in Nat
       /\ Len(fs) - 1 = n /\ n \in 0 .. Len(fs) - 1
  BY <1>1
<1>20. X \in Seq(BlockRef) /\ Before(lost, fs, n) = Cat(X, Y)
  <2>1. X \in Seq(BlockRef)
    BY <1>0, <1>19, BeforeFacts
  <2>2. Before(lost, fs, n - 1 + 1) = Cat(X, GotAbove(lost, fs, n - 1 + 1))
    BY <1>0, <1>19, BeforeFacts
  <2>3. QED
    BY <1>19, <2>1, <2>2
<1>21. Y \in Seq(BlockRef) /\ Z \in Seq(BlockRef)
  <2>1. Y \in Seq(BlockRef)
    BY <1>0, <1>9, GotFacts DEF GotAbove, up, p
  <2>2. Z \in Seq(BlockRef)
    BY <1>0, <1>10, GotFacts DEF GotAt, last, q
  <2>3. QED
    BY <2>1, <2>2
<1>22. Before(lost, gs, n - 1) = X
  <2>1. \A k \in 1 .. n - 1 : gs[k] = fs[k]
    BY <1>1, <1>2
  <2>2. QED
    BY <1>19, <2>1, BeforeSame
<1>23. Walked(lost, gs) = Cat(X, Cat(Y, Z)) /\ Walked(lost, fs) = Cat(Cat(X, Y), Z)
  <2> HIDE DEF X, Y, Z
  <2>1. Walked(lost, gs) = Cat(X, Cat(Y, Z))
    BY <1>2, <1>18, <1>22 DEF Walked, Y, Z
  <2>2. Walked(lost, fs) = Cat(Cat(X, Y), Z)
    BY <1>1, <1>19, <1>20 DEF Walked, Y, Z
  <2>3. QED
    BY <2>1, <2>2
<1> HIDE DEF X, Y, Z
<1>24. Cat(X, Cat(Y, Z)) = Cat(Cat(X, Y), Z)
  BY <1>20, <1>21, ConcatAssociative, SMTT(30) DEF Cat
<1>25. QED
  BY <1>0, <1>2, <1>4, <1>6, <1>7, <1>23, <1>24 DEF WalkInv, gs, n

(* The walk begins with nothing, and when the outermost level is passed it *)
(* has what is below the set, but for what was lost.                       *)
LEMMA WalkBegins ==
    ASSUME NEW set \in Seq(BlockRef)
    PROVE  WalkInv(set, <<>>, << Enter(set) >>) /\ Walked(<<>>, << Enter(set) >>) = <<>>
<1> DEFINE x == Enter(set)
           fs == << x >>
<1>1. x \in Level /\ x.blocks = set /\ x.offset = 0
  <2> DEFINE B == Seq(BlockRef)
  <2>1. set \in B
    OBVIOUS
  <2> HIDE DEF B
  <2>2. [blocks |-> set, offset |-> 0] \in [blocks : B, offset : Nat]
    BY <2>1
  <2>3. QED
    BY <2>2 DEF Enter, Level, B
<1> HIDE DEF x
<1>2. fs \in Seq(Level) /\ Len(fs) = 1 /\ fs[1] = x
  BY <1>1
<1> HIDE DEF fs
<1>3. Levels(fs)
  <2>1. Len(set) \in Nat
    BY LenProperties
  <2>2. QED
    BY <1>1, <1>2, <2>1 DEF Levels
<1>4. OnTree(set, <<>>, fs) /\ LostBehind(<<>>, fs) /\ Losses(<<>>)
  <2>1. DOMAIN <<>> = {}
    OBVIOUS
  <2>2. QED
    BY <1>1, <1>2, <2>1, NoLosses DEF OnTree, LostBehind
<1>5. GotAt(<<>>, fs, 1) = <<>>
  <2>1. 0 \in 0 .. Len(set)
    BY LenProperties
  <2>2. Place(fs, 1) \in Seq(Nat)
    <3>1. 1 \in 1 .. Len(fs)
      BY <1>2
    <3>2. QED
      BY <1>3, <3>1, LevelFacts
  <2>3. Got(<<>>, set, 0, Place(fs, 1)) = <<>>
    BY <1>4, <2>1, <2>2, GotFacts
  <2>4. QED
    BY <1>1, <1>2, <2>3 DEF GotAt
<1>6. Before(<<>>, fs, 0) = <<>>
  <2>1. [k \in 1 .. 0 |-> GotAbove(<<>>, fs, k)] = <<>>
    OBVIOUS
  <2>2. QED
    BY <2>1, FlattenNone DEF Before
<1>7. Walked(<<>>, fs) = <<>>
  <2>1. Walked(<<>>, fs) = Cat(<<>>, <<>>)
    BY <1>2, <1>5, <1>6 DEF Walked
  <2>2. <<>> \in Seq(BlockRef)
    OBVIOUS
  <2>3. QED
    BY <2>1, <2>2, CatEmpty
<1>8. QED
  BY <1>3, <1>4, <1>7 DEF WalkInv, fs, x

LEMMA WalkEnds ==
    ASSUME NEW set, NEW lost, NEW fs, WalkInv(set, lost, fs), Len(fs) = 1,
           fs[1].offset >= Len(fs[1].blocks)
    PROVE  Walked(lost, fs) = Below(set, lost)
<1>1. Losses(lost) /\ Levels(fs) /\ OnTree(set, lost, fs) /\ 1 \in 1 .. Len(fs)
  BY DEF WalkInv
<1>2. fs[1].blocks = set
  BY <1>1 DEF OnTree
<1>3. /\ set \in Seq(BlockRef) /\ fs[1].offset \in 0 .. Len(set)
      /\ Place(fs, 1) \in Seq(Nat) /\ Len(Place(fs, 1)) = 1 - 1
  <2>1. /\ fs[1].blocks \in Seq(BlockRef) /\ fs[1].offset \in 0 .. Len(fs[1].blocks)
        /\ Place(fs, 1) \in Seq(Nat) /\ Len(Place(fs, 1)) = 1 - 1
    BY <1>1, LevelFacts
  <2>2. QED
    BY <1>2, <2>1
<1>4. Place(fs, 1) = <<>>
  BY <1>3, EmptySeq
<1>5. fs[1].offset = Len(set) /\ Len(set) \in 0 .. Len(set)
  <2>1. Len(set) \in Nat
    BY <1>3, LenProperties
  <2>2. QED
    BY <1>2, <1>3, <2>1
<1>6. <<>> \in Seq(Nat)
  OBVIOUS
<1>7. GotAt(lost, fs, 1) = Got(lost, set, Len(set), <<>>)
  BY <1>2, <1>4, <1>5 DEF GotAt
<1>8. Got(lost, set, Len(set), <<>>) = FlattenSeq(Behind(Leaves(lost), set, <<>>))
  BY <1>1, <1>3, <1>5, <1>6, GotFacts
<1>9. Before(lost, fs, 0) = <<>>
  <2>1. [k \in 1 .. 0 |-> GotAbove(lost, fs, k)] = <<>>
    OBVIOUS
  <2>2. QED
    BY <2>1, FlattenNone DEF Before
<1>10. GotAt(lost, fs, 1) \in Seq(BlockRef)
  <2>1. Got(lost, set, Len(set), <<>>) \in Seq(BlockRef)
    BY <1>1, <1>3, <1>5, <1>6, GotFacts
  <2>2. QED
    BY <1>7, <2>1
<1>11. Walked(lost, fs) = Cat(<<>>, GotAt(lost, fs, 1))
  BY <1>9 DEF Walked
<1>12. QED
  BY <1>7, <1>8, <1>10, <1>11, CatEmpty DEF Below

-----------------------------------------------------------------------------
(* What the walks hand to the steps above.                                 *)
LEMMA PathIs ==
    ASSUME NEW fs, Levels(fs)
    PROVE  PathOf(fs) = PlaceBelow(fs)
<1> DEFINE m == Len(fs)
           p == Place(fs, m)
           o == fs[m].offset + 1
           a == Append(p, o)
           b == PathOf(fs)
<1>1. m \in Nat \ {0} /\ m \in 1 .. Len(fs)
  BY DEF Levels
<1>2. fs[m].offset \in 0 .. Len(fs[m].blocks)
  BY <1>1, LevelFacts
<1>3. o \in Nat
  BY <1>2
<1>4. p \in Seq(Nat) /\ Len(p) = m - 1 /\ \A j \in 1 .. m - 1 : p[j] = fs[j].offset
  <2> HIDE DEF m
  <2>1. QED
    BY <1>1, LevelFacts
<1>5. ASSUME NEW j \in 1 .. m - 1 PROVE fs[j].offset \in Nat
  <2>1. p[j] \in Nat
    BY <1>4
  <2>2. QED
    BY <1>4, <2>1
<1>6. /\ b = [j \in 1 .. m |-> fs[j].offset + IF j = m THEN 1 ELSE 0]
  BY Zenon DEF PathOf
<1>7. ASSUME NEW j \in 1 .. m
      PROVE  b[j] = IF j = m THEN o ELSE fs[j].offset
  <2>1. b[j] = fs[j].offset + IF j = m THEN 1 ELSE 0
    BY <1>6, Zenon
  <2>2. CASE j = m
    BY <2>1, <2>2
  <2>3. CASE j # m
    <3>1. j \in 1 .. m - 1
      BY <2>3, <1>1
    <3>2. b[j] = fs[j].offset + 0 /\ fs[j].offset \in Nat
      BY <2>1, <2>3, <3>1, <1>5
    <3>3. QED
      BY <2>3, <3>2
  <2>4. QED
    BY <2>2, <2>3
<1> HIDE DEF p, o, m, b
<1>8. /\ a \in Seq(Nat) /\ Len(a) = m /\ a[m] = o
      /\ \A j \in 1 .. m - 1 : a[j] = p[j]
  BY <1>1, <1>3, <1>4, AppendProperties
<1> HIDE DEF a
<1>9. ASSUME NEW j \in 1 .. m PROVE a[j] = b[j]
  <2>1. j = m \/ j \in 1 .. m - 1
    BY <1>1
  <2>2. CASE j = m
    BY <1>7, <1>8, <2>2
  <2>3. CASE j \in 1 .. m - 1
    <3>1. j # m
      BY <1>1, <2>3
    <3>2. QED
      BY <1>4, <1>7, <1>8, <2>3, <3>1
  <2>4. QED
    BY <2>1, <2>2, <2>3
<1>10. a = [j \in 1 .. m |-> a[j]]
  BY <1>8
<1>11. b = [j \in 1 .. m |-> b[j]]
  <2> DEFINE F(j) == fs[j].offset + IF j = m THEN 1 ELSE 0
  <2>1. b = [j \in 1 .. m |-> F(j)]
    BY <1>6, Zenon
  <2> HIDE DEF F
  <2>2. QED
    BY <2>1
<1>12. a = b
  BY <1>9, <1>10, <1>11
<1>13. QED
  BY <1>12 DEF a, b, p, o, m, PlaceBelow

(* What is taken for the references of a damaged block.                    *)
LEMMA DamagedType ==
    ASSUME NEW n \in Node, NEW check, NEW blocks \in Damaged(n, check)
    PROVE  /\ blocks \in Seq(BlockRef)
           /\ check => \A j \in 1 .. Len(blocks) : blocks[j] = Empty
<1> DEFINE m == Len(Refs[n])
<1>1. m \in Nat
  BY TreeAssumption, LenProperties
<1> HIDE DEF m
<1>2. Empty \in BlockRef
  BY DEF Empty, BlockRef, BlockTypes
<1>3. CASE check
  <2>1. blocks = [k \in 1 .. m |-> Empty]
    BY <1>3 DEF Damaged, m
  <2>2. QED
    BY <1>1, <1>2, <2>1
<1>4. CASE ~ check
  <2>1. blocks \in [1 .. m -> Garbage]
    BY <1>4 DEF Damaged, m
  <2>2. blocks \in [1 .. m -> BlockRef]
    BY <2>1, GarbageAssumption
  <2>3. QED
    BY <1>1, <1>4, <2>2
<1>5. QED
  BY <1>3, <1>4

(* A reference that is met is of the set the walk began with, of a block   *)
(* of the tree, or was taken from the buffer of one that was lost.         *)
LEMMA FromTree ==
    ASSUME NEW set, NEW lost, NEW fs, WalkInv(set, lost, fs), NEW k \in 1 .. Len(fs),
           NEW j \in 1 .. Len(fs[k].blocks)
    PROVE  \/ \E i \in DOMAIN set : set[i] = fs[k].blocks[j]
           \/ \E n \in Node : \E i \in DOMAIN Refs[n] : Refs[n][i] = fs[k].blocks[j]
           \/ \E q \in DOMAIN lost : \E i \in DOMAIN lost[q] : lost[q][i] = fs[k].blocks[j]
<1>1. Levels(fs) /\ OnTree(set, lost, fs) /\ Len(fs) \in Nat
  BY DEF WalkInv, Levels
<1>2. fs[k].blocks \in Seq(BlockRef) /\ j \in DOMAIN fs[k].blocks
  BY <1>1, LevelFacts
<1>3. CASE k = 1
  BY <1>1, <1>2, <1>3 DEF OnTree
<1>4. CASE k # 1
  <2> DEFINE i == k - 1
             r == Taken(fs, i)
             q == Place(fs, k)
  <2>1. i \in 1 .. Len(fs) - 1 /\ i + 1 = k /\ i \in 1 .. Len(fs) /\ i < Len(fs)
    BY <1>1, <1>4
  <2> HIDE DEF i
  <2>2. fs[k].blocks = Held(lost, r.to, q)
    BY <1>1, <2>1 DEF OnTree
  <2>3. CASE q \in DOMAIN lost
    <3>1. fs[k].blocks = lost[q]
      BY <2>2, <2>3 DEF Held
    <3>2. QED
      BY <1>2, <2>3, <3>1
  <2>4. CASE q \notin DOMAIN lost
    <3>1. fs[k].blocks = BlocksOf(r.to)
      BY <2>2, <2>4 DEF Held
    <3>2. r \in BlockRef
      <4> DEFINE b == fs[i].blocks
                 o == fs[i].offset
      <4>1. b \in Seq(BlockRef) /\ o \in 0 .. Len(b) /\ o - 1 \in 0 .. Len(b)
        BY <1>1, <2>1, LevelFacts
      <4>2. r = b[o]
        BY DEF Taken
      <4> HIDE DEF b, o, r
      <4>3. b[o] \in BlockRef
        BY <4>1
      <4>4. QED
        BY <4>2, <4>3
    <3>3. r.to # None
      <4>1. r.to = None => fs[k].blocks = <<>>
        BY <3>1 DEF BlocksOf
      <4>2. DOMAIN <<>> = {}
        OBVIOUS
      <4>3. QED
        BY <1>2, <4>1, <4>2
    <3>4. r.to \in Node /\ fs[k].blocks = Refs[r.to]
      <4> HIDE DEF r
      <4> QED BY <3>1, <3>2, <3>3 DEF BlockRef, BlocksOf
    <3>5. QED
      BY <1>2, <3>4
  <2>5. QED
    BY <2>3, <2>4
<1>5. QED
  BY <1>3, <1>4

=============================================================================
