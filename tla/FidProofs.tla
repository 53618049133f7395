----------------------------- MODULE FidProofs -----------------------------
(***************************************************************************)
(* Theorems about Fids.                                                    *)
(***************************************************************************)
EXTENDS Fids, TLAPS, FiniteSetTheorems, SequenceTheorems, WellFoundedInduction

(* What a load of the directory n may list when flt loads have failed.     *)
Listing(list, n, flt) ==
    \E lost \in IF flt > 0 THEN SUBSET DOMAIN tree.parts[n] ELSE {{}} :
        list = Promise!Entries(n, lost)

(* What the Aux of a fid has in its cache: the entries of n, or, after the *)
(* name of a file, nothing that may be used.                               *)
Caches(q, a, n, hp, flt) ==
    \/ a.entry # Nil /\ a.count = Len(hp[a.entry]) /\ Listing(hp[a.entry], n, flt)
    \/ a.entry = Nil /\ a.count = 0 /\ Listing(<<>>, n, flt)

Leftover(q, a, flt) ==
    a.entry = Nil /\ q = RootQid /\ (tree.kind[a.inode] # "dir" \/ flt > 0)

(* A fid that is not open.                                                 *)
Held(q, a, hp, flt) ==
    /\ a.qid = RootQid
    /\ q.type = "file" => a.entry = Nil /\ (tree.kind[a.inode] # "dir" \/ flt > 0)
    /\ q.type = "dir" => Caches(q, a, a.inode, hp, flt) \/ Leftover(q, a, flt)

(* No number in the table is past its last slot.                           *)
Fits(tab, max) == \A n \in tab : n <= max

(* The inodes that the directory n has are in the table.                   *)
Stocked(n, tab) ==
    \A k \in DOMAIN tree.parts[n] : Range(tree.parts[n][k].inodes) \subseteq tab

(* Inodes of the table with the root, each of whose parents is one of them *)
(* and a directory, or nothing.                                            *)
Family(A) ==
    /\ RootInum \in A
    /\ \A m \in A :
          \/ tree.parent[m] \in A /\ tree.kind[tree.parent[m]] = "dir"
          \/ tree.kind[tree.parent[m]] = "none"

(* What a walk may go up from, and what it may go down from.               *)
Home(n, tab) ==
    tree.kind[n] = "none" \/ \E A \in SUBSET tab : n \in A /\ Family(A)

AtHome(n, tab, flt) ==
    (flt = 0 /\ Complete(tree)) =>
        Home(n, tab) /\ Stocked(n, tab) /\ Stocked(RootInum, tab) /\ Home(RootInum, tab)

(* What holds of each fid in use.                                          *)
FidGood(f) ==
    LET q == fids[f].qid
        a == fids[f].aux
    IN  /\ AtHome(a.inode, table, faults)
        /\ ~ fids[f].open => Held(q, a, heap, faults)
        /\ (fids[f].open /\ q.type = "dir") =>
              Caches(q, a, IF q = RootQid THEN RootInum ELSE a.inode, heap, faults)

(* The inductive invariant.                                                *)
FidInv ==
    /\ TypeOK
    /\ Fits(table, maxinodes)
    /\ Listing(heap[RootEntry], RootInum, faults)
    /\ AtHome(RootInum, table, faults)
    /\ \A f \in Fid : Used(f) => FidGood(f)

-----------------------------------------------------------------------------
(* A set of numbers that has zero and each successor has them all.         *)
LEMMA NatInSet ==
    ASSUME NEW S, 0 \in S, \A n \in Nat : n \in S => n + 1 \in S
    PROVE  Nat \subseteq S
<1>1. SUFFICES ASSUME Nat \ S # {} PROVE FALSE
  OBVIOUS
<1> DEFINE T == Nat \ S
<1>2. PICK x \in T : \A y \in T : ~ (<<y, x>> \in OpToRel(<, Nat))
  <2>1. T \subseteq Nat /\ T # {}
    BY <1>1
  <2>2. QED
    BY <2>1, WFMin, NatLessThanWellFounded, Zenon
<1>3. x \in Nat /\ x \notin S /\ x # 0
  OBVIOUS
<1>4. x - 1 \in Nat /\ x - 1 + 1 = x
  BY <1>3
<1>5. x - 1 \in T
  BY <1>3, <1>4
<1>6. <<x - 1, x>> \in OpToRel(<, Nat)
  BY <1>3, <1>4 DEF OpToRel
<1>7. QED
  BY <1>2, <1>5, <1>6

(* g holds the N + 1 values that step leads to from base.                  *)
Steps(N, base, step, g) ==
    g[0] = base /\ \A k \in 1 .. N : g[k] = step[k][g[k - 1]]

(* What is computed by steps from a value to the next is a function.       *)
LEMMA Iteration ==
    ASSUME NEW N \in Nat, NEW V, NEW base \in V, NEW step \in [1 .. N -> [V -> V]]
    PROVE  \E g \in [0 .. N -> V] : Steps(N, base, step, g)
<1> DEFINE Upto(n, g) == g[0] = base /\ \A k \in 1 .. n : g[k] = step[k][g[k - 1]]
           S == {n \in Nat : n <= N => \E g \in [0 .. n -> V] : Upto(n, g)}
<1>1. 0 \in S
  <2>1. [k \in 0 .. 0 |-> base] \in [0 .. 0 -> V]
    OBVIOUS
  <2>2. Upto(0, [k \in 0 .. 0 |-> base])
    OBVIOUS
  <2>3. QED
    BY <2>1, <2>2
<1>2. ASSUME NEW n \in Nat, n \in S
      PROVE  n + 1 \in S
  <2>1. SUFFICES ASSUME n + 1 <= N
                 PROVE  \E g \in [0 .. n + 1 -> V] : Upto(n + 1, g)
    OBVIOUS
  <2>2. PICK g \in [0 .. n -> V] : Upto(n, g)
    BY <1>2, <2>1
  <2> DEFINE h == [k \in 0 .. n + 1 |-> IF k <= n THEN g[k] ELSE step[n + 1][g[n]]]
  <2>3. n + 1 \in 1 .. N /\ n \in 0 .. n
    BY <2>1
  <2>4. g[n] \in V /\ step[n + 1] \in [V -> V]
    BY <2>3
  <2>5. step[n + 1][g[n]] \in V
    BY <2>4
  <2>6. h \in [0 .. n + 1 -> V]
    BY <2>5
  <2>7. h[0] = base
    BY <2>2
  <2>8. ASSUME NEW k \in 1 .. n + 1 PROVE h[k] = step[k][h[k - 1]]
    <3>1. CASE k <= n
      <4>1. k \in 1 .. n /\ k \in 0 .. n + 1 /\ k - 1 \in 0 .. n + 1 /\ k - 1 <= n
        BY <3>1
      <4>2. QED
        BY <3>1, <4>1, <2>2
    <3>2. CASE k = n + 1
      <4>1. k \in 0 .. n + 1 /\ ~ k <= n /\ k - 1 = n /\ n \in 0 .. n + 1
        BY <3>2
      <4>2. h[k] = step[n + 1][g[n]] /\ h[k - 1] = g[n]
        BY <4>1
      <4>3. QED
        BY <4>2, <3>2
    <3>3. QED
      BY <3>1, <3>2
  <2>9. QED
    BY <2>6, <2>7, <2>8
<1> HIDE DEF S
<1>3. Nat \subseteq S
  BY <1>1, <1>2, NatInSet, Zenon
<1>4. N \in S
  BY <1>3
<1>5. QED
  BY <1>4 DEF S, Steps

(* The elements of two sequences put one behind the other.                 *)
LEMMA RangeOfConcat ==
    ASSUME NEW S, NEW s \in Seq(S), NEW t \in Seq(S)
    PROVE  Range(s \o t) = Range(s) \cup Range(t)
<1>1. /\ Len(s \o t) = Len(s) + Len(t) /\ s \o t \in Seq(S)
      /\ \A k \in 1 .. Len(s) : (s \o t)[k] = s[k]
      /\ \A k \in 1 .. Len(t) : (s \o t)[Len(s) + k] = t[k]
  BY ConcatProperties
<1>2. \A x : x \in Range(s \o t) => x \in Range(s) \cup Range(t)
  <2>1. SUFFICES ASSUME NEW k \in 1 .. Len(s) + Len(t)
                 PROVE  (s \o t)[k] \in Range(s) \cup Range(t)
    BY <1>1 DEF Range
  <2>2. CASE k <= Len(s)
    BY <2>2, <1>1 DEF Range
  <2>3. CASE k > Len(s)
    <3>1. k - Len(s) \in 1 .. Len(t) /\ Len(s) + (k - Len(s)) = k
      BY <2>3
    <3>2. QED
      BY <3>1, <1>1 DEF Range
  <2>4. QED
    BY <2>2, <2>3
<1>3. Range(s) \subseteq Range(s \o t)
  BY <1>1 DEF Range
<1>4. Range(t) \subseteq Range(s \o t)
  <2>1. SUFFICES ASSUME NEW k \in 1 .. Len(t) PROVE t[k] \in Range(s \o t)
    BY DEF Range
  <2>2. Len(s) + k \in DOMAIN (s \o t) /\ (s \o t)[Len(s) + k] = t[k]
    BY <1>1
  <2>3. QED
    BY <2>2 DEF Range
<1>5. QED
  BY <1>2, <1>3, <1>4

(* Sequences put one behind the other are a sequence of their elements.    *)
LEMMA Flattened ==
    ASSUME NEW S, NEW ss \in Seq(Seq(S))
    PROVE  /\ FlattenSeq(ss) \in Seq(S)
           /\ Range(FlattenSeq(ss)) = UNION {Range(ss[k]) : k \in DOMAIN ss}
<1> DEFINE N == Len(ss)
           Step == [k \in 1 .. N |-> [s \in Seq(S) |-> s \o ss[k]]]
           Is(f) == f = [i \in 1 .. N |-> IF i = 1 THEN ss[i] ELSE f[i - 1] \o ss[i]]
           F == CHOOSE f : Is(f)
<1>1. CASE N = 0
  <2>1. ss = <<>> /\ FlattenSeq(ss) = <<>>
    BY <1>1 DEF FlattenSeq
  <2>2. Range(FlattenSeq(ss)) = {}
    BY <2>1 DEF Range
  <2>3. DOMAIN ss = {}
    BY <2>1
  <2>4. UNION {Range(ss[k]) : k \in DOMAIN ss} = {}
    BY <2>3
  <2>5. FlattenSeq(ss) \in Seq(S)
    BY ONLY <2>1, ss \in Seq(Seq(S)), <<>> \in Seq(S), Zenon
  <2>6. QED
    BY <2>2, <2>4, <2>5
<1>2. CASE N # 0
  <2>1. N \in Nat /\ N \in 1 .. N /\ 1 \in 1 .. N /\ DOMAIN ss = 1 .. N
    BY <1>2
  <2>2. \A k \in 1 .. N : ss[k] \in Seq(S)
    BY <2>1
  <2>3. Step \in [1 .. N -> [Seq(S) -> Seq(S)]]
    BY <2>2
  <2>4. <<>> \in Seq(S)
    OBVIOUS
  <2> HIDE DEF Step, N
  <2> USE <2>1
  <2>5. PICK g \in [0 .. N -> Seq(S)] :
           g[0] = <<>> /\ \A k \in 1 .. N : g[k] = Step[k][g[k - 1]]
    <3> DEFINE V == Seq(S)
               base == <<>>
    <3>1. base \in V /\ Step \in [1 .. N -> [V -> V]]
      BY <2>3, <2>4
    <3> HIDE DEF V, base
    <3>2. \E g \in [0 .. N -> V] : Steps(N, base, Step, g)
      BY <3>1, Iteration
    <3>3. QED
      BY <3>2 DEF V, base, Steps
  <2>6. \A k \in 1 .. N : g[k] = g[k - 1] \o ss[k]
    <3>1. TAKE k \in 1 .. N
    <3>2. k - 1 \in 0 .. N
      BY <2>1
    <3>3. g[k - 1] \in Seq(S)
      BY <2>5, <3>2
    <3>4. QED
      BY <2>5, <3>3 DEF Step
  <2> DEFINE h == [k \in 1 .. N |-> g[k]]
  <2>7. Is(h)
    <3>1. ASSUME NEW i \in 1 .. N
          PROVE  h[i] = IF i = 1 THEN ss[i] ELSE h[i - 1] \o ss[i]
      <4>1. CASE i = 1
        <5>1. g[1] = g[1 - 1] \o ss[1]
          BY <2>6, Zenon
        <5>2. g[1] = <<>> \o ss[1]
          BY ONLY <2>5, <5>1, 1 - 1 = 0
        <5>3. g[1] = ss[1]
          BY <5>2, <2>2
        <5>4. QED
          BY <4>1, <5>3
      <4>2. CASE i # 1
        <5>1. i - 1 \in 1 .. N
          BY <4>2
        <5>2. h[i] = g[i] /\ h[i - 1] = g[i - 1]
          BY <5>1
        <5>3. QED
          BY <4>2, <5>2, <2>6
      <4>3. QED
        BY <4>1, <4>2
    <3>2. QED
      BY <3>1
  <2> HIDE DEF h
  <2>8. Is(F)
    BY <2>7
  <2>9. FlattenSeq(ss) = F[N]
    BY <1>2 DEF FlattenSeq, N
  <2> DEFINE Good(i) ==
                /\ F[i] \in Seq(S)
                /\ Range(F[i]) = UNION {Range(ss[k]) : k \in 1 .. i}
             T == {n \in Nat : n = 0 \/ n > N \/ Good(n)}
  <2> HIDE DEF F
  <2>10. F[1] = ss[1] /\ \A i \in 2 .. N : F[i] = F[i - 1] \o ss[i]
    <3>1. F = [i \in 1 .. N |-> IF i = 1 THEN ss[i] ELSE F[i - 1] \o ss[i]]
      BY <2>8, Zenon
    <3>2. \A i \in 1 .. N : F[i] = IF i = 1 THEN ss[i] ELSE F[i - 1] \o ss[i]
      BY <3>1
    <3>3. F[1] = ss[1]
      BY <3>2
    <3>4. ASSUME NEW i \in 2 .. N PROVE F[i] = F[i - 1] \o ss[i]
      <4>1. i \in 1 .. N /\ i # 1
        OBVIOUS
      <4>2. QED
        BY <3>2, <4>1
    <3>5. QED
      BY <3>3, <3>4
  <2>11. Good(1)
    BY <2>10, <2>1, <2>2
  <2>12. ASSUME NEW i \in 2 .. N, Good(i - 1)
         PROVE  Good(i)
    <3>1. F[i] = F[i - 1] \o ss[i] /\ F[i - 1] \in Seq(S) /\ ss[i] \in Seq(S)
      <4>1. i \in 1 .. N
        OBVIOUS
      <4>2. QED
        BY <2>10, <2>12, <2>2, <4>1
    <3>2. Range(F[i]) = Range(F[i - 1]) \cup Range(ss[i])
      BY <3>1, RangeOfConcat
    <3>3. Range(F[i]) = UNION {Range(ss[k]) : k \in 1 .. i}
      <4>1. 1 .. i = 1 .. i - 1 \cup {i}
        OBVIOUS
      <4>2. QED
        BY <4>1, <3>2, <2>12, Zenon
    <3>4. QED
      BY <3>1, <3>3
  <2> HIDE DEF Good
  <2>13. ASSUME NEW n \in Nat, n \in T
         PROVE  n + 1 \in T
    <3>1. CASE n + 1 > N
      BY <3>1
    <3>2. CASE n = 0
      BY <3>2, <2>11
    <3>3. CASE n # 0 /\ n + 1 <= N
      <4>1. n + 1 \in 2 .. N /\ n + 1 - 1 = n /\ Good(n)
        BY <3>3, <2>13
      <4>2. Good(n + 1)
        BY <4>1, <2>12
      <4>3. QED
        BY <4>2
    <3>4. QED
      BY <3>1, <3>2, <3>3
  <2> HIDE DEF T
  <2>14. 0 \in T
    BY DEF T
  <2>15. N \in T
    BY <2>1, <2>13, <2>14, NatInSet, Zenon
  <2>16. Good(N)
    BY <2>15, <1>2 DEF T
  <2>17. QED
    BY <2>16, <2>9, <2>1 DEF Good
<1>3. QED
  BY <1>1, <1>2

(* The table grows to hold each of the inodes.                             *)
LEMMA GrownHolds ==
    ASSUME NEW slots \in Nat, NEW inums \in Seq(Nat)
    PROVE  /\ Grown(slots, inums) \in Nat /\ slots <= Grown(slots, inums)
           /\ \A n \in Range(inums) : n <= Grown(slots, inums)
<1> DEFINE N == Len(inums)
           Next1(k, m) == IF inums[k] >= m THEN 2 * inums[k] ELSE m
           Step == [k \in 1 .. N |-> [m \in Nat |-> Next1(k, m)]]
           Is(f) == f = [k \in 0 .. N |-> IF k = 0 THEN slots
                            ELSE IF inums[k] >= f[k - 1] THEN 2 * inums[k] ELSE f[k - 1]]
           F == CHOOSE f : Is(f)
<1>1. N \in Nat /\ DOMAIN inums = 1 .. N /\ \A k \in 1 .. N : inums[k] \in Nat
  OBVIOUS
<1>2. Step \in [1 .. N -> [Nat -> Nat]]
  BY <1>1
<1> HIDE DEF N, Step
<1>3. PICK g \in [0 .. N -> Nat] : Steps(N, slots, Step, g)
  BY <1>1, <1>2, Iteration
<1>4. g[0] = slots
  BY <1>3 DEF Steps
<1>5. \A k \in 1 .. N : g[k - 1] \in Nat /\ g[k] = Next1(k, g[k - 1])
  <2>1. TAKE k \in 1 .. N
  <2>2. k - 1 \in 0 .. N
    BY <1>1
  <2>3. g[k - 1] \in Nat
    BY <2>2
  <2>4. g[k] = Step[k][g[k - 1]]
    BY <1>3 DEF Steps
  <2>5. QED
    BY <2>3, <2>4 DEF Step
<1>6. Is(g)
  <2>1. ASSUME NEW k \in 0 .. N
        PROVE  g[k] = IF k = 0 THEN slots
                      ELSE IF inums[k] >= g[k - 1] THEN 2 * inums[k] ELSE g[k - 1]
    <3>1. CASE k = 0
      BY <3>1, <1>4
    <3>2. CASE k # 0
      <4>1. k \in 1 .. N
        BY <3>2, <1>1
      <4>2. QED
        BY <4>1, <3>2, <1>5
    <3>3. QED
      BY <3>1, <3>2
  <2>2. QED
    BY <2>1
<1>7. Is(F)
  BY <1>6
<1>8. Grown(slots, inums) = F[N]
  BY DEF Grown, N
<1> HIDE DEF F
<1>9. \A k \in 0 .. N : F[k] = IF k = 0 THEN slots
                      ELSE IF inums[k] >= F[k - 1] THEN 2 * inums[k] ELSE F[k - 1]
  <2>1. F = [k \in 0 .. N |-> IF k = 0 THEN slots
                 ELSE IF inums[k] >= F[k - 1] THEN 2 * inums[k] ELSE F[k - 1]]
    BY <1>7, Zenon
  <2>2. QED
    BY <2>1
<1> DEFINE Good(n) == /\ F[n] \in Nat /\ slots <= F[n]
                      /\ \A j \in 1 .. n : inums[j] <= F[n]
           S == {n \in Nat : n <= N => Good(n)}
<1>10. 0 \in S
  BY <1>9, <1>1
<1>11. ASSUME NEW n \in Nat, n \in S
       PROVE  n + 1 \in S
  <2>1. SUFFICES ASSUME n + 1 <= N PROVE Good(n + 1)
    OBVIOUS
  <2>2. Good(n) /\ n + 1 \in 1 .. N /\ inums[n + 1] \in Nat
    BY <1>11, <2>1, <1>1
  <2>3. F[n + 1] = IF inums[n + 1] >= F[n] THEN 2 * inums[n + 1] ELSE F[n]
    <3>1. n + 1 \in 0 .. N /\ n + 1 # 0 /\ n + 1 - 1 = n
      BY <2>1, <1>1
    <3>2. QED
      BY <1>9, <3>1
  <2>4. F[n + 1] \in Nat /\ F[n] <= F[n + 1] /\ inums[n + 1] <= F[n + 1]
    BY <2>2, <2>3
  <2>5. \A j \in 1 .. n + 1 : inums[j] <= F[n + 1]
    <3>1. TAKE j \in 1 .. n + 1
    <3>2. CASE j = n + 1
      BY <3>2, <2>4
    <3>3. CASE j \in 1 .. n
      <4>1. inums[j] <= F[n] /\ inums[j] \in Nat
        BY <3>3, <2>2, <1>1, <2>1
      <4>2. QED
        BY <4>1, <2>2, <2>4
    <3>4. QED
      BY <3>2, <3>3
  <2>6. QED
    BY <2>2, <2>4, <2>5
<1> HIDE DEF S
<1>12. N \in S
  BY <1>10, <1>11, <1>1, NatInSet, Zenon
<1>13. Good(N)
  BY <1>12, <1>1 DEF S
<1>14. QED
  BY <1>13, <1>8, <1>1 DEF Range

-----------------------------------------------------------------------------
(* What is assumed of every file system, of the one that is served.        *)
LEMMA TreeTypes ==
    ASSUME tree \in Trees
    PROVE  /\ Inum \subseteq Nat /\ 0 \in Inum /\ RootInum \in Inum /\ RootInum # 0
           /\ tree.kind \in [Inum -> ObjTypes \cup {"none"}] /\ tree.kind[0] = "none"
           /\ tree.parent \in [Inum -> Inum] /\ tree.parts \in [Inum -> Seq(Part)]
           /\ \A n \in Inum : tree.kind[n] # "dir" => tree.parts[n] = <<>>
           /\ \A n \in Inum : tree.kind[n] = "none" => tree.parent[n] = 0
  BY TreesAssumption

(* Any parts of a directory, as it lists or enters them.                   *)
LEMMA PartsTypes ==
    ASSUME tree \in Trees, NEW n \in Inum, NEW lost
    PROVE  /\ [k \in DOMAIN tree.parts[n] |->
                  IF k \in lost THEN <<>> ELSE tree.parts[n][k].entries] \in Seq(Seq(Entry))
           /\ [k \in DOMAIN tree.parts[n] |->
                  IF k \in lost THEN <<>> ELSE tree.parts[n][k].inodes] \in Seq(Seq(Inum))
           /\ IsFiniteSet(DOMAIN tree.parts[n])
<1> DEFINE parts == tree.parts[n]
<1>1. parts \in Seq(Part)
  BY TreeTypes
<1>2. DOMAIN parts = 1 .. Len(parts) /\ Len(parts) \in Nat
  BY <1>1
<1>3. \A k \in DOMAIN parts : parts[k].entries \in Seq(Entry) /\ parts[k].inodes \in Seq(Inum)
  <2>1. TAKE k \in DOMAIN parts
  <2>2. parts[k] \in Part
    BY <1>1
  <2>3. QED
    BY <2>2, Zenon DEF Part
<1>4. <<>> \in Seq(Entry) /\ <<>> \in Seq(Inum)
  OBVIOUS
<1> DEFINE E(k) == IF k \in lost THEN <<>> ELSE parts[k].entries
           I(k) == IF k \in lost THEN <<>> ELSE parts[k].inodes
<1>5. \A k \in 1 .. Len(parts) : E(k) \in Seq(Entry) /\ I(k) \in Seq(Inum)
  BY <1>2, <1>3, <1>4
<1>6. IsFiniteSet(DOMAIN parts)
  BY <1>2, FS_Interval, 1 \in Int, Len(parts) \in Int
<1> HIDE DEF E, I, parts
<1>7. /\ [k \in 1 .. Len(parts) |-> E(k)] \in Seq(Seq(Entry))
      /\ [k \in 1 .. Len(parts) |-> I(k)] \in Seq(Seq(Inum))
  BY <1>2, <1>5
<1>8. QED
  BY <1>2, <1>6, <1>7, Zenon DEF E, I, parts

(* The entries that the promise lists and that a load lists.               *)
LEMMA SameEntries ==
    ASSUME NEW n, NEW lost
    PROVE  Promise!Entries(n, lost) =
               FlattenSeq([k \in DOMAIN tree.parts[n] |->
                   IF k \in lost THEN <<>> ELSE tree.parts[n][k].entries])
<1>1. \A ss : Promise!FlattenSeq(ss) = FlattenSeq(ss)
  BY DEF Promise!FlattenSeq, FlattenSeq
<1>2. QED
  BY <1>1, Zenon DEF Promise!Entries

(* What loadinodes() leaves of the directory n.                            *)
LEMMA LoadsTrue ==
    ASSUME tree \in Trees, NEW n \in Inum, NEW s,
           s.table \subseteq Inum, s.max \in Nat, s.faults \in Nat, NEW load \in Loads(n, s)
    PROVE  /\ load.entries \in Seq(Entry) /\ load.table \subseteq Inum /\ load.max \in Nat
           /\ load.faults \in 0 .. MaxFaults /\ s.faults <= load.faults
           /\ s.table \subseteq load.table
           /\ Fits(s.table, s.max) => Fits(load.table, load.max)
           /\ Listing(load.entries, n, load.faults)
           /\ load.faults = 0 => Stocked(n, load.table)
<1> DEFINE parts == tree.parts[n]
           Lossy == {k \in DOMAIN parts : parts[k].indirect}
           Listed(lost) == FlattenSeq([k \in DOMAIN parts |->
                               IF k \in lost THEN <<>> ELSE parts[k].entries])
           Ins(lost) == [k \in DOMAIN parts |-> IF k \in lost THEN <<>> ELSE parts[k].inodes]
           Met(lost) == FlattenSeq(Ins(lost))
<1>1. PICK lost \in {x \in SUBSET Lossy : s.faults + Cardinality(x) <= MaxFaults} :
         load = [entries |-> Listed(lost), table |-> Entered(s, Met(lost)),
                 max |-> Grown(s.max, Met(lost)), faults |-> s.faults + Cardinality(lost)]
  BY DEF Loads
<1>2. IsFiniteSet(lost) /\ Cardinality(lost) \in Nat /\ (Cardinality(lost) = 0 => lost = {})
  <2>1. lost \subseteq DOMAIN parts /\ IsFiniteSet(DOMAIN parts)
    BY PartsTypes
  <2>2. IsFiniteSet(lost)
    BY <2>1, FS_Subset
  <2>3. QED
    BY <2>2, FS_CardinalityType, FS_EmptySet
<1>3. Listed(lost) \in Seq(Entry)
  BY PartsTypes, Flattened
<1>4. /\ Met(lost) \in Seq(Inum)
      /\ Range(Met(lost)) = UNION {Range(Ins(lost)[k]) : k \in DOMAIN Ins(lost)}
  BY PartsTypes, Flattened
<1>5. load.entries = Listed(lost) /\ load.table = s.table \cup Range(Met(lost))
      /\ load.max = Grown(s.max, Met(lost)) /\ load.faults = s.faults + Cardinality(lost)
  BY <1>1 DEF Entered
<1>6. load.faults \in 0 .. MaxFaults /\ s.faults <= load.faults /\ (load.faults = 0 => lost = {})
  BY <1>1, <1>2, <1>5, BoundsAssumption
<1> HIDE DEF Met, Ins
<1>7. Met(lost) \in Seq(Nat) /\ Range(Met(lost)) \subseteq Inum
  BY <1>4, TreeTypes DEF Range
<1>8. /\ load.max \in Nat /\ s.max <= load.max
      /\ \A m \in Range(Met(lost)) : m <= load.max
  BY <1>5, <1>7, GrownHolds
<1>9. Fits(s.table, s.max) => Fits(load.table, load.max)
  <2>1. SUFFICES ASSUME Fits(s.table, s.max), NEW m \in load.table PROVE m <= load.max
    BY DEF Fits
  <2>2. CASE m \in s.table
    <3>1. m \in Nat /\ m <= s.max
      BY <2>1, <2>2, TreeTypes DEF Fits
    <3>2. QED
      BY <3>1, <1>8
  <2>3. CASE m \in Range(Met(lost))
    BY <2>3, <1>8
  <2>4. QED
    BY <2>2, <2>3, <1>5
<1>10. Listing(load.entries, n, load.faults)
  <2>1. load.entries = Promise!Entries(n, lost)
    BY <1>5, SameEntries, Zenon
  <2>2. lost \in IF load.faults > 0 THEN SUBSET DOMAIN tree.parts[n] ELSE {{}}
    <3>1. CASE load.faults > 0
      BY <3>1, <1>1
    <3>2. CASE ~ load.faults > 0
      BY <3>2, <1>6
    <3>3. QED
      BY <3>1, <3>2
  <2>3. QED
    BY <2>1, <2>2 DEF Listing
<1>11. ASSUME load.faults = 0 PROVE Stocked(n, load.table)
  <2>1. SUFFICES ASSUME NEW k \in DOMAIN parts
                 PROVE  Range(parts[k].inodes) \subseteq load.table
    BY DEF Stocked
  <2>2. Ins(lost)[k] = parts[k].inodes /\ k \in DOMAIN Ins(lost)
    BY <1>6, <1>11 DEF Ins
  <2>3. QED
    BY <2>2, <1>4, <1>5
<1>12. QED
  BY <1>3, <1>5, <1>6, <1>7, <1>8, <1>9, <1>10, <1>11

(* What may be listed are entries of the directory.                        *)
LEMMA ListingTrue ==
    ASSUME tree \in Trees, NEW n \in Inum, NEW list, NEW flt, Listing(list, n, flt)
    PROVE  /\ list \in Seq(Entry)
           /\ flt = 0 => list = Promise!Entries(n, {})
           /\ \A e \in Range(list) :
                 /\ \E k \in DOMAIN tree.parts[n] : e \in Range(tree.parts[n][k].entries)
                 /\ \E j \in DOMAIN Promise!Entries(n, {}) : e = Promise!Entries(n, {})[j]
<1> DEFINE parts == tree.parts[n]
           Of(lost) == [k \in DOMAIN parts |-> IF k \in lost THEN <<>> ELSE parts[k].entries]
<1>1. PICK lost : list = FlattenSeq(Of(lost)) /\ (flt = 0 => lost = {})
  <2>1. \A lost : Promise!Entries(n, lost) = FlattenSeq(Of(lost))
    BY SameEntries, Zenon
  <2>2. PICK lost \in IF flt > 0 THEN SUBSET DOMAIN tree.parts[n] ELSE {{}} :
           list = Promise!Entries(n, lost)
    BY DEF Listing
  <2>3. list = FlattenSeq(Of(lost))
    BY <2>1, <2>2, Zenon
  <2>4. flt = 0 => lost = {}
    BY <2>2
  <2>5. QED
    BY <2>3, <2>4
<1>2. Of(lost) \in Seq(Seq(Entry)) /\ Of({}) \in Seq(Seq(Entry))
  <2>1. ASSUME NEW l PROVE Of(l) \in Seq(Seq(Entry))
    <3>1. tree \in Trees /\ n \in Inum
      OBVIOUS
    <3>2. QED
      BY ONLY <3>1, PartsTypes, Zenon
  <2> HIDE DEF Of
  <2>2. QED
    BY <2>1, Zenon
<1>3. Promise!Entries(n, {}) = FlattenSeq(Of({}))
  BY SameEntries, Zenon
<1> HIDE DEF Of
<1>4. list \in Seq(Entry) /\ Range(list) = UNION {Range(Of(lost)[k]) : k \in DOMAIN Of(lost)}
  BY <1>1, <1>2, Flattened
<1>5. /\ FlattenSeq(Of({})) \in Seq(Entry)
      /\ Range(FlattenSeq(Of({}))) = UNION {Range(Of({})[k]) : k \in DOMAIN Of({})}
  BY <1>2, Flattened
<1>6. ASSUME NEW e \in Range(list)
      PROVE  /\ \E k \in DOMAIN parts : e \in Range(parts[k].entries)
             /\ e \in Range(FlattenSeq(Of({})))
  <2>1. PICK k \in DOMAIN Of(lost) : e \in Range(Of(lost)[k])
    BY <1>4, <1>6
  <2>2. k \in DOMAIN parts /\ Of(lost)[k] = IF k \in lost THEN <<>> ELSE parts[k].entries
    BY DEF Of
  <2>3. Range(<<>>) = {}
    BY DEF Range
  <2>4. e \in Range(parts[k].entries)
    BY <2>1, <2>2, <2>3
  <2>5. k \in DOMAIN Of({}) /\ Of({})[k] = parts[k].entries
    BY <2>2 DEF Of
  <2>6. QED
    BY <2>2, <2>4, <2>5, <1>5
<1>7. \A e \in Range(FlattenSeq(Of({}))) :
         \E j \in DOMAIN FlattenSeq(Of({})) : e = FlattenSeq(Of({}))[j]
  BY DEF Range
<1>8. QED
  BY <1>1, <1>3, <1>4, <1>6, <1>7, Zenon

-----------------------------------------------------------------------------
(* There are more buffers than fids.                                       *)
LEMMA BufferFree ==
    ASSUME NEW nf, NEW a
    PROVE  NewBuffer(a, Busy(nf)) \in Buffers \ Busy(nf)
<1> DEFINE N == Cardinality(Fid)
           Other(b) == CHOOSE g \in Fid : fids[g].aux.entry = b
           f == [b \in 1 .. N + 1 |-> Other(b)]
<1>1. IsFiniteSet(Fid) /\ N \in Nat
  BY BoundsAssumption, FS_CardinalityType
<1>2. Buffers = 0 .. N + 1
  BY DEF Buffers
<1> HIDE DEF N
<1>3. Cardinality(1 .. N + 1) = N + 1
  BY <1>1, FS_Interval, 1 \in Int, N + 1 \in Int
<1>4. \E b \in Buffers : b \notin Busy(nf)
  <2>1. SUFFICES ASSUME Buffers \subseteq Busy(nf) PROVE FALSE
    OBVIOUS
  <2>2. ASSUME NEW b \in 1 .. N + 1
        PROVE  \E g \in Fid : fids[g].aux.entry = b
    <3>1. b \in Busy(nf) /\ b # 0
      BY <1>1, <1>2, <2>1
    <3>2. b \in {fids[g].aux.entry : g \in {h \in Fid : Used(h) /\ h # nf}}
      BY <3>1 DEF Busy, RootEntry
    <3>3. QED
      BY <3>2
  <2>3. \A b \in 1 .. N + 1 : f[b] \in Fid /\ fids[f[b]].aux.entry = b
    BY <2>2
  <2> HIDE DEF f
  <2>4. f \in [1 .. N + 1 -> Fid]
    BY <2>3 DEF f
  <2>5. \A b, c \in 1 .. N + 1 : f[b] = f[c] => b = c
    BY <2>3
  <2>6. f \in Injection(1 .. N + 1, Fid)
    BY <2>4, <2>5 DEF Injection, IsInjective
  <2>7. Cardinality(1 .. N + 1) <= Cardinality(Fid)
    BY <2>6, <1>1, FS_Injection
  <2>8. QED
    BY <2>7, <1>1, <1>3 DEF N
<1>5. QED
  BY <1>4 DEF NewBuffer

(* The names of results that a step of a walk may have.                    *)
Results == {"ok", "notFound", "fatal", "nilBuffer", "nilEntry"}

Walker == [res : Results, qid : Qid, aux : Aux, heap : [Buffers -> Seq(Entry)],
           table : SUBSET Inum, max : Nat, faults : 0 .. MaxFaults]

(* What is loaded, but for a failed load or a slot never entered, is the   *)
(* good value.                                                             *)
LEMMA LoadInodeTrue ==
    ASSUME NEW n, NEW good, NEW before, NEW s, s.faults \in 0 .. MaxFaults,
           NEW seen \in LoadInode(n, good, before, s)
    PROVE  /\ seen[1] = good \/ seen[1] \in before
           /\ seen[2] \in 0 .. 1 /\ s.faults + seen[2] \in 0 .. MaxFaults
           /\ (seen[2] = 0 /\ GetFEntry(n, s) # "junk") => seen[1] = good
           /\ GetFEntry(n, s) = "junk" => seen[1] \in before
<1>1. MaxFaults \in Nat
  BY BoundsAssumption
<1>2. CASE GetFEntry(n, s) = "junk"
  <2>1. seen \in before \X {0}
    BY <1>2 DEF LoadInode
  <2>2. seen[1] \in before /\ seen[2] = 0
    BY <2>1
  <2>3. s.faults + seen[2] \in 0 .. MaxFaults
    <3>1. seen[2] = 0
      BY <2>2
    <3>2. QED
      BY ONLY <3>1, <1>1, s.faults \in 0 .. MaxFaults
  <2>4. QED
    BY <1>2, <2>2, <2>3
<1>3. CASE GetFEntry(n, s) # "junk"
  <2>1. seen = <<good, 0>> \/ (s.faults < MaxFaults /\ seen \in before \X {1})
    BY <1>3 DEF LoadInode
  <2>2. CASE seen = <<good, 0>>
    <3>1. seen[1] = good /\ seen[2] = 0
      BY <2>2
    <3>2. s.faults + seen[2] \in 0 .. MaxFaults
      BY ONLY <1>1, <3>1, s.faults \in 0 .. MaxFaults
    <3>3. QED
      BY <1>3, <3>1, <3>2
  <2>3. CASE s.faults < MaxFaults /\ seen \in before \X {1}
    <3>1. seen[1] \in before /\ seen[2] = 1
      BY <2>3
    <3>2. s.faults + seen[2] \in 0 .. MaxFaults
      BY <1>1, <2>3, <3>1
    <3>3. QED
      BY <1>3, <3>1, <3>2
  <2>4. QED
    BY <2>1, <2>2, <2>3
<1>4. QED
  BY <1>2, <1>3

(* A cache whose count is that of its buffer is the buffer.                *)
LEMMA CachedTrue ==
    ASSUME NEW hp \in [Buffers -> Seq(Entry)], NEW a \in Aux, a.entry # Nil,
           a.count = Len(hp[a.entry])
    PROVE  Cached(hp, a) = hp[a.entry]
<1> DEFINE list == hp[a.entry]
           N == Len(list)
<1>1. a.entry \in Buffers /\ list \in Seq(Entry) /\ N \in Nat
  <2>1. a.entry \in Buffers
    BY DEF Aux
  <2>2. QED
    BY <2>1
<1> HIDE DEF list, N
<1>2. Min({N, N}) = N
  BY <1>1 DEF Min
<1>3. CASE N = 0
  BY <1>1, <1>3 DEF Cached, list, N
<1>4. CASE N # 0
  <2>1. a.count # 0 /\ a.count = N
    BY <1>4 DEF N, list
  <2>2. Cached(hp, a) = [k \in 1 .. N |-> list[k]]
    BY <2>1, <1>2, Zenon DEF Cached, N, list
  <2>3. list = [k \in 1 .. N |-> list[k]]
    BY <1>1 DEF N
  <2>4. QED
    BY <2>2, <2>3 DEF list
<1>5. QED
  BY <1>3, <1>4

(* e is an entry of the directory here that the name may be taken for.     *)
NamedBy(e, name, here, flt) ==
    /\ e \in Entry
    /\ \E k \in DOMAIN tree.parts[here] : e \in Range(tree.parts[here][k].entries)
    /\ LET all == Promise!Entries(here, {})
       IN  \E j \in DOMAIN all :
              /\ all[j] = e
              /\ e.name = name \/ (flt > 0 /\ e.long)
              /\ flt = 0 => \A m \in 1 .. j - 1 : all[m].name # name

(* What loadsubdir() returns for a fid: an error, or the qid of an entry   *)
(* of the directory.                                                       *)
SubdirGives(s, name, r) ==
    /\ r \in Walker /\ r.aux = s.aux /\ r.heap = s.heap /\ r.table = s.table
    /\ r.max = s.max /\ s.faults <= r.faults
    /\ r.res \in {"ok", "notFound", "fatal", "nilBuffer"}
    /\ r.res \in {"ok", "fatal"} =>
          \E e \in Entry :
             /\ NamedBy(e, name, s.aux.inode, r.faults)
             /\ r.res = "ok" => r.qid.path = e.inum
             /\ (r.res = "ok" /\ r.faults = 0 /\ GetFEntry(e.inum, s) = "entry") =>
                   r.qid.type = QidType(tree.kind[e.inum]) /\ tree.kind[e.inum] # "other"
             /\ (r.res = "fatal" /\ r.faults = 0) =>
                   GetFEntry(e.inum, s) # "entry" \/ tree.kind[e.inum] = "other"

(* loadsubdir() does.                                                      *)
LEMMA SubdirTrue ==
    ASSUME tree \in Trees, NEW s \in Walker, s.res = "ok", NEW name,
           Held(s.qid, s.aux, s.heap, s.faults), NEW r \in LoadSubdir(s, name)
    PROVE  SubdirGives(s, name, r)
<1> DEFINE a == s.aux
           list == Cached(s.heap, a)
           Longs == {k \in DOMAIN list : list[k].long}
           Unread == {x \in SUBSET Longs : s.faults + Cardinality(x) <= MaxFaults}
           Taken(unread) ==
              {k \in DOMAIN list :
                  /\ k \in unread \/ list[k].name = name
                  /\ \A j \in 1 .. k - 1 : j \in unread \/ list[j].name # name}
           Missed(unread) == \A k \in DOMAIN list : k \in unread \/ list[k].name # name
           Fail(t, how) == [t EXCEPT !.res = how]
           At(t, n) ==
              IF GetFEntry(n, t) = "nil" THEN {Fail(t, "fatal")}
              ELSE {[t EXCEPT !.res = IF seen[1] = "other" THEN "fatal"
                                      ELSE IF n = 0 THEN "notFound" ELSE @,
                              !.qid = [path |-> n, type |-> QidType(seen[1])],
                              !.faults = @ + seen[2]] :
                      seen \in LoadInode(n, tree.kind[n], ObjTypes, t)}
           all == Promise!Entries(a.inode, {})
<1>1. /\ s.res = "ok" /\ a \in Aux /\ s.heap \in [Buffers -> Seq(Entry)]
      /\ s.faults \in 0 .. MaxFaults /\ s.max \in Nat /\ s.table \subseteq Inum
      /\ MaxFaults \in Nat /\ a.inode \in Inum
  BY BoundsAssumption DEF Walker, Aux
<1>0. s.faults \in Nat /\ MaxFaults \in Nat /\ s.faults <= MaxFaults
  BY <1>1
<1>2. CASE a.count = 0
  <2>1. r = [s EXCEPT !.res = "notFound"]
    BY <1>2 DEF LoadSubdir
  <2>2. r \in Walker /\ r.aux = s.aux /\ r.heap = s.heap /\ r.table = s.table
        /\ r.max = s.max /\ r.faults = s.faults /\ r.res = "notFound"
    BY <2>1, <1>1 DEF Walker, Results
  <2>3. s.faults <= r.faults
    <3>1. r.faults = s.faults
      BY <2>2
    <3>2. s.faults \in Nat
      BY <1>0
    <3>3. QED
      BY ONLY <3>1, <3>2
  <2>4. QED
    BY <2>2, <2>3 DEF SubdirGives
<1>3. CASE a.count # 0 /\ a.entry = Nil
  <2>1. r = [s EXCEPT !.res = "nilBuffer"]
    BY <1>3 DEF LoadSubdir
  <2>2. r \in Walker /\ r.aux = s.aux /\ r.heap = s.heap /\ r.table = s.table
        /\ r.max = s.max /\ r.faults = s.faults /\ r.res = "nilBuffer"
    BY <2>1, <1>1 DEF Walker, Results
  <2>3. s.faults <= r.faults
    <3>1. r.faults = s.faults
      BY <2>2
    <3>2. s.faults \in Nat
      BY <1>0
    <3>3. QED
      BY ONLY <3>1, <3>2
  <2>4. QED
    BY <2>2, <2>3 DEF SubdirGives
<1>4. CASE a.count # 0 /\ a.entry # Nil
  <2>1. Listing(list, a.inode, s.faults)
    <3>1. s.qid.type \in {"dir", "file"}
      BY DEF Walker, Qid
    <3>2. Caches(s.qid, a, a.inode, s.heap, s.faults)
      BY <1>4, <3>1 DEF Held, Leftover
    <3>3. a.count = Len(s.heap[a.entry]) /\ Listing(s.heap[a.entry], a.inode, s.faults)
      BY <1>4, <3>2 DEF Caches
    <3>4. QED
      BY <3>3, <1>1, <1>4, CachedTrue, Zenon
  <2> HIDE DEF list, all
  <2>2. list \in Seq(Entry)
    BY <2>1, <1>1, ListingTrue
  <2> DEFINE T(unread) == [s EXCEPT !.faults = @ + Cardinality(unread)]
             X(u) == UNION {At(T(u), list[k].inum) : k \in Taken(u)}
             Y(u) == IF Missed(u) THEN {Fail(T(u), "notFound")} ELSE {}
  <2>3. PICK u \in Unread : r \in X(u) \cup Y(u)
    <3>1. r \in UNION {X(u) \cup Y(u) : u \in Unread}
      <4>1. LoadSubdir(s, name) = UNION {X(u) \cup Y(u) : u \in Unread}
        BY <1>4 DEF LoadSubdir, list
      <4>2. QED
        BY <4>1, Zenon
    <3> HIDE DEF X, Y, Unread
    <3>2. QED
      BY <3>1
  <2> DEFINE t == T(u)
  <2>4. IsFiniteSet(u) /\ Cardinality(u) \in Nat /\ (Cardinality(u) = 0 => u = {})
    <3>1. DOMAIN list = 1 .. Len(list) /\ Len(list) \in Int
      BY <2>2
    <3>2. IsFiniteSet(DOMAIN list)
      BY <3>1, FS_Interval, 1 \in Int
    <3>3. IsFiniteSet(u)
      BY <3>2, FS_Subset
    <3>4. QED
      BY <3>3, FS_CardinalityType, FS_EmptySet
  <2>5. /\ t \in Walker /\ t.res = "ok" /\ t.aux = s.aux /\ t.heap = s.heap /\ t.table = s.table
        /\ t.max = s.max /\ t.qid = s.qid /\ t.faults \in 0 .. MaxFaults
        /\ t.faults = s.faults + Cardinality(u)
    <3>1. s.faults + Cardinality(u) \in 0 .. MaxFaults
      <4>1. s.faults + Cardinality(u) <= MaxFaults
        BY <2>3
      <4>2. s.faults \in Nat /\ Cardinality(u) \in Nat /\ MaxFaults \in Nat
        BY <1>0, <2>4
      <4>3. QED
        BY <4>1, <4>2
    <3>2. QED
      BY <1>1, <3>1 DEF Walker
  <2>6. \/ \E k \in Taken(u) : r \in At(t, list[k].inum)
        \/ r = Fail(t, "notFound")
    <3> HIDE DEF At, Taken, Missed, Fail
    <3> HIDE DEF T
    <3>2. ASSUME r \in X(u) PROVE \E k \in Taken(u) : r \in At(t, list[k].inum)
      <4>1. PICK A \in {At(t, list[k].inum) : k \in Taken(u)} : r \in A
        BY <3>2, Zenon
      <4>2. PICK k \in Taken(u) : A = At(t, list[k].inum)
        BY <4>1, Zenon
      <4>3. QED
        BY <4>1, <4>2
    <3>3. ASSUME r \in Y(u) PROVE r = Fail(t, "notFound")
      BY <3>3, Zenon
    <3> HIDE DEF X, Y
    <3>4. QED
      BY <2>3, <3>2, <3>3, Zenon
  <2>7. CASE r = Fail(t, "notFound")
    <3>1. r \in Walker /\ r.aux = t.aux /\ r.heap = t.heap /\ r.table = t.table
          /\ r.max = t.max /\ r.faults = t.faults /\ r.res = "notFound"
      BY <2>5, <2>7 DEF Walker, Results
    <3>2. r.aux = s.aux /\ r.heap = s.heap /\ r.table = s.table /\ r.max = s.max
          /\ s.faults <= r.faults
      <4> HIDE DEF t, Fail, Walker
      <4>1. r.aux = s.aux /\ r.heap = s.heap /\ r.table = s.table /\ r.max = s.max
        BY <3>1, <2>5, Zenon
      <4>2. r.faults = s.faults + Cardinality(u)
        BY <3>1, <2>5
      <4>3. QED
        BY <4>1, <4>2, <2>4, <1>0
    <3>3. QED
      BY <3>1, <3>2 DEF SubdirGives
  <2>8. ASSUME NEW k \in Taken(u), NEW flt \in Nat, t.faults <= flt
        PROVE  list[k] \in Entry /\ NamedBy(list[k], name, a.inode, flt)
    <3>1. k \in DOMAIN list /\ list[k] \in Entry
      BY <2>2, <2>8
    <3>2. list[k].name = name \/ (flt > 0 /\ list[k].long)
      <4>1. k \in u => list[k].long /\ u # {}
        BY <2>3
      <4>2. u # {} => flt > 0
        <5>1. u # {} => Cardinality(u) # 0
          BY <2>4, FS_EmptySet
        <5>2. QED
          BY <5>1, <2>4, <2>5, <2>8, <1>1
      <4>3. k \in u \/ list[k].name = name
        BY <2>8
      <4>4. QED
        BY <4>1, <4>2, <4>3
    <3>3. list[k] \in Range(list)
      BY <3>1 DEF Range
    <3>4. /\ \E i \in DOMAIN tree.parts[a.inode] :
                list[k] \in Range(tree.parts[a.inode][i].entries)
          /\ \E j \in DOMAIN all : list[k] = all[j]
      BY <3>3, <2>1, <1>1, ListingTrue DEF all
    <3>5. CASE flt # 0
      BY <3>1, <3>2, <3>4, <3>5 DEF NamedBy, all
    <3>6. CASE flt = 0
      <4>1. s.faults = 0 /\ u = {}
        BY <3>6, <2>4, <2>5, <2>8, <1>1
      <4>2. list = all
        BY <4>1, <2>1, <1>1, ListingTrue DEF all
      <4>3. \A m \in 1 .. k - 1 : all[m].name # name
        BY <4>1, <4>2, <2>8
      <4>4. k \in DOMAIN all /\ all[k] = list[k]
        BY <4>2, <3>1
      <4>5. QED
        BY <4>3, <4>4, <3>1, <3>2, <3>4 DEF NamedBy, all
    <3>7. QED
      BY <3>5, <3>6
  <2>9. ASSUME NEW k \in Taken(u), r \in At(t, list[k].inum)
        PROVE  \/ (r = Fail(t, "fatal") /\ GetFEntry(list[k].inum, t) = "nil")
               \/ \E seen \in LoadInode(list[k].inum, tree.kind[list[k].inum], ObjTypes, t) :
                     /\ GetFEntry(list[k].inum, t) # "nil"
                     /\ r = [t EXCEPT !.res = IF seen[1] = "other" THEN "fatal"
                                          ELSE IF list[k].inum = 0 THEN "notFound" ELSE @,
                                !.qid = [path |-> list[k].inum, type |-> QidType(seen[1])],
                                !.faults = @ + seen[2]]
    BY <2>9
  <2>10. \A n : GetFEntry(n, t) = GetFEntry(n, s)
    BY <2>5 DEF GetFEntry
  <2> HIDE DEF Taken, At, Missed, Unread, t
  <2>11. ASSUME NEW k \in Taken(u), r = Fail(t, "fatal"), GetFEntry(list[k].inum, t) = "nil"
         PROVE  SubdirGives(s, name, r)
    <3>1. r \in Walker /\ r.aux = t.aux /\ r.heap = t.heap /\ r.table = t.table
          /\ r.max = t.max /\ r.faults = t.faults /\ r.res = "fatal"
      BY <2>5, <2>11 DEF Walker, Results
    <3>2. list[k] \in Entry /\ NamedBy(list[k], name, a.inode, r.faults)
      BY <3>1, <2>5, <2>8
    <3>3. GetFEntry(list[k].inum, s) # "entry"
      BY <2>10, <2>11
    <3>4. QED
      BY <3>1, <3>2, <3>3, <2>4, <2>5, <1>1 DEF SubdirGives
  <2>12. ASSUME NEW k \in Taken(u),
                NEW seen \in LoadInode(list[k].inum, tree.kind[list[k].inum], ObjTypes, t),
                GetFEntry(list[k].inum, t) # "nil",
                r = [t EXCEPT !.res = IF seen[1] = "other" THEN "fatal"
                                   ELSE IF list[k].inum = 0 THEN "notFound" ELSE @,
                         !.qid = [path |-> list[k].inum, type |-> QidType(seen[1])],
                         !.faults = @ + seen[2]]
         PROVE  SubdirGives(s, name, r)
    <3> DEFINE n == list[k].inum
    <3>1. /\ seen[1] = tree.kind[n] \/ seen[1] \in ObjTypes
          /\ seen[2] \in 0 .. 1 /\ t.faults + seen[2] \in 0 .. MaxFaults
          /\ (seen[2] = 0 /\ GetFEntry(n, t) # "junk") => seen[1] = tree.kind[n]
      BY <2>5, <2>12, LoadInodeTrue
    <3>2. list[k] \in Entry /\ NamedBy(list[k], name, a.inode, r.faults)
      BY <3>1, <2>5, <2>8, <2>12
    <3>3. n \in Inum /\ n \in Nat
      BY <3>2, TreeTypes, Zenon DEF Entry
    <3>4. QidType(seen[1]) \in {"dir", "file"}
      BY DEF QidType
    <3> HIDE DEF n
    <3>5. r \in Walker /\ r.aux = t.aux /\ r.heap = t.heap /\ r.table = t.table
          /\ r.max = t.max /\ r.faults = t.faults + seen[2]
          /\ r.res = (IF seen[1] = "other" THEN "fatal"
                      ELSE IF n = 0 THEN "notFound" ELSE "ok")
          /\ r.qid = [path |-> n, type |-> QidType(seen[1])]
      BY <2>5, <2>12, <3>1, <3>3, <3>4 DEF Walker, Results, Qid, n
    <3>6. s.faults <= r.faults /\ (r.faults = 0 => seen[2] = 0)
      BY <3>5, <3>1, <2>4, <2>5, <1>1
    <3>7. GetFEntry(n, s) = "entry" /\ seen[2] = 0 => seen[1] = tree.kind[n]
      BY <2>10, <3>1
    <3>8. QED
      BY <3>2, <3>5, <3>6, <3>7, <2>5 DEF SubdirGives, n
  <2>13. QED
    BY <2>6, <2>7, <2>9, <2>11, <2>12, Zenon
<1>5. QED
  BY <1>2, <1>3, <1>4

(* What the second half of fswalk() leaves of the fid that walks.          *)
EnterGives(s, nf, r) ==
    /\ r \in Walker /\ r.qid = s.qid /\ r.aux.qid = s.aux.qid
    /\ s.table \subseteq r.table /\ s.faults <= r.faults
    /\ Fits(s.table, s.max) => Fits(r.table, r.max)
    /\ \A b \in Busy(nf) \cap Buffers : r.heap[b] = s.heap[b]
    /\ r.res \in {"ok", "nilEntry", "fatal"}
    /\ r.res = "ok" =>
          /\ r.aux.inode \in {s.qid.path, 0}
          /\ (r.faults = 0 /\ GetFEntry(s.qid.path, s) = "entry") => r.aux.inode = s.qid.path
          /\ GetFEntry(s.qid.path, s) # "entry" => r.aux.inode = 0
          /\ s.qid.type = "file" => r.aux.entry = Nil
          /\ s.qid.type = "dir" =>
                /\ Caches(r.qid, r.aux, r.aux.inode, r.heap, r.faults)
                /\ r.faults = 0 => Stocked(r.aux.inode, r.table)
    /\ r.res = "nilEntry" => GetFEntry(s.qid.path, s) = "nil"
    /\ r.res = "fatal" =>
          s.qid.type = "dir" /\ tree.kind[s.qid.path] \in {"file", "link"}

(* The second half of fswalk() does.                                       *)
LEMMA EnterTrue ==
    ASSUME tree \in Trees, NEW s \in Walker, s.res = "ok", NEW nf,
           s.qid.path \in Inum, NEW r \in Enter(s, Busy(nf))
    PROVE  EnterGives(s, nf, r)
<1> DEFINE q == s.qid
           b == NewBuffer(s.aux, Busy(nf))
           Dir(t, n) ==
             IF tree.kind[n] \in {"file", "link"} THEN {[t EXCEPT !.res = "fatal"]}
             ELSE {[t EXCEPT !.aux.inode = n, !.aux.count = Len(load.entries),
                       !.aux.entry = IF load.entries = <<>> THEN Nil ELSE b,
                       !.heap = IF load.entries = <<>> THEN @ ELSE [@ EXCEPT ![b] = load.entries],
                       !.table = load.table, !.max = load.max, !.faults = load.faults] :
                     load \in Loads(n, t)}
           T(seen) == [s EXCEPT !.faults = @ + seen[2]]
           Gives(seen) == IF q.type = "dir" THEN Dir(T(seen), seen[1])
                          ELSE {[T(seen) EXCEPT !.aux.inode = seen[1], !.aux.entry = Nil]}
<1>1. /\ s.aux \in Aux /\ s.heap \in [Buffers -> Seq(Entry)] /\ q \in Qid
      /\ s.max \in Nat /\ s.table \subseteq Inum /\ s.faults \in 0 .. MaxFaults
  BY DEF Walker
<1>2. s.faults \in Nat /\ MaxFaults \in Nat /\ s.faults <= MaxFaults
  BY <1>1, BoundsAssumption
<1>3. b \in Buffers /\ b \notin Busy(nf) /\ b # Nil
  <2>1. b \in Buffers \ Busy(nf)
    BY BufferFree
  <2>2. \A x \in Buffers : x # Nil
    BY DEF Buffers, Nil
  <2>3. QED
    BY <2>1, <2>2
<1> HIDE DEF b
<1>4. CASE GetFEntry(q.path, s) = "nil"
  <2>1. r = [s EXCEPT !.res = "nilEntry"]
    BY <1>4 DEF Enter
  <2>2. r \in Walker /\ r.aux = s.aux /\ r.heap = s.heap /\ r.table = s.table /\ r.qid = s.qid
        /\ r.max = s.max /\ r.faults = s.faults /\ r.res = "nilEntry"
    BY <2>1, <1>1 DEF Walker, Results
  <2>3. s.faults <= r.faults
    <3>1. r.faults = s.faults
      BY <2>2
    <3>2. QED
      BY ONLY <3>1, <1>2
  <2>4. QED
    BY <2>2, <2>3, <1>4 DEF EnterGives
<1>5. CASE GetFEntry(q.path, s) # "nil"
  <2>1. PICK seen \in LoadInode(q.path, q.path, {0}, s) : r \in Gives(seen)
    <3>1. Enter(s, Busy(nf)) = UNION {Gives(seen) : seen \in LoadInode(q.path, q.path, {0}, s)}
      BY <1>5 DEF Enter, b
    <3> HIDE DEF Gives
    <3>2. QED
      BY <3>1
  <2>2. /\ seen[1] \in {q.path, 0} /\ seen[2] \in 0 .. 1 /\ s.faults + seen[2] \in 0 .. MaxFaults
        /\ (seen[2] = 0 /\ GetFEntry(q.path, s) # "junk") => seen[1] = q.path
        /\ GetFEntry(q.path, s) # "entry" => seen[1] = 0
    <3>1. GetFEntry(q.path, s) \in {"nil", "entry", "junk"}
      BY DEF GetFEntry
    <3>2. QED
      BY <1>1, <1>5, <3>1, LoadInodeTrue
  <2>3. seen[1] \in Inum
    BY <2>2, TreeTypes
  <2> DEFINE t == T(seen)
  <2>4. /\ t \in Walker /\ t.res = "ok" /\ t.aux = s.aux /\ t.heap = s.heap /\ t.table = s.table
        /\ t.max = s.max /\ t.qid = s.qid
        /\ t.faults = s.faults + seen[2]
    BY <1>1, <2>2 DEF Walker
  <2>5. t.faults \in Nat /\ s.faults <= t.faults /\ (t.faults = 0 => seen[2] = 0)
    <3>1. t.faults = s.faults + seen[2]
      BY <2>4
    <3>2. seen[2] \in 0 .. 1
      BY <2>2
    <3>3. QED
      BY ONLY <3>1, <3>2, <1>2
  <2>6. CASE q.type = "file"
    <3>1. r = [t EXCEPT !.aux.inode = seen[1], !.aux.entry = Nil]
      BY <2>1, <2>6
    <3> HIDE DEF t, T
    <3>2. t.aux \in Aux
      BY <2>4, <1>1
    <3>3. /\ r.aux = [t.aux EXCEPT !.inode = seen[1], !.entry = Nil]
          /\ r.res = "ok" /\ r.heap = t.heap /\ r.table = t.table
          /\ r.max = t.max /\ r.qid = t.qid /\ r.faults = t.faults
      BY <2>4, <3>1 DEF Walker
    <3>4. r.aux \in Aux /\ r.aux.qid = s.aux.qid /\ r.aux.inode = seen[1] /\ r.aux.entry = Nil
      BY <2>3, <2>4, <3>2, <3>3 DEF Aux
    <3>5. r \in Walker
      BY <2>4, <3>1, <3>3, <3>4 DEF Walker, Results
    <3>6. QED
      BY <2>2, <2>4, <2>5, <2>6, <3>3, <3>4, <3>5, <1>5 DEF EnterGives
  <2>7. CASE q.type = "dir" /\ tree.kind[seen[1]] \in {"file", "link"}
    <3>1. r = [t EXCEPT !.res = "fatal"]
      BY <2>1, <2>7
    <3> HIDE DEF t, T
    <3>2. r \in Walker /\ r.aux = t.aux /\ r.res = "fatal" /\ r.heap = t.heap /\ r.table = t.table
          /\ r.max = t.max /\ r.qid = t.qid /\ r.faults = t.faults
      BY <2>4, <3>1 DEF Walker, Results
    <3>3. seen[1] = q.path
      BY <2>2, <2>7, TreeTypes
    <3>4. QED
      BY <2>4, <2>5, <2>7, <3>2, <3>3 DEF EnterGives
  <2>8. CASE q.type = "dir" /\ tree.kind[seen[1]] \notin {"file", "link"}
    <3>1. PICK load \in Loads(seen[1], t) :
             r = [t EXCEPT !.aux.inode = seen[1], !.aux.count = Len(load.entries),
                     !.aux.entry = IF load.entries = <<>> THEN Nil ELSE b,
                     !.heap = IF load.entries = <<>> THEN @ ELSE [@ EXCEPT ![b] = load.entries],
                     !.table = load.table, !.max = load.max, !.faults = load.faults]
      BY <2>1, <2>8
    <3> HIDE DEF t, T
    <3>2. /\ load.entries \in Seq(Entry) /\ load.table \subseteq Inum /\ load.max \in Nat
          /\ load.faults \in 0 .. MaxFaults /\ t.faults <= load.faults
          /\ t.table \subseteq load.table
          /\ Fits(t.table, t.max) => Fits(load.table, load.max)
          /\ Listing(load.entries, seen[1], load.faults)
          /\ load.faults = 0 => Stocked(seen[1], load.table)
      BY <2>3, <2>4, <2>5, <1>1, LoadsTrue
    <3> DEFINE entry == IF load.entries = <<>> THEN Nil ELSE b
               hp == IF load.entries = <<>> THEN t.heap ELSE [t.heap EXCEPT ![b] = load.entries]
    <3>3. /\ r.aux = [t.aux EXCEPT !.inode = seen[1], !.count = Len(load.entries), !.entry = entry]
          /\ r.heap = hp
          /\ r.res = "ok" /\ r.table = load.table
          /\ r.max = load.max /\ r.qid = t.qid /\ r.faults = load.faults
      BY <2>4, <3>1 DEF Walker
    <3>4. entry \in Buffers \cup {Nil} /\ Len(load.entries) \in Nat
      BY <3>2, <1>3
    <3>5. hp \in [Buffers -> Seq(Entry)] /\ (entry = b => hp[b] = load.entries)
          /\ \A c \in Busy(nf) \cap Buffers : hp[c] = s.heap[c]
      BY <1>1, <1>3, <2>4, <3>2
    <3> HIDE DEF entry, hp
    <3>6. t.aux \in Aux
      BY <2>4, <1>1
    <3>7. r.aux \in Aux /\ r.aux.qid = s.aux.qid /\ r.aux.inode = seen[1] /\ r.aux.entry = entry
          /\ r.aux.count = Len(load.entries)
      BY <2>3, <2>4, <3>3, <3>4, <3>6 DEF Aux
    <3>8. r \in Walker
      BY <2>4, <3>1, <3>2, <3>3, <3>5, <3>7 DEF Walker, Results
    <3>9. Caches(r.qid, r.aux, r.aux.inode, r.heap, r.faults)
      <4>1. CASE load.entries = <<>>
        <5>1. entry = Nil /\ Len(load.entries) = 0
          BY <4>1 DEF entry
        <5>2. QED
          BY <4>1, <5>1, <3>2, <3>3, <3>7 DEF Caches
      <4>2. CASE load.entries # <<>>
        <5>1. entry = b
          BY <4>2 DEF entry
        <5>2. QED
          BY <5>1, <1>3, <3>2, <3>3, <3>5, <3>7 DEF Caches
      <4>3. QED
        BY <4>1, <4>2
    <3>10. s.faults <= load.faults /\ (load.faults = 0 => seen[2] = 0)
      <4>1. t.faults <= load.faults /\ load.faults \in Nat
        BY <3>2, <1>2
      <4>2. QED
        BY ONLY <4>1, <2>5, <1>2
    <3>11. QED
      BY <2>2, <2>4, <2>8, <3>2, <3>3, <3>5, <3>7, <3>8, <3>9, <3>10 DEF EnterGives
  <2>9. QED
    BY <2>6, <2>7, <2>8, <1>1 DEF Qid
<1>6. QED
  BY <1>4, <1>5

-----------------------------------------------------------------------------
(* More in the table, or a load that fails, takes nothing away.            *)
LEMMA AtHomeGrows ==
    ASSUME NEW n, NEW tab, NEW more, tab \subseteq more, NEW f \in Nat, NEW g \in Nat, f <= g,
           AtHome(n, tab, f)
    PROVE  AtHome(n, more, g)
<1>1. SUFFICES ASSUME g = 0, Complete(tree)
               PROVE  Home(n, more) /\ Stocked(n, more) /\ Stocked(RootInum, more)
                      /\ Home(RootInum, more)
  BY DEF AtHome
<1>2. Home(n, tab) /\ Stocked(n, tab) /\ Stocked(RootInum, tab) /\ Home(RootInum, tab)
  BY <1>1 DEF AtHome
<1>3. \A m : Home(m, tab) => Home(m, more)
  <2>1. SUBSET tab \subseteq SUBSET more
    OBVIOUS
  <2>2. QED
    BY <2>1, Zenon DEF Home
<1>4. \A m : Stocked(m, tab) => Stocked(m, more)
  BY DEF Stocked
<1>5. QED
  BY <1>2, <1>3, <1>4

(* A listing stays one when more loads have failed.                        *)
LEMMA ListingGrows ==
    ASSUME NEW n, NEW list, NEW f \in Nat, NEW g \in Nat, f <= g, Listing(list, n, f)
    PROVE  Listing(list, n, g)
<1>1. PICK lost \in IF f > 0 THEN SUBSET DOMAIN tree.parts[n] ELSE {{}} :
         list = Promise!Entries(n, lost)
  BY DEF Listing
<1>2. lost \in IF g > 0 THEN SUBSET DOMAIN tree.parts[n] ELSE {{}}
  <2>1. lost \in SUBSET DOMAIN tree.parts[n]
    BY <1>1
  <2>2. g = 0 => lost = {}
    BY <1>1
  <2>3. QED
    BY <2>1, <2>2
<1>3. QED
  BY <1>1, <1>2 DEF Listing

(* A number that is at home is in the table, or has no inode.              *)
LEMMA HomeEntry ==
    ASSUME NEW s, Fits(s.table, s.max), NEW n, Home(n, s.table), tree.kind[n] # "none",
           s.table \subseteq Nat, s.max \in Nat
    PROVE  GetFEntry(n, s) = "entry"
<1>1. n \in s.table
  BY DEF Home
<1>2. ~ n > s.max
  BY <1>1 DEF Fits
<1>3. QED
  BY <1>1, <1>2 DEF GetFEntry

(* The places that the promise has for a walk that gets to n.              *)
Places(n, failed) ==
    IF ~ failed /\ tree.kind[n] # "none"
    THEN {[named |-> n, here |-> n, dir |-> tree.kind[n] = "dir"]}
    ELSE [named : {n}, here : {n, 0}, dir : BOOLEAN]

PlaceOf(s) == [named |-> s.qid.path, here |-> s.aux.inode, dir |-> s.qid.type = "dir"]

(* fswalk() enters n as an inode that is at home, and of the type it has.  *)
LEMMA EnterHolds ==
    ASSUME tree \in Trees, NEW s \in Walker, s.qid.path \in Inum, s.aux.qid = RootQid,
           Fits(s.table, s.max), AtHome(RootInum, s.table, s.faults),
           (s.faults = 0 /\ Complete(tree)) => Home(s.qid.path, s.table),
           (s.faults = 0 /\ s.qid.type = "file" /\ GetFEntry(s.qid.path, s) = "entry") =>
               tree.kind[s.qid.path] # "dir",
           NEW nf, NEW r, EnterGives(s, nf, r), r.res = "ok"
    PROVE  /\ Held(r.qid, r.aux, r.heap, r.faults)
           /\ AtHome(r.aux.inode, r.table, r.faults)
<1> DEFINE n == s.qid.path
<1>1. /\ r \in Walker /\ r.qid = s.qid /\ r.aux.qid = s.aux.qid
      /\ s.table \subseteq r.table /\ s.faults <= r.faults
      /\ Fits(r.table, r.max)
      /\ r.aux.inode \in {n, 0}
      /\ (r.faults = 0 /\ GetFEntry(n, s) = "entry") => r.aux.inode = n
      /\ GetFEntry(n, s) # "entry" => r.aux.inode = 0
      /\ s.qid.type = "file" => r.aux.entry = Nil
      /\ s.qid.type = "dir" =>
            /\ Caches(r.qid, r.aux, r.aux.inode, r.heap, r.faults)
            /\ r.faults = 0 => Stocked(r.aux.inode, r.table)
  BY DEF EnterGives
<1>2. s.faults \in Nat /\ r.faults \in Nat /\ s.qid.type \in {"dir", "file"}
      /\ s.table \subseteq Nat /\ s.max \in Nat
  BY <1>1, BoundsAssumption, TreeTypes DEF Walker, Qid
<1>3. r.faults = 0 => s.faults = 0
  BY <1>1, <1>2
<1>4. s.qid.type = "file" => tree.kind[r.aux.inode] # "dir" \/ r.faults > 0
  <2>1. SUFFICES ASSUME s.qid.type = "file", r.faults = 0
                 PROVE  tree.kind[r.aux.inode] # "dir"
    BY <1>2
  <2>2. CASE GetFEntry(n, s) = "entry"
    BY <1>1, <1>3, <2>1, <2>2
  <2>3. CASE GetFEntry(n, s) # "entry"
    BY <1>1, <2>3, TreeTypes
  <2>4. QED
    BY <2>2, <2>3
<1>5. Held(r.qid, r.aux, r.heap, r.faults)
  BY <1>1, <1>2, <1>4 DEF Held
<1>6. AtHome(r.aux.inode, r.table, r.faults)
  <2>1. SUFFICES ASSUME r.faults = 0, Complete(tree)
                 PROVE  Home(r.aux.inode, r.table) /\ Stocked(r.aux.inode, r.table)
                        /\ Stocked(RootInum, r.table) /\ Home(RootInum, r.table)
    BY DEF AtHome
  <2>2. Stocked(RootInum, r.table) /\ Home(RootInum, r.table)
    BY <1>1, <1>2, <2>1, AtHomeGrows DEF AtHome
  <2>3. Home(r.aux.inode, r.table)
    <3>1. CASE r.aux.inode = 0
      BY <3>1, TreeTypes DEF Home
    <3>2. CASE r.aux.inode = n
      <4>1. Home(n, s.table)
        BY <1>3, <2>1
      <4>2. SUBSET s.table \subseteq SUBSET r.table
        BY <1>1
      <4>3. QED
        BY <3>2, <4>1, <4>2, Zenon DEF Home
    <3>3. QED
      BY <1>1, <3>1, <3>2
  <2>4. Stocked(r.aux.inode, r.table)
    <3>1. CASE s.qid.type = "dir"
      BY <1>1, <2>1, <3>1
    <3>2. CASE s.qid.type = "file"
      <4>1. tree.parts[r.aux.inode] = <<>>
        <5>1. r.aux.inode \in Inum /\ tree.kind[r.aux.inode] # "dir"
          BY <1>1, <1>4, <2>1, <3>2, TreeTypes
        <5>2. QED
          BY <5>1, TreeTypes
      <4>2. QED
        BY <4>1 DEF Stocked
    <3>3. QED
      BY <1>2, <3>1, <3>2
  <2>5. QED
    BY <2>2, <2>3, <2>4
<1>7. QED
  BY <1>5, <1>6

(* And it gets to where the promise has it.                                *)
LEMMA EnterPlace ==
    ASSUME tree \in Trees, NEW s \in Walker, Fits(s.table, s.max), Complete(tree),
           s.faults = 0 => Home(s.qid.path, s.table),
           (s.faults = 0 /\ GetFEntry(s.qid.path, s) = "entry" /\ tree.kind[s.qid.path] # "none") =>
               (s.qid.type = "dir" <=> tree.kind[s.qid.path] = "dir"),
           NEW nf, NEW r, EnterGives(s, nf, r), r.res = "ok",
           NEW failed \in BOOLEAN, r.faults > 0 => failed
    PROVE  PlaceOf(r) \in Places(s.qid.path, failed)
<1> DEFINE n == s.qid.path
<1>1. /\ r \in Walker /\ r.qid = s.qid /\ s.faults <= r.faults
      /\ r.aux.inode \in {n, 0}
      /\ (r.faults = 0 /\ GetFEntry(n, s) = "entry") => r.aux.inode = n
  BY DEF EnterGives
<1>2. s.faults \in Nat /\ r.faults \in Nat /\ s.table \subseteq Nat /\ s.max \in Nat
  BY <1>1, BoundsAssumption, TreeTypes DEF Walker
<1>3. CASE ~ failed /\ tree.kind[n] # "none"
  <2>1. r.faults = 0 /\ s.faults = 0
    BY <1>1, <1>2, <1>3
  <2>2. GetFEntry(n, s) = "entry"
    BY <1>2, <1>3, <2>1, HomeEntry
  <2>3. r.aux.inode = n /\ (s.qid.type = "dir" <=> tree.kind[n] = "dir")
    BY <1>1, <1>3, <2>1, <2>2
  <2>4. (s.qid.type = "dir") = (tree.kind[n] = "dir")
    BY <2>3
  <2>5. QED
    BY <1>1, <1>3, <2>3, <2>4, Zenon DEF PlaceOf, Places
<1>4. CASE ~ (~ failed /\ tree.kind[n] # "none")
  <2>1. PlaceOf(r) \in [named : {n}, here : {n, 0}, dir : BOOLEAN]
    BY <1>1 DEF PlaceOf
  <2>2. QED
    BY <1>4, <2>1, Zenon DEF Places
<1>5. QED
  BY <1>3, <1>4

-----------------------------------------------------------------------------
(* A fid while it walks.                                                   *)
GoodWalker(s, nf) ==
    /\ s \in Walker /\ s.res = "ok"
    /\ Fits(s.table, s.max) /\ table \subseteq s.table /\ faults <= s.faults
    /\ \A b \in Busy(nf) \cap Buffers : s.heap[b] = heap[b]
    /\ Held(s.qid, s.aux, s.heap, s.faults)
    /\ AtHome(s.aux.inode, s.table, s.faults)

(* Where the promise has it after one more name.                           *)
PromisedStep(p, name, failed) ==
    CASE name = "/" -> {[named |-> RootInum, here |-> RootInum, dir |-> TRUE]}
      [] name = ".." -> Places(tree.parent[p.here], failed)
      [] name = "." -> {[p EXCEPT !.named = RootInum, !.dir = TRUE]}
      [] OTHER -> UNION {Places(e.inum, failed) :
                            e \in {x \in Entry : NamedBy(x, name, p.here, IF failed THEN 1 ELSE 0)}}

StepGives(s, name, nf, r) ==
    /\ r \in Walker
    /\ Fits(r.table, r.max) /\ s.table \subseteq r.table /\ s.faults <= r.faults
    /\ r.res = "ok" =>
          /\ GoodWalker(r, nf)
          /\ \A failed \in BOOLEAN : (Complete(tree) /\ (r.faults > 0 => failed)) =>
                PlaceOf(r) \in PromisedStep(PlaceOf(s), name, failed)
    /\ (r.faults = 0 /\ Sound(tree)) => r.res \in {"ok", "notFound", "nilBuffer"}

(* The name "..".                                                          *)
LEMMA UpTrue ==
    ASSUME tree \in Trees, faults \in Nat, table \subseteq Inum, NEW nf, NEW s, GoodWalker(s, nf),
           AtHome(RootInum, table, faults),
           NEW r \in Enter([s EXCEPT !.qid = [path |-> tree.parent[s.aux.inode], type |-> "dir"]],
                           Busy(nf))
    PROVE  StepGives(s, "..", nf, r)
<1> DEFINE here == s.aux.inode
           n == tree.parent[here]
           u == [s EXCEPT !.qid = [path |-> n, type |-> "dir"]]
<1>1. /\ s \in Walker /\ s.res = "ok"
      /\ Fits(s.table, s.max) /\ table \subseteq s.table /\ faults <= s.faults
      /\ \A b \in Busy(nf) \cap Buffers : s.heap[b] = heap[b]
      /\ Held(s.qid, s.aux, s.heap, s.faults)
      /\ AtHome(here, s.table, s.faults)
  BY DEF GoodWalker
<1>2. /\ here \in Inum /\ n \in Inum /\ n \in Nat /\ s.aux.qid = RootQid
      /\ s.faults \in Nat /\ s.max \in Nat /\ s.table \subseteq Nat /\ s.table \subseteq Inum
  <2>1. here \in Inum
    BY <1>1 DEF Walker, Aux
  <2>2. QED
    BY <1>1, <2>1, TreeTypes, BoundsAssumption DEF Walker, Held
<1> HIDE DEF n
<1>3. /\ u \in Walker /\ u.res = "ok" /\ u.qid = [path |-> n, type |-> "dir"]
      /\ u.aux = s.aux /\ u.heap = s.heap /\ u.table = s.table /\ u.max = s.max
      /\ u.faults = s.faults
  BY <1>1, <1>2 DEF Walker, Qid
<1>4. r \in Enter(u, Busy(nf))
  BY DEF n
<1> HIDE DEF u
<1>5. EnterGives(u, nf, r)
  BY <1>2, <1>3, <1>4, EnterTrue
<1>6. AtHome(RootInum, s.table, s.faults)
  BY <1>1, <1>2, AtHomeGrows
<1>7. ASSUME s.faults = 0, Complete(tree)
      PROVE  Home(n, s.table) /\ (tree.kind[n] \in {"dir", "none"})
  <2>1. Home(here, s.table)
    BY <1>1, <1>7 DEF AtHome
  <2>2. CASE tree.kind[here] = "none"
    <3>1. n = 0
      BY <2>2, <1>2, TreeTypes DEF n
    <3>2. QED
      BY <3>1, TreeTypes DEF Home
  <2>3. CASE tree.kind[here] # "none"
    <3>1. PICK A \in SUBSET s.table : here \in A /\ Family(A)
      BY <2>1, <2>3 DEF Home
    <3>2. (n \in A /\ tree.kind[n] = "dir") \/ tree.kind[n] = "none"
      BY <3>1 DEF Family, n
    <3>3. QED
      BY <3>1, <3>2 DEF Home
  <2>4. QED
    BY <2>2, <2>3
<1>8. /\ r \in Walker /\ r.qid = u.qid /\ Fits(r.table, r.max)
      /\ s.table \subseteq r.table /\ s.faults <= r.faults
      /\ \A b \in Busy(nf) \cap Buffers : r.heap[b] = s.heap[b]
  BY <1>1, <1>3, <1>5 DEF EnterGives
<1>9. r.faults \in Nat
  BY <1>8, BoundsAssumption DEF Walker
<1>10. ASSUME r.res = "ok"
       PROVE  Held(r.qid, r.aux, r.heap, r.faults) /\ AtHome(r.aux.inode, r.table, r.faults)
  <2>1. u.qid.path = n /\ u.qid.type = "dir"
    BY <1>3
  <2>2. QED
    BY <1>1, <1>2, <1>3, <1>5, <1>6, <1>7, <1>10, <2>1, EnterHolds
<1>11. ASSUME r.res = "ok" PROVE GoodWalker(r, nf)
  <2>1. faults <= r.faults
    BY <1>1, <1>2, <1>8, <1>9
  <2>2. QED
    BY <1>1, <1>8, <1>10, <1>11, <2>1 DEF GoodWalker
<1>12. ASSUME r.res = "ok", NEW failed \in BOOLEAN, Complete(tree), r.faults > 0 => failed
       PROVE  PlaceOf(r) \in PromisedStep(PlaceOf(s), "..", failed)
  <2>1. u.qid.path = n /\ u.qid.type = "dir"
    BY <1>3
  <2>2. PlaceOf(r) \in Places(u.qid.path, failed)
    BY <1>1, <1>2, <1>3, <1>5, <1>7, <1>12, <2>1, EnterPlace
  <2>3. PlaceOf(s).here = here
    BY DEF PlaceOf
  <2>4. PromisedStep(PlaceOf(s), "..", failed) = Places(n, failed)
    BY <2>3 DEF PromisedStep, n
  <2>5. QED
    BY <2>1, <2>2, <2>4
<1>13. ASSUME r.faults = 0, Sound(tree)
       PROVE  r.res \in {"ok", "notFound", "nilBuffer"}
  <2>1. s.faults = 0 /\ Complete(tree)
    BY <1>2, <1>8, <1>9, <1>13 DEF Sound
  <2>2. r.res # "fatal"
    <3>1. r.res = "fatal" => tree.kind[u.qid.path] \in {"file", "link"}
      BY <1>5 DEF EnterGives
    <3>2. u.qid.path = n
      BY <1>3
    <3>3. QED
      BY <1>7, <2>1, <3>1, <3>2
  <2>3. r.res # "nilEntry"
    <3>1. GetFEntry(n, u) # "nil"
      <4>1. CASE tree.kind[n] # "none"
        BY <1>1, <1>2, <1>3, <1>7, <2>1, <4>1, HomeEntry
      <4>2. CASE tree.kind[n] = "none"
        <5>1. n = 0
          BY <1>2, <1>13, <4>2 DEF Sound, n
        <5>2. ~ n > u.max
          BY <5>1, <1>2, <1>3
        <5>3. QED
          BY <5>2 DEF GetFEntry
      <4>3. QED
        BY <4>1, <4>2
    <3>2. r.res = "nilEntry" => GetFEntry(u.qid.path, u) = "nil"
      BY <1>5 DEF EnterGives
    <3>3. u.qid.path = n
      BY <1>3
    <3>4. QED
      BY <3>1, <3>2, <3>3
  <2>4. QED
    BY <1>5, <2>2, <2>3 DEF EnterGives
<1>14. QED
  BY <1>8, <1>11, <1>12, <1>13 DEF StepGives

(* An entry of a directory with all its inodes is at home itself.          *)
LEMMA EntryHome ==
    ASSUME tree \in Trees, NEW here \in Inum, NEW tab, tab \subseteq Inum,
           AtHome(here, tab, 0), Complete(tree),
           NEW e \in Entry, NEW k \in DOMAIN tree.parts[here],
           e \in Range(tree.parts[here][k].entries)
    PROVE  e.inum \in Inum /\ Home(e.inum, tab)
<1> DEFINE n == e.inum
<1>1. n \in Inum
  BY Zenon DEF Entry
<1>2. /\ Home(here, tab) /\ Stocked(here, tab) /\ Stocked(RootInum, tab)
  BY DEF AtHome
<1>3. tree.kind[here] = "dir"
  <2>1. tree.parts[here] # <<>>
    OBVIOUS
  <2>2. QED
    BY <2>1, TreeTypes
<1>4. /\ tree.parent[n] \in {here, RootInum} \/ tree.kind[tree.parent[n]] = "none"
      /\ tree.kind[n] # "none" =>
            \E m \in {here, RootInum} : \E j \in DOMAIN tree.parts[m] :
                n \in Range(tree.parts[m][j].inodes)
      /\ tree.kind[RootInum] = "dir"
  BY DEF Complete
<1>5. SUFFICES ASSUME tree.kind[n] # "none"
               PROVE  \E A \in SUBSET tab : n \in A /\ Family(A)
  BY <1>1 DEF Home
<1>6. n \in tab
  BY <1>2, <1>4, <1>5 DEF Stocked
<1>7. PICK A \in SUBSET tab : here \in A /\ Family(A)
  BY <1>2, <1>3 DEF Home
<1> DEFINE B == A \cup {n}
<1>8. RootInum \in B /\ here \in B /\ n \in B /\ B \in SUBSET tab
  BY <1>6, <1>7 DEF Family
<1>9. ASSUME NEW m \in B
      PROVE  \/ tree.parent[m] \in B /\ tree.kind[tree.parent[m]] = "dir"
             \/ tree.kind[tree.parent[m]] = "none"
  <2>1. CASE m \in A
    BY <1>7, <2>1 DEF Family
  <2>2. CASE m = n
    <3>1. CASE tree.parent[n] = here
      BY <1>3, <1>8, <2>2, <3>1
    <3>2. CASE tree.parent[n] = RootInum
      BY <1>4, <1>8, <2>2, <3>2
    <3>3. CASE tree.kind[tree.parent[n]] = "none"
      BY <2>2, <3>3
    <3>4. QED
      BY <1>4, <3>1, <3>2, <3>3
  <2>3. QED
    BY <2>1, <2>2
<1>10. Family(B)
  BY <1>8, <1>9 DEF Family
<1>11. QED
  BY <1>8, <1>10

(* A name that is looked for among the entries.                            *)
LEMMA DownTrue ==
    ASSUME tree \in Trees, faults \in Nat, table \subseteq Inum, NEW nf, NEW s, GoodWalker(s, nf),
           AtHome(RootInum, table, faults), NEW name, name \notin {"/", ".", ".."},
           NEW t \in LoadSubdir(s, name),
           NEW r \in IF t.res = "ok" THEN Enter(t, Busy(nf)) ELSE {t}
    PROVE  StepGives(s, name, nf, r)
<1> DEFINE here == s.aux.inode
<1>1. /\ s \in Walker /\ s.res = "ok"
      /\ Fits(s.table, s.max) /\ table \subseteq s.table /\ faults <= s.faults
      /\ \A b \in Busy(nf) \cap Buffers : s.heap[b] = heap[b]
      /\ Held(s.qid, s.aux, s.heap, s.faults)
      /\ AtHome(here, s.table, s.faults)
  BY DEF GoodWalker
<1>2. /\ here \in Inum /\ s.aux.qid = RootQid
      /\ s.faults \in Nat /\ s.max \in Nat /\ s.table \subseteq Nat /\ s.table \subseteq Inum
  <2>1. here \in Inum
    BY <1>1 DEF Walker, Aux
  <2>2. QED
    BY <1>1, <2>1, TreeTypes, BoundsAssumption DEF Walker, Held
<1>3. SubdirGives(s, name, t)
  BY <1>1, SubdirTrue
<1>4. /\ t \in Walker /\ t.aux = s.aux /\ t.heap = s.heap /\ t.table = s.table
      /\ t.max = s.max /\ s.faults <= t.faults
      /\ t.res \in {"ok", "notFound", "fatal", "nilBuffer"}
  BY <1>3 DEF SubdirGives
<1>5. t.faults \in Nat /\ (t.faults = 0 => s.faults = 0)
  <2>1. t \in Walker /\ s.faults <= t.faults
    BY <1>4
  <2>2. t.faults \in Nat
    BY ONLY <2>1, BoundsAssumption DEF Walker
  <2>3. s.faults \in Nat
    BY <1>2
  <2>4. QED
    BY ONLY <2>1, <2>2, <2>3
<1>6. ASSUME t.res \in {"ok", "fatal"}
      PROVE  \E e \in Entry :
                /\ NamedBy(e, name, here, t.faults) /\ e.inum \in Inum
                /\ (t.faults = 0 /\ Complete(tree)) => Home(e.inum, s.table)
                /\ t.res = "ok" => t.qid.path = e.inum
                /\ (t.res = "ok" /\ t.faults = 0 /\ GetFEntry(e.inum, s) = "entry") =>
                      t.qid.type = QidType(tree.kind[e.inum]) /\ tree.kind[e.inum] # "other"
                /\ (t.res = "fatal" /\ t.faults = 0) =>
                      GetFEntry(e.inum, s) # "entry" \/ tree.kind[e.inum] = "other"
  <2>1. PICK e \in Entry :
             /\ NamedBy(e, name, here, t.faults)
             /\ t.res = "ok" => t.qid.path = e.inum
             /\ (t.res = "ok" /\ t.faults = 0 /\ GetFEntry(e.inum, s) = "entry") =>
                   t.qid.type = QidType(tree.kind[e.inum]) /\ tree.kind[e.inum] # "other"
             /\ (t.res = "fatal" /\ t.faults = 0) =>
                   GetFEntry(e.inum, s) # "entry" \/ tree.kind[e.inum] = "other"
    BY <1>3, <1>6 DEF SubdirGives
  <2>2. e.inum \in Inum
    BY Zenon DEF Entry
  <2>3. ASSUME t.faults = 0, Complete(tree) PROVE Home(e.inum, s.table)
    <3>1. PICK k \in DOMAIN tree.parts[here] : e \in Range(tree.parts[here][k].entries)
      BY <2>1 DEF NamedBy
    <3>2. AtHome(here, s.table, 0)
      BY <1>1, <1>5, <2>3
    <3>3. QED
      BY <1>2, <2>3, <3>1, <3>2, EntryHome
  <2>4. QED
    BY <2>1, <2>2, <2>3
<1>7. CASE t.res # "ok"
  <2>1. r = t
    BY <1>7
  <2>2. ASSUME r.faults = 0, Sound(tree)
        PROVE  r.res # "fatal"
    <3>1. SUFFICES ASSUME t.res = "fatal" PROVE FALSE
      BY <2>1
    <3>2. t.faults = 0 /\ Complete(tree)
      BY <2>1, <2>2 DEF Sound
    <3>3. PICK e \in Entry :
             /\ NamedBy(e, name, here, t.faults) /\ e.inum \in Inum /\ Home(e.inum, s.table)
             /\ GetFEntry(e.inum, s) # "entry" \/ tree.kind[e.inum] = "other"
      BY <1>6, <3>1, <3>2
    <3>4. tree.kind[e.inum] \in {"dir", "file", "link"}
      <4>1. PICK k \in DOMAIN tree.parts[here] : e \in Range(tree.parts[here][k].entries)
        BY <3>3 DEF NamedBy
      <4>2. QED
        BY <1>2, <2>2, <4>1 DEF Sound
    <3>5. GetFEntry(e.inum, s) = "entry"
      BY <1>1, <1>2, <3>3, <3>4, HomeEntry
    <3>6. QED
      BY <3>3, <3>4, <3>5
  <2>3. QED
    BY <1>1, <1>4, <1>7, <2>1, <2>2 DEF StepGives
<1>8. CASE t.res = "ok"
  <2>1. r \in Enter(t, Busy(nf))
    BY <1>8
  <2>2. PICK e \in Entry :
                /\ NamedBy(e, name, here, t.faults) /\ e.inum \in Inum
                /\ (t.faults = 0 /\ Complete(tree)) => Home(e.inum, s.table)
                /\ t.qid.path = e.inum
                /\ (t.faults = 0 /\ GetFEntry(e.inum, s) = "entry") =>
                      t.qid.type = QidType(tree.kind[e.inum]) /\ tree.kind[e.inum] # "other"
    BY <1>6, <1>8
  <2>3. EnterGives(t, nf, r)
    BY <1>4, <1>8, <2>1, <2>2, EnterTrue
  <2>4. /\ r \in Walker /\ r.qid = t.qid /\ Fits(r.table, r.max)
        /\ s.table \subseteq r.table /\ t.faults <= r.faults
        /\ \A b \in Busy(nf) \cap Buffers : r.heap[b] = s.heap[b]
    BY <1>1, <1>4, <2>3 DEF EnterGives
  <2>5. r.faults \in Nat /\ s.faults <= r.faults /\ faults <= r.faults
        /\ (r.faults = 0 => t.faults = 0)
    <3>1. r.faults \in Nat
      BY <2>4, BoundsAssumption DEF Walker
    <3>2. s.faults <= t.faults /\ t.faults <= r.faults /\ faults <= s.faults
      BY <1>1, <1>4, <2>4
    <3>3. QED
      BY <1>2, <1>5, <3>1, <3>2
  <2>6. GetFEntry(e.inum, t) = GetFEntry(e.inum, s)
    BY <1>4 DEF GetFEntry
  <2>7. AtHome(RootInum, s.table, t.faults)
    <3>1. faults <= t.faults
      <4>1. faults <= s.faults /\ s.faults <= t.faults
        BY <1>1, <1>4
      <4>2. s.faults \in Nat /\ t.faults \in Nat
        BY <1>2, <1>5
      <4>3. QED
        BY ONLY <4>1, <4>2, faults \in Nat
    <3>2. QED
      BY <1>1, <1>5, <3>1, AtHomeGrows
  <2>8. ASSUME t.faults = 0, GetFEntry(e.inum, t) = "entry"
        PROVE  t.qid.type = "dir" <=> tree.kind[e.inum] = "dir"
    <3>1. t.qid.type = QidType(tree.kind[e.inum])
      BY <2>2, <2>6, <2>8
    <3>2. QED
      BY <3>1 DEF QidType
  <2>9. ASSUME r.res = "ok"
        PROVE  Held(r.qid, r.aux, r.heap, r.faults) /\ AtHome(r.aux.inode, r.table, r.faults)
    BY <1>1, <1>2, <1>4, <2>2, <2>3, <2>7, <2>8, <2>9, EnterHolds
  <2>10. ASSUME r.res = "ok" PROVE GoodWalker(r, nf)
    <3>1. table \subseteq r.table
      BY <1>1, <2>4
    <3>2. \A b \in Busy(nf) \cap Buffers : r.heap[b] = heap[b]
      BY <1>1, <2>4
    <3>3. QED
      BY <2>4, <2>5, <2>9, <2>10, <3>1, <3>2 DEF GoodWalker
  <2>11. ASSUME r.res = "ok", NEW failed \in BOOLEAN, Complete(tree), r.faults > 0 => failed
         PROVE  PlaceOf(r) \in PromisedStep(PlaceOf(s), name, failed)
    <3>1. PlaceOf(r) \in Places(e.inum, failed)
      BY <1>1, <1>4, <2>2, <2>3, <2>8, <2>11, EnterPlace
    <3>2. NamedBy(e, name, here, IF failed THEN 1 ELSE 0)
      <4>1. CASE failed
        BY <2>2, <4>1 DEF NamedBy
      <4>2. CASE ~ failed
        <5>1. t.faults = 0
          BY <2>5, <2>11, <4>2
        <5>2. QED
          BY <2>2, <4>2, <5>1
      <4>3. QED
        BY <4>1, <4>2
    <3>3. PlaceOf(s).here = here
      BY DEF PlaceOf
    <3> HIDE DEF here
    <3>4. e \in {x \in Entry : NamedBy(x, name, PlaceOf(s).here, IF failed THEN 1 ELSE 0)}
      BY <3>2, <3>3
    <3>5. PlaceOf(r) \in UNION {Places(x.inum, failed) :
              x \in {y \in Entry : NamedBy(y, name, PlaceOf(s).here, IF failed THEN 1 ELSE 0)}}
      BY <3>1, <3>4
    <3>6. QED
      BY <3>5, Zenon DEF PromisedStep
  <2>12. ASSUME r.faults = 0, Sound(tree)
         PROVE  r.res \in {"ok", "notFound", "nilBuffer"}
    <3>1. t.faults = 0 /\ Complete(tree)
      BY <2>5, <2>12 DEF Sound
    <3>2. tree.kind[e.inum] \in {"dir", "file", "link"}
      <4>1. PICK k \in DOMAIN tree.parts[here] : e \in Range(tree.parts[here][k].entries)
        BY <2>2 DEF NamedBy
      <4>2. QED
        BY <1>2, <2>12, <4>1 DEF Sound
    <3>3. GetFEntry(e.inum, s) = "entry"
      BY <1>1, <1>2, <2>2, <3>1, <3>2, HomeEntry
    <3>4. r.res # "nilEntry"
      <4>1. r.res = "nilEntry" => GetFEntry(t.qid.path, t) = "nil"
        BY <2>3 DEF EnterGives
      <4>2. QED
        BY <2>2, <2>6, <3>3, <4>1
    <3>5. r.res # "fatal"
      <4>1. r.res = "fatal" => t.qid.type = "dir" /\ tree.kind[t.qid.path] \in {"file", "link"}
        BY <2>3 DEF EnterGives
      <4>2. t.qid.type = "dir" <=> tree.kind[e.inum] = "dir"
        BY <2>6, <2>8, <3>1, <3>3
      <4>3. QED
        BY <2>2, <4>1, <4>2
    <3>6. QED
      BY <2>3, <3>4, <3>5 DEF EnterGives
  <2>13. QED
    BY <2>4, <2>5, <2>10, <2>11, <2>12 DEF StepGives
<1>9. QED
  BY <1>7, <1>8

(* The root is a fid like others.                                          *)
LEMMA RootTypes ==
    ASSUME tree \in Trees, heap \in [Buffers -> Seq(Entry)]
    PROVE  /\ RootQid \in Qid /\ RootAux \in Aux /\ RootEntry \in Buffers /\ RootEntry # Nil
           /\ RootAux.qid = RootQid /\ RootAux.inode = RootInum /\ RootAux.entry = RootEntry
           /\ RootAux.count = Len(heap[RootEntry])
<1>1. RootInum \in Nat /\ RootInum \in Inum
  BY TreeTypes
<1>2. Cardinality(Fid) \in Nat
  BY BoundsAssumption, FS_CardinalityType
<1>3. RootEntry \in Buffers /\ RootEntry # Nil
  BY <1>2 DEF RootEntry, Buffers, Nil
<1>4. RootCount \in Nat
  BY <1>3 DEF RootCount
<1>5. RootQid \in Qid
  BY <1>1 DEF RootQid, Qid
<1>6. RootAux \in Aux
  BY <1>1, <1>3, <1>4, <1>5 DEF RootAux, Aux
<1>7. QED
  BY <1>3, <1>5, <1>6 DEF RootAux, RootCount

(* Each name of a walk.                                                    *)
LEMMA Walk1True ==
    ASSUME tree \in Trees, faults \in Nat, table \subseteq Inum, heap \in [Buffers -> Seq(Entry)],
           Listing(heap[RootEntry], RootInum, faults), AtHome(RootInum, table, faults),
           NEW nf, NEW s, GoodWalker(s, nf), NEW name, NEW r \in Walk1(s, name, Busy(nf))
    PROVE  StepGives(s, name, nf, r)
<1>1. /\ s \in Walker /\ s.res = "ok"
      /\ Fits(s.table, s.max) /\ table \subseteq s.table /\ faults <= s.faults
      /\ \A b \in Busy(nf) \cap Buffers : s.heap[b] = heap[b]
      /\ Held(s.qid, s.aux, s.heap, s.faults)
      /\ AtHome(s.aux.inode, s.table, s.faults)
  BY DEF GoodWalker
<1>2. s.aux \in Aux /\ s.qid \in Qid /\ s.aux.qid = RootQid
  BY <1>1 DEF Walker, Held
<1>3. s.faults \in Nat /\ s.faults <= s.faults /\ faults <= s.faults
  <2>1. s.faults \in 0 .. MaxFaults
    BY <1>1 DEF Walker
  <2>2. QED
    BY ONLY <2>1, <1>1, BoundsAssumption
<1>4. CASE name = "/"
  <2> DEFINE a == [RootAux EXCEPT !.qid = s.aux.qid]
  <2>1. r = [s EXCEPT !.qid = RootQid, !.aux = a]
    BY <1>4 DEF Walk1
  <2>2. a \in Aux /\ a.qid = RootQid /\ a.inode = RootInum /\ a.entry = RootEntry
        /\ a.count = Len(heap[RootEntry])
    BY <1>2, RootTypes DEF Aux
  <2> HIDE DEF a
  <2>3. /\ r \in Walker /\ r.res = "ok" /\ r.qid = RootQid /\ r.aux = a /\ r.heap = s.heap
        /\ r.table = s.table /\ r.max = s.max /\ r.faults = s.faults
    BY <1>1, <2>1, <2>2, RootTypes DEF Walker
  <2>4. s.heap[RootEntry] = heap[RootEntry]
    BY <1>1, RootTypes DEF Busy
  <2>5. Listing(heap[RootEntry], RootInum, s.faults)
    BY <1>3, ListingGrows
  <2>6. Held(r.qid, r.aux, r.heap, r.faults)
    <3>1. RootQid.type = "dir"
      BY DEF RootQid
    <3>2. Caches(r.qid, r.aux, r.aux.inode, r.heap, r.faults)
      BY <2>2, <2>3, <2>4, <2>5, RootTypes DEF Caches
    <3>3. QED
      BY <2>2, <2>3, <3>1, <3>2 DEF Held
  <2>7. AtHome(r.aux.inode, r.table, r.faults)
    <3>1. AtHome(RootInum, s.table, s.faults)
      BY <1>1, <1>3, AtHomeGrows
    <3>2. QED
      BY <2>2, <2>3, <3>1
  <2>8. GoodWalker(r, nf)
    BY <1>1, <2>3, <2>6, <2>7 DEF GoodWalker
  <2>9. PlaceOf(r) = [named |-> RootInum, here |-> RootInum, dir |-> TRUE]
    <3>1. r.qid.path = RootInum /\ r.aux.inode = RootInum
      BY <2>2, <2>3 DEF RootQid
    <3>2. (r.qid.type = "dir") = TRUE
      BY <2>3 DEF RootQid
    <3>3. QED
      BY <3>1, <3>2, Zenon DEF PlaceOf
  <2>10. \A failed : PlaceOf(r) \in PromisedStep(PlaceOf(s), name, failed)
    BY <1>4, <2>9, Zenon DEF PromisedStep
  <2>11. s.faults <= r.faults
    <3>1. r.faults = s.faults
      BY <2>3
    <3>2. QED
      BY ONLY <1>3, <3>1
  <2>12. QED
    BY <1>1, <2>3, <2>8, <2>10, <2>11 DEF StepGives
<1>5. CASE name = "."
  <2>1. r = [s EXCEPT !.qid = RootQid]
    <3>1. Walk1(s, name, Busy(nf)) = {[s EXCEPT !.qid = s.aux.qid]}
      BY <1>5 DEF Walk1
    <3>2. QED
      BY <1>2, <3>1, Zenon
  <2>2. /\ r \in Walker /\ r.res = "ok" /\ r.qid = RootQid /\ r.aux = s.aux /\ r.heap = s.heap
        /\ r.table = s.table /\ r.max = s.max /\ r.faults = s.faults
    <3>1. RootQid \in Qid
      BY RootTypes
    <3>2. QED
      BY <1>1, <2>1, <3>1 DEF Walker
  <2>3. Held(r.qid, r.aux, r.heap, r.faults)
    <3>1. RootQid.type = "dir"
      BY DEF RootQid
    <3>2. s.qid.type \in {"dir", "file"}
      BY <1>2 DEF Qid
    <3>3. Caches(RootQid, s.aux, s.aux.inode, s.heap, s.faults) \/ Leftover(RootQid, s.aux, s.faults)
      BY <1>1, <3>2 DEF Held, Caches, Leftover
    <3>4. QED
      BY <1>2, <2>2, <3>1, <3>3 DEF Held
  <2>4. GoodWalker(r, nf)
    BY <1>1, <2>2, <2>3 DEF GoodWalker
  <2>5. PlaceOf(r) = [PlaceOf(s) EXCEPT !.named = RootInum, !.dir = TRUE]
    <3>1. r.qid.path = RootInum /\ r.aux.inode = s.aux.inode
      BY <2>2 DEF RootQid
    <3>2. (r.qid.type = "dir") = TRUE
      BY <2>2 DEF RootQid
    <3>3. PlaceOf(r) = [named |-> RootInum, here |-> s.aux.inode, dir |-> TRUE]
      BY <3>1, <3>2, Zenon DEF PlaceOf
    <3>4. /\ PlaceOf(s) \in [named : {s.qid.path}, here : {s.aux.inode}, dir : BOOLEAN]
          /\ PlaceOf(s).here = s.aux.inode
      BY DEF PlaceOf
    <3>5. [PlaceOf(s) EXCEPT !.named = RootInum, !.dir = TRUE] =
              [named |-> RootInum, here |-> PlaceOf(s).here, dir |-> TRUE]
      <4> DEFINE p == PlaceOf(s)
                 A == {s.qid.path}
                 B == {s.aux.inode}
      <4>1. p \in [named : A, here : B, dir : BOOLEAN]
        BY <3>4
      <4> HIDE DEF p, A, B
      <4> DEFINE u == [p EXCEPT !.named = RootInum, !.dir = TRUE]
                 v == [named |-> RootInum, here |-> p.here, dir |-> TRUE]
                 S == {"named", "here", "dir"}
      <4>2. u.named = v.named
        BY <4>1
      <4>3. u.here = v.here
        BY <4>1
      <4>4. u.dir = v.dir
        BY <4>1
      <4>5. DOMAIN u = S /\ DOMAIN v = S
        BY <4>1
      <4>6. u = [x \in DOMAIN u |-> u[x]] /\ v = [x \in DOMAIN v |-> v[x]]
        BY <4>1
      <4> HIDE DEF u, v
      <4>7. \A x \in S : u[x] = v[x]
        BY <4>2, <4>3, <4>4
      <4> HIDE DEF S
      <4>8. u = [x \in S |-> u[x]] /\ v = [x \in S |-> v[x]]
        BY <4>5, <4>6
      <4>9. u = v
        BY <4>7, <4>8, Zenon
      <4>10. QED
        BY <4>9, Zenon DEF p, u, v
    <3>6. QED
      BY <3>3, <3>4, <3>5, Zenon
  <2>6. \A failed : PlaceOf(r) \in PromisedStep(PlaceOf(s), name, failed)
    BY <1>5, <2>5, Zenon DEF PromisedStep
  <2>7. s.faults <= r.faults
    <3>1. r.faults = s.faults
      BY <2>2
    <3>2. QED
      BY ONLY <1>3, <3>1
  <2>8. QED
    BY <1>1, <2>2, <2>4, <2>6, <2>7 DEF StepGives
<1>6. CASE name = ".."
  <2>1. r \in Enter([s EXCEPT !.qid = [path |-> tree.parent[s.aux.inode], type |-> "dir"]], Busy(nf))
    BY <1>6 DEF Walk1
  <2>2. QED
    BY <1>6, <2>1, UpTrue
<1>7. CASE name \notin {"/", ".", ".."}
  <2>1. Walk1(s, name, Busy(nf)) =
            UNION {IF t.res = "ok" THEN Enter(t, Busy(nf)) ELSE {t} : t \in LoadSubdir(s, name)}
    BY <1>7 DEF Walk1
  <2>2. PICK t \in LoadSubdir(s, name) : r \in IF t.res = "ok" THEN Enter(t, Busy(nf)) ELSE {t}
    BY <2>1
  <2>3. QED
    BY <1>7, <2>2, DownTrue
<1>8. QED
  BY <1>4, <1>5, <1>6, <1>7

(* Where the promise has it after a path of at most two names.             *)
PromisedPath(p, path, failed) ==
    CASE Len(path) = 0 -> {p}
      [] Len(path) = 1 -> PromisedStep(p, path[1], failed)
      [] OTHER -> UNION {PromisedStep(q, path[2], failed) : q \in PromisedStep(p, path[1], failed)}

PathGives(s, path, nf, r) ==
    /\ r \in Walker
    /\ Fits(r.table, r.max) /\ s.table \subseteq r.table /\ s.faults <= r.faults
    /\ r.res = "ok" =>
          /\ GoodWalker(r, nf)
          /\ \A failed \in BOOLEAN : (Complete(tree) /\ (r.faults > 0 => failed)) =>
                PlaceOf(r) \in PromisedPath(PlaceOf(s), path, failed)
    /\ (r.faults = 0 /\ Sound(tree)) => r.res \in {"ok", "notFound", "nilBuffer"}

(* All the names of a walk.                                                *)
LEMMA AlongTrue ==
    ASSUME tree \in Trees, faults \in Nat, table \subseteq Inum, heap \in [Buffers -> Seq(Entry)],
           Listing(heap[RootEntry], RootInum, faults), AtHome(RootInum, table, faults),
           NEW nf, NEW s, GoodWalker(s, nf), NEW path \in Paths, NEW r \in Along(s, path, Busy(nf))
    PROVE  PathGives(s, path, nf, r)
<1>1. \/ path = <<>> \/ \E c \in Name : path = <<c>> \/ \E a, b \in Name : path = <<a, b>>
  BY DEF Paths
<1>2. CASE path = <<>>
  <2>1. Len(path) = 0 /\ r = s
    BY <1>2 DEF Along
  <2>2. s.faults <= s.faults
    <3>1. s.faults \in 0 .. MaxFaults
      BY DEF GoodWalker, Walker
    <3>2. QED
      BY ONLY <3>1, BoundsAssumption
  <2>3. ASSUME NEW failed PROVE PlaceOf(r) \in PromisedPath(PlaceOf(s), path, failed)
    <3>1. PromisedPath(PlaceOf(s), path, failed) = {PlaceOf(s)}
      BY <2>1 DEF PromisedPath
    <3>2. QED
      BY <2>1, <3>1
  <2>4. QED
    <3>1. s \in Walker /\ s.res = "ok" /\ Fits(s.table, s.max)
      BY DEF GoodWalker
    <3> HIDE DEF GoodWalker
    <3>2. QED
      BY <2>1, <2>2, <2>3, <3>1 DEF PathGives
<1>3. ASSUME NEW a \in Name, path = <<a>>
      PROVE  PathGives(s, path, nf, r)
  <2>1. Len(path) = 1 /\ path[1] = a /\ path # <<>>
    BY <1>3
  <2>2. r \in Walk1(s, a, Busy(nf))
    BY <2>1 DEF Along
  <2>3. StepGives(s, a, nf, r)
    BY <2>2, Walk1True
  <2>4. \A failed : PromisedPath(PlaceOf(s), path, failed) = PromisedStep(PlaceOf(s), a, failed)
    BY <2>1 DEF PromisedPath
  <2>5. ASSUME NEW failed \in BOOLEAN, Complete(tree), r.faults > 0 => failed, r.res = "ok"
        PROVE  PlaceOf(r) \in PromisedPath(PlaceOf(s), path, failed)
    <3>1. PlaceOf(r) \in PromisedStep(PlaceOf(s), a, failed)
      BY <2>3, <2>5 DEF StepGives
    <3>2. QED
      BY <2>4, <3>1
  <2>6. s.faults <= r.faults /\ (r.res = "ok" => GoodWalker(r, nf))
    BY <2>3 DEF StepGives
  <2> HIDE DEF GoodWalker
  <2>7. QED
    BY <2>3, <2>5, <2>6 DEF PathGives, StepGives
<1>4. ASSUME NEW a \in Name, NEW b \in Name, path = <<a, b>>
      PROVE  PathGives(s, path, nf, r)
  <2>1. Len(path) = 2 /\ path[1] = a /\ path[2] = b /\ path # <<>>
    BY <1>4
  <2>2. Along(s, path, Busy(nf)) =
            UNION {IF t.res = "ok" THEN Walk1(t, b, Busy(nf)) ELSE {t} : t \in Walk1(s, a, Busy(nf))}
    BY <2>1 DEF Along
  <2>3. PICK t \in Walk1(s, a, Busy(nf)) :
           r \in IF t.res = "ok" THEN Walk1(t, b, Busy(nf)) ELSE {t}
    BY <2>2
  <2>4. StepGives(s, a, nf, t)
    BY Walk1True
  <2>5. CASE t.res # "ok"
    <3>1. r = t
      BY <2>3, <2>5
    <3>2. QED
      BY <2>4, <2>5, <3>1 DEF PathGives, StepGives
  <2>6. CASE t.res = "ok"
    <3>1. r \in Walk1(t, b, Busy(nf)) /\ GoodWalker(t, nf)
      BY <2>3, <2>4, <2>6 DEF StepGives
    <3>2. StepGives(t, b, nf, r)
      BY <3>1, Walk1True
    <3>3. /\ s.faults \in Nat /\ t.faults \in Nat /\ r.faults \in Nat
          /\ s.faults <= t.faults /\ t.faults <= r.faults
      <4>1. /\ s.faults \in 0 .. MaxFaults /\ t.faults \in 0 .. MaxFaults
            /\ r.faults \in 0 .. MaxFaults
        BY <2>4, <3>2 DEF StepGives, GoodWalker, Walker
      <4>2. s.faults <= t.faults /\ t.faults <= r.faults
        BY <2>4, <3>2 DEF StepGives
      <4>3. QED
        BY ONLY <4>1, <4>2, BoundsAssumption
    <3>4. s.faults <= r.faults /\ (t.faults > 0 => r.faults > 0)
      BY ONLY <3>3
    <3>5. ASSUME NEW failed \in BOOLEAN, Complete(tree), r.faults > 0 => failed, r.res = "ok"
          PROVE  PlaceOf(r) \in PromisedPath(PlaceOf(s), path, failed)
      <4>1. PlaceOf(t) \in PromisedStep(PlaceOf(s), a, failed)
        BY <2>4, <2>6, <3>4, <3>5 DEF StepGives
      <4>2. PlaceOf(r) \in PromisedStep(PlaceOf(t), b, failed)
        BY <3>2, <3>5 DEF StepGives
      <4>3. PromisedPath(PlaceOf(s), path, failed) =
                UNION {PromisedStep(q, b, failed) : q \in PromisedStep(PlaceOf(s), a, failed)}
        BY <2>1 DEF PromisedPath
      <4>4. QED
        BY <4>1, <4>2, <4>3
    <3>6. s.table \subseteq r.table
      BY <2>4, <3>2 DEF StepGives
    <3>7. QED
      BY <3>2, <3>4, <3>5, <3>6 DEF PathGives, StepGives
  <2>7. QED
    BY <2>5, <2>6
<1>5. QED
  BY <1>1, <1>2, <1>3, <1>4

-----------------------------------------------------------------------------
(* What is said of the tree stays true of it.                              *)
LEMMA SameTree ==
    ASSUME tree' = tree
    PROVE  /\ \A list, n, flt : Listing(list, n, flt)' <=> Listing(list, n, flt)
           /\ \A n, tab, flt : AtHome(n, tab, flt)' <=> AtHome(n, tab, flt)
           /\ \A q, a, hp, flt : Held(q, a, hp, flt)' <=> Held(q, a, hp, flt)
           /\ \A q, a, n, hp, flt : Caches(q, a, n, hp, flt)' <=> Caches(q, a, n, hp, flt)
<1>1. ASSUME NEW list, NEW n, NEW flt
      PROVE  Listing(list, n, flt)' <=> Listing(list, n, flt)
  BY DEF Listing, Promise!Entries
<1>2. Complete(tree)' <=> Complete(tree)
  BY DEF Complete
<1>3. ASSUME NEW n, NEW tab, NEW flt
      PROVE  AtHome(n, tab, flt)' <=> AtHome(n, tab, flt)
  <2>1. Home(n, tab)' <=> Home(n, tab)
    BY DEF Home, Family
  <2>2. Home(RootInum, tab)' <=> Home(RootInum, tab)
    BY DEF Home, Family
  <2>3. Stocked(n, tab)' <=> Stocked(n, tab)
    BY DEF Stocked
  <2>4. Stocked(RootInum, tab)' <=> Stocked(RootInum, tab)
    BY DEF Stocked
  <2>5. QED
    BY <1>2, <2>1, <2>2, <2>3, <2>4 DEF AtHome
<1>4. ASSUME NEW q, NEW a, NEW n, NEW hp, NEW flt
      PROVE  Caches(q, a, n, hp, flt)' <=> Caches(q, a, n, hp, flt)
  <2>1. Listing(hp[a.entry], n, flt)' <=> Listing(hp[a.entry], n, flt)
    BY <1>1
  <2>2. Listing(<<>>, n, flt)' <=> Listing(<<>>, n, flt)
    BY <1>1
  <2>3. QED
    BY <2>1, <2>2 DEF Caches
<1>5. ASSUME NEW q, NEW a, NEW hp, NEW flt
      PROVE  Held(q, a, hp, flt)' <=> Held(q, a, hp, flt)
  <2>1. Leftover(q, a, flt)' <=> Leftover(q, a, flt)
    BY DEF Leftover
  <2>2. Caches(q, a, a.inode, hp, flt)' <=> Caches(q, a, a.inode, hp, flt)
    BY <1>4
  <2>3. QED
    BY <2>1, <2>2 DEF Held
<1>6. QED
  BY <1>1, <1>3, <1>4, <1>5

(* A fid that a step leaves alone stays good, if it leaves its buffer.     *)
LEMMA FidStays ==
    ASSUME FidInv, tree' = tree, table \subseteq table', faults <= faults', faults' \in Nat,
           NEW g \in Fid, Used(g), fids'[g] = fids[g],
           fids[g].aux.entry # Nil => heap'[fids[g].aux.entry] = heap[fids[g].aux.entry]
    PROVE  FidGood(g)'
<1> DEFINE q == fids[g].qid
           a == fids[g].aux
<1>1. FidGood(g) /\ tree \in Trees /\ faults \in Nat
  <2>1. FidGood(g) /\ tree \in Trees /\ faults \in 0 .. MaxFaults
    BY DEF FidInv, TypeOK
  <2>2. faults \in Nat
    BY ONLY <2>1, BoundsAssumption
  <2>3. QED
    BY <2>1, <2>2
<1>2. ASSUME NEW n, NEW list, Listing(list, n, faults)
      PROVE  Listing(list, n, faults')
  BY <1>1, <1>2, ListingGrows
<1>3. ASSUME NEW n, Caches(q, a, n, heap, faults)
      PROVE  Caches(q, a, n, heap', faults')
  <2>1. a.entry # Nil => heap'[a.entry] = heap[a.entry]
    OBVIOUS
  <2> HIDE DEF q, a
  <2>2. QED
    BY <1>2, <1>3, <2>1 DEF Caches
<1>4. ASSUME Leftover(q, a, faults)
      PROVE  Leftover(q, a, faults')
  <2> HIDE DEF q, a
  <2>1. faults > 0 => faults' > 0
    BY ONLY <1>1, faults <= faults', faults' \in Nat
  <2>2. QED
    BY <1>4, <2>1 DEF Leftover
<1>5. ASSUME Held(q, a, heap, faults)
      PROVE  Held(q, a, heap', faults')
  <2> HIDE DEF q, a
  <2>1. faults > 0 => faults' > 0
    BY ONLY <1>1, faults <= faults', faults' \in Nat
  <2>2. QED
    BY <1>3, <1>4, <1>5, <2>1 DEF Held
<1>6. AtHome(a.inode, table', faults')
  <2>1. AtHome(a.inode, table, faults)
    BY <1>1 DEF FidGood
  <2> HIDE DEF a
  <2>2. QED
    BY <1>1, <2>1, AtHomeGrows
<1>7. ~ fids[g].open => Held(q, a, heap', faults')
  BY <1>1, <1>5 DEF FidGood
<1>8. (fids[g].open /\ q.type = "dir") =>
          Caches(q, a, IF q = RootQid THEN RootInum ELSE a.inode, heap', faults')
  BY <1>1, <1>3 DEF FidGood
<1>9. QED
  <2>1. AtHome(fids'[g].aux.inode, table', faults')
    BY <1>6
  <2>2. ~ fids'[g].open => Held(fids'[g].qid, fids'[g].aux, heap', faults')
    BY <1>7
  <2>3. (fids'[g].open /\ fids'[g].qid.type = "dir") =>
            Caches(fids'[g].qid, fids'[g].aux,
                   IF fids'[g].qid = RootQid THEN RootInum ELSE fids'[g].aux.inode, heap', faults')
    BY <1>8
  <2> HIDE DEF q, a
  <2>4. QED
    BY <2>1, <2>2, <2>3, SameTree DEF FidGood, RootQid

(* What a step has to keep.                                                *)
LEMMA StepKeeps ==
    ASSUME FidInv, TypeOK', tree' = tree, table \subseteq table', faults <= faults',
           Fits(table, maxinodes)', heap'[RootEntry] = heap[RootEntry],
           \A g \in Fid : Used(g)' =>
              \/ FidGood(g)'
              \/ /\ fids'[g] = fids[g]
                 /\ fids[g].aux.entry # Nil => heap'[fids[g].aux.entry] = heap[fids[g].aux.entry]
    PROVE  FidInv'
<1>1. tree \in Trees /\ faults \in Nat /\ faults' \in Nat
  <2>1. tree \in Trees /\ faults \in 0 .. MaxFaults /\ faults' \in 0 .. MaxFaults
    BY DEF FidInv, TypeOK
  <2>2. faults \in Nat /\ faults' \in Nat
    BY ONLY <2>1, BoundsAssumption
  <2>3. QED
    BY <2>1, <2>2
<1>2. Listing(heap'[RootEntry], RootInum, faults')
  BY <1>1, ListingGrows DEF FidInv
<1>3. AtHome(RootInum, table', faults')
  BY <1>1, AtHomeGrows DEF FidInv
<1>4. \A g \in Fid : Used(g)' => FidGood(g)'
  <2>1. SUFFICES ASSUME NEW g \in Fid, Used(g)', fids'[g] = fids[g],
                        fids[g].aux.entry # Nil =>
                            heap'[fids[g].aux.entry] = heap[fids[g].aux.entry]
                 PROVE  FidGood(g)'
    OBVIOUS
  <2>2. Used(g)
    BY <2>1 DEF Used
  <2>3. QED
    BY <1>1, <2>1, <2>2, FidStays
<1>5. Listing(heap[RootEntry], RootInum, faults)'
  BY <1>2, SameTree DEF RootEntry
<1>6. AtHome(RootInum, table, faults)'
  BY <1>3, SameTree
<1>7. QED
  BY <1>4, <1>5, <1>6 DEF FidInv

(* What a fid that caches a directory reads from its cache.                *)
LEMMA CachesRead ==
    ASSUME tree \in Trees, NEW hp \in [Buffers -> Seq(Entry)], NEW a \in Aux, NEW q, NEW n \in Inum,
           NEW flt, Caches(q, a, n, hp, flt)
    PROVE  Cached(hp, a) \in Seq(Entry) /\ Listing(Cached(hp, a), n, flt)
<1>1. Listing(Cached(hp, a), n, flt)
  <2>1. CASE a.entry # Nil /\ a.count = Len(hp[a.entry]) /\ Listing(hp[a.entry], n, flt)
    BY <2>1, CachedTrue
  <2>2. CASE a.entry = Nil /\ a.count = 0 /\ Listing(<<>>, n, flt)
    BY <2>2 DEF Cached
  <2>3. QED
    BY <2>1, <2>2 DEF Caches
<1>2. QED
  BY <1>1, ListingTrue

(* What a root directory's fid has in its cache.                           *)
LEMMA RootCaches ==
    ASSUME tree \in Trees, heap \in [Buffers -> Seq(Entry)], Listing(heap[RootEntry], RootInum, faults),
           NEW q, NEW a, a.entry = RootEntry, a.count = Len(heap[RootEntry])
    PROVE  Caches(q, a, RootInum, heap, faults)
  BY RootTypes DEF Caches

(* fsstart() leaves the table loaded with the root.                        *)
LEMMA InitGood == Init => FidInv
<1>1. SUFFICES ASSUME Init PROVE FidInv
  OBVIOUS
<1> DEFINE s == [table |-> {RootInum}, faults |-> 0, max |-> Grown(FirstMax, <<RootInum>>)]
<1>2. PICK load \in Loads(RootInum, s) :
         /\ table = load.table /\ maxinodes = load.max /\ faults = load.faults
         /\ heap = [b \in Buffers |-> IF b = RootEntry THEN load.entries ELSE <<>>]
  BY <1>1 DEF Init
<1>3. /\ tree \in Trees /\ fids = [f \in Fid |-> Unused] /\ out = <<"ok">> /\ server = "up"
  BY <1>1 DEF Init
<1>4. RootInum \in Inum /\ RootInum \in Nat
  BY <1>3, TreeTypes
<1>5. Grown(FirstMax, <<RootInum>>) \in Nat /\ RootInum <= Grown(FirstMax, <<RootInum>>)
  <2>1. <<RootInum>> \in Seq(Nat) /\ RootInum \in Range(<<RootInum>>)
    BY <1>4 DEF Range
  <2>2. FirstMax \in Nat
    BY BoundsAssumption
  <2>3. QED
    BY <2>1, <2>2, GrownHolds
<1>6. s.table = {RootInum} /\ s.max = Grown(FirstMax, <<RootInum>>) /\ s.faults = 0
  OBVIOUS
<1> HIDE DEF s
<1>7. s.table \subseteq Inum /\ s.max \in Nat /\ s.faults \in Nat /\ Fits(s.table, s.max)
  BY <1>4, <1>5, <1>6 DEF Fits
<1>8. /\ load.entries \in Seq(Entry) /\ table \subseteq Inum /\ maxinodes \in Nat
      /\ faults \in 0 .. MaxFaults
      /\ {RootInum} \subseteq table
      /\ Fits(table, maxinodes)
      /\ Listing(load.entries, RootInum, faults)
      /\ faults = 0 => Stocked(RootInum, table)
  BY <1>2, <1>3, <1>4, <1>6, <1>7, LoadsTrue
<1>9. RootEntry \in Buffers
  <2>1. Cardinality(Fid) \in Nat
    BY BoundsAssumption, FS_CardinalityType
  <2>2. QED
    BY <2>1 DEF RootEntry, Buffers
<1>10. heap \in [Buffers -> Seq(Entry)] /\ heap[RootEntry] = load.entries
  <2>1. <<>> \in Seq(Entry)
    OBVIOUS
  <2>2. QED
    BY <1>2, <1>8, <1>9, <2>1
<1>11. fids \in [Fid -> {Unused} \cup [qid : Qid, aux : Aux, open : BOOLEAN]]
  BY <1>3
<1>12. TypeOK
  BY <1>3, <1>8, <1>10, <1>11 DEF TypeOK
<1>13. AtHome(RootInum, table, faults)
  <2>1. SUFFICES ASSUME faults = 0, Complete(tree)
                 PROVE  Home(RootInum, table) /\ Stocked(RootInum, table)
    BY DEF AtHome
  <2>2. Family({RootInum})
    BY <2>1 DEF Complete, Family
  <2>3. Home(RootInum, table)
    BY <1>8, <2>2 DEF Home
  <2>4. QED
    BY <1>8, <2>1, <2>3
<1>14. \A f \in Fid : ~ Used(f)
  BY <1>3 DEF Used
<1>15. Listing(heap[RootEntry], RootInum, faults)
  BY <1>8, <1>10
<1>16. QED
  BY <1>8, <1>12, <1>13, <1>14, <1>15 DEF FidInv

-----------------------------------------------------------------------------
(* The parts of the invariant, and numbers that do not fall.               *)
LEMMA FidFacts ==
    ASSUME FidInv
    PROVE  /\ tree \in Trees /\ table \subseteq Inum /\ maxinodes \in Nat
           /\ fids \in [Fid -> {Unused} \cup [qid : Qid, aux : Aux, open : BOOLEAN]]
           /\ heap \in [Buffers -> Seq(Entry)] /\ faults \in 0 .. MaxFaults /\ faults \in Nat
           /\ server \in {"up", "nilBuffer", "nilEntry", "fatal"}
           /\ Fits(table, maxinodes) /\ Listing(heap[RootEntry], RootInum, faults)
           /\ AtHome(RootInum, table, faults)
           /\ \A f \in Fid : Used(f) =>
                 FidGood(f) /\ fids[f] \in [qid : Qid, aux : Aux, open : BOOLEAN]
<1>1. TypeOK
  BY DEF FidInv
<1>2. faults \in Nat
  <2>1. faults \in 0 .. MaxFaults
    BY <1>1 DEF TypeOK
  <2>2. QED
    BY ONLY <2>1, BoundsAssumption
<1>3. \A f \in Fid : Used(f) => fids[f] \in [qid : Qid, aux : Aux, open : BOOLEAN]
  BY <1>1 DEF TypeOK, Used
<1>4. QED
  BY <1>1, <1>2, <1>3 DEF FidInv, TypeOK

(* Each request keeps the invariant: fsattach().                           *)
LEMMA AttachGood ==
    ASSUME FidInv, NEW f \in Fid, Attach(f)
    PROVE  FidInv'
<1> DEFINE fid == [qid |-> RootQid, aux |-> RootAux, open |-> FALSE]
<1>1. /\ server = "up" /\ ~ Used(f) /\ fids' = [fids EXCEPT ![f] = fid]
      /\ tree' = tree /\ table' = table /\ maxinodes' = maxinodes /\ faults' = faults
      /\ heap' = heap /\ server' = server
  BY DEF Attach, AttachAux, disk
<1>2. fid \in [qid : Qid, aux : Aux, open : BOOLEAN]
  BY FidFacts, RootTypes
<1>3. fid.qid = RootQid /\ fid.aux = RootAux /\ fid.open = FALSE
  OBVIOUS
<1> HIDE DEF fid
<1>4. fids' \in [Fid -> {Unused} \cup [qid : Qid, aux : Aux, open : BOOLEAN]] /\ fids'[f] = fid
  BY <1>1, <1>2, FidFacts
<1>5. TypeOK'
  BY <1>1, <1>4, FidFacts DEF TypeOK
<1>6. FidGood(f)'
  <2>1. AtHome(fids'[f].aux.inode, table', faults')
    BY <1>1, <1>3, <1>4, FidFacts, RootTypes
  <2>2. Caches(RootQid, RootAux, RootAux.inode, heap, faults)
    BY FidFacts, RootTypes, RootCaches
  <2>3. Held(fids'[f].qid, fids'[f].aux, heap', faults')
    <3>1. Held(RootQid, RootAux, heap, faults)
      BY <2>2, FidFacts, RootTypes DEF Held, RootQid
    <3>2. QED
      BY <1>1, <1>3, <1>4, <3>1
  <2>4. ~ fids'[f].open
    BY <1>3, <1>4
  <2>5. QED
    BY <1>1, <2>1, <2>3, <2>4, SameTree DEF FidGood
<1>7. \A g \in Fid \ {f} : fids'[g] = fids[g]
  BY <1>1, FidFacts
<1>8. faults <= faults'
  <2>1. faults \in Nat /\ faults' = faults
    BY <1>1, FidFacts
  <2>2. QED
    BY ONLY <2>1
<1>9. Fits(table, maxinodes)'
  BY <1>1, FidFacts DEF Fits
<1>10. QED
  BY <1>1, <1>5, <1>6, <1>7, <1>8, <1>9, StepKeeps

(* A fid is dropped; its buffer may stay with others.                      *)
LEMMA ClunkGood ==
    ASSUME FidInv, NEW f \in Fid, Clunk(f)
    PROVE  FidInv'
<1>1. /\ fids' = [fids EXCEPT ![f] = Unused]
      /\ tree' = tree /\ table' = table /\ maxinodes' = maxinodes /\ faults' = faults
      /\ heap' = heap /\ server' = server
  BY DEF Clunk, disk
<1>2. /\ fids' \in [Fid -> {Unused} \cup [qid : Qid, aux : Aux, open : BOOLEAN]]
      /\ fids'[f] = Unused
      /\ \A g \in Fid \ {f} : fids'[g] = fids[g]
  BY <1>1, FidFacts
<1>3. TypeOK'
  BY <1>1, <1>2, FidFacts DEF TypeOK
<1>4. ~ Used(f)'
  BY <1>2 DEF Used
<1>5. faults <= faults'
  <2>1. faults \in Nat /\ faults' = faults
    BY <1>1, FidFacts
  <2>2. QED
    BY ONLY <2>1
<1>6. Fits(table, maxinodes)'
  BY <1>1, FidFacts DEF Fits
<1>7. QED
  BY <1>1, <1>2, <1>3, <1>4, <1>5, <1>6, StepKeeps

(* A step that leaves the fids, the buffers and the table as they are.     *)
LEMMA QuietGood ==
    ASSUME FidInv, tree' = tree, table' = table, maxinodes' = maxinodes, fids' = fids, heap' = heap,
           faults \in Nat, faults <= faults', faults' \in 0 .. MaxFaults,
           server' \in {"up", "nilBuffer", "nilEntry", "fatal"}
    PROVE  FidInv'
<1>1. TypeOK'
  BY FidFacts DEF TypeOK
<1>2. Fits(table, maxinodes)'
  BY FidFacts DEF Fits
<1>3. QED
  BY <1>1, <1>2, StepKeeps

(* fsstat() answers only.                                                  *)
LEMMA StatGood ==
    ASSUME FidInv, NEW f \in Fid, Stat(f)
    PROVE  FidInv'
<1>1. UNCHANGED <<disk, fids, heap, server>>
  BY DEF Stat, Answer
<1>2. faults <= faults'
  <2>1. faults \in Nat /\ faults' = faults
    BY <1>1, FidFacts DEF disk
  <2>2. QED
    BY ONLY <2>1
<1>3. QED
  BY <1>1, <1>2, FidFacts, QuietGood DEF disk

(* fsopen() gives a fid of the root the entries of the root.               *)
LEMMA OpenGood ==
    ASSUME FidInv, NEW f \in Fid, Open(f)
    PROVE  FidInv'
<1>1. /\ Closed(f) /\ UNCHANGED disk
      /\ IF fids[f].qid.type = "file" /\ tree.parts[fids[f].aux.inode] # <<>>
         THEN End("fatal")
         ELSE /\ fids' = [fids EXCEPT ![f].open = TRUE,
                      ![f].aux = IF fids[f].qid.path = RootInum
                                 THEN [@ EXCEPT !.entry = RootEntry, !.count = RootCount]
                                 ELSE @]
              /\ UNCHANGED <<heap, server>>
  BY DEF Open
<1>2. /\ tree' = tree /\ table' = table /\ maxinodes' = maxinodes /\ faults' = faults
      /\ Used(f) /\ ~ fids[f].open
  BY <1>1 DEF disk, Closed
<1>3. faults <= faults'
  <2>1. faults \in Nat /\ faults' = faults
    BY <1>2, FidFacts
  <2>2. QED
    BY ONLY <2>1
<1>4. CASE End("fatal")
  BY <1>2, <1>3, <1>4, FidFacts, QuietGood DEF End
<1> DEFINE q == fids[f].qid
           a == fids[f].aux
           ra == [a EXCEPT !.entry = RootEntry, !.count = RootCount]
           na == IF q.path = RootInum THEN ra ELSE a
<1>5. CASE fids' = [fids EXCEPT ![f].open = TRUE, ![f].aux = na] /\ UNCHANGED <<heap, server>>
  <2>1. /\ fids[f] \in [qid : Qid, aux : Aux, open : BOOLEAN] /\ FidGood(f)
        /\ q \in Qid /\ a \in Aux
    BY <1>2, FidFacts
  <2>2. /\ ra \in Aux /\ ra.inode = a.inode /\ ra.entry = RootEntry
        /\ ra.count = Len(heap[RootEntry])
    <3>1. RootEntry \in Buffers /\ RootCount \in Nat
      <4>1. RootEntry \in Buffers /\ heap \in [Buffers -> Seq(Entry)]
        BY FidFacts, RootTypes
      <4>2. QED
        BY <4>1 DEF RootCount
    <3> HIDE DEF a
    <3>2. QED
      BY <2>1, <3>1 DEF Aux, RootCount
  <2>3. na \in Aux /\ na.inode = a.inode
    BY <2>1, <2>2
  <2>4. /\ fids'[f].qid = q /\ fids'[f].aux = na /\ fids'[f].open = TRUE
        /\ fids'[f] \in [qid : Qid, aux : Aux, open : BOOLEAN]
        /\ \A g \in Fid \ {f} : fids'[g] = fids[g]
        /\ fids' \in [Fid -> {Unused} \cup [qid : Qid, aux : Aux, open : BOOLEAN]]
    <3>1. /\ fids \in [Fid -> {Unused} \cup [qid : Qid, aux : Aux, open : BOOLEAN]]
          /\ fids[f] \in [qid : Qid, aux : Aux, open : BOOLEAN]
      BY <2>1, FidFacts
    <3> HIDE DEF na
    <3>2. fids' = [fids EXCEPT ![f] = [[fids[f] EXCEPT !.open = TRUE] EXCEPT !.aux = na]]
      BY <1>5, <3>1
    <3> DEFINE new == [[fids[f] EXCEPT !.open = TRUE] EXCEPT !.aux = na]
    <3>3. /\ new \in [qid : Qid, aux : Aux, open : BOOLEAN]
          /\ new.qid = q /\ new.aux = na /\ new.open = TRUE
      BY <2>3, <3>1
    <3> HIDE DEF new
    <3>4. fids' = [fids EXCEPT ![f] = new]
      BY <3>2 DEF new
    <3>5. QED
      BY <3>1, <3>3, <3>4
  <2>5. TypeOK'
    BY <1>2, <1>5, <2>4, FidFacts DEF TypeOK
  <2>6. AtHome(fids'[f].aux.inode, table', faults')
    <3>1. AtHome(a.inode, table, faults)
      BY <2>1 DEF FidGood
    <3>2. QED
      BY <1>2, <2>3, <2>4, <3>1
  <2>7. ASSUME q.type = "dir"
        PROVE  Caches(q, na, IF q = RootQid THEN RootInum ELSE na.inode, heap, faults)
    <3>1. Held(q, a, heap, faults)
      BY <1>2, <2>1 DEF FidGood
    <3>2. q.path = RootInum <=> q = RootQid
      <4>1. q = [path |-> q.path, type |-> q.type]
        BY <2>1 DEF Qid
      <4>2. QED
        BY <2>7, <4>1 DEF RootQid
    <3>3. CASE q = RootQid
      <4>1. na = ra
        BY <3>2, <3>3
      <4>2. Caches(q, ra, RootInum, heap, faults)
        <5> HIDE DEF ra, q
        <5>1. QED
          BY <2>2, FidFacts, RootCaches
      <4>3. QED
        BY <3>3, <4>1, <4>2
    <3>4. CASE q # RootQid
      <4>1. na = a
        BY <3>2, <3>4
      <4>2. Caches(q, a, a.inode, heap, faults)
        BY <2>7, <3>1, <3>4 DEF Held, Leftover
      <4>3. QED
        BY <3>4, <4>1, <4>2
    <3>5. QED
      BY <3>3, <3>4
  <2>8. FidGood(f)'
    <3>1. fids'[f].qid.type = "dir" =>
              Caches(fids'[f].qid, fids'[f].aux,
                     IF fids'[f].qid = RootQid THEN RootInum ELSE fids'[f].aux.inode, heap', faults')
      <4> HIDE DEF na, q
      <4>1. QED
        BY <1>2, <1>5, <2>4, <2>7
    <3>2. fids'[f].open
      BY <2>4
    <3>3. tree' = tree
      BY <1>2
    <3> HIDE DEF a, q, na, ra
    <3>4. QED
      BY <2>6, <3>1, <3>2, <3>3, SameTree DEF FidGood, RootQid
  <2>9. Fits(table, maxinodes)'
    BY <1>2, FidFacts DEF Fits
  <2>10. QED
    BY <1>2, <1>3, <1>5, <2>4, <2>5, <2>8, <2>9, StepKeeps
<1>6. QED
  BY <1>1, <1>4, <1>5

(* What an open fid of a directory reads from its cache.                   *)
LEMMA ReadsListing ==
    ASSUME FidInv, NEW f \in Fid, Used(f), fids[f].open, fids[f].qid.type = "dir"
    PROVE  LET n == IF fids[f].qid = RootQid THEN RootInum ELSE fids[f].aux.inode
           IN  /\ n \in Inum /\ Cached(heap, fids[f].aux) \in Seq(Entry)
               /\ Listing(Cached(heap, fids[f].aux), n, faults)
<1> DEFINE q == fids[f].qid
           a == fids[f].aux
           n == IF q = RootQid THEN RootInum ELSE a.inode
<1>1. /\ FidGood(f) /\ a \in Aux /\ tree \in Trees /\ heap \in [Buffers -> Seq(Entry)]
  BY FidFacts
<1>2. RootInum \in Inum /\ a.inode \in Inum
  BY <1>1, TreeTypes DEF Aux
<1>3. Caches(q, a, n, heap, faults)
  BY <1>1 DEF FidGood
<1>4. n \in Inum
  BY <1>2
<1> HIDE DEF q, a, n
<1>5. Cached(heap, a) \in Seq(Entry) /\ Listing(Cached(heap, a), n, faults)
  BY <1>1, <1>3, <1>4, CachesRead
<1>6. QED
  BY <1>4, <1>5 DEF q, a, n

(* What reading a directory leaves as it was.                              *)
LEMMA ReadDirFaults ==
    ASSUME FidInv, NEW f \in Fid, ReadDir(f)
    PROVE  /\ faults <= faults' /\ faults' \in 0 .. MaxFaults
           /\ UNCHANGED <<tree, table, maxinodes, fids, heap>> /\ server' \in {server, "fatal"}
<1> DEFINE list == Cached(heap, fids[f].aux)
           s == [table |-> table, max |-> maxinodes, faults |-> faults]
<1>1. /\ Used(f) /\ fids[f].open /\ fids[f].qid.type = "dir"
      /\ UNCHANGED <<tree, table, maxinodes>>
      /\ \/ \E unread \in SUBSET {k \in DOMAIN list : list[k].long} :
               /\ faults + Cardinality(unread) <= MaxFaults
               /\ faults' = faults + Cardinality(unread)
               /\ UNCHANGED <<fids, heap, server>>
         \/ \E k \in DOMAIN list :
               \/ End("fatal") /\ UNCHANGED faults
               \/ \E seen \in LoadInode(list[k].inum, tree.kind[list[k].inum], ObjTypes, s) :
                     End("fatal") /\ faults' = faults + seen[2]
  BY DEF ReadDir, Answer
<1>2. list \in Seq(Entry)
  BY <1>1, ReadsListing
<1>3. faults \in 0 .. MaxFaults /\ faults \in Nat /\ MaxFaults \in Nat
  BY FidFacts, BoundsAssumption
<1>4. s.faults = faults
  OBVIOUS
<1> HIDE DEF list, s
<1>5. CASE \E unread \in SUBSET {k \in DOMAIN list : list[k].long} :
               /\ faults + Cardinality(unread) <= MaxFaults
               /\ faults' = faults + Cardinality(unread)
               /\ UNCHANGED <<fids, heap, server>>
  <2>1. PICK unread \in SUBSET {k \in DOMAIN list : list[k].long} :
               /\ faults + Cardinality(unread) <= MaxFaults
               /\ faults' = faults + Cardinality(unread)
               /\ UNCHANGED <<fids, heap, server>>
    BY <1>5
  <2>2. IsFiniteSet(DOMAIN list)
    <3>1. DOMAIN list = 1 .. Len(list) /\ Len(list) \in Int
      BY <1>2
    <3>2. QED
      BY <3>1, FS_Interval, 1 \in Int
  <2>3. Cardinality(unread) \in Nat
    <3>1. unread \subseteq DOMAIN list
      OBVIOUS
    <3>2. IsFiniteSet(unread)
      BY <2>2, <3>1, FS_Subset
    <3>3. QED
      BY <3>2, FS_CardinalityType
  <2>4. faults <= faults' /\ faults' \in 0 .. MaxFaults
    BY ONLY <1>3, <2>1, <2>3
  <2>5. QED
    BY <1>1, <2>1, <2>4
<1>6. CASE \E k \in DOMAIN list :
               \/ End("fatal") /\ UNCHANGED faults
               \/ \E seen \in LoadInode(list[k].inum, tree.kind[list[k].inum], ObjTypes, s) :
                     End("fatal") /\ faults' = faults + seen[2]
  <2>1. PICK k \in DOMAIN list :
               \/ End("fatal") /\ UNCHANGED faults
               \/ \E seen \in LoadInode(list[k].inum, tree.kind[list[k].inum], ObjTypes, s) :
                     End("fatal") /\ faults' = faults + seen[2]
    BY <1>6
  <2>2. faults <= faults' /\ faults' \in 0 .. MaxFaults
    <3>1. CASE faults' = faults
      BY ONLY <1>3, <3>1
    <3>2. ASSUME NEW seen \in LoadInode(list[k].inum, tree.kind[list[k].inum], ObjTypes, s),
                 faults' = faults + seen[2]
          PROVE  faults <= faults' /\ faults' \in 0 .. MaxFaults
      <4>1. seen[2] \in 0 .. 1 /\ faults + seen[2] \in 0 .. MaxFaults
        BY <1>3, <1>4, LoadInodeTrue
      <4>2. QED
        BY ONLY <1>3, <3>2, <4>1
    <3>3. QED
      BY <2>1, <3>1, <3>2
  <2>3. UNCHANGED <<fids, heap>> /\ server' = "fatal"
    BY <2>1 DEF End
  <2>4. QED
    BY <1>1, <2>2, <2>3
<1>7. QED
  BY <1>1, <1>5, <1>6

(* fsread() of a directory answers, or ends the server.                    *)
LEMMA ReadDirGood ==
    ASSUME FidInv, NEW f \in Fid, ReadDir(f)
    PROVE  FidInv'
  BY ReadDirFaults, FidFacts, QuietGood

(* What the fid f has when it, or a clone of it, sets out.                 *)
Start(f, nf) ==
    [res |-> "ok", qid |-> fids[f].qid,
     aux |-> IF nf = f THEN fids[f].aux ELSE Clone(fids[f]),
     heap |-> heap, table |-> table, max |-> maxinodes, faults |-> faults]

(* Where a walk sets out all is well, for the fid and for its clone.       *)
LEMMA StartGood ==
    ASSUME FidInv, NEW f \in Fid, Closed(f), NEW nf \in Fid
    PROVE  /\ GoodWalker(Start(f, nf), nf)
           /\ Start(f, nf).qid = fids[f].qid /\ Start(f, nf).aux.inode = fids[f].aux.inode
           /\ Start(f, nf).table = table /\ Start(f, nf).faults = faults
<1> DEFINE q == fids[f].qid
           a == fids[f].aux
           c == Clone(fids[f])
           s == Start(f, nf)
<1>1. /\ Used(f) /\ ~ fids[f].open /\ FidGood(f) /\ q \in Qid /\ a \in Aux
      /\ tree \in Trees /\ heap \in [Buffers -> Seq(Entry)] /\ table \in SUBSET Inum
      /\ maxinodes \in Nat /\ faults \in 0 .. MaxFaults /\ Fits(table, maxinodes)
  BY FidFacts DEF Closed
<1>2. Held(q, a, heap, faults) /\ AtHome(a.inode, table, faults)
  BY <1>1 DEF FidGood
<1>3. c \in Aux /\ c.inode = a.inode /\ Held(q, c, heap, faults)
  <2>1. CASE q.type = "dir"
    BY <1>1, <1>2, <2>1 DEF Clone
  <2>2. CASE q.type # "dir"
    <3>1. q.type = "file"
      BY <1>1, <2>2 DEF Qid
    <3>2. c = [a EXCEPT !.entry = Nil]
      BY <2>2 DEF Clone
    <3> HIDE DEF c, a, q
    <3>3. a.entry = Nil /\ a.qid = RootQid /\ (tree.kind[a.inode] # "dir" \/ faults > 0)
      BY <1>2, <3>1 DEF Held
    <3>4. c \in Aux /\ c.inode = a.inode /\ c.entry = Nil /\ c.qid = RootQid
      BY <1>1, <3>2, <3>3 DEF Aux
    <3>5. QED
      BY <2>2, <3>3, <3>4 DEF Held
  <2>3. QED
    BY <2>1, <2>2
<1> DEFINE na == IF nf = f THEN a ELSE c
<1>4. na \in Aux /\ na.inode = a.inode /\ Held(q, na, heap, faults)
  BY <1>1, <1>2, <1>3
<1>5. /\ s.res = "ok" /\ s.qid = q /\ s.aux = na /\ s.heap = heap /\ s.table = table
      /\ s.max = maxinodes /\ s.faults = faults
  BY DEF Start
<1>6. s = [res |-> "ok", qid |-> q, aux |-> na, heap |-> heap, table |-> table,
           max |-> maxinodes, faults |-> faults]
  BY DEF Start
<1>7. "ok" \in Results
  BY DEF Results
<1> HIDE DEF q, a, c, na, s
<1>8. s \in Walker
  BY <1>1, <1>4, <1>6, <1>7 DEF Walker
<1>9. faults <= s.faults
  <2>1. faults \in Nat /\ s.faults = faults
    BY <1>5, FidFacts
  <2>2. QED
    BY ONLY <2>1
<1>10. Held(s.qid, s.aux, s.heap, s.faults) /\ AtHome(s.aux.inode, s.table, s.faults)
  BY <1>2, <1>4, <1>5
<1>11. Fits(s.table, s.max)
  BY <1>1, <1>5
<1>12. GoodWalker(s, nf)
  BY <1>5, <1>8, <1>9, <1>10, <1>11 DEF GoodWalker
<1>13. QED
  BY <1>4, <1>5, <1>12 DEF s, q, a

(* The outcome of a walk.                                                  *)
Walked(nf, s) ==
    /\ table' = s.table /\ maxinodes' = s.max /\ faults' = s.faults
    /\ UNCHANGED tree
    /\ \/ /\ s.res = "ok"
          /\ fids' = [fids EXCEPT ![nf] = [qid |-> s.qid, aux |-> s.aux, open |-> FALSE]]
          /\ heap' = s.heap /\ out' = <<"ok">> /\ UNCHANGED server
       \/ s.res = "notFound" /\ Answer(<<"error">>)
       \/ s.res \notin {"ok", "notFound"} /\ End(s.res)

(* A walk is refused, or has gone along its path.                          *)
LEMMA WalkCases ==
    ASSUME FidInv, NEW f \in Fid, NEW nf \in Fid, NEW path \in Paths, Walk(f, nf, path)
    PROVE  /\ Closed(f) /\ (nf = f \/ ~ Used(nf))
           /\ \/ Answer(<<"error">>) /\ UNCHANGED disk
              \/ \E s \in Along(Start(f, nf), path, Busy(nf)) :
                    PathGives(Start(f, nf), path, nf, s) /\ Walked(nf, s)
<1>1. /\ Closed(f) /\ (nf = f \/ ~ Used(nf))
      /\ \/ Answer(<<"error">>) /\ UNCHANGED disk
         \/ \E s \in Along(Start(f, nf), path, Busy(nf)) :
               /\ table' = s.table /\ maxinodes' = s.max /\ faults' = s.faults
               /\ UNCHANGED tree
               /\ CASE s.res = "ok" ->
                         /\ fids' = [fids EXCEPT ![nf] =
                                        [qid |-> s.qid, aux |-> s.aux, open |-> FALSE]]
                         /\ heap' = s.heap /\ out' = <<"ok">> /\ UNCHANGED server
                    [] s.res = "notFound" ->
                         Answer(<<"error">>)
                    [] OTHER -> End(s.res)
  BY DEF Walk, Start
<1>2. CASE Answer(<<"error">>) /\ UNCHANGED disk
  BY <1>1, <1>2
<1>3. ASSUME NEW s \in Along(Start(f, nf), path, Busy(nf)),
             table' = s.table /\ maxinodes' = s.max /\ faults' = s.faults,
             UNCHANGED tree,
             CASE s.res = "ok" ->
                       /\ fids' = [fids EXCEPT ![nf] =
                                      [qid |-> s.qid, aux |-> s.aux, open |-> FALSE]]
                       /\ heap' = s.heap /\ out' = <<"ok">> /\ UNCHANGED server
                  [] s.res = "notFound" ->
                       Answer(<<"error">>)
                  [] OTHER -> End(s.res)
      PROVE  PathGives(Start(f, nf), path, nf, s) /\ Walked(nf, s)
  <2>1. GoodWalker(Start(f, nf), nf)
    BY <1>1, StartGood
  <2>2. PathGives(Start(f, nf), path, nf, s)
    BY <2>1, FidFacts, AlongTrue
  <2>3. CASE s.res = "ok"
    BY <1>3, <2>2, <2>3 DEF Walked
  <2>4. CASE s.res = "notFound"
    BY <1>3, <2>2, <2>4 DEF Walked
  <2>5. CASE s.res \notin {"ok", "notFound"}
    BY <1>3, <2>2, <2>5 DEF Walked
  <2>6. QED
    BY <2>3, <2>4, <2>5
<1>4. QED
  BY <1>1, <1>2, <1>3

(* The buffers of the fids that do not walk.                               *)
LEMMA OthersKept ==
    ASSUME FidInv, NEW nf, NEW hp, \A b \in Busy(nf) \cap Buffers : hp[b] = heap[b]
    PROVE  /\ hp[RootEntry] = heap[RootEntry]
           /\ \A g \in Fid : (Used(g) /\ g # nf /\ fids[g].aux.entry # Nil) =>
                 hp[fids[g].aux.entry] = heap[fids[g].aux.entry]
<1>1. RootEntry \in Busy(nf) \cap Buffers
  BY FidFacts, RootTypes DEF Busy
<1>2. ASSUME NEW g \in Fid, Used(g), g # nf, fids[g].aux.entry # Nil
      PROVE  fids[g].aux.entry \in Busy(nf) \cap Buffers
  <2>1. fids[g].aux \in Aux
    BY <1>2, FidFacts
  <2>2. fids[g].aux.entry \in Buffers
    BY <1>2, <2>1 DEF Aux
  <2>3. QED
    BY <1>2, <2>2 DEF Busy
<1>3. QED
  BY <1>1, <1>2

(* A walk changes one fid, the table, and a buffer that no other fid has.  *)
LEMMA WalkGood ==
    ASSUME FidInv, NEW f \in Fid, NEW nf \in Fid, NEW path \in Paths, Walk(f, nf, path)
    PROVE  FidInv'
<1>1. Closed(f) /\ (nf = f \/ ~ Used(nf))
  BY WalkCases
<1>2. CASE Answer(<<"error">>) /\ UNCHANGED disk
  <2>1. faults <= faults'
    <3>1. faults \in Nat /\ faults' = faults
      BY <1>2, FidFacts DEF disk
    <3>2. QED
      BY ONLY <3>1
  <2>2. QED
    BY <1>2, <2>1, FidFacts, QuietGood DEF disk, Answer
<1>3. ASSUME NEW s, PathGives(Start(f, nf), path, nf, s), Walked(nf, s)
      PROVE  FidInv'
  <2>1. /\ s \in Walker /\ Fits(s.table, s.max) /\ table \subseteq s.table
        /\ s.res = "ok" => GoodWalker(s, nf)
    BY <1>1, <1>3, StartGood DEF PathGives
  <2>2. /\ tree' = tree /\ table' = s.table /\ maxinodes' = s.max /\ faults' = s.faults
    BY <1>3 DEF Walked
  <2>3. faults <= faults'
    <3>1. Start(f, nf).faults <= s.faults
      BY <1>3 DEF PathGives
    <3>2. QED
      BY <1>1, <2>2, <3>1, StartGood
  <2>4. Fits(table, maxinodes)'
    BY <2>1, <2>2 DEF Fits
  <2>5. /\ table' \subseteq Inum /\ maxinodes' \in Nat /\ faults' \in 0 .. MaxFaults
    BY <2>1, <2>2 DEF Walker
  <2>6. CASE s.res = "ok"
    <3> DEFINE fid == [qid |-> s.qid, aux |-> s.aux, open |-> FALSE]
    <3>1. fids' = [fids EXCEPT ![nf] = fid] /\ heap' = s.heap /\ server' = server
      BY <1>3, <2>6 DEF Walked, Answer, End
    <3>2. /\ fid \in [qid : Qid, aux : Aux, open : BOOLEAN]
          /\ fid.qid = s.qid /\ fid.aux = s.aux /\ fid.open = FALSE
          /\ s.heap \in [Buffers -> Seq(Entry)]
      BY <2>1 DEF Walker
    <3> HIDE DEF fid
    <3>3. /\ fids' \in [Fid -> {Unused} \cup [qid : Qid, aux : Aux, open : BOOLEAN]]
          /\ fids'[nf] = fid
          /\ \A g \in Fid \ {nf} : fids'[g] = fids[g]
      BY <3>1, <3>2, FidFacts
    <3>4. TypeOK'
      BY <2>2, <2>5, <3>1, <3>2, <3>3, FidFacts DEF TypeOK
    <3>5. Held(s.qid, s.aux, s.heap, s.faults) /\ AtHome(s.aux.inode, s.table, s.faults)
      BY <2>1, <2>6 DEF GoodWalker
    <3>6. FidGood(nf)'
      <4>1. /\ AtHome(fids'[nf].aux.inode, table', faults')
            /\ Held(fids'[nf].qid, fids'[nf].aux, heap', faults')
        BY <2>2, <3>1, <3>2, <3>3, <3>5
      <4>2. ~ fids'[nf].open
        BY <3>2, <3>3
      <4>3. QED
        BY <2>2, <4>1, <4>2, SameTree DEF FidGood
    <3>7. \A b \in Busy(nf) \cap Buffers : s.heap[b] = heap[b]
      BY <2>1, <2>6 DEF GoodWalker
    <3>8. /\ heap'[RootEntry] = heap[RootEntry]
          /\ \A g \in Fid : (Used(g) /\ g # nf /\ fids[g].aux.entry # Nil) =>
                heap'[fids[g].aux.entry] = heap[fids[g].aux.entry]
      BY <3>1, <3>7, OthersKept
    <3>9. ASSUME NEW g \in Fid, Used(g)'
          PROVE  \/ FidGood(g)'
                 \/ /\ fids'[g] = fids[g]
                    /\ fids[g].aux.entry # Nil => heap'[fids[g].aux.entry] = heap[fids[g].aux.entry]
      <4>1. CASE g = nf
        BY <3>6, <4>1
      <4>2. CASE g # nf
        BY <3>3, <3>8, <3>9, <4>2 DEF Used
      <4>3. QED
        BY <4>1, <4>2
    <3>10. QED
      BY <2>1, <2>2, <2>3, <2>4, <3>4, <3>8, <3>9, StepKeeps
  <2>7. CASE s.res # "ok"
    <3>1. fids' = fids /\ heap' = heap /\ server' \in {server, s.res}
      BY <1>3, <2>7 DEF Walked, Answer, End
    <3>2. server' \in {"up", "nilBuffer", "nilEntry", "fatal"}
      <4>1. s.res \in Results
        BY <2>1 DEF Walker
      <4>2. s.res # "notFound" => s.res \in {"up", "nilBuffer", "nilEntry", "fatal"}
        BY <2>7, <4>1 DEF Results
      <4>3. s.res = "notFound" => server' = server
        BY <1>3 DEF Walked, Answer
      <4>4. QED
        BY <3>1, <4>2, <4>3, FidFacts
    <3>3. TypeOK'
      BY <2>2, <2>5, <3>1, <3>2, FidFacts DEF TypeOK
    <3>4. QED
      BY <2>1, <2>2, <2>3, <2>4, <3>1, <3>3, StepKeeps
  <2>8. QED
    BY <2>6, <2>7
<1>4. QED
  BY <1>2, <1>3, WalkCases

(* The invariant of the fids.                                              *)
LEMMA FidsGood == Spec => []FidInv
<1>1. FidInv /\ [Next]_vars => FidInv'
  <2>1. SUFFICES ASSUME FidInv, [Next]_vars PROVE FidInv'
    OBVIOUS
  <2>2. CASE Next
    <3>1. PICK f \in Fid :
             \/ Attach(f) \/ Open(f) \/ ReadDir(f) \/ Stat(f) \/ Clunk(f)
             \/ \E nf \in Fid, path \in Paths : Walk(f, nf, path)
      BY <2>2 DEF Next
    <3>2. QED
      BY <2>1, <3>1, AttachGood, OpenGood, ReadDirGood, StatGood, ClunkGood, WalkGood
  <2>3. CASE UNCHANGED vars
    <3>1. faults <= faults'
      <4>1. faults \in Nat /\ faults' = faults
        BY <2>1, <2>3, FidFacts DEF vars, disk
      <4>2. QED
        BY ONLY <4>1
    <3>2. QED
      BY <2>1, <2>3, <3>1, FidFacts, QuietGood DEF vars, disk
  <2>4. QED
    BY <2>1, <2>2, <2>3
<1>2. QED
  BY <1>1, InitGood, PTL DEF Spec

(* The fids, their caches and the buffers keep their types.                *)
THEOREM FidTypes == Spec => []TypeOK
<1>1. FidInv => TypeOK
  BY DEF FidInv
<1>2. QED
  BY <1>1, FidsGood, PTL

(* Whatever fids share buffers, clone or leave them behind, a directory's  *)
(* fid has the entries of its directory in its cache.                      *)
THEOREM FidsListTheirInode == Spec => []DirListsItsInode
<1>1. FidInv => DirListsItsInode
  <2>1. SUFFICES ASSUME FidInv, NEW f \in Fid, Used(f), fids[f].qid.type = "dir"
                 PROVE  LET a == fids[f].aux
                            n == IF fids[f].open /\ fids[f].qid = RootQid THEN RootInum ELSE a.inode
                        IN  \/ /\ fids[f].qid = RootQid /\ ~ fids[f].open /\ a.entry = Nil
                               /\ tree.kind[a.inode] # "dir" \/ faults > 0
                            \/ Listing(Cached(heap, a), n, faults)
    BY DEF DirListsItsInode, Listing
  <2> DEFINE q == fids[f].qid
             a == fids[f].aux
  <2>2. CASE fids[f].open
    <3>1. Listing(Cached(heap, a), IF q = RootQid THEN RootInum ELSE a.inode, faults)
      BY <2>1, <2>2, ReadsListing
    <3>2. QED
      BY <2>2, <3>1
  <2>3. CASE ~ fids[f].open
    <3>1. /\ FidGood(f) /\ a \in Aux /\ tree \in Trees /\ heap \in [Buffers -> Seq(Entry)]
      BY <2>1, FidFacts
    <3>2. Caches(q, a, a.inode, heap, faults) \/ Leftover(q, a, faults)
      BY <2>1, <2>3, <3>1 DEF FidGood, Held
    <3>3. CASE Caches(q, a, a.inode, heap, faults)
      <4>1. a.inode \in Inum
        BY <3>1 DEF Aux
      <4> HIDE DEF a, q
      <4>2. Listing(Cached(heap, a), a.inode, faults)
        BY <3>1, <3>3, <4>1, CachesRead
      <4>3. QED
        BY <2>3, <4>2 DEF a
    <3>4. CASE Leftover(q, a, faults)
      BY <2>3, <3>4 DEF Leftover
    <3>5. QED
      BY <3>2, <3>3, <3>4
  <2>4. QED
    BY <2>2, <2>3
<1>2. QED
  BY <1>1, FidsGood, PTL

-----------------------------------------------------------------------------
(* The file system stays what it is.                                       *)
LEMMA TreeStays ==
    ASSUME [Next]_vars
    PROVE  tree' = tree
<1>1. CASE UNCHANGED vars
  BY <1>1 DEF vars, disk
<1>2. ASSUME NEW f \in Fid, Attach(f) \/ Open(f) \/ ReadDir(f) \/ Stat(f) \/ Clunk(f)
      PROVE  tree' = tree
  BY <1>2 DEF Attach, Open, ReadDir, Stat, Clunk, disk
<1>3. ASSUME NEW f \in Fid, NEW nf \in Fid, NEW path \in Paths, Walk(f, nf, path)
      PROVE  tree' = tree
  BY <1>3 DEF Walk, disk
<1>4. QED
  BY <1>1, <1>2, <1>3 DEF Next

(* Nothing has ended a server whose tree is sound and all of whose loads   *)
(* have succeeded.                                                         *)
Serves == FidInv /\ KeepsServing

(* The entries that an open directory lists are in the table.              *)
LEMMA ListedHome ==
    ASSUME FidInv, NEW f \in Fid, Used(f), fids[f].open, fids[f].qid.type = "dir",
           Sound(tree), faults = 0, NEW k \in DOMAIN Cached(heap, fids[f].aux)
    PROVE  LET n == Cached(heap, fids[f].aux)[k].inum
           IN  /\ tree.kind[n] # "other"
               /\ n \in table /\ n <= maxinodes
<1> DEFINE q == fids[f].qid
           a == fids[f].aux
           d == IF q = RootQid THEN RootInum ELSE a.inode
           list == Cached(heap, a)
           e == list[k]
<1>1. d \in Inum /\ list \in Seq(Entry) /\ Listing(list, d, faults)
  BY ReadsListing
<1>2. Complete(tree) /\ tree \in Trees /\ table \subseteq Inum /\ Inum \subseteq Nat
  BY FidFacts, TreeTypes DEF Sound
<1>3. AtHome(d, table, 0)
  <2>1. AtHome(a.inode, table, faults) /\ AtHome(RootInum, table, faults)
    BY FidFacts DEF FidGood
  <2>2. QED
    BY <2>1
<1> HIDE DEF d, list
<1>4. e \in Range(list) /\ e \in Entry
  BY <1>1 DEF Range, list
<1>5. PICK j \in DOMAIN tree.parts[d] : e \in Range(tree.parts[d][j].entries)
  BY <1>1, <1>2, <1>4, ListingTrue
<1>6. e.inum \in Inum /\ Home(e.inum, table)
  BY <1>1, <1>2, <1>3, <1>4, <1>5, EntryHome
<1>7. tree.kind[e.inum] \in {"dir", "file", "link"}
  BY <1>1, <1>5 DEF Sound
<1>8. e.inum \in table
  BY <1>6, <1>7 DEF Home
<1>9. e.inum <= maxinodes
  BY <1>8, FidFacts DEF Fits
<1>10. QED
  BY <1>7, <1>8, <1>9 DEF list

(* No listing of a sound file system ends the server.                      *)
LEMMA ReadDirServes ==
    ASSUME FidInv, NEW f \in Fid, ReadDir(f), Sound(tree), faults' = 0
    PROVE  faults = 0 /\ server' = server
<1> DEFINE list == Cached(heap, fids[f].aux)
           s == [table |-> table, max |-> maxinodes, faults |-> faults]
           Seen(k) == LoadInode(list[k].inum, tree.kind[list[k].inum], ObjTypes, s)
<1>1. /\ Used(f) /\ fids[f].open /\ fids[f].qid.type = "dir"
      /\ \/ server' = server
         \/ \E k \in DOMAIN list :
               \/ GetFEntry(list[k].inum, s) = "nil" /\ faults' = faults
               \/ \E seen \in Seen(k) : seen[1] = "other" /\ faults' = faults + seen[2]
  BY DEF ReadDir, Answer
<1>3. faults \in 0 .. MaxFaults /\ faults \in Nat
  BY FidFacts
<1>4. s.faults = faults /\ s.table = table /\ s.max = maxinodes
  OBVIOUS
<1>5. ASSUME NEW k \in DOMAIN list, faults = 0
      PROVE  GetFEntry(list[k].inum, s) = "entry" /\ tree.kind[list[k].inum] # "other"
  <2>1. /\ tree.kind[list[k].inum] # "other"
        /\ list[k].inum \in table /\ list[k].inum <= maxinodes
    BY <1>1, <1>5, ListedHome
  <2>2. list[k].inum \in Nat /\ maxinodes \in Nat
    BY <2>1, FidFacts, TreeTypes
  <2> DEFINE n == list[k].inum
  <2> HIDE DEF n
  <2>3. n \in table /\ n <= maxinodes /\ n \in Nat /\ maxinodes \in Nat
    BY <2>1, <2>2 DEF n
  <2>4. ~ n > maxinodes
    BY ONLY <2>3
  <2>5. GetFEntry(n, s) = "entry"
    BY <1>4, <2>3, <2>4 DEF GetFEntry
  <2>6. QED
    BY <2>1, <2>5 DEF n
<1> HIDE DEF list, s
<1>6. faults = 0
  <2>1. faults <= faults'
    BY ReadDirFaults
  <2>2. QED
    BY ONLY <1>3, <2>1, faults' = 0
<1>7. ASSUME NEW k \in DOMAIN list, GetFEntry(list[k].inum, s) = "nil", faults' = faults
      PROVE  FALSE
  <2>1. GetFEntry(list[k].inum, s) = "entry"
    BY <1>5, <1>7
  <2>2. QED
    BY <1>7, <2>1
<1>8. ASSUME NEW k \in DOMAIN list, NEW seen \in Seen(k), seen[1] = "other",
             faults' = faults + seen[2]
      PROVE  FALSE
  <2>1. /\ seen[2] \in 0 .. 1
        /\ (seen[2] = 0 /\ GetFEntry(list[k].inum, s) # "junk") =>
              seen[1] = tree.kind[list[k].inum]
    BY <1>3, <1>4, LoadInodeTrue
  <2>2. faults = 0 /\ seen[2] = 0
    BY ONLY <1>3, <1>8, <2>1, faults' = 0
  <2>3. GetFEntry(list[k].inum, s) = "entry" /\ tree.kind[list[k].inum] # "other"
    BY <1>5, <2>2
  <2>4. QED
    BY <1>8, <2>1, <2>2, <2>3
<1>9. QED
  BY <1>1, <1>6, <1>7, <1>8

(* No fid of a file has the inode of a directory.                          *)
LEMMA OpenServes ==
    ASSUME FidInv, NEW f \in Fid, Open(f), faults' = 0
    PROVE  faults = 0 /\ server' = server
<1>1. faults = 0
  BY DEF Open, disk
<1>2. ASSUME fids[f].qid.type = "file"
      PROVE  tree.parts[fids[f].aux.inode] = <<>>
  <2>1. FidGood(f) /\ ~ fids[f].open /\ fids[f].aux \in Aux /\ tree \in Trees
    BY FidFacts DEF Open, Closed
  <2>2. tree.kind[fids[f].aux.inode] # "dir"
    BY <1>1, <1>2, <2>1 DEF FidGood, Held
  <2>3. fids[f].aux.inode \in Inum
    BY <2>1 DEF Aux
  <2>4. QED
    BY <2>1, <2>2, <2>3, TreeTypes
<1>3. QED
  BY <1>1, <1>2 DEF Open

(* No walk ends it, but for the one beyond a file.                         *)
LEMMA WalkServes ==
    ASSUME FidInv, NEW f \in Fid, NEW nf \in Fid, NEW path \in Paths, Walk(f, nf, path),
           Sound(tree), faults' = 0
    PROVE  faults = 0 /\ server' \in {server, "nilBuffer"}
<1>1. CASE Answer(<<"error">>) /\ UNCHANGED disk
  BY <1>1 DEF Answer, disk
<1>2. ASSUME NEW s, PathGives(Start(f, nf), path, nf, s), Walked(nf, s)
      PROVE  faults = 0 /\ server' \in {server, "nilBuffer"}
  <2>1. s.faults = 0
    BY <1>2 DEF Walked
  <2>2. faults = 0
    <3>1. Start(f, nf).faults = faults /\ faults \in Nat
      BY WalkCases, StartGood, FidFacts
    <3>2. Start(f, nf).faults <= s.faults
      BY <1>2 DEF PathGives
    <3>3. QED
      BY ONLY <2>1, <3>1, <3>2
  <2>3. s.res \in {"ok", "notFound", "nilBuffer"}
    BY <1>2, <2>1 DEF PathGives
  <2>4. QED
    BY <1>2, <2>2, <2>3 DEF Walked, Answer, End
<1>3. QED
  BY <1>1, <1>2, WalkCases

(* On a sound file system no sequence of requests ends the server while no *)
(* load fails, but for the walk beyond a file.                             *)
THEOREM FidsKeepServing == Spec => []KeepsServing
<1>1. Init => Serves
  <2>1. Init => server = "up"
    BY DEF Init
  <2>2. QED
    BY <2>1, InitGood DEF Serves, KeepsServing
<1>2. FidInv /\ FidInv' /\ KeepsServing /\ [Next]_vars => KeepsServing'
  <2>1. SUFFICES ASSUME FidInv, KeepsServing, [Next]_vars, Sound(tree)', faults' = 0
                 PROVE  server' \in {"up", "nilBuffer"}
    BY DEF KeepsServing
  <2>2. tree' = tree
    BY <2>1, TreeStays
  <2>3. Sound(tree)
    BY <2>1, <2>2 DEF Sound, Complete
  <2>4. faults = 0 /\ server' \in {server, "nilBuffer"}
    <3>1. CASE UNCHANGED vars
      BY <2>1, <3>1 DEF vars, disk
    <3>2. ASSUME NEW f \in Fid, Attach(f) \/ Stat(f) \/ Clunk(f)
          PROVE  faults = 0 /\ server' = server
      BY <2>1, <3>2 DEF Attach, Stat, Answer, Clunk, disk
    <3>3. QED
      BY <2>1, <2>3, <3>1, <3>2, OpenServes, ReadDirServes, WalkServes DEF Next
  <2>5. QED
    BY <2>1, <2>3, <2>4 DEF KeepsServing
<1>3. QED
  BY <1>1, <1>2, FidsGood, PTL DEF Spec, Serves

-----------------------------------------------------------------------------
(* What a client sees of the fids: where they are, which are open, and the *)
(* listing in the last reply.                                              *)
Node ==
    [f \in Fid |->
       IF Used(f) THEN [named |-> fids[f].qid.path, here |-> fids[f].aux.inode,
                        dir |-> fids[f].qid.type = "dir"]
       ELSE Unused]
Opened == {f \in Fid : Used(f) /\ fids[f].open}
Listed == IF out[1] = "entries" THEN out[2] ELSE <<>>

RootPlace == [named |-> RootInum, here |-> RootInum, dir |-> TRUE]

(* The actions of the promise, on what a client sees.                      *)
LEMMA PromiseInit ==
    Node = [f \in Fid |-> Unused] /\ Opened = {} /\ Listed = <<>> => Promise!Init
  BY DEF Promise!Init, Node, Opened, Listed

LEMMA PromiseAttach ==
    ASSUME NEW f, Node[f] = Unused, Node' = [Node EXCEPT ![f] = RootPlace],
           Listed' = <<>>, Opened' = Opened
    PROVE  Promise!Attach(f)
  BY DEF Promise!Attach, Promise!RootPlace, RootPlace, Node, Opened, Listed

LEMMA PromiseWalk ==
    ASSUME NEW f, NEW nf, NEW path, Node[f] # Unused, f \notin Opened,
           nf = f \/ Node[nf] = Unused,
           NEW p \in Promise!Resolve(Node[f], path), Node' = [Node EXCEPT ![nf] = p],
           Listed' = <<>>, Opened' = Opened
    PROVE  Promise!Walk(f, nf, path)
  BY DEF Promise!Walk, Node, Opened, Listed

LEMMA PromiseOpen ==
    ASSUME NEW f, Node[f] # Unused, Opened' = Opened \cup {f}, Listed' = <<>>, Node' = Node
    PROVE  Promise!Open(f)
  BY DEF Promise!Open, Node, Opened, Listed

LEMMA PromiseReadDir ==
    ASSUME NEW f, f \in Opened, Node[f].dir, Node' = Node, Opened' = Opened,
           LET n == IF Node[f].named = RootInum THEN RootInum ELSE Node[f].here
           IN  \E lost \in IF faults' > 0 THEN SUBSET DOMAIN tree.parts[n] ELSE {{}} :
                  Promise!Shows(Listed', Promise!Entries(n, lost))
    PROVE  Promise!ReadDir(f)
  BY DEF Promise!ReadDir, Node, Opened, Listed

LEMMA PromiseClunk ==
    ASSUME NEW f, Node[f] # Unused, Node' = [Node EXCEPT ![f] = Unused],
           Opened' = Opened \ {f}, Listed' = <<>>
    PROVE  Promise!Clunk(f)
  BY DEF Promise!Clunk, Node, Opened, Listed

LEMMA PromiseOther ==
    ASSUME Listed' = <<>>, Node' = Node, Opened' = Opened
    PROVE  Promise!Other
  BY DEF Promise!Other, Node, Opened, Listed

(* The places that walks lead to are those that are promised.              *)
LEMMA PlacePromised ==
    ASSUME NEW n
    PROVE  Places(n, faults' > 0) \subseteq Promise!Place(n)
  BY Zenon DEF Places, Promise!Place

(* The entries that loadsubdir() takes the name for are promised.          *)
LEMMA NamedPromised ==
    ASSUME NEW e, NEW name, NEW here, NamedBy(e, name, here, IF faults' > 0 THEN 1 ELSE 0)
    PROVE  e \in Promise!Named(here, name)
<1> DEFINE all == Promise!Entries(here, {})
           flt == IF faults' > 0 THEN 1 ELSE 0
<1>1. flt > 0 <=> faults' > 0
  OBVIOUS
<1>2. (flt = 0) <=> ~ (faults' > 0)
  OBVIOUS
<1>3. NamedBy(e, name, here, flt)
  OBVIOUS
<1> HIDE DEF flt
<1>4. PICK j \in DOMAIN all :
         /\ all[j] = e
         /\ e.name = name \/ (flt > 0 /\ e.long)
         /\ flt = 0 => \A m \in 1 .. j - 1 : all[m].name # name
  BY <1>3, Zenon DEF NamedBy
<1>5. j \in {i \in DOMAIN all :
               IF faults' > 0 THEN all[i].name = name \/ all[i].long
               ELSE all[i].name = name /\ \A m \in 1 .. i - 1 : all[m].name # name}
  <2> HIDE DEF all
  <2>1. CASE faults' > 0
    BY <1>1, <1>4, <2>1
  <2>2. CASE ~ (faults' > 0)
    <3>1. flt = 0 /\ ~ flt > 0
      BY <1>1, <1>2, <2>2
    <3>2. QED
      BY <1>4, <2>2, <3>1
  <2>3. QED
    BY <2>1, <2>2
<1>6. QED
  BY <1>4, <1>5, Zenon DEF Promise!Named

(* So is each step.                                                        *)
LEMMA StepPromised ==
    ASSUME NEW p, NEW name
    PROVE  PromisedStep(p, name, faults' > 0) \subseteq Promise!Step(p, name)
<1>1. CASE name = "/"
  BY <1>1, Zenon DEF PromisedStep, Promise!Step, Promise!RootPlace
<1>2. CASE name = ".."
  <2>1. PromisedStep(p, name, faults' > 0) = Places(tree.parent[p.here], faults' > 0)
    BY <1>2 DEF PromisedStep
  <2>2. Promise!Step(p, name) = Promise!Place(tree.parent[p.here])
    BY <1>2 DEF Promise!Step
  <2>3. QED
    BY <2>1, <2>2, PlacePromised
<1>3. CASE name = "."
  <2>1. PromisedStep(p, name, faults' > 0) = {[p EXCEPT !.named = RootInum, !.dir = TRUE]}
    BY <1>3 DEF PromisedStep
  <2>2. Promise!Step(p, name) = {[p EXCEPT !.named = RootInum, !.dir = TRUE]}
    BY <1>3 DEF Promise!Step
  <2>3. QED
    BY <2>1, <2>2
<1>4. CASE name \notin {"/", "..", "."}
  <2>1. PromisedStep(p, name, faults' > 0) =
            UNION {Places(e.inum, faults' > 0) :
              e \in {x \in Entry : NamedBy(x, name, p.here, IF faults' > 0 THEN 1 ELSE 0)}}
    BY <1>4 DEF PromisedStep
  <2>2. Promise!Step(p, name) = UNION {Promise!Place(e.inum) : e \in Promise!Named(p.here, name)}
    BY <1>4 DEF Promise!Step
  <2>3. SUFFICES ASSUME NEW q \in PromisedStep(p, name, faults' > 0)
                 PROVE  q \in Promise!Step(p, name)
    OBVIOUS
  <2>4. PICK e \in {x \in Entry : NamedBy(x, name, p.here, IF faults' > 0 THEN 1 ELSE 0)} :
           q \in Places(e.inum, faults' > 0)
    BY <2>1
  <2>5. e \in Promise!Named(p.here, name)
    BY <2>4, NamedPromised
  <2>6. q \in Promise!Place(e.inum)
    BY <2>4, PlacePromised
  <2>7. QED
    BY <2>2, <2>5, <2>6
<1>5. QED
  BY <1>1, <1>2, <1>3, <1>4

(* And each path.                                                          *)
LEMMA PathPromised ==
    ASSUME NEW p, NEW path, Len(path) \in Nat
    PROVE  PromisedPath(p, path, faults' > 0) \subseteq Promise!Resolve(p, path)
<1>1. CASE Len(path) = 0
  BY <1>1 DEF PromisedPath, Promise!Resolve
<1>2. CASE Len(path) = 1
  BY <1>2, StepPromised DEF PromisedPath, Promise!Resolve
<1>3. CASE Len(path) \notin {0, 1}
  <2>1. PromisedPath(p, path, faults' > 0) =
            UNION {PromisedStep(q, path[2], faults' > 0) : q \in PromisedStep(p, path[1], faults' > 0)}
    BY <1>3 DEF PromisedPath
  <2>2. Promise!Resolve(p, path) =
            UNION {Promise!Step(q, path[2]) : q \in Promise!Step(p, path[1])}
    BY <1>3 DEF Promise!Resolve
  <2>3. SUFFICES ASSUME NEW r \in PromisedPath(p, path, faults' > 0)
                 PROVE  r \in Promise!Resolve(p, path)
    OBVIOUS
  <2>4. PICK q \in PromisedStep(p, path[1], faults' > 0) : r \in PromisedStep(q, path[2], faults' > 0)
    BY <2>1
  <2>5. q \in Promise!Step(p, path[1]) /\ r \in Promise!Step(q, path[2])
    BY <2>4, StepPromised
  <2>6. QED
    BY <2>2, <2>5
<1>4. QED
  BY <1>1, <1>2, <1>3

-----------------------------------------------------------------------------
(* A fid that is in use has a node, one that is not has none.              *)
LEMMA NodeFacts ==
    ASSUME FidInv, NEW f \in Fid
    PROVE  /\ Node[f] # Unused <=> Used(f)
           /\ Used(f) => Node[f] = [named |-> fids[f].qid.path, here |-> fids[f].aux.inode,
                                    dir |-> fids[f].qid.type = "dir"]
<1>1. ASSUME Used(f)
      PROVE  [named |-> fids[f].qid.path, here |-> fids[f].aux.inode,
              dir |-> fids[f].qid.type = "dir"] # Unused
  <2>1. fids[f].qid.path \in Nat /\ fids[f].aux.inode \in Inum
    BY <1>1, FidFacts DEF Qid, Aux
  <2>2. (fids[f].qid.type = "dir") \in BOOLEAN
    OBVIOUS
  <2>3. [named |-> fids[f].qid.path, here |-> fids[f].aux.inode,
         dir |-> fids[f].qid.type = "dir"] \in [named : Nat, here : Inum, dir : BOOLEAN]
    BY <2>1, <2>2
  <2>4. QED
    BY <2>3, UnusedAssumption
<1>2. CASE Used(f)
  <2>1. Node[f] = [named |-> fids[f].qid.path, here |-> fids[f].aux.inode,
                   dir |-> fids[f].qid.type = "dir"]
    BY <1>2 DEF Node
  <2>2. QED
    BY <1>1, <1>2, <2>1
<1>3. CASE ~ Used(f)
  <2>1. Node[f] = Unused
    BY <1>3 DEF Node
  <2>2. QED
    BY <1>3, <2>1
<1>4. QED
  BY <1>2, <1>3

(* A fid is bound, not open, to where it is.                               *)
LEMMA Binds ==
    ASSUME FidInv, NEW nf \in Fid, Used(nf) => ~ fids[nf].open,
           NEW q \in Qid, NEW a \in Aux,
           fids' = [fids EXCEPT ![nf] = [qid |-> q, aux |-> a, open |-> FALSE]]
    PROVE  /\ Node' = [Node EXCEPT ![nf] = [named |-> q.path, here |-> a.inode,
                                            dir |-> q.type = "dir"]]
           /\ Opened' = Opened
<1> DEFINE fid == [qid |-> q, aux |-> a, open |-> FALSE]
           p == [named |-> q.path, here |-> a.inode, dir |-> q.type = "dir"]
<1>1. /\ fid \in [qid : Qid, aux : Aux, open : BOOLEAN]
      /\ fid.qid = q /\ fid.aux = a /\ fid.open = FALSE
  OBVIOUS
<1>2. fid # Unused
  BY <1>1, UnusedAssumption
<1> HIDE DEF fid
<1>3. fids'[nf] = fid /\ \A g \in Fid \ {nf} : fids'[g] = fids[g]
  BY FidFacts DEF fid
<1>4. ASSUME NEW g \in Fid
      PROVE  /\ (IF Used(g) THEN [named |-> fids[g].qid.path, here |-> fids[g].aux.inode,
                                  dir |-> fids[g].qid.type = "dir"]
                 ELSE Unused)' = [Node EXCEPT ![nf] = p][g]
             /\ (Used(g) /\ fids[g].open)' <=> (Used(g) /\ fids[g].open)
  <2>1. CASE g = nf
    <3>1. fids'[g] = fid /\ Used(g)'
      BY <1>2, <1>3, <2>1 DEF Used
    <3>2. [Node EXCEPT ![nf] = p][g] = p
      BY <2>1 DEF Node
    <3>3. (IF Used(g) THEN [named |-> fids[g].qid.path, here |-> fids[g].aux.inode,
                            dir |-> fids[g].qid.type = "dir"]
           ELSE Unused)' = p
      BY <1>1, <3>1, Zenon
    <3>4. ~ (Used(g) /\ fids[g].open)' /\ ~ (Used(g) /\ fids[g].open)
      BY <1>1, <2>1, <3>1
    <3>5. QED
      BY <3>2, <3>3, <3>4
  <2>2. CASE g # nf
    <3>1. fids'[g] = fids[g] /\ (Used(g)' <=> Used(g))
      BY <1>3, <2>2 DEF Used
    <3>2. [Node EXCEPT ![nf] = p][g] = Node[g]
      BY <2>2 DEF Node
    <3>3. Node[g] = IF Used(g) THEN [named |-> fids[g].qid.path, here |-> fids[g].aux.inode,
                                     dir |-> fids[g].qid.type = "dir"]
                    ELSE Unused
      BY Zenon DEF Node
    <3>4. QED
      BY <3>1, <3>2, <3>3, Zenon
  <2>3. QED
    BY <2>1, <2>2
<1>5. Opened' = Opened
  BY <1>4, Zenon DEF Opened
<1>6. Node' = [g \in Fid |-> [Node EXCEPT ![nf] = p][g]]
  BY <1>4, SMTT(30) DEF Node
<1>7. [Node EXCEPT ![nf] = p] = [g \in Fid |-> [Node EXCEPT ![nf] = p][g]]
  <2>1. DOMAIN [Node EXCEPT ![nf] = p] = Fid
    BY DEF Node
  <2> HIDE DEF p
  <2>2. QED
    BY <2>1
<1>8. QED
  BY <1>5, <1>6, <1>7, Zenon

(* No change of a fid that its client would see.                           *)
LEMMA SameFids ==
    ASSUME fids' = fids
    PROVE  Node' = Node /\ Opened' = Opened
<1>1. \A f \in Fid : Used(f)' <=> Used(f)
  BY DEF Used
<1>2. QED
  BY <1>1, Zenon DEF Node, Opened, Used

(* A step that is not answered with a listing has none.                    *)
LEMMA NoListing ==
    ASSUME out' \in {<<"ok">>, <<"error">>}
    PROVE  Listed' = <<>>
  BY DEF Listed

(* Each request does a step of the promise: one that is only answered.     *)
LEMMA OtherSteps ==
    ASSUME fids' = fids, out' \in {<<"ok">>, <<"error">>}
    PROVE  Promise!Other
  BY SameFids, NoListing, PromiseOther

LEMMA AttachSteps ==
    ASSUME FidInv, NEW f \in Fid, Attach(f)
    PROVE  Promise!Attach(f)
<1>1. /\ ~ Used(f) /\ out' = <<"ok">>
      /\ fids' = [fids EXCEPT ![f] = [qid |-> RootQid, aux |-> RootAux, open |-> FALSE]]
  BY DEF Attach, AttachAux
<1>2. RootQid \in Qid /\ RootAux \in Aux /\ RootAux.inode = RootInum
  BY FidFacts, RootTypes
<1>3. Node' = [Node EXCEPT ![f] = [named |-> RootQid.path, here |-> RootAux.inode,
                                   dir |-> RootQid.type = "dir"]] /\ Opened' = Opened
  BY <1>1, <1>2, Binds
<1>4. [named |-> RootQid.path, here |-> RootAux.inode, dir |-> RootQid.type = "dir"] = RootPlace
  <2>1. RootQid.path = RootInum /\ (RootQid.type = "dir") = TRUE
    BY DEF RootQid
  <2>2. QED
    BY <1>2, <2>1, Zenon DEF RootPlace
<1>5. Node[f] = Unused
  BY <1>1, NodeFacts
<1>6. Listed' = <<>>
  BY <1>1, NoListing
<1>7. Node' = [Node EXCEPT ![f] = RootPlace]
  BY <1>3, <1>4, Zenon
<1>8. QED
  BY <1>3, <1>5, <1>6, <1>7, PromiseAttach

LEMMA ClunkSteps ==
    ASSUME FidInv, NEW f \in Fid, Clunk(f)
    PROVE  Promise!Clunk(f)
<1>1. Used(f) /\ fids' = [fids EXCEPT ![f] = Unused] /\ out' = <<"ok">>
  BY DEF Clunk
<1>2. fids'[f] = Unused /\ \A g \in Fid \ {f} : fids'[g] = fids[g]
  BY <1>1, FidFacts
<1>3. ASSUME NEW g \in Fid
      PROVE  /\ (IF Used(g) THEN [named |-> fids[g].qid.path, here |-> fids[g].aux.inode,
                                  dir |-> fids[g].qid.type = "dir"]
                 ELSE Unused)' = [Node EXCEPT ![f] = Unused][g]
             /\ (Used(g) /\ fids[g].open)' <=> (Used(g) /\ fids[g].open /\ g # f)
  <2>1. CASE g = f
    <3>1. ~ Used(g)'
      BY <1>2, <2>1 DEF Used
    <3>2. [Node EXCEPT ![f] = Unused][g] = Unused
      BY <2>1 DEF Node
    <3>3. QED
      BY <2>1, <3>1, <3>2, Zenon
  <2>2. CASE g # f
    <3>1. fids'[g] = fids[g] /\ (Used(g)' <=> Used(g))
      BY <1>2, <2>2 DEF Used
    <3>2. [Node EXCEPT ![f] = Unused][g] = Node[g]
      BY <2>2 DEF Node
    <3>3. Node[g] = IF Used(g) THEN [named |-> fids[g].qid.path, here |-> fids[g].aux.inode,
                                     dir |-> fids[g].qid.type = "dir"]
                    ELSE Unused
      BY Zenon DEF Node
    <3>4. QED
      BY <2>2, <3>1, <3>2, <3>3, Zenon
  <2>3. QED
    BY <2>1, <2>2
<1>4. Opened' = Opened \ {f}
  BY <1>3 DEF Opened
<1>5. Node' = [g \in Fid |-> [Node EXCEPT ![f] = Unused][g]]
  BY <1>3, Zenon DEF Node
<1>6. [Node EXCEPT ![f] = Unused] = [g \in Fid |-> [Node EXCEPT ![f] = Unused][g]]
  <2>1. DOMAIN [Node EXCEPT ![f] = Unused] = Fid
    BY DEF Node
  <2>2. QED
    BY <2>1
<1>7. Node' = [Node EXCEPT ![f] = Unused]
  BY <1>5, <1>6, Zenon
<1>8. Node[f] # Unused /\ Listed' = <<>>
  BY <1>1, NodeFacts, NoListing
<1>9. QED
  BY <1>4, <1>7, <1>8, PromiseClunk

LEMMA OpenSteps ==
    ASSUME FidInv, NEW f \in Fid, Open(f)
    PROVE  Promise!Open(f) \/ Promise!Other
<1>1. CASE End("fatal")
  BY <1>1, OtherSteps DEF End
<1> DEFINE na == IF fids[f].qid.path = RootInum
                 THEN [fids[f].aux EXCEPT !.entry = RootEntry, !.count = RootCount]
                 ELSE fids[f].aux
<1>2. CASE fids' = [fids EXCEPT ![f].open = TRUE, ![f].aux = na] /\ out' = <<"ok">>
  <2>1. Used(f) /\ fids[f] \in [qid : Qid, aux : Aux, open : BOOLEAN] /\ fids[f].aux \in Aux
    BY FidFacts DEF Open, Closed
  <2>2. na.inode = fids[f].aux.inode /\ na \in Aux
    <3>1. RootEntry \in Buffers /\ heap[RootEntry] \in Seq(Entry)
      BY FidFacts, RootTypes
    <3>2. RootCount \in Nat
      BY <3>1 DEF RootCount
    <3>3. QED
      BY <2>1, <3>1, <3>2 DEF Aux
  <2> HIDE DEF na
  <2>3. fids' = [fids EXCEPT ![f] = [[fids[f] EXCEPT !.open = TRUE] EXCEPT !.aux = na]]
    BY <1>2, FidFacts
  <2> DEFINE fid == [[fids[f] EXCEPT !.open = TRUE] EXCEPT !.aux = na]
  <2>4. /\ fid \in [qid : Qid, aux : Aux, open : BOOLEAN]
        /\ fid.qid = fids[f].qid /\ fid.aux = na /\ fid.open = TRUE
    BY <2>1, <2>2
  <2>5. fid # Unused
    BY <2>4, UnusedAssumption
  <2>6. fids' = [fids EXCEPT ![f] = fid]
    BY <2>3
  <2> HIDE DEF fid
  <2>7. fids'[f] = fid /\ \A g \in Fid \ {f} : fids'[g] = fids[g]
    BY <2>6, FidFacts
  <2>8. ASSUME NEW g \in Fid
        PROVE  /\ (IF Used(g) THEN [named |-> fids[g].qid.path, here |-> fids[g].aux.inode,
                                    dir |-> fids[g].qid.type = "dir"]
                   ELSE Unused)' =
                  IF Used(g) THEN [named |-> fids[g].qid.path, here |-> fids[g].aux.inode,
                                   dir |-> fids[g].qid.type = "dir"]
                  ELSE Unused
               /\ (Used(g) /\ fids[g].open)' <=> (Used(g) /\ fids[g].open) \/ g = f
    <3>1. CASE g = f
      <4>1. /\ Used(g)' /\ Used(g) /\ fids'[g].qid = fids[g].qid
            /\ fids'[g].aux.inode = fids[g].aux.inode /\ fids'[g].open = TRUE
        BY <2>1, <2>2, <2>4, <2>5, <2>7, <3>1 DEF Used
      <4>2. QED
        BY <3>1, <4>1, Zenon
    <3>2. CASE g # f
      <4>1. fids'[g] = fids[g] /\ (Used(g)' <=> Used(g))
        BY <2>7, <3>2 DEF Used
      <4>2. QED
        BY <3>2, <4>1, Zenon
    <3>3. QED
      BY <3>1, <3>2
  <2>9. Node' = Node
    BY <2>8, Zenon DEF Node
  <2>10. Opened' = Opened \cup {f}
    BY <2>8 DEF Opened
  <2>11. Node[f] # Unused /\ Listed' = <<>>
    BY <1>2, <2>1, NodeFacts, NoListing
  <2>12. QED
    BY <2>9, <2>10, <2>11, PromiseOpen
<1>3. QED
  BY <1>1, <1>2 DEF Open

LEMMA ReadDirSteps ==
    ASSUME FidInv, NEW f \in Fid, ReadDir(f)
    PROVE  Promise!ReadDir(f) \/ Promise!Other
<1> DEFINE q == fids[f].qid
           a == fids[f].aux
           list == Cached(heap, a)
           reply(unread) == [k \in DOMAIN list |->
                                [name |-> IF k \in unread THEN "?" ELSE list[k].name,
                                 inum |-> list[k].inum]]
           n == IF q = RootQid THEN RootInum ELSE a.inode
<1>1. /\ Used(f) /\ fids[f].open /\ q.type = "dir" /\ UNCHANGED tree
      /\ \/ \E unread \in SUBSET {k \in DOMAIN list : list[k].long} :
               /\ faults' = faults + Cardinality(unread)
               /\ Answer(<<"entries", reply(unread)>>)
         \/ End("fatal")
  BY DEF ReadDir
<1>2. CASE End("fatal")
  BY <1>2, OtherSteps DEF End
<1>3. ASSUME NEW unread \in SUBSET {k \in DOMAIN list : list[k].long},
             faults' = faults + Cardinality(unread),
             Answer(<<"entries", reply(unread)>>)
      PROVE  Promise!ReadDir(f)
  <2>1. fids' = fids /\ out' = <<"entries", reply(unread)>>
    BY <1>3 DEF Answer
  <2>2. Node' = Node /\ Opened' = Opened
    BY <2>1, SameFids
  <2> DEFINE answer == reply(unread)
  <2>3. Listed' = answer
    <3> HIDE DEF answer
    <3>1. out' = <<"entries", answer>>
      BY <2>1 DEF answer
    <3>2. QED
      BY <3>1 DEF Listed
  <2>4. n \in Inum /\ list \in Seq(Entry) /\ Listing(list, n, faults)
    BY <1>1, ReadsListing
  <2>5. DOMAIN list = 1 .. Len(list) /\ Len(list) \in Nat
    BY <2>4
  <2>6. Len(answer) = Len(list) /\ DOMAIN answer = DOMAIN list
    <3>1. DOMAIN answer = 1 .. Len(list)
      BY <2>5
    <3> HIDE DEF answer
    <3>2. QED
      BY <2>5, <3>1
  <2>7. /\ faults \in Nat /\ Cardinality(unread) \in Nat
        /\ unread # {} => Cardinality(unread) # 0
    <3>1. unread \subseteq 1 .. Len(list) /\ Len(list) \in Int
      BY <2>5
    <3>2. IsFiniteSet(unread)
      BY <3>1, FS_Interval, FS_Subset, 1 \in Int
    <3>3. QED
      BY <3>2, FS_CardinalityType, FS_EmptySet, FidFacts
  <2>8. (unread # {} => faults' > 0) /\ (faults > 0 => faults' > 0)
    BY ONLY <1>3, <2>7, SMTT(30)
  <2>9. ASSUME NEW k \in DOMAIN list
        PROVE  /\ answer[k].inum = list[k].inum
               /\ answer[k].name = list[k].name \/ (faults' > 0 /\ list[k].long)
    <3>1. answer[k] = [name |-> IF k \in unread THEN "?" ELSE list[k].name,
                       inum |-> list[k].inum]
      BY <2>9
    <3> HIDE DEF answer, list
    <3>2. k \in unread => faults' > 0 /\ list[k].long
      BY <1>3, <2>8
    <3>3. QED
      BY <3>1, <3>2
  <2>10. PICK lost \in IF faults > 0 THEN SUBSET DOMAIN tree.parts[n] ELSE {{}} :
            list = Promise!Entries(n, lost)
    BY <2>4 DEF Listing
  <2> HIDE DEF answer, list
  <2>11. lost \in IF faults' > 0 THEN SUBSET DOMAIN tree.parts[n] ELSE {{}}
    BY <2>8, <2>10
  <2>12. Promise!Shows(Listed', list)
    BY <2>3, <2>6, <2>9 DEF Promise!Shows
  <2>13. Node[f] = [named |-> q.path, here |-> a.inode, dir |-> q.type = "dir"]
    BY <1>1, NodeFacts
  <2>14. n = IF Node[f].named = RootInum THEN RootInum ELSE Node[f].here
    <3>1. q \in Qid
      BY <1>1, FidFacts
    <3>2. q.path = RootInum <=> q = RootQid
      <4>1. q = [path |-> q.path, type |-> q.type]
        BY <3>1 DEF Qid
      <4>2. QED
        BY <1>1, <4>1 DEF RootQid
    <3>3. Node[f].named = q.path /\ Node[f].here = a.inode
      BY <2>13
    <3>4. QED
      BY <3>2, <3>3
  <2>15. Node[f].dir
    <3>1. (q.type = "dir") = TRUE
      BY <1>1
    <3>2. Node[f] = [named |-> q.path, here |-> a.inode, dir |-> TRUE]
      BY <2>13, <3>1, Zenon
    <3>3. QED
      BY <3>2
  <2>16. f \in Opened
    BY <1>1 DEF Opened
  <2> HIDE DEF n
  <2>17. \E x \in IF faults' > 0 THEN SUBSET DOMAIN tree.parts[n] ELSE {{}} :
            Promise!Shows(Listed', Promise!Entries(n, x))
    BY <2>10, <2>11, <2>12
  <2>18. QED
    BY <2>2, <2>14, <2>15, <2>16, <2>17, PromiseReadDir
<1>4. QED
  BY <1>1, <1>2, <1>3

(* A walk that gets all the way is one that is promised.                   *)
LEMMA WalkSteps ==
    ASSUME FidInv, Complete(tree), NEW f \in Fid, NEW nf \in Fid, NEW path \in Paths,
           Walk(f, nf, path)
    PROVE  Promise!Walk(f, nf, path) \/ Promise!Other
<1>1. Closed(f) /\ (nf = f \/ ~ Used(nf))
  BY WalkCases
<1>2. CASE Answer(<<"error">>) /\ UNCHANGED disk
  BY <1>2, OtherSteps DEF Answer
<1>3. ASSUME NEW s, PathGives(Start(f, nf), path, nf, s), Walked(nf, s)
      PROVE  Promise!Walk(f, nf, path) \/ Promise!Other
  <2>1. CASE s.res # "ok"
    <3>1. fids' = fids /\ out' \in {<<"ok">>, <<"error">>}
      BY <1>3, <2>1 DEF Walked, Answer, End
    <3>2. QED
      BY <3>1, OtherSteps
  <2>2. CASE s.res = "ok"
    <3>1. /\ fids' = [fids EXCEPT ![nf] = [qid |-> s.qid, aux |-> s.aux, open |-> FALSE]]
          /\ out' = <<"ok">> /\ faults' = s.faults
      BY <1>3, <2>2 DEF Walked, Answer, End
    <3>2. s.qid \in Qid /\ s.aux \in Aux
      BY <1>3 DEF PathGives, Walker
    <3>3. Used(nf) => ~ fids[nf].open
      BY <1>1 DEF Closed
    <3>4. Node' = [Node EXCEPT ![nf] = PlaceOf(s)] /\ Opened' = Opened
      BY <3>1, <3>2, <3>3, Binds DEF PlaceOf
    <3>5. PlaceOf(Start(f, nf)) = Node[f]
      <4>1. Node[f] = [named |-> fids[f].qid.path, here |-> fids[f].aux.inode,
                       dir |-> fids[f].qid.type = "dir"]
        BY <1>1, NodeFacts DEF Closed
      <4>2. /\ Start(f, nf).qid = fids[f].qid
            /\ Start(f, nf).aux.inode = fids[f].aux.inode
        BY <1>1, StartGood
      <4>3. QED
        BY <4>1, <4>2, Zenon DEF PlaceOf
    <3>6. PlaceOf(s) \in PromisedPath(Node[f], path, faults' > 0)
      <4> DEFINE failed == faults' > 0
      <4>1. failed \in BOOLEAN /\ (s.faults > 0 => failed)
        BY <3>1
      <4> HIDE DEF failed
      <4>2. PlaceOf(s) \in PromisedPath(PlaceOf(Start(f, nf)), path, failed)
        BY <1>3, <2>2, <4>1 DEF PathGives
      <4>3. QED
        BY <3>5, <4>2 DEF failed
    <3>7. Len(path) \in Nat
      BY DEF Paths
    <3>8. PlaceOf(s) \in Promise!Resolve(Node[f], path)
      BY <3>6, <3>7, PathPromised
    <3>9. Node[f] # Unused /\ f \notin Opened /\ (nf = f \/ Node[nf] = Unused)
      BY <1>1, NodeFacts DEF Closed, Opened
    <3>10. Listed' = <<>>
      BY <3>1, NoListing
    <3>11. QED
      BY <3>4, <3>8, <3>9, <3>10, PromiseWalk
  <2>3. QED
    BY <2>1, <2>2
<1>4. QED
  BY <1>2, <1>3, WalkCases

(* Loads that have failed stay so.                                         *)
LEMMA FaultsStay ==
    ASSUME FidInv, NEW f \in Fid,
           \/ Attach(f) \/ Open(f) \/ ReadDir(f) \/ Stat(f) \/ Clunk(f)
           \/ \E nf \in Fid, path \in Paths : Walk(f, nf, path)
    PROVE  faults > 0 => faults' > 0
<1>1. faults \in Nat
  BY FidFacts
<1>2. CASE UNCHANGED disk
  BY <1>2 DEF disk
<1>3. CASE ReadDir(f)
  <2>1. faults <= faults' /\ faults' \in 0 .. MaxFaults
    BY <1>3, ReadDirFaults
  <2>2. QED
    BY ONLY <1>1, <2>1, BoundsAssumption
<1>4. ASSUME NEW nf \in Fid, NEW path \in Paths, Walk(f, nf, path)
      PROVE  faults > 0 => faults' > 0
  <2>1. SUFFICES ASSUME NEW s, PathGives(Start(f, nf), path, nf, s), Walked(nf, s)
                 PROVE  faults > 0 => faults' > 0
    BY <1>2, <1>4, WalkCases
  <2>2. Start(f, nf).faults = faults
    BY <1>4, WalkCases, StartGood
  <2>3. faults <= s.faults /\ faults' = s.faults /\ s \in Walker
    BY <2>1, <2>2 DEF PathGives, Walked
  <2>4. s.faults \in 0 .. MaxFaults
    BY <2>3 DEF Walker
  <2>5. faults <= faults' /\ faults' \in 0 .. MaxFaults
    BY <2>3, <2>4
  <2>6. QED
    BY ONLY <1>1, <2>5, BoundsAssumption
<1>5. QED
  BY <1>2, <1>3, <1>4 DEF Attach, Open, Stat, Clunk

(* Every run of the server over a file system that has the inodes it names *)
(* is one of the naming that is promised: caches, buffers, clones, and the *)
(* table are invisible to its clients.                                     *)
THEOREM FidsNameNodes == Spec /\ Complete(tree) => AbsSpec
<1>1. Init => Promise!Init
  <2>1. Init => (\A f \in Fid : ~ Used(f)) /\ out = <<"ok">>
    BY DEF Init, Used
  <2>2. (\A f \in Fid : ~ Used(f)) => Node = [f \in Fid |-> Unused] /\ Opened = {}
    BY DEF Node, Opened
  <2>3. out = <<"ok">> => Listed = <<>>
    BY DEF Listed
  <2>4. QED
    BY <2>1, <2>2, <2>3, PromiseInit
<1> DEFINE seen == <<tree, Node, Opened, Listed, faults > 0>>
<1>2. FidInv /\ Complete(tree) /\ [Next]_vars => Complete(tree)'
  <2>1. SUFFICES ASSUME [Next]_vars PROVE tree' = tree
    BY DEF Complete
  <2>2. QED
    BY <2>1, TreeStays
<1>3. FidInv /\ FidInv' /\ Complete(tree) /\ [Next]_vars => [Promise!Next]_seen
  <2>1. SUFFICES ASSUME FidInv, FidInv', Complete(tree), [Next]_vars
                 PROVE  [Promise!Next]_seen
    OBVIOUS
  <2>2. CASE UNCHANGED vars
    <3>1. fids' = fids /\ tree' = tree /\ faults' = faults /\ out' = out
      BY <2>2 DEF vars, disk
    <3>2. Node' = Node /\ Opened' = Opened /\ Listed' = Listed
      BY <3>1, SameFids DEF Listed
    <3>3. (faults > 0)' = (faults > 0)
      BY <3>1
    <3>4. UNCHANGED seen
      BY <3>1, <3>2, <3>3, Zenon
    <3>5. QED
      BY <3>4, Zenon
  <2>3. CASE Next
    <3>1. PICK f \in Fid :
             \/ Attach(f) \/ Open(f) \/ ReadDir(f) \/ Stat(f) \/ Clunk(f)
             \/ \E nf \in Fid, path \in Paths : Walk(f, nf, path)
      BY <2>3 DEF Next
    <3>2. tree' = tree
      BY <2>3, TreeStays
    <3>3. faults > 0 => faults' > 0
      BY <2>1, <3>1, FaultsStay
    <3>4. \/ Promise!Other \/ Promise!Attach(f) \/ Promise!Open(f) \/ Promise!ReadDir(f)
          \/ Promise!Clunk(f)
          \/ \E nf \in Fid, path \in Paths : Promise!Walk(f, nf, path)
      <4>1. CASE Stat(f)
        <5>1. fids' = fids /\ out' \in {<<"ok">>, <<"error">>}
          BY <4>1 DEF Stat, Answer
        <5>2. QED
          BY <5>1, OtherSteps
      <4>2. ASSUME NEW nf \in Fid, NEW path \in Paths, Walk(f, nf, path)
            PROVE  Promise!Walk(f, nf, path) \/ Promise!Other
        BY <2>1, <4>2, WalkSteps
      <4>3. QED
        BY <2>1, <3>1, <4>1, <4>2, AttachSteps, OpenSteps, ReadDirSteps, ClunkSteps, Zenon
    <3>5. Promise!Paths = Paths
      BY DEF Promise!Paths, Paths
    <3>6. Promise!Next
      BY <3>2, <3>3, <3>4, <3>5, Zenon DEF Promise!Next
    <3>7. QED
      BY <3>6
  <2>4. QED
    BY <2>1, <2>2, <2>3
<1>4. QED
  BY <1>1, <1>2, <1>3, FidsGood, PTL DEF Spec, AbsSpec, Promise!Spec, Node, Opened, Listed

=============================================================================
