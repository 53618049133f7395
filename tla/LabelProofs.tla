----------------------------- MODULE LabelProofs -----------------------------
(***************************************************************************)
(* Theorems about Label.                                                   *)
(***************************************************************************)
EXTENDS Label, TLAPS, FiniteSetTheorems, SequenceTheorems, WellFoundedInduction

(* A set of natural numbers with an element has a least one.               *)
LEMMA Least ==
    ASSUME NEW T \in SUBSET Nat, T # {}
    PROVE  \E k \in T : \A j \in T : k <= j
<1>1. PICK x \in T : \A y \in T : <<y, x>> \notin OpToRel(<, Nat)
  BY NatLessThanWellFounded, WFMin
<1>2. \A y \in T : ~ (y < x)
  BY <1>1 DEF OpToRel
<1> QED BY <1>2

(* A set of numbers from 0 to n with an element has a greatest one.        *)
LEMMA Greatest ==
    ASSUME NEW n \in Nat, NEW T, T \subseteq 0 .. n, T # {}
    PROVE  \E k \in T : \A j \in T : j <= k
<1>1. PICK U \in SUBSET Nat : U = {n - k : k \in T}
  BY {n - k : k \in T} \in SUBSET Nat
<1>2. U # {}
  BY <1>1
<1>3. PICK x \in U : \A y \in U : x <= y
  BY <1>2, Least
<1>5. PICK k \in T : x = n - k
  BY <1>1
<1>6. \A j \in T : n - j \in U
  BY <1>1
<1> QED BY <1>3, <1>5, <1>6

(* What InsertAt makes of a sequence.                                      *)
LEMMA Inserted ==
    ASSUME NEW S, NEW s \in Seq(S), NEW k \in 1 .. Len(s) + 1, NEW e \in S
    PROVE  /\ InsertAt(s, k, e) \in Seq(S)
           /\ Len(InsertAt(s, k, e)) = Len(s) + 1
           /\ \A j \in 1 .. Len(s) + 1 :
                 InsertAt(s, k, e)[j] = IF j < k THEN s[j] ELSE IF j = k THEN e ELSE s[j - 1]
<1> DEFINE a == SubSeq(s, 1, k - 1)
           b == <<e>>
           c == SubSeq(s, k, Len(s))
           d == a \o b
           f == d \o c
<1>1. a \in Seq(S) /\ Len(a) = k - 1 /\ \A j \in 1 .. k - 1 : a[j] = s[j]
  <2>1. \A j \in 1 .. k - 1 : s[j] \in S
    BY ElementOfSeq
  <2> QED BY <2>1, SubSeqProperties
<1>2. c \in Seq(S) /\ Len(c) = Len(s) - k + 1 /\ \A j \in 1 .. Len(s) - k + 1 : c[j] = s[k + j - 1]
  <2>1. \A j \in k .. Len(s) : s[j] \in S
    BY ElementOfSeq
  <2> QED BY <2>1, SubSeqProperties
<1>3. b \in Seq(S) /\ Len(b) = 1 /\ b[1] = e
  OBVIOUS
<1> HIDE DEF a, b, c, d, f
<1>4. /\ d \in Seq(S) /\ Len(d) = k
      /\ \A j \in 1 .. k : d[j] = IF j <= k - 1 THEN a[j] ELSE b[j - (k - 1)]
  <2>1. Len(a) + Len(b) = k
    BY <1>1, <1>3
  <2>2. /\ d \in Seq(S) /\ Len(d) = Len(a) + Len(b)
        /\ \A j \in 1 .. Len(a) + Len(b) :
              d[j] = IF j <= Len(a) THEN a[j] ELSE b[j - Len(a)]
    BY <1>1, <1>3, ConcatProperties, Zenon DEF d
  <2> QED BY <1>1, <2>1, <2>2
<1>5. /\ f \in Seq(S) /\ Len(f) = Len(s) + 1
      /\ \A j \in 1 .. Len(s) + 1 :
            f[j] = IF j <= k THEN d[j] ELSE c[j - k]
  BY <1>2, <1>4, ConcatProperties, k + Len(c) = Len(s) + 1 DEF f
<1>6. InsertAt(s, k, e) = f
  BY DEF InsertAt, a, b, c, d, f
<1>7. \A j \in 1 .. Len(s) + 1 :
         f[j] = IF j < k THEN s[j] ELSE IF j = k THEN e ELSE s[j - 1]
  <2> SUFFICES ASSUME NEW j \in 1 .. Len(s) + 1
               PROVE  f[j] = IF j < k THEN s[j] ELSE IF j = k THEN e ELSE s[j - 1]
    OBVIOUS
  <2>1. CASE j < k
    BY <2>1, <1>1, <1>4, <1>5
  <2>2. CASE j = k
    <3>1. f[j] = d[j]
      BY <1>5, <2>2
    <3>2. d[j] = b[j - (k - 1)] /\ j - (k - 1) = 1
      BY <1>4, <2>2
    <3> QED BY <2>2, <3>1, <3>2, <1>3
  <2>3. CASE j > k
    <3>1. j - k \in 1 .. Len(s) - k + 1 /\ k + (j - k) - 1 = j - 1
      BY <2>3
    <3>2. f[j] = c[j - k]
      BY <2>3, <1>5
    <3>3. c[j - k] = s[k + (j - k) - 1]
      BY <3>1, <1>2
    <3>4. s[k + (j - k) - 1] = s[j - 1]
      BY <3>1
    <3> QED BY <2>3, <3>2, <3>3, <3>4
  <2> QED BY <2>1, <2>2, <2>3
<1> QED BY <1>5, <1>6, <1>7

(* The list is in the order of starts. *)
Ordered == \A j, k \in DOMAIN part : j < k => part[j].start <= part[k].start

(* Place() is behind those that do not start later than p and before those *)
(* that do, and it is in the list or right behind it.                      *)
LEMMA PlaceIs ==
    ASSUME part \in Seq(Part), Ordered, NEW p \in Part
    PROVE  /\ Place(p) \in 1 .. Len(part) + 1
           /\ \A j \in 1 .. Len(part) :
                 part[j].start <= p.start <=> j < Place(p)
<1> DEFINE Good(k) == k = 0 \/ part[k].start <= p.start
           T == {k \in 0 .. Len(part) : Good(k)}
<1>1. Len(part) \in Nat /\ DOMAIN part = 1 .. Len(part)
  OBVIOUS
<1>2. \A j \in 1 .. Len(part) : part[j].start \in Int
  <2>1. \A j \in 1 .. Len(part) : part[j] \in Part
    BY ElementOfSeq
  <2> QED BY <2>1 DEF Part
<1>3. p.start \in Int
  BY DEF Part
<1>4. PICK k \in T : \A j \in T : j <= k
  <2>1. 0 \in T
    BY <1>1
  <2> QED BY <1>1, <2>1, Greatest
<1>5. \E m \in 0 .. Len(part) :
         /\ m = 0 \/ part[m].start <= p.start
         /\ \A j \in m + 1 .. Len(part) : part[j].start > p.start
  <2>1. \A j \in k + 1 .. Len(part) : part[j].start > p.start
    BY <1>1, <1>2, <1>3, <1>4
  <2> QED BY <1>4, <2>1
<1>6. PICK m \in 0 .. Len(part) :
         /\ Place(p) = 1 + m
         /\ m = 0 \/ part[m].start <= p.start
         /\ \A j \in m + 1 .. Len(part) : part[j].start > p.start
  BY <1>5 DEF Place
<1>7. Place(p) \in 1 .. Len(part) + 1
  BY <1>1, <1>6
<1>8. ASSUME NEW j \in 1 .. Len(part)
      PROVE  part[j].start <= p.start <=> j < Place(p)
  <2>1. CASE j <= m
    <3>1. part[j].start <= part[m].start
      BY <1>1, <1>2, <2>1 DEF Ordered
    <3>2. part[m].start <= p.start
      BY <1>6, <2>1
    <3> QED BY <1>2, <1>3, <1>6, <2>1, <3>1, <3>2
  <2>2. CASE j > m
    <3>1. part[j].start > p.start
      BY <1>6, <2>2
    <3> QED BY <1>2, <1>3, <1>6, <2>2, <3>1
  <2> QED BY <2>1, <2>2
<1> QED BY <1>7, <1>8

(* A name that is taken has a second one that is not.                      *)
LEMMA SecondNameIs ==
    ASSUME part \in Seq(Part), lit \in [Range(Literals) -> Names], NEW b \in Bases,
           Taken(lit[b])
    PROVE  SecondName(b) \in Names
<1> DEFINE s == lit[b][1]
           n == lit[b][2]
           S == 0 .. Len(part)
           Free == {k \in 1 .. Len(part) : ~ Taken(<<s, n + k>>)}
<1>1. /\ b \in Range(Literals) /\ "%s.%d" \in Range(Literals)
      /\ Junk \in Names
  <2>1. DOMAIN Literals = 1 .. 7 /\ Literals[7] = "%s.%d"
    BY DEF Literals
  <2>2. b \in Range(Literals)
    BY <2>1 DEF Bases, Range
  <2>3. "%s.%d" \in Range(Literals)
    BY <2>1 DEF Range
  <2>4. Junk \in Names
    <3>1. Junk[1] \in Words /\ Junk = <<Junk[1], 0>>
      BY WordsAssumption DEF Junk
    <3> QED BY <3>1 DEF Names
  <2> QED BY <2>2, <2>3, <2>4
<1>2. s \in Words /\ n \in Nat /\ lit[b] = <<s, n>>
  BY <1>1 DEF Names
<1>3. Len(part) \in Nat /\ DOMAIN part = 1 .. Len(part)
  OBVIOUS
<1> HIDE DEF s, n
<1>4. Free # {}
  <2>1. SUFFICES ASSUME \A k \in 1 .. Len(part) : Taken(<<s, n + k>>)
                 PROVE  FALSE
    OBVIOUS
  <2>2. \A k \in S : Taken(<<s, n + k>>)
    <3>1. n + 0 = n
      BY <1>2
    <3>2. Taken(<<s, n + 0>>)
      BY <1>2, <3>1
    <3>3. \A k \in S : k = 0 \/ k \in 1 .. Len(part)
      BY <1>3
    <3> QED BY <2>1, <3>2, <3>3
  <2> DEFINE f == [k \in S |-> CHOOSE j \in DOMAIN part : part[j].name = <<s, n + k>>]
  <2>3. \A k \in S : f[k] \in 1 .. Len(part) /\ part[f[k]].name = <<s, n + k>>
    BY <2>2, <1>3 DEF Taken
  <2>4. f \in [S -> 1 .. Len(part)]
    BY <2>3
  <2> HIDE DEF f
  <2>5. /\ IsFiniteSet(S) /\ Cardinality(S) = Len(part) + 1
        /\ IsFiniteSet(1 .. Len(part)) /\ Cardinality(1 .. Len(part)) = Len(part)
    <3>1. IsFiniteSet(S) /\ Cardinality(S) = IF 0 > Len(part) THEN 0 ELSE Len(part) - 0 + 1
      BY <1>3, FS_Interval
    <3>2. /\ IsFiniteSet(1 .. Len(part))
          /\ Cardinality(1 .. Len(part)) = IF 1 > Len(part) THEN 0 ELSE Len(part) - 1 + 1
      BY <1>3, FS_Interval
    <3> QED BY <1>3, <3>1, <3>2
  <2>6. PICK x, y \in S : x # y /\ f[x] = f[y]
    <3>1. Cardinality(1 .. Len(part)) < Cardinality(S)
      BY <1>3, <2>5
    <3> QED BY <2>4, <2>5, <3>1, FS_PigeonHole
  <2>7. <<s, n + x>> = <<s, n + y>>
    BY <2>3, <2>6
  <2> QED BY <2>6, <2>7, <1>2
<1>5. PICK k \in Free : \A j \in Free : k <= j
  <2>1. Free \in SUBSET Nat
    OBVIOUS
  <2> HIDE DEF Free
  <2> QED BY <1>4, <2>1, Least
<1>6. \E name \in {s} \X (n + 1 .. n + Len(part)) :
         /\ ~ Taken(name)
         /\ \A m \in n + 1 .. name[2] - 1 : Taken(<<s, m>>)
  <2>1. <<s, n + k>> \in {s} \X (n + 1 .. n + Len(part)) /\ ~ Taken(<<s, n + k>>)
    <3>1. n + k \in n + 1 .. n + Len(part)
      BY <1>2, <1>3, <1>5
    <3> QED BY <1>5, <3>1
  <2>2. ASSUME NEW m \in n + 1 .. <<s, n + k>>[2] - 1
        PROVE  Taken(<<s, m>>)
    <3>1. m - n \in 1 .. Len(part) /\ m - n < k /\ n + (m - n) = m
      BY <1>2, <1>3, <1>5
    <3>2. m - n \notin Free
      BY <3>1, <1>3, <1>5
    <3> QED BY <3>1, <3>2
  <2> QED BY <2>1, <2>2
<1>7. SecondName(b) \in {Junk} \cup ({s} \X (n + 1 .. n + Len(part)))
  BY <1>6 DEF SecondName, s, n
<1>8. {s} \X (n + 1 .. n + Len(part)) \subseteq Names
  <2>1. n + 1 .. n + Len(part) \subseteq Nat
    BY <1>2, <1>3
  <2> QED BY <1>2, <2>1 DEF Names
<1> QED BY <1>1, <1>7, <1>8

-----------------------------------------------------------------------------
(* What the first n entries of the label say. *)
ExtentsOf(n) == {Extent(label.entries[j]) : j \in {k \in 1 .. n : Counts(label.entries[k])}}
Extents == {<<part[k].start, part[k].end>> : k \in DOMAIN part}

(* The list while it is read: in order, without a name twice, and with the *)
(* extents of the entries so far.                                          *)
ReadInv ==
    /\ \A j, k \in DOMAIN part :
          j < k => part[j].start <= part[k].start /\ part[j].name # part[k].name
    /\ pc \in {"reading", "diffing"} =>
          /\ i <= Len(label.entries) + 1
          /\ InRange => Extents = ExtentsOf(i - 1)

(* What ctldiff() believes of the device. *)
DiffInv ==
    /\ Self \in table
    /\ \A p \in ctlpart : p \in Part /\ Within(Global(p), Self) /\ p.name # Self.name
    /\ pc \in {"reading", "diffing"} => ~ ctlread /\ ctlpart = {} /\ ~ waserr
    /\ pc = "deleting" =>
          /\ i = 1
          /\ \A p \in stale : p \in ctlpart /\ p \notin Unchanged(ctlpart)
          /\ IF ctlread THEN CtlParts \subseteq ctlpart ELSE stale = {}
          /\ ctlread /\ ~ waserr => \A p \in CtlParts : p \in stale \/ p \in Unchanged(ctlpart)
    /\ pc \in {"adding", "done"} /\ ~ waserr =>
          /\ \A k \in DOMAIN part : k < i => Global(part[k]) \in table
          /\ ctlread => \A p \in CtlParts : Equiv(p) \/ p \in Unchanged(ctlpart)
    /\ pc = "done" => i > Len(part)

LabelInv == TypeOK /\ ReadInv /\ DiffInv

-----------------------------------------------------------------------------
(* The entries of the label are as they should be. *)
LEMMA EntryIs ==
    ASSUME TypeOK
    PROVE  /\ Len(label.entries) \in Nat
           /\ DOMAIN label.entries = 1 .. Len(label.entries)
           /\ \A n \in 1 .. Len(label.entries) :
                 /\ label.entries[n].type \in Bases \cup {"unused"}
                 /\ label.entries[n].name \in Names
                 /\ label.entries[n].start \in Nat
                 /\ label.entries[n].len \in Nat
<1>1. label.entries \in Seq(Entry)
  BY LabelsAssumption DEF TypeOK, LabelType
<1>2. \A n \in 1 .. Len(label.entries) : label.entries[n] \in Entry
  BY <1>1, ElementOfSeq
<1>3. \A e \in Entry : /\ e.type \in Bases \cup {"unused"} /\ e.name \in Names
                       /\ e.start \in Nat /\ e.len \in Nat
  BY DEF Entry
<1> QED BY <1>1, <1>2, <1>3, LenProperties

(* The elements of the list. *)
LEMMA PartIs ==
    ASSUME TypeOK
    PROVE  /\ Len(part) \in Nat
           /\ DOMAIN part = 1 .. Len(part)
           /\ \A k \in 1 .. Len(part) : part[k] \in Part
<1>1. part \in Seq(Part)
  BY DEF TypeOK
<1> QED BY <1>1, LenProperties, ElementOfSeq

(* The fields of a partition. *)
LEMMA PartFields ==
    ASSUME NEW p \in Part
    PROVE  p.name \in Names /\ p.start \in Int /\ p.end \in Int
BY DEF Part

LEMMA FreshIs == Fresh \in [Range(Literals) -> Names]
<1>1. \A b \in Range(Literals) : <<b, 0>> \in Names
  BY WordsAssumption DEF Names
<1> QED BY <1>1 DEF Fresh

LEMMA AsIntIs ==
    ASSUME NEW x \in Int
    PROVE  /\ AsInt(x) \in Int
           /\ 0 <= x /\ x < IntHalf => AsInt(x) = x
<1>1. IntHalf \in Nat /\ IntHalf > 0
  BY SizesAssumption
<1>2. (x + IntHalf) % (2 * IntHalf) \in Int
  BY <1>1
<1>3. ASSUME 0 <= x, x < IntHalf
      PROVE  (x + IntHalf) % (2 * IntHalf) = x + IntHalf
  BY <1>1, <1>3
<1> QED BY <1>1, <1>2, <1>3 DEF AsInt

(* addpart() refuses, or it puts p where it belongs. *)
LEMMA AddPartDoes ==
    ASSUME TypeOK, ReadInv, NEW p \in Part, AddPart(p)
    PROVE  \/ pc' = "failed" /\ i' = i /\ part' = part
           \/ /\ pc' = pc /\ i' = i + 1
              /\ part' \in Seq(Part) /\ Len(part') = Len(part) + 1 /\ Len(part') <= MaxPart
              /\ \A j, k \in DOMAIN part' :
                    j < k => part'[j].start <= part'[k].start /\ part'[j].name # part'[k].name
              /\ Extents' = Extents \cup {<<p.start, p.end>>}
<1>1. part \in Seq(Part) /\ Ordered
  BY DEF TypeOK, ReadInv, Ordered
<1>2. /\ Len(part) \in Nat /\ DOMAIN part = 1 .. Len(part)
      /\ \A k \in 1 .. Len(part) :
            part[k] \in Part /\ part[k].start \in Int
  BY PartIs, PartFields
<1>3. p.start \in Int
  BY PartFields
<1> DEFINE at == Place(p)
<1>4. /\ at \in 1 .. Len(part) + 1
      /\ \A j \in 1 .. Len(part) : part[j].start <= p.start <=> j < at
  BY <1>1, PlaceIs
<1> HIDE DEF at
<1>5. SUFFICES ASSUME ~ Taken(p.name), ~ Full, part' = InsertAt(part, at, p), i' = i + 1, pc' = pc
               PROVE  /\ part' \in Seq(Part) /\ Len(part') = Len(part) + 1 /\ Len(part') <= MaxPart
                      /\ \A j, k \in DOMAIN part' :
                            j < k => part'[j].start <= part'[k].start /\ part'[j].name # part'[k].name
                      /\ Extents' = Extents \cup {<<p.start, p.end>>}
  BY Zenon DEF AddPart, at
<1>6. /\ part' \in Seq(Part) /\ Len(part') = Len(part) + 1
      /\ \A j \in 1 .. Len(part) + 1 :
            part'[j] = IF j < at THEN part[j] ELSE IF j = at THEN p ELSE part[j - 1]
  BY <1>1, <1>4, <1>5, Inserted, SMTT(30)
<1>7. DOMAIN part' = 1 .. Len(part) + 1
  BY <1>6, LenProperties
<1>8. Len(part') <= MaxPart
  BY <1>2, <1>5, <1>6, SizesAssumption DEF Full
<1>9. \A j \in 1 .. Len(part) + 1 :
         \/ j < at /\ j \in 1 .. Len(part) /\ part'[j] = part[j]
         \/ j = at /\ part'[j] = p
         \/ j > at /\ j - 1 \in 1 .. Len(part) /\ j - 1 >= at /\ part'[j] = part[j - 1]
  BY <1>2, <1>4, <1>6
<1>10. \A j, k \in 1 .. Len(part) :
          j < k => part[j].start <= part[k].start /\ part[j].name # part[k].name
  BY <1>2 DEF ReadInv
<1>11. \A j \in 1 .. Len(part) : part[j].name # p.name
  BY <1>2, <1>5 DEF Taken
<1>12. \A j \in 1 .. Len(part) : /\ j < at => part[j].start <= p.start
                                 /\ j >= at => p.start <= part[j].start
  BY <1>2, <1>3, <1>4
<1>13. ASSUME NEW j \in 1 .. Len(part) + 1, NEW k \in 1 .. Len(part) + 1, j < k
       PROVE  part'[j].start <= part'[k].start /\ part'[j].name # part'[k].name
  <2>1. CASE k < at
    BY <1>2, <1>4, <1>9, <1>10, <1>13, <2>1
  <2>2. CASE k = at
    BY <1>2, <1>4, <1>9, <1>11, <1>12, <1>13, <2>2
  <2>3. CASE k > at /\ j < at
    <3>1. j \in 1 .. Len(part) /\ k - 1 \in 1 .. Len(part) /\ j < k - 1
      BY <1>2, <1>4, <2>3
    <3>2. part'[j] = part[j] /\ part'[k] = part[k - 1]
      BY <1>4, <1>9, <2>3
    <3> QED BY <1>10, <3>1, <3>2
  <2>4. CASE k > at /\ j = at
    <3>1. k - 1 \in 1 .. Len(part) /\ k - 1 >= at
      BY <1>2, <1>4, <2>4
    <3>2. part'[j] = p /\ part'[k] = part[k - 1]
      BY <1>4, <1>9, <2>4
    <3> QED BY <1>11, <1>12, <3>1, <3>2
  <2>5. CASE k > at /\ j > at
    <3>1. j - 1 \in 1 .. Len(part) /\ k - 1 \in 1 .. Len(part) /\ j - 1 < k - 1
      BY <1>2, <1>4, <1>13, <2>5
    <3>2. part'[j] = part[j - 1] /\ part'[k] = part[k - 1]
      BY <1>4, <1>9, <2>5
    <3> QED BY <1>10, <3>1, <3>2
  <2> QED BY <1>4, <2>1, <2>2, <2>3, <2>4, <2>5
<1>14. Extents' = Extents \cup {<<p.start, p.end>>}
  <2>1. ASSUME NEW j \in 1 .. Len(part) + 1
        PROVE  <<part'[j].start, part'[j].end>> \in Extents \cup {<<p.start, p.end>>}
    BY <1>2, <1>9 DEF Extents
  <2>2. ASSUME NEW j \in 1 .. Len(part)
        PROVE  \E k \in 1 .. Len(part) + 1 : part'[k] = part[j]
    <3>1. CASE j < at
      BY <1>2, <1>6, <3>1
    <3>2. CASE j >= at
      <4>1. j + 1 \in 1 .. Len(part) + 1 /\ ~ (j + 1 < at) /\ j + 1 # at /\ (j + 1) - 1 = j
        BY <1>2, <1>4, <3>2
      <4> QED BY <1>6, <4>1
    <3> QED BY <1>4, <3>1, <3>2
  <2>3. part'[at] = p
    BY <1>4, <1>6
  <2>4. <<p.start, p.end>> \in Extents'
    BY <1>4, <1>7, <2>3 DEF Extents
  <2>5. Extents \subseteq Extents'
    BY <1>2, <1>7, <2>2 DEF Extents
  <2>6. Extents' \subseteq Extents \cup {<<p.start, p.end>>}
    BY <1>7, <2>1 DEF Extents
  <2> QED BY <2>4, <2>5, <2>6
<1> QED BY <1>6, <1>7, <1>8, <1>13, <1>14

-----------------------------------------------------------------------------
(* Moving a partition to where the disk partition begins, and back. *)
LEMMA LocalGlobal ==
    ASSUME Self \in Part, NEW p \in Part
    PROVE  /\ Local(p) \in Part /\ Global(p) \in Part
           /\ Local(p).name = p.name /\ Global(p).name = p.name
           /\ Global(p).start = p.start + Self.start /\ Global(p).end = p.end + Self.start
           /\ Local(p).start = p.start - Self.start /\ Local(p).end = p.end - Self.start
           /\ Local(Global(p)) = p /\ Global(Local(p)) = p
<1>1. /\ p = [name |-> p.name, start |-> p.start, end |-> p.end]
      /\ p.name \in Names /\ p.start \in Int /\ p.end \in Int /\ Self.start \in Int
  BY DEF Part
<1>2. Local(p) = [name |-> p.name, start |-> p.start - Self.start, end |-> p.end - Self.start]
  BY <1>1 DEF Local, Moved
<1>3. Global(p) = [name |-> p.name, start |-> p.start + Self.start, end |-> p.end + Self.start]
  BY <1>1 DEF Global, Moved
<1>4. Local(p) \in Part /\ Global(p) \in Part
  BY <1>1, <1>2, <1>3 DEF Part
<1>5. Local(Global(p)) = [name |-> p.name, start |-> (p.start + Self.start) - Self.start,
                          end |-> (p.end + Self.start) - Self.start]
  BY <1>1, <1>3 DEF Local, Moved
<1>6. Global(Local(p)) = [name |-> p.name, start |-> (p.start - Self.start) + Self.start,
                          end |-> (p.end - Self.start) + Self.start]
  BY <1>1, <1>2 DEF Global, Moved
<1>7. /\ (p.start + Self.start) - Self.start = p.start /\ (p.end + Self.start) - Self.start = p.end
      /\ (p.start - Self.start) + Self.start = p.start /\ (p.end - Self.start) + Self.start = p.end
  BY <1>1
<1> QED BY <1>1, <1>4, <1>5, <1>6, <1>7, <1>2, <1>3

(* What the device may have at first is of partitions, and Self is one.    *)
LEMMA InitialTable ==
    ASSUME NEW t \in Tables
    PROVE  Self \in t /\ \A p \in t : p \in Part
BY TablesAssumption

(* Reading an entry keeps the types of the list and its place. *)
LEMMA TypeRead ==
    ASSUME TypeOK, ReadInv, pc = "reading", i <= Len(label.entries),
           NEW p \in Part, AddPart(p)
    PROVE  /\ pc' \in {"reading", "failed"}
           /\ i' \in 1 .. Len(label.entries) + 1 + Len(part')
           /\ part' \in Seq(Part) /\ Len(part') <= MaxPart
<1>1. Len(label.entries) \in Nat /\ Len(part) \in Nat
  BY EntryIs, PartIs
<1>2. i \in 1 .. Len(label.entries) + 1 + Len(part) /\ part \in Seq(Part) /\ Len(part) <= MaxPart
  BY DEF TypeOK
<1>3. CASE pc' = "failed" /\ i' = i /\ part' = part
  BY <1>2, <1>3
<1>4. CASE /\ pc' = pc /\ i' = i + 1
           /\ part' \in Seq(Part) /\ Len(part') = Len(part) + 1 /\ Len(part') <= MaxPart
  <2>1. i + 1 \in 1 .. Len(label.entries) + 1 + (Len(part) + 1)
    <3>1. \A a, b \in Nat : \A n \in 1 .. a + 1 + b : n + 1 \in 1 .. a + 1 + (b + 1)
      OBVIOUS
    <3> QED BY ONLY <1>1, <1>2, <3>1
  <2> QED BY <1>4, <2>1
<1> QED BY <1>3, <1>4, AddPartDoes

LEMMA TypeInit == Init => TypeOK /\ ReadInv /\ DiffInv
<1> SUFFICES ASSUME Init PROVE TypeOK /\ ReadInv /\ DiffInv
  OBVIOUS
<1>1. /\ part = <<>> /\ <<>> \in Seq(Part) /\ Len(part) = 0 /\ DOMAIN part = {}
  BY DEF Init
<1>2. label.entries \in Seq(Entry) /\ Len(label.entries) \in Nat
  BY LabelsAssumption DEF Init, LabelType
<1>3. 0 <= MaxPart
  BY SizesAssumption
<1>4. TypeOK
  <2>1. i \in 1 .. Len(label.entries) + 1 + Len(part)
    BY <1>1, <1>2 DEF Init
  <2>2. \A p \in table : p \in Part
    BY InitialTable DEF Init
  <2>3. lit \in [Range(Literals) -> Names]
    BY FreshIs DEF Init
  <2> QED BY <1>1, <1>3, <2>1, <2>2, <2>3 DEF Init, TypeOK
<1>5. ReadInv
  BY <1>1 DEF Init, ReadInv
<1>6. DiffInv
  BY InitialTable DEF Init, DiffInv
<1> QED BY <1>4, <1>5, <1>6

(* The name of the entry that is read next. *)
LEMMA NewNameIs ==
    ASSUME TypeOK, ReadSlot, i \in 1 .. Len(label.entries), label.entries[i].type # "unused"
    PROVE  /\ lit' \in [Range(Literals) -> Names]
           /\ lit'[label.entries[i].type] \in Names
<1> DEFINE e == label.entries[i]
<1>1. e.type \in Bases
  BY EntryIs
<1>2. lit \in [Range(Literals) -> Names] /\ part \in Seq(Part)
  BY DEF TypeOK
<1>3. lit' \in [Range(Literals) -> Names]
  <2>1. CASE Taken(lit[e.type])
    <3>1. Rename(e.type)
      BY <2>1 DEF ReadSlot
    <3>2. SecondName(e.type) \in Names
      BY <1>1, <1>2, <2>1, SecondNameIs
    <3>3. Junk \in Names
      BY WordsAssumption DEF Junk, Names
    <3>4. PICK T : lit' = [x \in DOMAIN lit |->
              IF x = e.type THEN SecondName(e.type) ELSE IF x \in T THEN Junk ELSE lit[x]]
      BY <3>1 DEF Rename
    <3> QED BY <1>2, <3>2, <3>3, <3>4
  <2>2. CASE ~ Taken(lit[e.type])
    BY <1>2, <2>2 DEF ReadSlot
  <2> QED BY <2>1, <2>2
<1>4. e.type \in Range(Literals)
  <2>1. DOMAIN Literals = 1 .. 7
    BY DEF Literals
  <2> QED BY <1>1, <2>1 DEF Bases, Range
<1> QED BY <1>3, <1>4

(* One step keeps the types. *)
LEMMA TypeStep ==
    ASSUME TypeOK, ReadInv, Self \in table, [Next]_vars
    PROVE  TypeOK'
<1> USE DEF TypeOK
<1>0. /\ Len(label.entries) \in Nat
      /\ Len(part) \in Nat
      /\ \A k \in 1 .. Len(part) : part[k] \in Part
  BY EntryIs, PartIs
<1>1. CASE Start
  <2>1. <<>> \in Seq(Part) /\ Len(<<>>) = 0 /\ 0 <= MaxPart
    BY SizesAssumption
  <2>2. lit' \in [Range(Literals) -> Names]
    BY <1>1, FreshIs DEF Start
  <2>3. i' \in 1 .. Len(label'.entries) + 1 + Len(part')
    BY <1>0, <1>1, <2>1 DEF Start
  <2> QED BY <1>1, <2>1, <2>2, <2>3 DEF Start
<1>2. CASE ReadLine
  <2> DEFINE e == label.entries[i]
  <2>1. i \in 1 .. Len(label.entries)
    BY <1>0, <1>2 DEF ReadLine
  <2>2. CASE e.len = 0
    BY <1>0, <1>2, <2>1, <2>2 DEF ReadLine
  <2>3. CASE e.len # 0
    <3> DEFINE p == [name |-> e.name, start |-> e.start, end |-> e.start + e.len]
    <3>1. p \in Part
      BY <2>1, EntryIs, SMTT(30) DEF Part
    <3>2. AddPart(p)
      BY <1>2, <2>3 DEF ReadLine
    <3> HIDE DEF p
    <3>3. /\ pc' \in {"reading", "failed"}
          /\ i' \in 1 .. Len(label.entries) + 1 + Len(part')
          /\ part' \in Seq(Part) /\ Len(part') <= MaxPart
      BY <1>2, <2>1, <3>1, <3>2, TypeRead DEF ReadLine
    <3> QED BY <1>2, <3>3 DEF ReadLine
  <2> QED BY <2>2, <2>3
<1>3. CASE ReadSlot
  <2> DEFINE e == label.entries[i]
             start == AsInt(e.start)
  <2>1. i \in 1 .. Len(label.entries)
    BY <1>0, <1>3 DEF ReadSlot
  <2>2. CASE e.type = "unused"
    BY <1>0, <1>3, <2>1, <2>2 DEF ReadSlot
  <2>3. CASE e.type # "unused"
    <3> DEFINE p == [name |-> lit'[e.type], start |-> start, end |-> AsInt(start + e.len)]
    <3>1. e.type \in Bases /\ e.start \in Int /\ e.len \in Int
      BY <2>1, <2>3, EntryIs
    <3>2. lit' \in [Range(Literals) -> Names]
      BY <1>3, <2>1, <2>3, NewNameIs
    <3>3. lit'[e.type] \in Names
      BY <1>3, <2>1, <2>3, NewNameIs
    <3>4. p \in Part
      <4>1. start \in Int
        BY <3>1, AsIntIs
      <4>2. start + e.len \in Int
        BY <3>1, <4>1
      <4>3. AsInt(start + e.len) \in Int
        BY <4>2, AsIntIs
      <4> QED BY <3>3, <4>1, <4>3 DEF Part
    <3>5. AddPart(p)
      BY <1>3, <2>3 DEF ReadSlot
    <3> HIDE DEF p
    <3>6. /\ pc' \in {"reading", "failed"}
          /\ i' \in 1 .. Len(label.entries) + 1 + Len(part')
          /\ part' \in Seq(Part) /\ Len(part') <= MaxPart
      BY <1>3, <2>1, <3>4, <3>5, TypeRead DEF ReadSlot
    <3> QED BY <1>3, <3>2, <3>6 DEF ReadSlot
  <2> QED BY <2>2, <2>3
<1>4. CASE NoLabel
  BY <1>4 DEF NoLabel
<1>5. CASE ReadFails
  BY <1>5 DEF ReadFails
<1>6. CASE EndOfLabel
  BY <1>6 DEF EndOfLabel
<1>7. CASE ReadCtl
  <2>1. CASE Cardinality(CtlParts) > MaxPart
    BY <1>7, <2>1 DEF ReadCtl
  <2>2. CASE ~ (Cardinality(CtlParts) > MaxPart)
    BY <1>0, <1>7, <2>2 DEF ReadCtl
  <2> QED BY <2>1, <2>2
<1>8. CASE CtlFails
  BY <1>0, <1>8 DEF CtlFails
<1>9. CASE DelPart
  BY <1>9 DEF DelPart
<1>10. CASE EndOfDeletes
  BY <1>10 DEF EndOfDeletes
<1>11. CASE PutPart
  <2>1. i \in 1 .. Len(part) /\ i + 1 \in 1 .. Len(label.entries) + 1 + Len(part)
    BY <1>0, <1>11 DEF PutPart
  <2>2. Global(part[i]) \in Part
    BY <1>0, <2>1, LocalGlobal
  <2>3. \A p \in table' : p \in Part
    BY <1>11, <2>2 DEF PutPart
  <2> QED BY <1>11, <2>1, <2>3 DEF PutPart
<1>12. CASE Finish
  BY <1>12 DEF Finish
<1>13. CASE Refused
  BY <1>0, <1>13 DEF Refused
<1>14. CASE Kill
  BY <1>14 DEF Kill
<1>15. CASE UNCHANGED vars
  BY <1>15 DEF vars
<1> QED BY <1>1, <1>2, <1>3, <1>4, <1>5, <1>6, <1>7, <1>8, <1>9, <1>10, <1>11, <1>12, <1>13,
           <1>14, <1>15 DEF Next

-----------------------------------------------------------------------------
(* One entry more. *)
LEMMA ExtentsGrow ==
    ASSUME TypeOK, NEW n \in 1 .. Len(label.entries)
    PROVE  ExtentsOf(n) = ExtentsOf(n - 1) \cup
              IF Counts(label.entries[n]) THEN {Extent(label.entries[n])} ELSE {}
<1>1. Len(label.entries) \in Nat
  BY EntryIs
<1>2. \A k : k \in 1 .. n <=> k \in 1 .. n - 1 \/ k = n
  BY <1>1
<1>3. CASE Counts(label.entries[n])
  <2>1. {k \in 1 .. n : Counts(label.entries[k])} = {k \in 1 .. n - 1 : Counts(label.entries[k])} \cup {n}
    BY <1>2, <1>3
  <2> QED BY <2>1, <1>3 DEF ExtentsOf
<1>4. CASE ~ Counts(label.entries[n])
  <2>1. {k \in 1 .. n : Counts(label.entries[k])} = {k \in 1 .. n - 1 : Counts(label.entries[k])}
    BY <1>2, <1>4
  <2> QED BY <2>1, <1>4 DEF ExtentsOf
<1> QED BY <1>3, <1>4

(* An entry that counts and does not overflow is among the live ones. *)
LEMMA CountsIsLive ==
    ASSUME TypeOK, InRange, NEW n \in 1 .. Len(label.entries), Counts(label.entries[n])
    PROVE  label.entries[n].start + label.entries[n].len < IntHalf
<1>1. label.entries[n] \in Live
  BY EntryIs DEF Live, Range
<1> QED BY <1>1 DEF InRange

(* A step that leaves the label and the list alone. *)
LEMMA ListStays ==
    ASSUME ReadInv, label' = label, part' = part,
           pc' \in {"reading", "diffing"} => pc = "reading" /\ i' = i
    PROVE  ReadInv'
<1>1. Extents' = Extents /\ (InRange' <=> InRange) /\ ExtentsOf(i - 1)' = ExtentsOf(i' - 1)
  BY DEF Extents, InRange, Live, ExtentsOf, Counts
<1> QED BY <1>1 DEF ReadInv

(* An entry goes into the list. *)
LEMMA ListGrows ==
    ASSUME TypeOK, ReadInv, pc = "reading", i \in 1 .. Len(label.entries), label' = label,
           Counts(label.entries[i]), NEW p \in Part, AddPart(p),
           InRange => Extent(label.entries[i]) = <<p.start, p.end>>
    PROVE  ReadInv'
<1>1. CASE pc' = "failed" /\ part' = part
  BY <1>1, ListStays
<1>2. CASE /\ pc' = pc /\ i' = i + 1
           /\ \A j, k \in DOMAIN part' :
                 j < k => part'[j].start <= part'[k].start /\ part'[j].name # part'[k].name
           /\ Extents' = Extents \cup {<<p.start, p.end>>}
  <2>1. InRange' <=> InRange
    BY DEF InRange, Live, Counts
  <2>2. InRange => Extents = ExtentsOf(i - 1)
    BY DEF ReadInv
  <2>3. ExtentsOf(i) = ExtentsOf(i - 1) \cup {Extent(label.entries[i])}
    BY ExtentsGrow
  <2>4. InRange => Extents' = ExtentsOf(i)
    BY <1>2, <2>2, <2>3
  <2>5. i' - 1 = i /\ i' <= Len(label'.entries) + 1
    BY <1>2, EntryIs
  <2>6. ExtentsOf(i - 1)' = ExtentsOf(i)
    BY <2>5 DEF ExtentsOf, Counts
  <2> QED BY <1>2, <2>1, <2>4, <2>5, <2>6 DEF ReadInv
<1> QED BY <1>1, <1>2, AddPartDoes

(* An entry that counts for nothing is passed over. *)
LEMMA ListSkips ==
    ASSUME TypeOK, ReadInv, pc = "reading", i \in 1 .. Len(label.entries), label' = label,
           ~ Counts(label.entries[i]), part' = part, i' = i + 1, pc' = pc
    PROVE  ReadInv'
<1>1. Extents' = Extents /\ (InRange' <=> InRange)
  BY DEF Extents, InRange, Live, Counts
<1>2. ExtentsOf(i) = ExtentsOf(i - 1)
  BY ExtentsGrow
<1>3. i' - 1 = i /\ i' <= Len(label'.entries) + 1
  BY EntryIs
<1>4. ExtentsOf(i - 1)' = ExtentsOf(i)
  BY <1>3 DEF ExtentsOf, Counts
<1> QED BY <1>1, <1>2, <1>3, <1>4 DEF ReadInv

(* One step keeps the list good. *)
LEMMA ReadStep ==
    ASSUME TypeOK, ReadInv, [Next]_vars
    PROVE  ReadInv'
<1>0. Len(label.entries) \in Nat /\ i \in Nat /\ i >= 1
  <2>1. i \in 1 .. Len(label.entries) + 1 + Len(part)
    BY DEF TypeOK
  <2> QED BY <2>1, EntryIs, PartIs
<1>1. CASE Start
  <2>1. part' = <<>> /\ i' = 1 /\ label' = label
    BY <1>1 DEF Start
  <2>2. DOMAIN part' = {}
    BY <2>1
  <2>3. Extents' = {}
    BY <2>2 DEF Extents
  <2>4. ExtentsOf(i - 1)' = {}
    <3>1. 1 .. (i' - 1) = {}
      BY <2>1
    <3> QED BY <3>1 DEF ExtentsOf
  <2> QED BY <1>0, <2>1, <2>2, <2>3, <2>4 DEF ReadInv
<1>2. CASE ReadLine
  <2> DEFINE e == label.entries[i]
  <2>1. i \in 1 .. Len(label.entries) /\ pc = "reading" /\ label' = label /\ label.format = "text"
    BY <1>0, <1>2 DEF ReadLine
  <2>2. CASE e.len = 0
    <3>1. ~ Counts(e)
      BY <2>1, <2>2 DEF Counts
    <3> QED BY <1>2, <2>1, <2>2, <3>1, ListSkips DEF ReadLine
  <2>3. CASE e.len # 0
    <3> DEFINE p == [name |-> e.name, start |-> e.start, end |-> e.start + e.len]
    <3>1. p \in Part
      BY <2>1, EntryIs DEF Part
    <3>2. AddPart(p)
      BY <1>2, <2>3 DEF ReadLine
    <3>3. Counts(e)
      BY <2>1, <2>3, EntryIs DEF Counts
    <3>4. Extent(e) = <<p.start, p.end>>
      BY DEF Extent
    <3> HIDE DEF p
    <3> QED BY <2>1, <3>1, <3>2, <3>3, <3>4, ListGrows
  <2> QED BY <2>2, <2>3
<1>3. CASE ReadSlot
  <2> DEFINE e == label.entries[i]
             start == AsInt(e.start)
  <2>1. i \in 1 .. Len(label.entries) /\ pc = "reading" /\ label' = label /\ label.format = "bsd"
    BY <1>0, <1>3 DEF ReadSlot
  <2>2. CASE e.type = "unused"
    <3>1. ~ Counts(e)
      BY <2>1, <2>2 DEF Counts
    <3> QED BY <1>3, <2>1, <2>2, <3>1, ListSkips DEF ReadSlot
  <2>3. CASE e.type # "unused"
    <3> DEFINE p == [name |-> lit'[e.type], start |-> start, end |-> AsInt(start + e.len)]
    <3>1. Counts(e)
      BY <2>1, <2>3 DEF Counts
    <3>2. AddPart(p)
      BY <1>3, <2>3 DEF ReadSlot
    <3>3. e.start \in Nat /\ e.len \in Nat
      BY <2>1, EntryIs
    <3>4. start \in Int /\ AsInt(start + e.len) \in Int
      BY <3>3, AsIntIs
    <3>5. lit'[e.type] \in Names
      BY <1>3, <2>1, <2>3, NewNameIs
    <3>6. p \in Part
      BY <3>4, <3>5 DEF Part
    <3>7. ASSUME InRange
          PROVE  Extent(e) = <<p.start, p.end>>
      <4>1. e.start + e.len < IntHalf
        BY <2>1, <3>1, <3>7, CountsIsLive
      <4>2. IntHalf \in Nat
        BY SizesAssumption
      <4>3. start = e.start
        BY <3>3, <4>1, <4>2, AsIntIs
      <4>4. AsInt(start + e.len) = e.start + e.len
        BY <3>3, <4>1, <4>2, <4>3, AsIntIs
      <4> QED BY <4>3, <4>4 DEF Extent
    <3> HIDE DEF p
    <3> QED BY <2>1, <3>1, <3>2, <3>6, <3>7, ListGrows
  <2> QED BY <2>2, <2>3
<1>4. CASE NoLabel
  BY <1>4, ListStays DEF NoLabel
<1>5. CASE ReadFails
  BY <1>5, ListStays DEF ReadFails
<1>6. CASE EndOfLabel
  BY <1>6, ListStays DEF EndOfLabel
<1>7. CASE ReadCtl
  <2>1. pc' \in {"failed", "deleting"} /\ label' = label /\ part' = part
    BY <1>7 DEF ReadCtl
  <2> QED BY <2>1, ListStays
<1>8. CASE CtlFails
  BY <1>8, ListStays DEF CtlFails
<1>9. CASE DelPart
  BY <1>9, ListStays DEF DelPart
<1>10. CASE EndOfDeletes
  BY <1>10, ListStays DEF EndOfDeletes
<1>11. CASE PutPart
  BY <1>11, ListStays DEF PutPart
<1>12. CASE Finish
  BY <1>12, ListStays DEF Finish
<1>13. CASE Refused
  <2>1. pc' \in {"deleting", "adding"} /\ label' = label /\ part' = part
    BY <1>13 DEF Refused
  <2> QED BY <2>1, ListStays
<1>14. CASE Kill
  BY <1>14, ListStays DEF Kill
<1>15. CASE UNCHANGED vars
  <2>1. UNCHANGED <<label, packed, table, pc, i, part>>
    BY <1>15 DEF vars
  <2>2. Extents' = Extents /\ (InRange' <=> InRange) /\ ExtentsOf(i - 1)' = ExtentsOf(i - 1)
    BY <2>1 DEF Extents, InRange, Live, ExtentsOf, Counts
  <2> QED BY <2>1, <2>2 DEF ReadInv
<1> QED BY <1>1, <1>2, <1>3, <1>4, <1>5, <1>6, <1>7, <1>8, <1>9, <1>10, <1>11, <1>12, <1>13,
           <1>14, <1>15 DEF Next

-----------------------------------------------------------------------------
(* What a device with the partitions t has inside Self. *)
Inside(t) == {Local(p) : p \in {q \in t : Within(q, Self) /\ q.name # Self.name}}

LEMMA CtlPartsAre == CtlParts = Inside(table) /\ CtlParts' = Inside(table')
BY DEF CtlParts, Inside

LEMMA InsideIs ==
    ASSUME Self \in Part, NEW t, \A p \in t : p \in Part
    PROVE  /\ \A p \in Inside(t) : p \in Part
           /\ \A p \in Part :
                 p \in Inside(t) <=> Global(p) \in t /\ Within(Global(p), Self) /\ p.name # Self.name
<1>1. ASSUME NEW p \in Inside(t)
      PROVE  p \in Part /\ Global(p) \in t /\ Within(Global(p), Self) /\ p.name # Self.name
  <2>1. PICK q \in t : Within(q, Self) /\ q.name # Self.name /\ p = Local(q)
    BY DEF Inside
  <2>2. p \in Part /\ p.name = q.name /\ Global(p) = q
    BY <2>1, LocalGlobal
  <2> QED BY <2>1, <2>2
<1>2. ASSUME NEW p \in Part, Global(p) \in t, Within(Global(p), Self), p.name # Self.name
      PROVE  p \in Inside(t)
  <2>1. Global(p).name = p.name /\ Local(Global(p)) = p
    BY LocalGlobal
  <2> QED BY <1>2, <2>1 DEF Inside
<1> QED BY <1>1, <1>2

(* A device that gains or loses the partition p. *)
LEMMA InsideAdds ==
    ASSUME Self \in Part, NEW t, \A q \in t : q \in Part, NEW p \in Part
    PROVE  Inside(t \cup {Global(p)}) \subseteq Inside(t) \cup {p}
<1>1. \A q \in t \cup {Global(p)} : q \in Part
  BY LocalGlobal
<1>2. ASSUME NEW q \in Inside(t \cup {Global(p)})
      PROVE  q \in Inside(t) \cup {p}
  <2>1. q \in Part /\ Global(q) \in t \cup {Global(p)} /\ Within(Global(q), Self) /\ q.name # Self.name
    BY <1>1, InsideIs
  <2>2. CASE Global(q) = Global(p)
    <3>1. Local(Global(q)) = q /\ Local(Global(p)) = p
      BY <2>1, LocalGlobal
    <3> QED BY <2>2, <3>1
  <2>3. CASE Global(q) \in t
    BY <2>1, <2>3, InsideIs
  <2> QED BY <2>1, <2>2, <2>3
<1> QED BY <1>2

LEMMA InsideLoses ==
    ASSUME Self \in Part, NEW t, \A q \in t : q \in Part, NEW p \in Part
    PROVE  Inside(t \ {Global(p)}) \subseteq Inside(t) \ {p}
<1>1. \A q \in t \ {Global(p)} : q \in Part
  OBVIOUS
<1>2. ASSUME NEW q \in Inside(t \ {Global(p)})
      PROVE  q \in Inside(t) \ {p}
  <2>1. q \in Part /\ Global(q) \in t \ {Global(p)} /\ Within(Global(q), Self) /\ q.name # Self.name
    BY <1>1, InsideIs
  <2> QED BY <2>1, InsideIs
<1> QED BY <1>2

(* A step that leaves the device and what is believed of it alone. *)
LEMMA DeviceStays ==
    ASSUME DiffInv, UNCHANGED <<table, ctlpart, ctlread, stale, waserr>>,
           \/ pc' \in {"down", "failed"}
           \/ pc = "reading" /\ pc' \in {"reading", "diffing"}
    PROVE  DiffInv'
BY DEF DiffInv, CtlParts

(* One step keeps what ctldiff() believes true. *)
LEMMA DiffStep ==
    ASSUME TypeOK, ReadInv, DiffInv, [Next]_vars
    PROVE  DiffInv'
<1>0. /\ Self \in table /\ Self \in Part /\ \A p \in table : p \in Part
      /\ stale \subseteq ctlpart
  BY DEF DiffInv, TypeOK
<1>00. /\ Len(part) \in Nat /\ DOMAIN part = 1 .. Len(part)
       /\ \A k \in 1 .. Len(part) : part[k] \in Part
  BY PartIs
<1>1. CASE Start
  BY <1>1 DEF Start, DiffInv
<1>2. CASE ReadLine
  <2>1. pc = "reading" /\ UNCHANGED <<table, ctlpart, ctlread, stale, waserr>>
    BY <1>2 DEF ReadLine
  <2>2. pc' = pc \/ pc' = "failed"
    BY <1>2 DEF ReadLine, AddPart
  <2> QED BY <2>1, <2>2, DeviceStays
<1>3. CASE ReadSlot
  <2>1. pc = "reading" /\ UNCHANGED <<table, ctlpart, ctlread, stale, waserr>>
    BY <1>3 DEF ReadSlot
  <2>2. pc' = pc \/ pc' = "failed"
    BY <1>3 DEF ReadSlot, AddPart
  <2> QED BY <2>1, <2>2, DeviceStays
<1>4. CASE NoLabel
  BY <1>4, DeviceStays DEF NoLabel
<1>5. CASE ReadFails
  BY <1>5, DeviceStays DEF ReadFails
<1>6. CASE EndOfLabel
  BY <1>6, DeviceStays DEF EndOfLabel
<1>7. CASE ReadCtl
  <2>1. CASE Cardinality(CtlParts) > MaxPart
    BY <1>7, <2>1, DeviceStays DEF ReadCtl
  <2>2. CASE ~ (Cardinality(CtlParts) > MaxPart)
    <3>1. /\ pc' = "deleting" /\ i' = 1 /\ ctlread' = TRUE
          /\ ctlpart' = CtlParts /\ stale' = CtlParts \ Unchanged(CtlParts)
          /\ table' = table /\ part' = part /\ waserr' = waserr
      BY <1>7, <2>2 DEF ReadCtl
    <3>2. CtlParts' = CtlParts
      BY <3>1 DEF CtlParts
    <3>3. Unchanged(ctlpart)' = Unchanged(CtlParts)
      BY <3>1 DEF Unchanged, Equiv
    <3>4. \A p \in CtlParts : p \in Part /\ Within(Global(p), Self) /\ p.name # Self.name
      BY <1>0, CtlPartsAre, InsideIs
    <3> QED BY <1>0, <3>1, <3>2, <3>3, <3>4 DEF DiffInv
  <2> QED BY <2>1, <2>2
<1>8. CASE CtlFails
  <2>1. stale = {} /\ ctlpart = {} /\ ~ ctlread
    BY <1>0, <1>8 DEF CtlFails, DiffInv
  <2> QED BY <1>0, <1>8, <2>1 DEF CtlFails, DiffInv
<1>9. CASE DelPart
  <2>1. PICK p \in stale : stale' = stale \ {p} /\ table' = table \ {Global(p)}
    BY <1>9 DEF DelPart
  <2>2. /\ pc = "deleting" /\ UNCHANGED <<pc, i, part, ctlpart, ctlread, waserr>>
    BY <1>9 DEF DelPart
  <2>3. p \in Part /\ Within(Global(p), Self) /\ p.name # Self.name
    BY <1>0 DEF DiffInv
  <2>4. Self \in table'
    <3>1. Global(p).name = p.name
      BY <1>0, <2>3, LocalGlobal
    <3> QED BY <1>0, <2>1, <2>3, <3>1
  <2>5. CtlParts' \subseteq CtlParts \ {p}
    BY <1>0, <2>1, <2>3, CtlPartsAre, InsideLoses
  <2>6. Unchanged(ctlpart)' = Unchanged(ctlpart)
    BY <2>2 DEF Unchanged, Equiv
  <2> QED BY <2>1, <2>2, <2>4, <2>5, <2>6 DEF DiffInv
<1>10. CASE EndOfDeletes
  <2>1. /\ pc = "deleting" /\ pc' = "adding" /\ stale = {}
        /\ UNCHANGED <<table, i, part, ctlpart, ctlread, waserr>>
    BY <1>10 DEF EndOfDeletes
  <2>2. CtlParts' = CtlParts /\ Unchanged(ctlpart)' = Unchanged(ctlpart)
    BY <2>1 DEF CtlParts, Unchanged, Equiv
  <2>3. i' = 1 /\ \A k \in DOMAIN part' : ~ (k < i')
    BY <1>00, <2>1 DEF DiffInv
  <2> QED BY <2>1, <2>2, <2>3 DEF DiffInv
<1>11. CASE PutPart
  <2>1. /\ pc = "adding" /\ i <= Len(part) /\ i' = i + 1 /\ UNCHANGED <<pc, part, ctlpart, ctlread>>
    BY <1>11 DEF PutPart
  <2>2. i \in 1 .. Len(part)
    BY <1>00, <2>1 DEF TypeOK
  <2>3. Self \in table'
    BY <1>0, <1>11 DEF PutPart
  <2>4. ASSUME ~ waserr'
        PROVE  /\ \A k \in DOMAIN part' : k < i' => Global(part'[k]) \in table'
               /\ ctlread' => \A p \in CtlParts' : Equiv(p)' \/ p \in Unchanged(ctlpart)'
    <3>1. ~ waserr /\ table' = table \cup {Global(part[i])}
      BY <1>11, <2>4 DEF PutPart
    <3>2. \A k \in DOMAIN part' : k < i' => Global(part'[k]) \in table'
      <4>1. \A k \in DOMAIN part : k < i => Global(part[k]) \in table
        BY <2>1, <3>1 DEF DiffInv
      <4>2. \A k \in DOMAIN part : k < i + 1 => k < i \/ k = i
        BY <1>00, <2>2
      <4> QED BY <2>1, <3>1, <4>1, <4>2
    <3>3. CtlParts' \subseteq CtlParts \cup {part[i]}
      BY <1>0, <1>00, <2>2, <3>1, CtlPartsAre, InsideAdds
    <3>4. /\ \A p : Equiv(p)' <=> Equiv(p)
          /\ Unchanged(ctlpart)' = Unchanged(ctlpart)
      BY <2>1 DEF Equiv, Unchanged
    <3>5. Equiv(part[i])
      BY <1>00, <2>2 DEF Equiv
    <3>6. ctlread => \A p \in CtlParts : Equiv(p) \/ p \in Unchanged(ctlpart)
      BY <2>1, <3>1 DEF DiffInv
    <3> QED BY <2>1, <3>2, <3>3, <3>4, <3>5, <3>6
  <2>5. \A p \in ctlpart' : p \in Part /\ Within(Global(p), Self) /\ p.name # Self.name
    BY <2>1 DEF DiffInv
  <2> QED BY <2>1, <2>3, <2>4, <2>5 DEF DiffInv
<1>12. CASE Finish
  <2>1. /\ pc = "adding" /\ pc' = "done" /\ i > Len(part)
        /\ UNCHANGED <<table, i, part, ctlpart, ctlread, waserr>>
    BY <1>12 DEF Finish, AllPut
  <2>2. CtlParts' = CtlParts /\ Unchanged(ctlpart)' = Unchanged(ctlpart)
        /\ \A p : Equiv(p)' <=> Equiv(p)
    BY <2>1 DEF CtlParts, Unchanged, Equiv
  <2> QED BY <2>1, <2>2 DEF DiffInv
<1>13. CASE Refused
  <2>1. waserr' = TRUE /\ UNCHANGED <<table, pc, part, ctlpart, ctlread>>
    BY <1>13 DEF Refused
  <2>2. CtlParts' = CtlParts /\ Unchanged(ctlpart)' = Unchanged(ctlpart)
    BY <2>1 DEF CtlParts, Unchanged, Equiv
  <2>3. \/ pc = "deleting" /\ i' = i /\ stale' \subseteq stale
        \/ pc = "adding"
    BY <1>13 DEF Refused
  <2> QED BY <2>1, <2>2, <2>3 DEF DiffInv
<1>14. CASE Kill
  BY <1>14, DeviceStays DEF Kill
<1>15. CASE UNCHANGED vars
  <2>1. UNCHANGED <<table, pc, i, part, ctlpart, ctlread, stale, waserr>>
    BY <1>15 DEF vars
  <2>2. CtlParts' = CtlParts /\ Unchanged(ctlpart)' = Unchanged(ctlpart)
        /\ \A p : Equiv(p)' <=> Equiv(p)
    BY <2>1 DEF CtlParts, Unchanged, Equiv
  <2> QED BY <2>1, <2>2 DEF DiffInv
<1> QED BY <1>1, <1>2, <1>3, <1>4, <1>5, <1>6, <1>7, <1>8, <1>9, <1>10, <1>11, <1>12, <1>13,
           <1>14, <1>15 DEF Next

-----------------------------------------------------------------------------
(* Whatever the label and the device had, whatever was refused and         *)
(* wherever the program was killed, the invariant of its three parts holds. *)
THEOREM LabelInvHolds == Spec => []LabelInv
<1>1. Init => LabelInv
  BY TypeInit DEF LabelInv
<1>2. LabelInv /\ [Next]_vars => LabelInv'
  <2> SUFFICES ASSUME LabelInv, [Next]_vars PROVE LabelInv'
    OBVIOUS
  <2>1. Self \in table
    BY DEF LabelInv, DiffInv
  <2>2. TypeOK' /\ ReadInv' /\ DiffInv'
    BY <2>1, TypeStep, ReadStep, DiffStep DEF LabelInv
  <2> QED BY <2>2 DEF LabelInv
<1> QED BY <1>1, <1>2, PTL DEF Spec

(* The names stay names although they are written over one another, the    *)
(* list stays within its room, and the program only wants to delete what   *)
(* it read from the device.                                                *)
THEOREM LabelTypes == Spec => []TypeOK
<1>1. LabelInv => TypeOK
  BY DEF LabelInv
<1> QED BY <1>1, LabelInvHolds, PTL

(* The list is in the order of starts, no name is in it twice, and a label *)
(* that was read is in it with all its extents.                            *)
THEOREM ListIsGood == Spec => []ListGood
<1>1. LabelInv => ListGood
  <2> SUFFICES ASSUME LabelInv PROVE ListGood
    OBVIOUS
  <2>1. /\ TypeOK /\ ReadInv
    BY DEF LabelInv
  <2>2. ASSUME InRange, pc = "diffing", i > Len(label.entries)
        PROVE  {Extent(e) : e \in Live} = Extents
    <3>1. Len(label.entries) \in Nat /\ DOMAIN label.entries = 1 .. Len(label.entries)
      BY <2>1, EntryIs
    <3>2. i \in Int /\ i <= Len(label.entries) + 1
      BY <2>1, <2>2, <3>1 DEF ReadInv, TypeOK
    <3>3. i - 1 = Len(label.entries)
      BY <2>2, <3>1, <3>2
    <3>4. Extents = ExtentsOf(Len(label.entries))
      BY <2>1, <2>2, <3>3 DEF ReadInv
    <3>5. ExtentsOf(Len(label.entries)) = {Extent(e) : e \in Live}
      BY <3>1 DEF ExtentsOf, Live, Range
    <3> QED BY <3>4, <3>5
  <2> QED BY <2>1, <2>2 DEF ListGood, ReadInv, Extents
<1> QED BY <1>1, LabelInvHolds, PTL

(* A run without an error leaves on the device what the label says, and    *)
(* what lies inside one of its partitions that was there before.           *)
THEOREM TableIsTheLabels == Spec => []TableIsLabels
<1>1. LabelInv => TableIsLabels
  <2> SUFFICES ASSUME LabelInv, pc = "done", ~ waserr
               PROVE  /\ \A k \in DOMAIN part : Global(part[k]) \in table
                      /\ ctlread => \A p \in CtlParts : Equiv(p) \/ p \in Unchanged(ctlpart)
    BY DEF TableIsLabels
  <2>1. DiffInv /\ TypeOK
    BY DEF LabelInv
  <2>2. \A k \in DOMAIN part : k < i
    <3>1. Len(part) \in Nat /\ DOMAIN part = 1 .. Len(part) /\ i \in Int /\ i > Len(part)
      <4>1. Len(label.entries) \in Nat /\ Len(part) \in Nat /\ DOMAIN part = 1 .. Len(part)
        BY <2>1, EntryIs, PartIs
      <4> QED BY <2>1, <4>1 DEF DiffInv, TypeOK
    <3> QED BY <3>1
  <2> QED BY <2>1, <2>2 DEF DiffInv
<1> QED BY <1>1, LabelInvHolds, PTL

(* No step deletes a partition outside the disk partition, the disk        *)
(* partition itself, one that is in the label, or one inside such a one.   *)
THEOREM OnlyChangedAreDeleted == Spec => DeletesOnlyChanged
<1> DEFINE Deletes ==
        \A p \in table \ table' :
           /\ Within(p, Self) /\ p # Self
           /\ \A k \in DOMAIN part : part[k] \in CtlParts => ~ Within(p, Global(part[k]))
<1>1. LabelInv /\ [Next]_vars => Deletes
  <2> SUFFICES ASSUME LabelInv, [Next]_vars, NEW d \in table \ table'
               PROVE  /\ Within(d, Self) /\ d # Self
                      /\ \A k \in DOMAIN part : part[k] \in CtlParts => ~ Within(d, Global(part[k]))
    OBVIOUS
  <2>1. DiffInv /\ TypeOK /\ Self \in Part
    BY DEF LabelInv, DiffInv, TypeOK
  <2>2. DelPart
    <3>1. table' # table
      OBVIOUS
    <3>2. PutPart => table \subseteq table'
      BY DEF PutPart
    <3> QED BY <3>1, <3>2 DEF Next, vars, Start, ReadLine, ReadSlot, NoLabel, ReadFails, EndOfLabel,
             ReadCtl, CtlFails, EndOfDeletes, Finish, Refused, Kill
  <2>3. PICK p \in stale : table' = table \ {Global(p)}
    BY <2>2 DEF DelPart
  <2>4. pc = "deleting"
    BY <2>2 DEF DelPart
  <2>5. d = Global(p)
    BY <2>3
  <2>6. /\ p \in ctlpart /\ p \notin Unchanged(ctlpart)
        /\ p \in Part /\ Within(Global(p), Self) /\ p.name # Self.name
        /\ CtlParts \subseteq ctlpart
    BY <2>1, <2>3, <2>4 DEF DiffInv
  <2>7. Within(d, Self) /\ d # Self
    <3>1. Global(p).name = p.name
      BY <2>1, <2>6, LocalGlobal
    <3> QED BY <2>5, <2>6, <3>1
  <2>8. ASSUME NEW k \in DOMAIN part, part[k] \in CtlParts, Within(d, Global(part[k]))
        PROVE  FALSE
    <3>1. part[k] \in Part
      BY <2>1, PartIs
    <3>2. Within(p, part[k])
      <4>1. /\ p.start \in Int /\ p.end \in Int
            /\ part[k].start \in Int /\ part[k].end \in Int /\ Self.start \in Int
        BY <2>1, <2>6, <3>1, PartFields
      <4>2. /\ part[k].start + Self.start <= p.start + Self.start
            /\ p.end + Self.start <= part[k].end + Self.start
        BY <2>1, <2>5, <2>6, <2>8, <3>1, LocalGlobal DEF Within
      <4> QED BY <4>1, <4>2 DEF Within
    <3>3. Equiv(part[k])
      BY DEF Equiv
    <3>4. p \in Unchanged(ctlpart)
      BY <2>6, <2>8, <3>2, <3>3 DEF Unchanged
    <3> QED BY <2>6, <3>4
  <2> QED BY <2>7, <2>8
<1> HIDE DEF Deletes
<1>2. Spec => [][Deletes]_vars
  BY <1>1, LabelInvHolds, PTL DEF Spec
<1> QED BY <1>2 DEF DeletesOnlyChanged, Deletes

=============================================================================
