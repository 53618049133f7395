--------------------------- MODULE FileMapProofs ---------------------------
(***************************************************************************)
(* That loaddatablocklist() lists the blocks of a file in the order of its *)
(* tree, whatever comes back damaged, for every file and every tree.       *)
(***************************************************************************)
EXTENDS FileMap, BlockTreeProofs
-----------------------------------------------------------------------------
(* The inductive invariant: the list has what the walk has passed, and     *)
(* when all indirect blocks are hashed a load that fails ends the server.  *)
ListIsWalked ==
    state = "running" =>
        WalkInv(top, lost, stack) /\ list = OfType("data", Walked(lost, stack))
NothingLost == (state \in {"running", "done"} /\ Hashed(top)) => lost = <<>>

MapInv ==
    /\ top \in Seq(BlockRef)
    /\ ListIsWalked /\ NothingLost /\ RestListed

LEMMA MapInit == Init => MapInv
<1> SUFFICES ASSUME Init PROVE MapInv
  OBVIOUS
<1>1. /\ top \in Seq(BlockRef) /\ stack = << Enter(top) >> /\ list = <<>>
      /\ state = "running" /\ lost = <<>>
  BY FilesAssumption DEF Init
<1>2. WalkInv(top, lost, stack) /\ Walked(lost, stack) = <<>>
  BY <1>1, WalkBegins
<1>3. list = OfType("data", Walked(lost, stack))
  BY <1>1, <1>2, OfTypeNone
<1> QED BY <1>1, <1>2, <1>3 DEF MapInv, ListIsWalked, NothingLost, RestListed

(* A step of the walk in the level it is at.                               *)
LEMMA Running ==
    ASSUME MapInv, state = "running"
    PROVE  /\ WalkInv(top, lost, stack) /\ list = OfType("data", Walked(lost, stack))
           /\ Levels(stack) /\ stack \in Seq(Level) /\ Len(stack) \in Nat \ {0}
           /\ cur = stack[Len(stack)]
           /\ block = stack[Len(stack)].blocks[stack[Len(stack)].offset + 1]
           /\ AtEnd \/ stack[Len(stack)].offset < Len(stack[Len(stack)].blocks)
<1>1. WalkInv(top, lost, stack) /\ list = OfType("data", Walked(lost, stack))
  BY DEF MapInv, ListIsWalked
<1>2. Levels(stack) /\ stack \in Seq(Level) /\ Len(stack) \in Nat \ {0}
  BY <1>1 DEF WalkInv, Levels
<1>3. Len(stack) \in 1 .. Len(stack)
  BY <1>2
<1> DEFINE o == stack[Len(stack)].offset
           n == Len(stack[Len(stack)].blocks)
<1>4. o \in 0 .. n
  BY <1>2, <1>3, LevelFacts
<1>5. stack[Len(stack)].blocks \in Seq(BlockRef)
  BY <1>2, <1>3, LevelFacts
<1>6. n \in Nat
  BY <1>5, LenProperties
<1> HIDE DEF o, n
<1>7. o >= n \/ o < n
  BY <1>4, <1>6
<1>8. AtEnd \/ o < n
  BY <1>7 DEF AtEnd, cur, o, n
<1> QED BY <1>1, <1>2, <1>8 DEF cur, block, o, n

LEMMA MapPass ==
    ASSUME MapInv, ListBlock \/ SkipEmpty
    PROVE  MapInv'
<1>1. /\ state = "running" /\ ~ AtEnd /\ block.type \in {"data", "empty"}
      /\ stack' = Advance /\ UNCHANGED <<top, lost, state>>
      /\ list' = IF block.type = "data" THEN Append(list, block) ELSE list
  BY DEF ListBlock, SkipEmpty, At
<1>2. stack' = Advanced(stack)
  BY <1>1 DEF Advance, Advanced
<1> DEFINE w == Walked(lost, stack)
<1>3. /\ WalkInv(top, lost, stack') /\ block \in BlockRef /\ w \in Seq(BlockRef)
      /\ Walked(lost, stack') = Append(w, block)
  <2> DEFINE f == stack[Len(stack)]
             r == f.blocks[f.offset + 1]
  <2>1. WalkInv(top, lost, stack) /\ f.offset < Len(f.blocks) /\ r = block
    BY <1>1, Running
  <2>2. r.type # "indirect"
    BY <1>1, <2>1
  <2>3. /\ WalkInv(top, lost, Advanced(stack)) /\ r \in BlockRef /\ w \in Seq(BlockRef)
        /\ Walked(lost, Advanced(stack)) = Append(w, r)
    BY <2>1, <2>2, WalkPasses
  <2> HIDE DEF r
  <2> QED BY <1>2, <2>1, <2>3
<1>4. list = OfType("data", w)
  BY <1>1, Running
<1> HIDE DEF w
<1>5. list' = OfType("data", Walked(lost, stack'))
  <2>1. OfType("data", Append(w, block)) =
           IF block.type = "data" THEN Append(OfType("data", w), block) ELSE OfType("data", w)
    BY <1>3, OfTypeMore
  <2> QED BY <1>1, <1>3, <1>4, <2>1
<1>6. NothingLost' /\ RestListed'
  BY <1>1 DEF MapInv, NothingLost, RestListed
<1> QED BY <1>1, <1>3, <1>5, <1>6 DEF MapInv, ListIsWalked

LEMMA MapUp ==
    ASSUME MapInv, Up
    PROVE  MapInv'
<1>1. state = "running" /\ AtEnd /\ UNCHANGED <<top, list, lost>>
  BY DEF Up
<1>2. /\ WalkInv(top, lost, stack) /\ list = OfType("data", Walked(lost, stack))
      /\ Len(stack) \in Nat \ {0} /\ stack \in Seq(Level)
      /\ stack[Len(stack)].offset >= Len(stack[Len(stack)].blocks)
  BY <1>1, Running DEF AtEnd, cur
<1>3. CASE Outermost
  <2>1. Len(stack) = 1 /\ state' = "done"
    BY <1>3 DEF Up, Outermost
  <2>2. Walked(lost, stack) = Below(top, lost)
    BY <1>2, <2>1, WalkEnds
  <2>3. RestListed'
    BY <1>1, <1>2, <2>2 DEF RestListed, Blocks
  <2>4. NothingLost'
    BY <1>1 DEF MapInv, NothingLost
  <2> QED BY <1>1, <2>1, <2>3, <2>4 DEF MapInv, ListIsWalked
<1>4. CASE ~ Outermost
  <2>1. Len(stack) > 1 /\ UNCHANGED state
    <3>1. Len(stack) # 1
      BY <1>4 DEF Outermost
    <3>2. Len(stack) > 1
      <4>1. Len(stack) \in Nat \ {0}
        BY <1>2
      <4> DEFINE n == Len(stack)
      <4> HIDE DEF n
      <4>2. n \in Nat \ {0} /\ n # 1 => n > 1
        OBVIOUS
      <4> QED BY <3>1, <4>1, <4>2 DEF n
    <3>3. UNCHANGED state
      BY <1>4 DEF Up
    <3> QED BY <3>2, <3>3
  <2>2. WalkInv(top, lost, Front(stack)) /\ Walked(lost, Front(stack)) = Walked(lost, stack)
    BY <1>2, <2>1, WalkLeaves
  <2>3. stack' = Front(stack)
    <3> DEFINE f == Front(stack)
    <3>1. stack' = [f EXCEPT ![Len(stack) - 1] = f[Len(stack) - 1]]
      BY <1>4 DEF Up, Resume
    <3>2. f \in Seq(Level)
      BY <1>2 DEF Front
    <3> HIDE DEF f
    <3> QED BY <3>1, <3>2 DEF f
  <2>4. NothingLost' /\ RestListed'
    BY <1>1, <2>1 DEF MapInv, NothingLost, RestListed
  <2> QED BY <1>1, <1>2, <2>1, <2>2, <2>3, <2>4 DEF MapInv, ListIsWalked
<1> QED BY <1>3, <1>4

LEMMA MapLoad ==
    ASSUME MapInv, LoadLevel
    PROVE  MapInv'
<1>1. /\ state = "running" /\ ~ AtEnd /\ block.type = "indirect"
      /\ stack' = Append(Advance, Enter(BlocksOf(block.to)))
      /\ UNCHANGED <<top, list, state, lost>>
  BY DEF LoadLevel, At
<1> DEFINE blocks == BlocksOf(block.to)
<1>2. stack' = Entered(stack, blocks)
  BY <1>1 DEF Advance, Advanced, Entered
<1>3. Len(stack) \in 1 .. Len(stack) /\ Levels(stack)
  BY <1>1, Running
<1>4. blocks \in Seq(BlockRef)
  <2> DEFINE b == cur.blocks
             o == cur.offset
  <2>1. b \in Seq(BlockRef) /\ o \in 0 .. Len(b)
    BY <1>1, <1>3, Running, LevelFacts
  <2>2. o < Len(b)
    BY <1>1, Running DEF cur
  <2>3. block = b[o + 1]
    BY DEF block
  <2> HIDE DEF b, o
  <2>4. block \in BlockRef
    BY <2>1, <2>2, <2>3
  <2> HIDE DEF block
  <2>5. block.to \in Node \cup {None}
    BY <2>4 DEF BlockRef
  <2> QED BY <2>5, TreeAssumption DEF BlocksOf
<1>5. WalkInv(top, lost, stack') /\ Walked(lost, stack') = Walked(lost, stack)
  <2> HIDE DEF blocks
  <2>1. QED
    BY <1>1, <1>2, <1>4, Running, WalkEnters DEF blocks
<1>6. NothingLost' /\ RestListed'
  BY <1>1 DEF MapInv, NothingLost, RestListed
<1> QED BY <1>1, <1>5, <1>6, Running DEF MapInv, ListIsWalked

LEMMA MapDamaged ==
    ASSUME MapInv, LoadDamaged
    PROVE  MapInv'
<1>0. state = "running" /\ ~ AtEnd /\ block.type = "indirect"
  BY DEF LoadDamaged, At
<1>1. /\ block.to # None
      /\ state' = "unloadable" \/ (~ block.check /\ UNCHANGED state)
      /\ UNCHANGED <<top, list>>
  BY DEF LoadDamaged, At, OnError
<1>2. PICK blocks \in Damaged(block.to, block.check) :
         /\ stack' = Append(Advance, Enter(blocks))
         /\ lost' = Losing(lost, PathOf(stack), blocks)
  BY DEF LoadDamaged
<1>3. stack' = Entered(stack, blocks)
  BY <1>2 DEF Advance, Advanced, Entered
<1>4. Len(stack) \in 1 .. Len(stack) /\ Levels(stack)
  BY <1>0, Running
<1> DEFINE b == cur.blocks
           o == cur.offset
<1>5. b \in Seq(BlockRef) /\ o \in 0 .. Len(b) /\ o < Len(b) /\ block = b[o + 1]
  BY <1>0, <1>4, Running, LevelFacts DEF cur, block
<1>6. block \in BlockRef /\ o + 1 \in 1 .. Len(b)
  <2>1. Len(b) \in Nat
    BY <1>5, LenProperties
  <2> HIDE DEF b, o, block
  <2> QED BY <1>5, <2>1
<1>7. block.to \in Node
  <2> HIDE DEF block
  <2> QED BY <1>1, <1>6 DEF BlockRef
<1>8. blocks \in Seq(BlockRef)
  BY <1>7, DamagedType
<1>9. lost' = Losing(lost, PlaceBelow(stack), blocks)
  BY <1>2, <1>4, PathIs
<1>10. WalkInv(top, lost', stack') /\ Walked(lost', stack') = Walked(lost, stack)
  <2> DEFINE f == stack[Len(stack)]
             r == f.blocks[f.offset + 1]
  <2>1. WalkInv(top, lost, stack) /\ f.offset < Len(f.blocks) /\ r = block
    BY <1>0, Running
  <2>2. r.type = "indirect"
    BY <1>0, <2>1
  <2> HIDE DEF block
  <2>3. /\ WalkInv(top, lost', Entered(stack, blocks))
        /\ Walked(lost', Entered(stack, blocks)) = Walked(lost, stack)
    BY <1>8, <1>9, <2>1, <2>2, WalkEnters
  <2> QED BY <1>3, <2>3
<1>11. NothingLost'
  <2> SUFFICES ASSUME Hashed(top), state' \in {"running", "done"} PROVE FALSE
    BY <1>1 DEF NothingLost
  <2>1. ~ block.check
    BY <1>1
  <2>2. lost = <<>> /\ DOMAIN <<>> = {}
    BY <1>0 DEF MapInv, NothingLost
  <2>3. \/ \E i \in DOMAIN top : top[i] = block
        \/ \E n \in Node : \E i \in DOMAIN Refs[n] : Refs[n][i] = block
    <3>1. block = stack[Len(stack)].blocks[o + 1] /\ o + 1 \in 1 .. Len(stack[Len(stack)].blocks)
      BY <1>5, <1>6 DEF cur
    <3> HIDE DEF block, o
    <3>2. WalkInv(top, lost, stack)
      BY <1>0, Running
    <3>3. DOMAIN lost = {}
      BY <2>2
    <3> DEFINE k == Len(stack)
               j == o + 1
    <3>4. k \in 1 .. Len(stack) /\ j \in 1 .. Len(stack[k].blocks) /\ stack[k].blocks[j] = block
      BY <1>4, <3>1
    <3> HIDE DEF k, j
    <3>5. \/ \E i \in DOMAIN top : top[i] = stack[k].blocks[j]
          \/ \E n \in Node : \E i \in DOMAIN Refs[n] : Refs[n][i] = stack[k].blocks[j]
          \/ \E q \in DOMAIN lost : \E i \in DOMAIN lost[q] : lost[q][i] = stack[k].blocks[j]
      BY ONLY <3>2, <3>4, FromTree
    <3> QED BY ONLY <3>3, <3>4, <3>5
  <2>4. block \in Range(top) \cup UNION {Range(Refs[n]) : n \in Node}
    BY <2>3 DEF Range
  <2> QED BY <1>0, <2>1, <2>4 DEF Hashed
<1>12. RestListed'
  BY <1>0, <1>1 DEF RestListed
<1> QED BY <1>0, <1>1, <1>10, <1>11, <1>12, Running DEF MapInv, ListIsWalked

LEMMA MapSteps == MapInv /\ [Next]_vars => MapInv'
<1> SUFFICES ASSUME MapInv, [Next]_vars PROVE MapInv'
  OBVIOUS
<1>1. CASE Unhandled
  <2>1. state' = "unhandled" /\ UNCHANGED <<top, stack, list, lost>>
    BY <1>1 DEF Unhandled
  <2> QED BY <2>1 DEF MapInv, ListIsWalked, NothingLost, RestListed
<1>2. CASE UNCHANGED vars
  BY <1>2 DEF vars, MapInv, ListIsWalked, NothingLost, RestListed, Blocks
<1> QED BY <1>1, <1>2, MapPass, MapUp, MapLoad, MapDamaged DEF Next

LEMMA MapInvariance == Spec => []MapInv
  BY MapInit, MapSteps, PTL DEF Spec

(* Whatever a damaged block is taken for, a file that is opened has the    *)
(* blocks of the tree as it was read, in its order: none twice, none       *)
(* missing, at whatever depth.                                             *)
THEOREM RestIsListed == Spec => []RestListed
<1>1. MapInv => RestListed
  BY DEF MapInv
<1> QED BY <1>1, MapInvariance, PTL

(* A file whose indirect blocks are hashed is opened with all its blocks   *)
(* or not at all.                                                          *)
THEOREM AllOrNone == Spec => []AllBlocksOrNone
<1>1. MapInv => AllBlocksOrNone
  <2> SUFFICES ASSUME MapInv, state = "done", Hashed(top) PROVE list = Blocks(<<>>)
    BY DEF AllBlocksOrNone
  <2>1. lost = <<>> /\ list = Blocks(lost)
    BY DEF MapInv, NothingLost, RestListed
  <2> QED BY <2>1
<1> QED BY <1>1, MapInvariance, PTL
=============================================================================
