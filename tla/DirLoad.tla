------------------------------ MODULE DirLoad ------------------------------
(***************************************************************************)
(* loadinodes() of 9p.c, which walks the tree of block references under a  *)
(* directory's inode with a stack of its own, lists the directory entries  *)
(* it meets and enters the inodes it meets in the global table (mkinode).  *)
(***************************************************************************)
EXTENDS BlockTree

CONSTANTS
    Dirs,       \* the block sets that directories may have at their top
    FirstCap,   \* entries the list is first made for (16)
    MaxTable,   \* slots that memory has room for
    MaxFaults   \* bound: indirect blocks that come back damaged

ASSUME DirsAssumption == Dirs \subseteq Seq(BlockRef)
ASSUME SizesAssumption ==
    FirstCap \in Nat \ {0} /\ MaxTable \in Nat /\ MaxFaults \in Nat

VARIABLES
    top,        \* the block set of the directory being loaded
    stack,      \* the Aux chain, innermost last: blocks and offset
    entry,      \* DirEnts.entry[0 .. count - 1]
    cap,        \* DirEnts.cap
    inodes,     \* the table: the references entered in it
    maxinodes,
    state,      \* running, done, or how the server ended
    lost,       \* what was taken where the load of a block failed
    faults

vars == <<top, stack, entry, cap, inodes, maxinodes, state, lost, faults>>

cur == stack[Len(stack)]
block == cur.blocks[cur.offset + 1]
AtEnd == cur.offset >= Len(cur.blocks)
-----------------------------------------------------------------------------
(* Mistake: the reference after the indirect block is passed over. *)
Resume_Skips(frame) == [frame EXCEPT !.offset = @ + 1]

(* The level above goes on where it left off.                              *)
Resume(frame) == frame

Outermost == Len(stack) = 1

Up ==
    /\ state = "running" /\ AtEnd
    /\ IF Outermost
       THEN state' = "done" /\ UNCHANGED stack
       ELSE /\ stack' = [Front(stack) EXCEPT ![Len(stack) - 1] = Resume(@)]
            /\ UNCHANGED state
    /\ UNCHANGED <<top, entry, cap, inodes, maxinodes, lost, faults>>

(* cur->offset++ *)
Advance == [stack EXCEPT ![Len(stack)].offset = @ + 1]

At(type) == state = "running" /\ ~ AtEnd /\ block.type = type

(* The table mkinode() has room in: grown to twice the number, the new     *)
(* slots being junk.                                                       *)
Grown(n) ==
    [m \in 0 .. 2 * n - 1 |->
        IF m < maxinodes THEN inodes[m] ELSE Junk]

(* Mistake: the slot one past the table is taken for one of its slots. *)
Fits_OnePast(n) == n <= maxinodes

Fits(n) == n < maxinodes

(* mkinode().  Neither a table there is no memory for nor the table of no  *)
(* slots that doubling 0 makes is told apart from one there is room in.    *)
MkInode ==
    /\ At("inode")
    /\ LET n == block.id
           table == IF Fits(n) THEN inodes ELSE Grown(n)
           slots == IF Fits(n) THEN maxinodes ELSE 2 * n
       IN  IF slots <= MaxTable /\ n \in DOMAIN table
           THEN /\ inodes' = [table EXCEPT ![n] = block]
                /\ maxinodes' = slots
                /\ stack' = Advance
                /\ UNCHANGED state
           ELSE state' = "overrun" /\ UNCHANGED <<stack, inodes, maxinodes>>
    /\ UNCHANGED <<top, entry, cap, lost, faults>>

SkipEmpty ==
    /\ At("empty")
    /\ stack' = Advance
    /\ UNCHANGED <<top, entry, cap, inodes, maxinodes, state, lost, faults>>

NextCap == IF cap = 0 THEN FirstCap ELSE IF Len(entry) = cap THEN 2 * cap ELSE cap

ListEntry ==
    /\ At("dirent")
    /\ cap' = NextCap
    /\ entry' = Append(entry, block)
    /\ stack' = Advance
    /\ UNCHANGED <<top, inodes, maxinodes, state, lost, faults>>

(* Mistake: the buffer is not zeroed and holds an entry of long ago. *)
AfterDamage_Unzeroed(blocks) ==
    [k \in DOMAIN blocks |->
        IF blocks[k] = Empty THEN [Empty EXCEPT !.type = "dirent", !.id = 9]
        ELSE blocks[k]]

AfterDamage(blocks) == blocks

(* An error is printed and the walk goes on with the buffer as it is.      *)
Indirect ==
    /\ At("indirect")
    /\ IF block.to = None
       THEN state' = "noRadix" /\ UNCHANGED <<stack, lost, faults>>
       ELSE /\ \/ /\ stack' = Append(Advance, Enter(Refs[block.to]))
                  /\ UNCHANGED <<lost, faults>>
               \/ /\ faults < MaxFaults
                  /\ \E blocks \in Damaged(block.to, block.check) :
                        /\ stack' = Append(Advance, Enter(AfterDamage(blocks)))
                        /\ lost' = Losing(lost, PathOf(stack), blocks)
                  /\ faults' = faults + 1
            /\ UNCHANGED state
    /\ UNCHANGED <<top, entry, cap, inodes, maxinodes>>

Unhandled ==
    /\ At("other") \/ At("data")
    /\ state' = "unhandled"
    /\ UNCHANGED <<top, stack, entry, cap, inodes, maxinodes, lost, faults>>

Next == Up \/ MkInode \/ SkipEmpty \/ ListEntry \/ Indirect \/ Unhandled

-----------------------------------------------------------------------------
(* The references of the directory as they were read.                      *)
Tree == Below(top, lost)

(* A reference that is somewhere in the tree of the directory.             *)
InTree(r) ==
    \/ \E k \in DOMAIN top : top[k] = r
    \/ \E n \in Node : \E k \in DOMAIN Refs[n] : Refs[n][k] = r

(* A reference that the bytes of a damaged block were taken for.           *)
FromDamage(r) == \E p \in DOMAIN lost : \E k \in DOMAIN lost[p] : lost[p][k] = r

(* When the walk is done the list is the directory's entries in the order  *)
(* of the tree as it was read, each as often as it is there.               *)
ListedInOrder == state = "done" => entry = OfType("dirent", Tree)

(* When the walk is done every inode that was read is in the table.        *)
TableComplete ==
    state = "done" =>
        \A r \in Range(Tree) :
            r.type = "inode" => r.id \in DOMAIN inodes /\ inodes[r.id].type = "inode"
=============================================================================
