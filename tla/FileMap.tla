------------------------------ MODULE FileMap ------------------------------
(***************************************************************************)
(* loaddatablocklist() of 9p.c, which fsopen() calls to list the blocks of *)
(* a file: the walk of loadinodes() over, but for its errors, which end    *)
(* the server.                                                             *)
(***************************************************************************)
EXTENDS BlockTree

CONSTANTS
    Files,      \* the block sets that files may have at their top
    MaxFaults   \* bound: indirect blocks that come back damaged

ASSUME FilesAssumption == Files \subseteq Seq(BlockRef)
ASSUME MaxFaultsAssumption == MaxFaults \in Nat

VARIABLES
    top,        \* the block set of the file being opened
    stack,      \* the Aux chain, innermost last: blocks and offset
    list,       \* the blocks from headn to curn
    state,      \* running, done, or how the server ended
    lost,       \* what was taken where the load of a block failed
    faults

vars == <<top, stack, list, state, lost, faults>>

cur == stack[Len(stack)]
block == cur.blocks[cur.offset + 1]
AtEnd == cur.offset >= Len(cur.blocks)
-----------------------------------------------------------------------------
Init ==
    /\ top \in Files
    /\ stack = << Enter(top) >>
    /\ list = <<>>
    /\ state = "running"
    /\ lost = <<>> /\ faults = 0

(* Mistake: the level above goes on two references later. *)
Resume_Skips(frame) == [frame EXCEPT !.offset = @ + 1]

(* The level above goes on where it left off.                              *)
Resume(frame) == frame

Outermost == Len(stack) = 1

Up ==
    /\ state = "running" /\ AtEnd
    /\ IF Outermost
       THEN stack' = <<>> /\ state' = "done"
       ELSE /\ stack' = [Front(stack) EXCEPT ![Len(stack) - 1] = Resume(@)]
            /\ UNCHANGED state
    /\ UNCHANGED <<top, list, lost, faults>>

(* cur->offset = i + 1 *)
Advance == [stack EXCEPT ![Len(stack)].offset = @ + 1]

At(type) == state = "running" /\ ~ AtEnd /\ block.type = type

ListBlock ==
    /\ At("data")
    /\ list' = Append(list, block)
    /\ stack' = Advance
    /\ UNCHANGED <<top, state, lost, faults>>

(* Mistake: an empty reference is not passed. *)
SkipEmpty_Stays == At("empty") /\ UNCHANGED vars

SkipEmpty ==
    /\ At("empty")
    /\ stack' = Advance
    /\ UNCHANGED <<top, list, state, lost, faults>>

LoadLevel ==
    /\ At("indirect")
    /\ stack' = Append(Advance, Enter(BlocksOf(block.to)))
    /\ UNCHANGED <<top, list, state, lost, faults>>

(* Mistake: the error of a load is printed, as loadinodes() does. *)
OnError_Print == UNCHANGED state

OnError == state' = "unloadable"

(* The load of an indirect block fails, or lets a damaged block through;   *)
(* without a hash its decompression may still fail.                        *)
LoadDamaged ==
    /\ At("indirect") /\ block.to # None
    /\ faults < MaxFaults
    /\ \E blocks \in Damaged(block.to, block.check) :
          /\ stack' = Append(Advance, Enter(blocks))
          /\ lost' = Losing(lost, PathOf(stack), blocks)
    /\ faults' = faults + 1
    /\ OnError \/ (~ block.check /\ UNCHANGED state)
    /\ UNCHANGED <<top, list>>

Unhandled ==
    /\ \E type \in BlockTypes \ {"data", "empty", "indirect"} : At(type)
    /\ state' = "unhandled"
    /\ UNCHANGED <<top, stack, list, lost, faults>>

Next ==
    Up \/ ListBlock \/ SkipEmpty \/ LoadLevel \/ LoadDamaged \/ Unhandled

Spec == Init /\ [][Next]_vars

(* One proc runs the function and it waits for nothing but the disk.       *)
FairSpec == Spec /\ WF_vars(Next)
-----------------------------------------------------------------------------
(* The blocks of the file in the order of its tree.                        *)
Blocks(missing) == OfType("data", Below(top, missing))

(* A file whose indirect blocks are hashed is opened with all its blocks,  *)
(* in the order of the tree, or the server ends: no open file reads zeros  *)
(* where it has data because an indirect block could not be read.          *)
AllBlocksOrNone == (state = "done" /\ Hashed(top)) => list = Blocks(<<>>)

(* Whatever a damaged block without a hash was taken for, down to further  *)
(* indirect blocks, the list is that of the tree as it was read: its other *)
(* blocks are listed each once, none missing, and in their order.          *)
RestListed == state = "done" => list = Blocks(lost)

(* The walk comes to an end.                                               *)
Ends == <>(state # "running")
=============================================================================
