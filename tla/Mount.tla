------------------------------- MODULE Mount -------------------------------
(***************************************************************************)
(* fsstart() of 9p.c: from the blockset of the chosen volume header to the *)
(* super-root, from there to the root inode with the name that was asked   *)
(* for, and from there, by loadinodes(), to the entries of the root and    *)
(* the table of inodes.                                                    *)
(***************************************************************************)
EXTENDS DirLoad

CONSTANTS
    InodeId,    \* inodes on the way: super-roots and roots
    Inode,      \* Inode[n]: what the block of n holds
    Volumes,    \* blocksets that volume headers may have
    Names,      \* names given with -r
    Nothing     \* what is neither an inode nor a name

(* A reference to an inode, or to an indirect block with the inode in it.  *)
Sref == [type : {"empty", "inode", "indirect"}, to : InodeId \cup {Nothing}]
InodeData ==
    [suproot : BOOLEAN, name : Names \cup {Nothing}, inum : Nat, slots : Nat,
     roots : Seq(Sref), set : Seq(BlockRef)]

(* A blockset has four references, and what one to an inode leads to is    *)
(* taken for an inode.                                                     *)
SetCount == 4
Blockset(s) ==
    /\ s \in [1 .. SetCount -> Sref]
    /\ \A k \in 1 .. SetCount : s[k].type = "inode" => s[k].to \in InodeId

ASSUME InodeAssumption ==
    /\ Inode \in [InodeId -> InodeData]
    /\ \A n \in InodeId : Inode[n].suproot => Blockset(Inode[n].roots)
    /\ \A v \in Volumes : Blockset(v)
    /\ Nothing \notin InodeId /\ Nothing \notin Names
    /\ Dirs = {Inode[n].set : n \in InodeId}

(* The global root.inode is zero at first; suproot is on the stack.        *)
NoInode == [suproot |-> FALSE, name |-> Nothing, inum |-> 0, slots |-> 0,
            roots |-> <<>>, set |-> <<>>]

VARIABLES
    volume,     \* the blockset of the header that was chosen
    pfsname,    \* the name asked for
    at,         \* i, and j or 0 when it is not inside a super-root
    suproot,    \* the super-root read last
    root,       \* root.inode, read last
    rootref,    \* the reference that was entered as the root's
    phase       \* scanning, found, or fatal

scan == <<volume, pfsname, at, suproot, root, rootref, phase>>
mvars == <<scan, vars>>
-----------------------------------------------------------------------------
MountInit ==
    /\ volume \in Volumes /\ pfsname \in Names
    /\ at = [i |-> 1, j |-> 0]
    /\ suproot = NoInode /\ root = NoInode /\ rootref = Nothing
    /\ phase = "scanning"
    /\ top = <<>> /\ stack = << Enter(<<>>) >>
    /\ entry = <<>> /\ cap = 0
    /\ inodes = <<>> /\ maxinodes = 0
    /\ state = "idle"
    /\ lost = <<>> /\ faults = 0

(* What loadinode() leaves in the variable it is given: a failed load is   *)
(* printed and the variable keeps what it had.                             *)
Loaded(n, before) ==
    \/ before' = Inode[n] /\ UNCHANGED faults
    \/ faults < MaxFaults /\ faults' = faults + 1 /\ UNCHANGED before

Scanning == phase = "scanning"
load == <<top, stack, entry, cap, inodes, maxinodes, state, lost>>
SrootRef == volume[at.i]

(* A reference in the volume header is read when it is an inode's.         *)
ReadSuproot ==
    /\ Scanning /\ at.j = 0 /\ at.i <= SetCount
    /\ IF SrootRef.type = "inode"
       THEN Loaded(SrootRef.to, suproot)
       ELSE UNCHANGED <<suproot, faults>>
    /\ at' = IF SrootRef.type = "inode" /\ suproot'.suproot
             THEN [at EXCEPT !.j = 1] ELSE [at EXCEPT !.i = @ + 1]
    /\ UNCHANGED <<volume, pfsname, root, rootref, phase, load>>

(* Mistake: only three of the four references are looked at. *)
InnerEnd_Early == at.j = SetCount

InnerEnd == at.j > SetCount

(* Mistake: the scan of the header starts again. *)
NextRef_FromFirst == [i |-> 1, j |-> 0]

NextRef == [i |-> at.i + 1, j |-> 0]

LeaveSuproot ==
    /\ Scanning /\ at.j > 0 /\ InnerEnd
    /\ at' = NextRef
    /\ UNCHANGED <<volume, pfsname, suproot, root, rootref, phase, load, faults>>

(* Mistake: the reference of the outer loop is taken. *)
RootRef_Outer == suproot.roots[at.i]

RootRef == suproot.roots[at.j]

Matches(r) == r.name = pfsname

(* The table is made, or no memory for it ends the server, the root is     *)
(* entered in it, and loadinodes() is begun.                               *)
Found ==
    LET n == root'.inum
        first == root'.slots
        table == IF n < first THEN [m \in 0 .. first - 1 |-> Empty]
                 ELSE [m \in 0 .. 2 * n - 1 |-> IF m < first THEN Empty ELSE Junk]
        slots == IF n < first THEN first ELSE 2 * n
        self == [type |-> "inode", id |-> n, to |-> None, check |-> TRUE]
    IN  /\ phase' = "found"
        /\ rootref' = RootRef.to
        /\ top' = root'.set /\ stack' = << Enter(root'.set) >>
        /\ entry' = <<>> /\ cap' = 0
        /\ IF slots <= MaxTable /\ n \in DOMAIN table
           THEN /\ inodes' = [table EXCEPT ![n] = self]
                /\ maxinodes' = slots
                /\ state' = "running"
           ELSE /\ inodes' = <<>> /\ maxinodes' = 0
                /\ state' = IF first > MaxTable THEN "noMemory" ELSE "overrun"
        /\ lost' = <<>>
        /\ UNCHANGED at

ReadRoot ==
    /\ Scanning /\ at.j > 0 /\ ~ InnerEnd
    /\ IF suproot.roots[at.j].type # "inode"
       THEN /\ at' = [at EXCEPT !.j = @ + 1]
            /\ UNCHANGED <<root, rootref, phase, load, faults>>
       ELSE /\ Loaded(suproot.roots[at.j].to, root)
            /\ IF Matches(root') THEN Found
               ELSE at' = [at EXCEPT !.j = @ + 1] /\ UNCHANGED <<rootref, phase, load>>
    /\ UNCHANGED <<volume, pfsname, suproot>>

NotFound ==
    /\ Scanning /\ at.i > SetCount
    /\ phase' = "fatal"
    /\ UNCHANGED <<volume, pfsname, at, suproot, root, rootref, load, faults>>

LoadRoot == phase = "found" /\ Next /\ UNCHANGED scan

MountNext == ReadSuproot \/ LeaveSuproot \/ ReadRoot \/ NotFound \/ LoadRoot

MountSpec == MountInit /\ [][MountNext]_mvars /\ WF_mvars(MountNext)
-----------------------------------------------------------------------------
(* The inodes that a super-root the volume refers to refers to.            *)
Children(n) == {r.to : r \in {x \in Range(Inode[n].roots) : x.type = "inode"}}
Suproots == {r.to : r \in {x \in Range(volume) : x.type = "inode"}}
Mountable ==
    UNION {Children(n) : n \in {m \in Suproots : Inode[m].suproot}}

(* Whatever loads fail on the way, and although a failed one leaves the    *)
(* inode read before in the variable, what is mounted is a root of that    *)
(* name under the volume's super-root, and the inode, the reference in the *)
(* table and the number of slots are of one and the same root.             *)
MountsAsked ==
    phase = "found" =>
        /\ rootref \in Mountable
        /\ root = Inode[rootref] /\ root.name = pfsname

(* A root that the super-root refers to itself, and that can be read, is   *)
(* found.                                                                  *)
FoundIfReadable ==
    (phase = "fatal" /\ faults = 0) =>
        \A n \in Mountable : Inode[n].name # pfsname

(* The entries served for the root are those of the root asked for, in the *)
(* order of its tree, each as often as it is there, at whatever depth it   *)
(* lies and whatever was met in between.  A lost block costs what is below *)
(* it and nothing else, and if it has no hash puts in its place what its   *)
(* bytes are taken for and what is below that.  The root itself is in the  *)
(* table beside every inode that was read, however often the table grew.   *)
RootServed ==
    (phase = "found" /\ state = "done") =>
        /\ top = Inode[rootref].set
        /\ ListedInOrder
        /\ inodes[root.inum].type = "inode"
        /\ TableComplete

(* A slot of the table is as it was made, or holds a reference of the tree *)
(* or of the root, in the slot of its number; and so is every entry that   *)
(* is listed.  Damage adds a reference only where there is an indirect     *)
(* block without a hash, and then only what the bytes of a damaged one are *)
(* taken for: what else a buffer may hold is never entered.                *)
NothingInvented ==
    LET Known(r) == InTree(r) \/ (~ Hashed(top) /\ FromDamage(r))
    IN  /\ \A n \in DOMAIN inodes :
              inodes[n].type = "inode" =>
                  inodes[n].id = n /\ (Known(inodes[n]) \/ n = root.inum)
        /\ \A k \in DOMAIN entry : Known(entry[k])

(* The list never holds more entries than the memory it was given has room *)
(* for, however often it grew, and mkinode() writes outside the table for  *)
(* a root of the number 0 or for lack of memory only.                      *)
WithinMemory ==
    /\ Len(entry) <= cap
    /\ state = "overrun" =>
          IF maxinodes = 0 THEN root.inum = 0 \/ 2 * root.inum > MaxTable
          ELSE 2 * block.id > MaxTable

(* The server mounts or gives up.                                          *)
Settles == <>(phase = "fatal" \/ state \notin {"idle", "running"})
=============================================================================
