----------------------------- MODULE BlockTree -----------------------------
(***************************************************************************)
(* The tree of block references under an inode, which loadinodes() and     *)
(* loaddatablocklist() of 9p.c both walk with a stack of their own.        *)
(*                                                                         *)
(* A block reference is a record                                           *)
(*     type    its type,                                                   *)
(*     id      the number of an inode, the name of an entry, the key of a  *)
(*             block of data,                                              *)
(*     to      the indirect block it refers to,                            *)
(*     check   whether a hash protects that block.                         *)
(***************************************************************************)
EXTENDS Integers, Sequences, FiniteSets, SequencesExt

CONSTANTS
    Node,       \* indirect blocks, and whatever else may be read as one
    Refs,       \* Refs[n]: the references in the indirect block n
    Garbage     \* references that the bytes of a damaged block may be taken for

None == "none"
BlockTypes == {"empty", "inode", "dirent", "data", "indirect", "other"}
BlockRef == [type : BlockTypes, id : Nat, to : Node \cup {None}, check : BOOLEAN]

ASSUME TreeAssumption == None \notin Node /\ Refs \in [Node -> Seq(BlockRef)]
ASSUME GarbageAssumption == Garbage \subseteq BlockRef

(* No indirect block is below itself: the program writes none, and the     *)
(* walks do not end in a tree that has one.                                *)
ASSUME AcyclicAssumption ==
    /\ IsFiniteSet(Node)
    /\ \E rank \in [Node -> 0 .. Cardinality(Node)] :
          \A n \in Node : \A k \in 1 .. Len(Refs[n]) :
              LET r == Refs[n][k]
              IN  (r.type = "indirect" /\ r.to # None) => rank[r.to] < rank[n]

Empty == [type |-> "empty", id |-> 0, to |-> None, check |-> TRUE]
Junk == [Empty EXCEPT !.type = "other"]

(* A level of the walk: an Aux with its blocks and its offset. *)
Level == [blocks : Seq(BlockRef), offset : Nat]
Enter(blocks) == [blocks |-> blocks, offset |-> 0]

(* Where in the tree the walk is: the reference taken at each level.       *)
PathOf(stack) ==
    [k \in 1 .. Len(stack) |-> stack[k].offset + IF k = Len(stack) THEN 1 ELSE 0]

(* What the zeroed buffer of a level may hold after a damaged block was    *)
(* loaded into it: a hash gives the damage away and the buffer stays zero, *)
(* which reads as empty references; without a hash every reference is      *)
(* whatever its bytes are taken for.                                       *)
Damaged(n, check) ==
    IF check THEN {[k \in 1 .. Len(Refs[n]) |-> Empty]}
    ELSE [1 .. Len(Refs[n]) -> Garbage]

(* Every indirect block under a set of references is hashed.               *)
Hashed(set) ==
    \A r \in Range(set) \cup UNION {Range(Refs[n]) : n \in Node} :
        r.type = "indirect" => r.check

(* A block of radix 0 is a level without references. *)
BlocksOf(n) == IF n = None THEN <<>> ELSE Refs[n]

(* lost[p] are the references taken from the buffer where the load of the  *)
(* block at the place p failed or let damage through.                      *)
Losing(lost, place, blocks) ==
    [p \in DOMAIN lost \cup {place} |-> IF p = place THEN blocks ELSE lost[p]]

(* The references that were read from a block at a place.                  *)
Held(lost, n, path) == IF path \in DOMAIN lost THEN lost[path] ELSE BlocksOf(n)

(* The references behind those of a block at a place of the tree: L tells  *)
(* what is behind an indirect one.                                         *)
Behind(L, refs, path) ==
    [k \in 1 .. Len(refs) |->
        IF refs[k].type = "indirect" THEN L[<<refs[k].to, Append(path, k)>>]
        ELSE << refs[k] >>]

(* The references below an indirect block at a place, in the order of the  *)
(* tree, with those taken from the buffers of lost blocks for theirs.      *)
Leaves(lost) ==
    LET L[x \in (Node \cup {None}) \X Seq(Nat)] ==
            FlattenSeq(Behind(L, Held(lost, x[1], x[2]), x[2]))
    IN  L

(* The same below a set of references. *)
Below(set, lost) == FlattenSeq(Behind(Leaves(lost), set, <<>>))

OfType(type, refs) ==
    FlattenSeq([k \in DOMAIN refs |-> IF refs[k].type = type THEN << refs[k] >> ELSE <<>>])
=============================================================================
