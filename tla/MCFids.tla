------------------------------- MODULE MCFids -------------------------------
(* Three small file systems.                                               *)
EXTENDS Fids, TLC

AnyFid == Permutations(Fid)

Inums == 0 .. 6
E(name, n) == [name |-> name, inum |-> n, long |-> FALSE]
L(name, n) == [name |-> name, inum |-> n, long |-> TRUE]
Direct(entries, inodes) == [entries |-> entries, inodes |-> inodes, indirect |-> FALSE]
Behind(entries, inodes) == [entries |-> entries, inodes |-> inodes, indirect |-> TRUE]
Tree(kind, parent, parts) ==
    [kind |-> [n \in Inums |-> IF n \in DOMAIN kind THEN kind[n] ELSE "none"],
     parent |-> [n \in Inums |-> IF n \in DOMAIN parent THEN parent[n] ELSE 0],
     parts |-> [n \in Inums |-> IF n \in DOMAIN parts THEN parts[n] ELSE <<>>]]

(* All inodes are the root's; a directory with a symbolic link, one that   *)
(* is empty, and a file; the table grows while it is loaded.               *)
Flat == Tree(<<"dir", "dir", "file", "link", "dir">>, <<0, 1, 1, 2, 1>>,
    << << Direct(<<E("d", 2), E("f", 3)>>, <<2, 5>>),
          Behind(<<L("x", 5)>>, <<3, 4>>) >>,
       << Direct(<<E("d", 4), E("f", 3)>>, <<>>) >> >>)

(* Each directory has the inodes of its entries, so that walks grow the    *)
(* table.                                                                  *)
Nested == Tree(<<"dir", "dir", "file", "file", "dir", "file">>, <<0, 1, 1, 2, 2, 5>>,
    << << Behind(<<L("d", 2)>>, <<2>>), Direct(<<L("f", 3)>>, <<3>>) >>,
       << Direct(<<E("d", 5)>>, <<5>>), Behind(<<E("f", 4)>>, <<4>>) >>,
       <<>>, <<>>,
       << Behind(<<E("x", 6)>>, <<6>>) >> >>)

(* An empty directory whose parent is past the table, entries whose number *)
(* is the one past the table and the one that stands for no inode, and a   *)
(* device.                                                                 *)
Odd == Tree(<<"dir", "dir", "file", "other", "dir">>, <<0, 1, 1, 2, 6>>,
    << << Direct(<<E("d", 2), E("x", 5)>>, <<5, 3, 4, 2>>) >>,
       << Direct(<<E("d", 4), E("x", 6), E("f", 0)>>, <<>>) >> >>)

AllTrees == {Flat, Nested, Odd}

(* So that they are what FidsNameNodes is about.                           *)
ASSUME TreesComplete == \A t \in AllTrees : Complete(t)
=============================================================================
