------------------------------ MODULE MCMount ------------------------------
(* Volumes with up to two super-roots, four roots in all, one of them in   *)
(* an indirect block and two of the same name; and volumes with one root,  *)
(* of such sets of four references over indirect blocks, two deep.         *)
EXTENDS Mount

Inum(n) == [type |-> "inode", id |-> n, to |-> None, check |-> TRUE]
Dirent(n) == [type |-> "dirent", id |-> n, to |-> None, check |-> TRUE]
Under(n, check) == [type |-> "indirect", id |-> 0, to |-> n, check |-> check]
NoRadix == Under(None, TRUE)

Nodes == {"a", "b", "c", "d"}
Blocks == [n \in Nodes |->
    CASE n = "a" -> << Dirent(3), Inum(3), Under("c", TRUE), Dirent(2) >>
      [] n = "b" -> << Inum(5), Empty, Dirent(5) >>
      [] n = "c" -> << Inum(2), Dirent(7), Inum(7), Dirent(1) >>
      [] n = "d" -> << Dirent(8), Inum(8) >>]

(* What a damaged block without a hash is taken for. *)
Bytes == {Empty, Junk, Dirent(9), Inum(6), Under("d", FALSE)}

(* The sets of three out of six kinds of reference and an entry, and some  *)
(* the code does not get through, by their numbers.                        *)
Kinds ==
    << Empty, Inum(1), Dirent(1), Under("a", TRUE), Under("b", TRUE), Under("d", FALSE) >>
Hard == <<
    << Inum(1), Junk, Dirent(1), Empty >>,
    << Under("b", TRUE), NoRadix, Empty, Empty >>,
    << Inum(12), Dirent(12), Empty, Empty >>,
    << Inum(0), Empty, Empty, Empty >> >>
SetNos == 0 .. 6 * 6 * 6 + 3
SetOf(n) ==
    IF n < 216 THEN Append([k \in 1 .. 3 |-> Kinds[((n \div 6 ^ (k - 1)) % 6) + 1]], Dirent(4))
    ELSE Hard[n - 215]

RefTo(n) == [type |-> "inode", to |-> n]
InBlock(n) == [type |-> "indirect", to |-> n]
NoRef == [type |-> "empty", to |-> Nothing]
Root(name, inum, slots, set) ==
    [NoInode EXCEPT !.name = name, !.inum = inum, !.slots = slots, !.set = set]
Suproot(roots) == [NoInode EXCEPT !.suproot = TRUE, !.roots = roots]

(* Inodes by the places of their blocks. *)
sup == 1
sup2 == 2
data == 3
rooti == 4
other == 5
twin == 6
deep == 7
HomeSup(n) == 8 + 2 * n
Home(n) == 9 + 2 * n
Places == 1 .. Home(6 * 6 * 6 + 3)
Inodes == [p \in Places |->
    CASE p = sup -> Suproot(<< RefTo(data), NoRef, InBlock(deep), RefTo(rooti) >>)
      [] p = sup2 -> Suproot(<< RefTo(other), RefTo(twin), NoRef, RefTo(data) >>)
      [] p = data -> Root("DATA", 1, 2, << Dirent(2), Inum(2) >>)
      [] p = rooti -> Root("ROOT", 1, 1, << Under("b", TRUE), Dirent(1) >>)
      [] p = other -> Root("OTHER", 2, 17, <<>>)
      [] p = twin -> Root("ROOT", 0, 0, << Dirent(1) >>)
      [] p = deep -> Root("DEEP", 1, 1, <<>>)
      [] p > 7 /\ p % 2 = 1 -> Root("HOME", 1, 1, SetOf((p - 9) \div 2))
      [] p > 7 /\ p % 2 = 0 -> Suproot(<< RefTo(p + 1), NoRef, NoRef, NoRef >>)]

AllDirs == {Inodes[p].set : p \in Places}
Homes == {<< RefTo(HomeSup(n)), NoRef, NoRef, NoRef >> : n \in SetNos}
AllVolumes == Homes \cup
    [1 .. 4 -> {NoRef, RefTo(sup), RefTo(sup2), RefTo(data), InBlock(sup)}]
=============================================================================
