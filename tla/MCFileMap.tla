----------------------------- MODULE MCFileMap -----------------------------
(* Trees of three indirect blocks, two deep, under sets of four.  A damaged *)
(* block without a hash is taken for data of the tree and for other data,  *)
(* for nothing, for what ends the server, and for indirect blocks, itself  *)
(* among them.                                                             *)
EXTENDS FileMap

Data(key) == [type |-> "data", id |-> key, to |-> None, check |-> TRUE]
Under(n, check) == [type |-> "indirect", id |-> 0, to |-> n, check |-> check]

Nodes == {"a", "b", "c"}
Tree == [n \in Nodes |->
    CASE n = "a" -> << Data(3), Under("c", TRUE), Empty, Data(2) >>
      [] n = "b" -> << Data(5), Empty, Data(6) >>
      [] n = "c" -> << Data(4), Data(7) >>]

Bytes == {Empty, Junk, Data(9), Under(None, TRUE), Under("c", FALSE)}

AllFiles ==
    [1 .. 4 -> {Empty, Data(0), Under("a", TRUE), Under("b", TRUE), Under("c", FALSE)}]
    \cup { << Data(0), Under(None, TRUE), Data(1), Empty >>,
           << Data(0), Junk, Empty, Empty >> }
=============================================================================
