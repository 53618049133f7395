------------------------------ MODULE MCLabel ------------------------------
(* A disk of 16 sectors whose partition "bsd" of 12 holds the label: up to *)
(* three entries, in every order and overlapping, or one that has no       *)
(* sectors, reaches past the disk partition, or has its name.              *)
EXTENDS Label

SmallWords == Range(Literals) \cup {"junk", "none", "bsd", "data", "usr", "bad", "in"}

P(name, start, end) == [name |-> name, start |-> start, end |-> end]
Bsd == P(<<"bsd", 0>>, 2, 14)
Data == P(<<"data", 0>>, 0, 16)

Slot(type, start, len) == [type |-> type, name |-> <<"none", 0>>, start |-> start, len |-> len]
Line(name, start, len) == [type |-> "other", name |-> name, start |-> start, len |-> len]

Slots == {Slot("unused", 0, 0), Slot("hammer2", 0, 4), Slot("hammer2", 4, 2), Slot("zfs", 4, 4),
          Slot("hammer2", 2, 1), Slot("other", 8, 1)}
Text == {Line(<<"hammer2", 0>>, 4, 4), Line(<<"usr", 0>>, 0, 4), Line(<<"bad", 0>>, 3, 0)}

SmallLabels ==
    [format : {"bsd"}, entries : [1 .. 3 -> Slots]]
    \cup [format : {"text"}, entries : [1 .. 2 -> Text]]
    \cup { [format |-> "none", entries |-> <<>>],
           [format |-> "bsd", entries |-> << Slot("zfs", 4, 0), Slot("hammer2", 0, 4) >>],
           [format |-> "text", entries |-> << Line(<<"usr", 0>>, 3, 10), Line(<<"bsd", 0>>, 0, 12) >>],
           [format |-> "bsd", entries |->
              << Slot("other", 1, 1), Slot("other", 3, 1), Slot("other", 5, 1), Slot("other", 7, 1) >>],
           [format |-> "bsd", entries |->
              << Slot("zfs", 1, 1), Slot("ufs", 3, 1), Slot("other", 5, 1), Slot("hammer", 7, 1),
                 Slot("bsdswap", 0, 1) >>] }

Before == {P(<<"hammer2", 0>>, 2, 6), P(<<"hammer2", 0>>, 6, 8), P(<<"zfs", 0>>, 6, 10),
           P(<<"in", 0>>, 3, 4), P(<<"usr", 0>>, 14, 16)}
SmallTables ==
    {t \cup {Bsd, Data} : t \in {s \in SUBSET Before : \A p, q \in s : p.name = q.name => p = q}}
    \cup { {Bsd, Data} \cup {P(<<"in", k>>, 2 + k, 3 + k) : k \in 0 .. 4} }

=============================================================================
