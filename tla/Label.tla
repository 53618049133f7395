-------------------------------- MODULE Label --------------------------------
(***************************************************************************)
(* disk/label of util/: rdpart() and rdbsdpart() of label.c read the label *)
(* of a disk partition into a list (addpart() of edit.c), and ctldiff()    *)
(* turns the list into delpart and part commands to the device's ctl file, *)
(* which the program may be killed between and which may be refused.       *)
(*                                                                         *)
(* The device is not part of the repository; its table of partitions is    *)
(* modelled as ctldiff() relies on it.  Offsets and lengths are sectors.   *)
(***************************************************************************)
EXTENDS Integers, Sequences, SequencesExt, FiniteSets

CONSTANTS
    Words,      \* what the names of partitions begin with
    Labels,     \* what the disk partition may hold
    Tables,     \* partitions that the device may have at first
    Self,       \* the disk partition whose label is read
    DiskEnd,    \* sectors of the device
    MaxPart,    \* room in part and in ctlpart (32)
    IntHalf,    \* 2^31, the first number that is too large for an int
    MaxTrouble  \* bound: kills and refused commands

(* The names that a label's file systems have, in the order of their       *)
(* literals in the program; behind them lies the format of a second name.  *)
Literals == <<"bsdswap", "ufs", "hammer", "hammer2", "zfs", "other", "%s.%d">>
Bases == {Literals[k] : k \in 1 .. 6}
(* A word and how many suffixes follow it. *)
Names == Words \X Nat
Junk == <<"junk", 0>>
Part == [name : Names, start : Int, end : Int]

(* An entry of a disklabel64 has a type and an extent, a line of a text    *)
(* label a name; an extent that is none makes the line a bad one.          *)
Entry == [type : Bases \cup {"unused"}, name : Names, start : Nat, len : Nat]
LabelType == [format : {"bsd", "text", "none"}, entries : Seq(Entry)]

ASSUME WordsAssumption == Range(Literals) \cup {Junk[1]} \subseteq Words
ASSUME LabelsAssumption == \A l \in Labels : l \in LabelType
ASSUME TablesAssumption ==
    \A t \in Tables :
        /\ IsFiniteSet(t) /\ Self \in t
        /\ \A p \in t : p \in Part /\ 0 <= p.start /\ p.start < p.end /\ p.end <= DiskEnd
        /\ \A p, q \in t : p.name = q.name => p = q
ASSUME SizesAssumption ==
    DiskEnd \in Nat /\ MaxPart \in Nat /\ IntHalf \in Nat \ {0} /\ MaxTrouble \in Nat

VARIABLES
    label,
    packed,     \* whether the build packs literals without gaps
    table,      \* the device's partitions
    pc,         \* down, reading, diffing, deleting, adding, done, failed
    i,          \* the entry read next, then the partition added next
    lit,        \* what the literals now read as
    part,       \* edit.part, extents relative to Self
    ctlpart,    \* the partitions of the device inside Self, relative to it
    ctlread,    \* whether ctl could be read
    stale,      \* those still to be deleted
    waserr,
    trouble

vars == <<label, packed, table, pc, i, lit, part, ctlpart, ctlread, stale, waserr, trouble>>
-----------------------------------------------------------------------------
Fresh == [b \in Range(Literals) |-> <<b, 0>>]

Init ==
    /\ label \in Labels /\ packed \in BOOLEAN /\ table \in Tables
    /\ pc = "down" /\ i = 1
    /\ lit = Fresh /\ part = <<>> /\ ctlpart = {} /\ ctlread = FALSE /\ stale = {}
    /\ waserr = FALSE /\ trouble = 0

Start ==
    /\ pc \in {"down", "done"}
    /\ pc' = "reading" /\ i' = 1
    /\ lit' = Fresh /\ part' = <<>> /\ ctlpart' = {} /\ ctlread' = FALSE /\ stale' = {}
    /\ waserr' = FALSE
    /\ UNCHANGED <<label, packed, table, trouble>>

Taken(name) == \E k \in DOMAIN part : part[k].name = name

(* Mistake: the list is not kept in order. *)
Place_Last(p) == Len(part) + 1

(* Where addpart() puts p: behind the last that does not start later.      *)
Place(p) ==
    1 + CHOOSE k \in 0 .. Len(part) :
            /\ k = 0 \/ part[k].start <= p.start
            /\ \A j \in k + 1 .. Len(part) : part[j].start > p.start

(* Mistake: the list may grow one past its room. *)
Full_OnePast == Len(part) > MaxPart

Full == Len(part) >= MaxPart

(* addpart(); overlaps are let through. *)
AddPart(p) ==
    IF Taken(p.name) \/ Full
    THEN pc' = "failed" /\ UNCHANGED <<i, part>>
    ELSE part' = InsertAt(part, Place(p), p) /\ i' = i + 1 /\ UNCHANGED pc

(* The value of x in an int. *)
AsInt(x) == ((x + IntHalf) % (2 * IntHalf)) - IntHalf

ReadLine ==
    /\ pc = "reading" /\ label.format = "text" /\ i <= Len(label.entries)
    /\ LET e == label.entries[i]
       IN  IF e.len = 0 THEN i' = i + 1 /\ UNCHANGED <<pc, part>>
           ELSE AddPart([name |-> e.name, start |-> e.start, end |-> e.start + e.len])
    /\ UNCHANGED <<label, packed, table, lit, ctlpart, ctlread, stale, waserr, trouble>>

(* The literals that may change with that of b when suffixes are put       *)
(* behind it: those that follow, as far as the suffixes of this partition  *)
(* and earlier ones reach, and of those before it the ones that read on    *)
(* into b's, because they were written over all that lies between.         *)
Overrun(b) ==
    LET at == CHOOSE k \in 1 .. 6 : Literals[k] = b
        Behind(end) == {Literals[k] : k \in at + 1 .. end}
        Before == {Literals[k] : k \in
                      {n \in 1 .. at - 1 : \A j \in n + 1 .. at : lit[Literals[j]][1] = Junk[1]}}
    IN  {Behind(end) \cup before : end \in at .. 7, before \in SUBSET Before}

(* sprint(nname, "%s.%d", name, j+1), nname being name: a suffix a turn of *)
(* the loop, until the name is free.                                       *)
SecondName(b) ==
    IF lit["%s.%d"] # Fresh["%s.%d"] THEN Junk
    ELSE CHOOSE name \in {lit[b][1]} \X (lit[b][2] + 1 .. lit[b][2] + Len(part)) :
            /\ ~ Taken(name)
            /\ \A n \in lit[b][2] + 1 .. name[2] - 1 : Taken(<<lit[b][1], n>>)

(* The second name is written over the literal of the first, and over what *)
(* lies behind it if the build leaves no gap.                              *)
Rename(b) ==
    \E T \in IF packed THEN Overrun(b) ELSE {{}} :
        lit' = [x \in DOMAIN lit |->
                    IF x = b THEN SecondName(b) ELSE IF x \in T THEN Junk ELSE lit[x]]

ReadSlot ==
    /\ pc = "reading" /\ label.format = "bsd" /\ i <= Len(label.entries)
    /\ LET e == label.entries[i]
           start == AsInt(e.start)
       IN  IF e.type = "unused" THEN i' = i + 1 /\ UNCHANGED <<pc, part, lit>>
           ELSE /\ IF Taken(lit[e.type]) THEN Rename(e.type) ELSE UNCHANGED lit
                /\ AddPart([name |-> lit'[e.type], start |-> start,
                            end |-> AsInt(start + e.len)])
    /\ UNCHANGED <<label, packed, table, ctlpart, ctlread, stale, waserr, trouble>>

(* Neither a text label nor a disklabel64.                                 *)
NoLabel ==
    /\ pc = "reading" /\ label.format = "none"
    /\ pc' = "failed"
    /\ UNCHANGED <<label, packed, table, i, lit, part, ctlpart, ctlread, stale, waserr, trouble>>

(* rdpart() returns as if the label had no partitions.                     *)
ReadFails ==
    /\ pc = "reading" /\ i = 1 /\ trouble < MaxTrouble
    /\ pc' = "diffing" /\ trouble' = trouble + 1
    /\ UNCHANGED <<label, packed, table, i, lit, part, ctlpart, ctlread, stale, waserr>>

EndOfLabel ==
    /\ pc = "reading" /\ label.format # "none" /\ i > Len(label.entries)
    /\ pc' = "diffing"
    /\ UNCHANGED <<label, packed, table, i, lit, part, ctlpart, ctlread, stale, waserr, trouble>>
-----------------------------------------------------------------------------
Within(p, q) == q.start <= p.start /\ p.end <= q.end
Moved(p, by) == [name |-> p.name, start |-> p.start + by, end |-> p.end + by]
Local(p) == Moved(p, - Self.start)
Global(p) == Moved(p, Self.start)

(* rdctlpart() *)
CtlParts == {Local(p) : p \in {q \in table : Within(q, Self) /\ q.name # Self.name}}

(* areequiv() *)
Equiv(p) == \E k \in DOMAIN part : part[k] = p

(* Mistake: what lies inside an equivalent partition counts as changed. *)
Unchanged_NotInside(C) == {p \in C : Equiv(p)}

(* Those equivalent to the label's and those inside them. *)
Unchanged(C) == {p \in C : \E q \in C : Equiv(q) /\ Within(p, q)}

ReadCtl ==
    /\ pc = "diffing"
    /\ IF Cardinality(CtlParts) > MaxPart
       THEN pc' = "failed" /\ UNCHANGED <<i, ctlpart, ctlread, stale>>
       ELSE /\ pc' = "deleting" /\ i' = 1 /\ ctlread' = TRUE
            /\ ctlpart' = CtlParts /\ stale' = CtlParts \ Unchanged(CtlParts)
    /\ UNCHANGED <<label, packed, table, lit, part, waserr, trouble>>

(* rdctlpart() returns as if the device had no partitions.                 *)
CtlFails ==
    /\ pc = "diffing" /\ trouble < MaxTrouble
    /\ pc' = "deleting" /\ i' = 1 /\ trouble' = trouble + 1
    /\ UNCHANGED <<label, packed, table, lit, part, ctlpart, ctlread, stale, waserr>>

DelPart ==
    /\ pc = "deleting"
    /\ \E p \in stale : stale' = stale \ {p} /\ table' = table \ {Global(p)}
    /\ UNCHANGED <<label, packed, pc, i, lit, part, ctlpart, ctlread, waserr, trouble>>

EndOfDeletes ==
    /\ pc = "deleting" /\ stale = {}
    /\ pc' = "adding"
    /\ UNCHANGED <<label, packed, table, i, lit, part, ctlpart, ctlread, stale, waserr, trouble>>

(* What the device takes: a partition of its sectors, under a name that it *)
(* does not have, or has for the same partition.                           *)
Takes(p) ==
    /\ 0 <= p.start /\ p.start < p.end /\ p.end <= DiskEnd
    /\ \A q \in table : q.name = p.name => q = p

PutPart ==
    /\ pc = "adding" /\ i <= Len(part)
    /\ IF Takes(Global(part[i]))
       THEN table' = table \cup {Global(part[i])} /\ UNCHANGED waserr
       ELSE waserr' = TRUE /\ UNCHANGED table
    /\ i' = i + 1
    /\ UNCHANGED <<label, packed, pc, lit, part, ctlpart, ctlread, stale, trouble>>

(* Mistake: the loop over the list stops one short. *)
AllPut_Early == i >= Len(part)

AllPut == i > Len(part)

Finish ==
    /\ pc = "adding" /\ AllPut
    /\ pc' = "done"
    /\ UNCHANGED <<label, packed, table, i, lit, part, ctlpart, ctlread, stale, waserr, trouble>>

(* A command is refused for another reason; the error is printed.          *)
Refused ==
    /\ trouble < MaxTrouble /\ trouble' = trouble + 1
    /\ \/ pc = "deleting" /\ UNCHANGED i /\ \E p \in stale : stale' = stale \ {p}
       \/ pc = "adding" /\ i <= Len(part) /\ i' = i + 1 /\ UNCHANGED stale
    /\ waserr' = TRUE
    /\ UNCHANGED <<label, packed, table, pc, lit, part, ctlpart, ctlread>>

Kill ==
    /\ trouble < MaxTrouble /\ trouble' = trouble + 1
    /\ pc \in {"deleting", "adding"}
    /\ pc' = "down"
    /\ UNCHANGED <<label, packed, table, i, lit, part, ctlpart, ctlread, stale, waserr>>

Next ==
    \/ Start \/ ReadLine \/ ReadSlot \/ NoLabel \/ ReadFails \/ EndOfLabel
    \/ ReadCtl \/ CtlFails \/ DelPart \/ EndOfDeletes \/ PutPart \/ Finish \/ Refused \/ Kill

Spec == Init /\ [][Next]_vars
-----------------------------------------------------------------------------
(* The entries that a program which reads the label right has partitions   *)
(* for.                                                                    *)
Counts(e) == IF label.format = "text" THEN e.len > 0 ELSE e.type # "unused"
Live == {e \in Range(label.entries) : Counts(e)}

(* No sector number of the label needs more than an int. *)
InRange == \A e \in Live : e.start + e.len < IntHalf

Extent(e) == <<e.start, e.start + e.len>>

TypeOK ==
    /\ label \in Labels /\ packed \in BOOLEAN
    /\ \A p \in table : p \in Part
    /\ pc \in {"down", "reading", "diffing", "deleting", "adding", "done", "failed"}
    /\ i \in 1 .. Len(label.entries) + 1 + Len(part)
    /\ lit \in [Range(Literals) -> Names]
    /\ part \in Seq(Part) /\ Len(part) <= MaxPart
    /\ ctlread \in BOOLEAN /\ stale \subseteq ctlpart
    /\ waserr \in BOOLEAN /\ trouble \in Nat

(* In whatever order a label has its partitions, and although names are    *)
(* made up and literals overwritten on the way, the list is in the order   *)
(* of starts, no two partitions have a name in common, and each entry of a *)
(* label that was read is there with its extent.                           *)
ListGood ==
    /\ \A j, k \in DOMAIN part :
          j < k => part[j].start <= part[k].start /\ part[j].name # part[k].name
    /\ (InRange /\ pc = "diffing" /\ i > Len(label.entries)) =>
          {Extent(e) : e \in Live} = {<<part[k].start, part[k].end>> : k \in DOMAIN part}

(* "partitions with same info have not changed, and neither have           *)
(* partitions inside them": of what the device has inside the disk         *)
(* partition those are never deleted, nor is one that is not inside it,    *)
(* whatever was refused and wherever an earlier run was killed.            *)
DeletesOnlyChanged ==
    [][\A p \in table \ table' :
          /\ Within(p, Self) /\ p # Self
          /\ \A k \in DOMAIN part :
                part[k] \in CtlParts => ~ Within(p, Global(part[k]))]_vars

(* A run without an error leaves the partitions of the label and, if it    *)
(* could read what the device had, those inside one that was there before, *)
(* and no others inside the disk partition.                                *)
TableIsLabels ==
    (pc = "done" /\ ~ waserr) =>
        /\ \A k \in DOMAIN part : Global(part[k]) \in table
        /\ ctlread => \A p \in CtlParts : Equiv(p) \/ p \in Unchanged(ctlpart)
=============================================================================
