---------------------------- MODULE VolumeHeader ----------------------------
(***************************************************************************)
(* The volume headers of a partition: the rotation that writes them (the   *)
(* file system's owner, which is not part of this repository), readvolume()*)
(* of hammer2.c, which chooses the one to mount, and the df command of     *)
(* cons.c, which runs in a proc of its own and reads a global that         *)
(* readvolume() exports.                                                   *)
(*                                                                         *)
(* A header is four parts, each the generation (mirror_tid) that wrote it. *)
(* A CRC over some parts matches exactly when they are of one generation.  *)
(***************************************************************************)
EXTENDS Integers, Sequences

CONSTANTS
    Zones,      \* zones that may hold a header (4)
    MaxGen,     \* bound: generations ever begun
    MaxRot,     \* bound: parts lost by the medium
    Console     \* whether anybody types df

ASSUME ZonesAssumption == Zones \in Nat \ {0}
ASSUME BoundsAssumption ==
    MaxGen \in Nat /\ MaxRot \in Nat /\ Console \in BOOLEAN

NoZone == -1
Rot == -1                   \* a part that is neither blank nor as written
Parts == {"sect0", "sroot", "mid", "last"}
Header == [Parts -> Nat \cup {Rot}]
Fields == <<"volu_size", "allocator_size", "allocator_free">>
Figures == [{"volu_size", "allocator_size", "allocator_free"} ->
                Nat \cup {Rot}]

VARIABLES
    present,    \* zones the device is long enough for
    disk,       \* the header in each zone
    gen,        \* the last generation begun
    synced,     \* the last generation written completely
    target,     \* the zone being written, or NoZone
    left,       \* the parts of it still to be written
    rotten,
    pc,         \* of the server: down, reading, copying, serving
    i,          \* the zone readvolume() is at, then the field it copies
    vol, valid, hd, volhdrno,
    volumehdr,  \* the global that df reads
    df          \* the df command: fields read so far, how many of them before
                \* volumehdr was complete, and how it stands

medium == <<present, disk, gen, synced, target, left, rotten>>
server == <<pc, i, vol, valid, hd, volhdrno, volumehdr>>
headervars == <<medium, server, df>>

ZoneSet == 0 .. Zones - 1
StackJunk == [p \in Parts |-> Rot]
NoFigures == [f \in {"volu_size", "allocator_size", "allocator_free"} |-> 0]
NoDf == [state |-> "idle", seen |-> <<>>, early |-> 0]

(* A header as its writer left it.                                         *)
Intact(h) == h["sect0"] > 0 /\ \A p \in Parts : h[p] = h["sect0"]

IntactZones == {z \in ZoneSet : z < present /\ Intact(disk[z])}

Newest(z) ==
    z \in IntactZones /\ \A y \in IntactZones : disk[y]["sect0"] <= disk[z]["sect0"]
-----------------------------------------------------------------------------
(* A partition as it is made: one generation in every header it has room   *)
(* for.                                                                    *)
Init ==
    /\ present \in 0 .. Zones
    /\ disk = [z \in ZoneSet |-> [p \in Parts |-> IF z < present THEN 1 ELSE 0]]
    /\ gen = 1 /\ synced = 1
    /\ target = NoZone /\ left = {}
    /\ rotten = 0
    /\ pc = "down" /\ i = 0
    /\ vol = StackJunk /\ valid = FALSE /\ hd = StackJunk /\ volhdrno = 0
    /\ volumehdr = NoFigures
    /\ df = NoDf

(* The owner of the file system mounts the newest header and writes the    *)
(* next generation to the zone after it.  It does so while the server is   *)
(* down.                                                                   *)
StartSync ==
    /\ pc = "down" /\ target = NoZone /\ gen < MaxGen
    /\ \E z \in ZoneSet :
          /\ Newest(z)
          /\ \A y \in ZoneSet : y < z => ~ Newest(y)
          /\ target' = IF z + 1 < present THEN z + 1 ELSE 0
    /\ gen' = gen + 1
    /\ left' = Parts
    /\ UNCHANGED <<present, disk, synced, rotten, server, df>>

(* The parts reach the medium in any order.                                *)
WritePart(p) ==
    /\ target # NoZone
    /\ p \in left
    /\ disk' = [disk EXCEPT ![target][p] = gen]
    /\ left' = left \ {p}
    /\ IF left' = {}
       THEN synced' = gen /\ target' = NoZone
       ELSE UNCHANGED <<synced, target>>
    /\ UNCHANGED <<present, gen, rotten, server, df>>

(* Power is lost with a header half written. *)
Crash ==
    /\ target # NoZone
    /\ target' = NoZone
    /\ left' = {}
    /\ UNCHANGED <<present, disk, gen, synced, rotten, server, df>>

(* The medium loses a part of a header: it reads as junk or as zeros.      *)
Damage(z, p, v) ==
    /\ pc = "down" /\ target = NoZone
    /\ rotten < MaxRot
    /\ z < present
    /\ disk' = [disk EXCEPT ![z][p] = v]
    /\ rotten' = rotten + 1
    /\ UNCHANGED <<present, gen, synced, target, left, server, df>>
-----------------------------------------------------------------------------
Start ==
    /\ pc = "down" /\ target = NoZone
    /\ pc' = "reading" /\ i' = 0
    /\ UNCHANGED <<medium, vol, valid, hd, volhdrno, volumehdr, df>>

(* Nothing in memory outlives the server. *)
Stop ==
    /\ pc # "down"
    /\ pc' = "down" /\ i' = 0
    /\ vol' = StackJunk /\ valid' = FALSE /\ hd' = StackJunk /\ volhdrno' = 0
    /\ volumehdr' = NoFigures
    /\ df' = NoDf
    /\ UNCHANGED medium

(* Mistake: a zone past the end of the device reads as zeros. *)
ReadZone_Cleared == IF i < present THEN disk[i] ELSE [p \in Parts |-> 0]

(* The results of seek() and read() are not looked at: past the end of the *)
(* device vol keeps the header read before.                                *)
ReadZone == IF i < present THEN disk[i] ELSE vol

(* The header's magic, and the CRCs of sector 0, of the super-root sector, *)
(* whose CRC is kept in sector 0, and of it all.                           *)
GoodMagic(h) == h["sect0"] # 0
GoodSect0(h) == h["sect0"] # Rot
GoodSroot(h) == h["sroot"] = h["sect0"]

(* Mistake: the last part is left out of the CRC over it all. *)
GoodHeader_NoLast(h) == h["mid"] = h["sroot"]

GoodHeader(h) == \A p, q \in Parts : h[p] = h[q]

(* Mistake: of two headers the one in the later zone is taken. *)
Better_LaterZone(h) == TRUE

Better(h) == ~ valid \/ hd["sect0"] < h["sect0"]

Accepts(h) ==
    /\ GoodMagic(h) /\ GoodSect0(h) /\ GoodSroot(h) /\ GoodHeader(h)
    /\ Better(h)

(* Mistake: the loop runs a zone too far. *)
AllRead_Late == i = Zones + 1

AllRead == i = Zones

(* Mistake: a header is read into the global that df reads. *)
ReadHeader_Global ==
    /\ pc = "reading" /\ ~ AllRead
    /\ i' = i + 1
    /\ vol' = ReadZone
    /\ IF Accepts(vol')
       THEN valid' = TRUE /\ hd' = vol' /\ volhdrno' = i
       ELSE UNCHANGED <<valid, hd, volhdrno>>
    /\ volumehdr' = [f \in DOMAIN volumehdr |-> vol'["sect0"]]
    /\ UNCHANGED <<medium, pc, df>>

(* One turn of the loop.                                                   *)
ReadHeader ==
    /\ pc = "reading" /\ ~ AllRead
    /\ i' = i + 1
    /\ vol' = ReadZone
    /\ IF Accepts(vol')
       THEN valid' = TRUE /\ hd' = vol' /\ volhdrno' = i
       ELSE UNCHANGED <<valid, hd, volhdrno>>
    /\ UNCHANGED <<medium, pc, volumehdr, df>>

EndOfZones ==
    /\ pc = "reading" /\ AllRead
    /\ pc' = "copying" /\ i' = 1
    /\ UNCHANGED <<medium, vol, valid, hd, volhdrno, volumehdr, df>>

(* volumehdr = vol: a structure is copied word by word while df may read   *)
(* it; it is the header read last, whether or not it was accepted.         *)
CopyField ==
    /\ pc = "copying"
    /\ volumehdr' = [volumehdr EXCEPT ![Fields[i]] = vol["sect0"]]
    /\ IF i < Len(Fields)
       THEN i' = i + 1 /\ UNCHANGED pc
       ELSE pc' = "serving" /\ UNCHANGED i
    /\ UNCHANGED <<medium, vol, valid, hd, volhdrno, df>>
-----------------------------------------------------------------------------
(* The fields in the order cmddf() reads them; the last is a divisor.      *)
DfReads == << "volu_size", "allocator_size", "allocator_free",
              "allocator_free", "allocator_free", "allocator_size" >>

(* The console takes commands from before the mount on, one at a time.     *)
DfStart ==
    /\ Console
    /\ pc # "down" /\ df.state \in {"idle", "done"}
    /\ df' = [NoDf EXCEPT !.state = "running"]
    /\ UNCHANGED <<medium, server>>

(* A division by zero breaks the console's proc; the server goes on.  The  *)
(* junk of a rotten sector may be zero too.                                *)
DfRead ==
    LET k == Len(df.seen) + 1
        v == volumehdr[DfReads[k]]
    IN  /\ pc # "down" /\ df.state = "running"
        /\ \E s \in IF k < Len(DfReads) THEN {"running"}
                    ELSE IF v = 0 THEN {"broken"}
                    ELSE IF v = Rot THEN {"broken", "done"}
                    ELSE {"done"} :
              df' = [state |-> s, seen |-> Append(df.seen, v),
                     early |-> IF pc = "serving" THEN df.early ELSE k]
        /\ UNCHANGED <<medium, server>>

HeaderNext ==
    \/ StartSync \/ Crash
    \/ \E p \in Parts : WritePart(p)
    \/ \E z \in ZoneSet, p \in Parts, v \in {0, Rot} : Damage(z, p, v)
    \/ Start \/ Stop \/ ReadHeader \/ EndOfZones \/ CopyField
    \/ DfStart \/ DfRead

Spec == Init /\ [][HeaderNext]_headervars
-----------------------------------------------------------------------------
TypeOK ==
    /\ present \in 0 .. Zones
    /\ disk \in [ZoneSet -> Header]
    /\ gen \in Nat \ {0} /\ synced \in Nat
    /\ target \in ZoneSet \cup {NoZone}
    /\ left \subseteq Parts
    /\ rotten \in Nat
    /\ pc \in {"down", "reading", "copying", "serving"}
    /\ i \in Nat
    /\ pc = "reading" => i <= Zones
    /\ pc = "copying" => i \in 1 .. Len(Fields)
    /\ vol \in Header /\ hd \in Header
    /\ valid \in BOOLEAN
    /\ volhdrno \in ZoneSet
    /\ volumehdr \in Figures

Mounted == pc \in {"copying", "serving"}

(* Among headers torn by a crash, rotten, blank or missing, readvolume()   *)
(* mounts an intact one, no intact one is newer, and volhdrno names the    *)
(* zone that holds it; it mounts none only when none is intact.            *)
ChosenNewest ==
    Mounted => IF valid THEN Newest(volhdrno) /\ hd = disk[volhdrno]
                        ELSE IntactZones = {}

(* Wherever a crash tears a header that was being written, the server      *)
(* mounts the last generation written completely, provided that the device *)
(* has room for two headers and the medium loses nothing.                  *)
SyncedNotLost ==
    (Mounted /\ present > 1 /\ rotten = 0) => valid /\ hd["sect0"] = synced

(* When the last zone of the device holds a header of some generation,     *)
(* wherever the device ends, a df is answered if it comes to its division  *)
(* after the copy to volumehdr is complete, whenever it was typed and      *)
(* however it and the mount interleave before that.  A df that divides     *)
(* earlier may be broken, and before the copy begins always is.            *)
DfAnswers ==
    (df.state = "broken" /\ present > 0 /\ df.early < Len(DfReads)) =>
        disk[present - 1]["sect0"] <= 0

(* However a df overlaps readvolume() and the copy, a figure it shows is   *)
(* of the header in the last zone, or is the nothing of before the copy    *)
(* and then was read before the copy was complete: what was read of other  *)
(* zones is never shown.  A field it read when copied it never reads as    *)
(* not copied again.  The last zone's header may well not be the one that  *)
(* is mounted, but unless it is torn or rotten it is never a newer one.    *)
DfFigures ==
    (df.state = "done" /\ present > 0) =>
        /\ \A k \in DOMAIN df.seen :
              \/ df.seen[k] = disk[present - 1]["sect0"]
              \/ k <= df.early /\ df.seen[k] = 0
        /\ \A k \in DOMAIN df.seen : \A j \in 1 .. k - 1 :
              (DfReads[j] = DfReads[k] /\ df.seen[k] = 0) => df.seen[j] = 0
        /\ (valid /\ Intact(disk[present - 1])) =>
              \A k \in DOMAIN df.seen : df.seen[k] <= hd["sect0"]
=============================================================================
