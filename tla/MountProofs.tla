---------------------------- MODULE MountProofs ----------------------------
(***************************************************************************)
(* What fsstart() mounts, for every length of device, history of writes,   *)
(* crashes and losses, volume, tree, size of memory and history of failing *)
(* loads.  That readvolume() takes the newest intact header and that this  *)
(* is the last one its owner wrote completely; that the scan mounts the    *)
(* root that was asked for and misses none that it could read; and that    *)
(* loadinodes() and mkinode() stay inside the list and the table and enter *)
(* nothing that is not in the tree.                                        *)
(***************************************************************************)
EXTENDS Mount, VolumeHeader, BlockTreeProofs

(* The checks of readvolume() accept exactly the headers left as written.  *)
LEMMA ChecksMeanIntact ==
  ASSUME NEW h \in Header
  PROVE  (GoodMagic(h) /\ GoodSect0(h) /\ GoodSroot(h) /\ GoodHeader(h))
            <=> Intact(h)
<1>1. "sect0" \in Parts /\ "sroot" \in Parts
  BY DEF Parts
<1>2. h["sect0"] \in Nat \cup {Rot}
  BY <1>1 DEF Header
<1>3. (GoodMagic(h) /\ GoodSect0(h)) <=> h["sect0"] > 0
  BY <1>2 DEF GoodMagic, GoodSect0, Rot
<1>4. GoodHeader(h) <=> \A p \in Parts : h[p] = h["sect0"]
  BY <1>1 DEF GoodHeader
<1>5. GoodHeader(h) => GoodSroot(h)
  BY <1>1 DEF GoodHeader, GoodSroot
<1> QED BY <1>3, <1>4, <1>5 DEF Intact

LEMMA JunkIsNotIntact == ~ Intact(StackJunk)
  BY DEF Intact, StackJunk, Parts, Rot

LEMMA InitialType == Init => TypeOK
<1> SUFFICES ASSUME Init PROVE TypeOK
  OBVIOUS
<1>1. /\ StackJunk \in Header
      /\ [p \in Parts |-> 1] \in Header /\ [p \in Parts |-> 0] \in Header
  BY DEF StackJunk, Header, Rot
<1>2. disk \in [ZoneSet -> Header]
  BY DEF Init, Header, Rot
<1>3. volumehdr \in Figures
  BY DEF Init, NoFigures, Figures, Rot
<1>4. present \in 0 .. Zones
  BY DEF Init
<1>5. 0 \in ZoneSet
  BY ZonesAssumption DEF ZoneSet
<1>6. /\ gen \in Nat \ {0} /\ synced \in Nat /\ rotten \in Nat /\ i \in Nat
      /\ target \in ZoneSet \cup {NoZone} /\ left \subseteq Parts
      /\ pc = "down" /\ vol \in Header /\ hd \in Header
      /\ valid \in BOOLEAN /\ volhdrno \in ZoneSet
  <2>1. /\ gen = 1 /\ synced = 1 /\ rotten = 0 /\ i = 0 /\ target = NoZone
        /\ left = {} /\ pc = "down" /\ vol = StackJunk /\ hd = StackJunk
        /\ valid = FALSE /\ volhdrno = 0
    BY DEF Init
  <2>2. 1 \in Nat \ {0} /\ 0 \in Nat /\ {} \subseteq Parts /\ FALSE \in BOOLEAN
    OBVIOUS
  <2> QED BY ONLY <2>1, <2>2, <1>1, <1>5, Zenon
<1> QED BY <1>2, <1>3, <1>4, <1>6 DEF TypeOK

(* Every state has its type.                                               *)
THEOREM TypeCorrect == Spec => []TypeOK
<1> USE ZonesAssumption DEF ZoneSet, NoZone, Rot
<1>1. Init => TypeOK
  BY InitialType
<1>2. TypeOK /\ [HeaderNext]_headervars => TypeOK'
  <2> SUFFICES ASSUME TypeOK, [HeaderNext]_headervars PROVE TypeOK'
    OBVIOUS
  <2>1. CASE StartSync
    BY <2>1 DEF StartSync, TypeOK, server, Newest, IntactZones
  <2>2. CASE Crash
    BY <2>2 DEF Crash, TypeOK, server
  <2>3. ASSUME NEW p \in Parts, WritePart(p) PROVE TypeOK'
    <3>1. disk' \in [ZoneSet -> Header]
      BY <2>3 DEF WritePart, TypeOK, Header
    <3> QED BY <2>3, <3>1 DEF WritePart, TypeOK, server
  <2>4. ASSUME NEW z \in ZoneSet, NEW p \in Parts, NEW v \in {0, Rot},
               Damage(z, p, v)
        PROVE  TypeOK'
    <3>1. disk' \in [ZoneSet -> Header]
      BY <2>4 DEF Damage, TypeOK, Header
    <3> QED BY <2>4, <3>1 DEF Damage, TypeOK, server
  <2>5. CASE Start
    BY <2>5 DEF Start, TypeOK, medium, server
  <2>6. CASE Stop
    <3>1. StackJunk \in Header /\ NoFigures \in Figures /\ 0 \in ZoneSet
      BY DEF Header, StackJunk, NoFigures, Figures
    <3> QED BY <2>6, <3>1 DEF Stop, TypeOK, medium
  <2>7. CASE ReadHeader
    <3>1. ReadZone \in Header
      BY <2>7 DEF ReadHeader, ReadZone, AllRead, TypeOK
    <3>2. i \in ZoneSet /\ i + 1 \in Nat /\ i + 1 <= Zones
      BY <2>7 DEF ReadHeader, AllRead, TypeOK
    <3>3. /\ UNCHANGED <<present, disk, gen, synced, target, left, rotten, pc>>
          /\ volumehdr' = volumehdr /\ i' = i + 1 /\ pc = "reading"
          /\ vol' \in Header /\ hd' \in Header /\ valid' \in BOOLEAN
          /\ volhdrno' \in ZoneSet
      BY <2>7, <3>1, <3>2 DEF ReadHeader, TypeOK, medium
    <3> QED BY <3>2, <3>3 DEF TypeOK
  <2>8. CASE EndOfZones
    BY <2>8 DEF EndOfZones, TypeOK, medium, Fields
  <2>9. CASE CopyField
    <3>1. vol["sect0"] \in Nat \cup {Rot}
      BY DEF TypeOK, Header, Parts
    <3>2. volumehdr' \in Figures
      BY <2>9, <3>1 DEF CopyField, TypeOK, Figures
    <3> QED BY <2>9, <3>2 DEF CopyField, TypeOK, medium, Fields
  <2>10. CASE DfStart \/ DfRead
    BY <2>10 DEF DfStart, DfRead, TypeOK, medium, server
  <2>11. CASE UNCHANGED headervars
    BY <2>11 DEF headervars, medium, server, TypeOK
  <2> QED
    BY <2>1, <2>2, <2>3, <2>4, <2>5, <2>6, <2>7, <2>8, <2>9, <2>10, <2>11
       DEF HeaderNext
<1> QED BY <1>1, <1>2, PTL DEF Spec
-----------------------------------------------------------------------------
(* The owner's side.  Only the zone being written mixes generations, no    *)
(* header is newer than the last one completed, and that one is never the  *)
(* zone being written.                                                     *)
Writing ==
    target # NoZone =>
        /\ pc = "down" /\ left # {} /\ target < present
        /\ \A p \in Parts : IF p \in left THEN disk[target][p] < gen
                                          ELSE disk[target][p] = gen
NothingNewer ==
    /\ synced <= gen
    /\ \A z \in ZoneSet, p \in Parts : disk[z][p] <= gen
    /\ \A z \in IntactZones : disk[z]["sect0"] <= synced
SyncedKept ==
    (present > 1 /\ rotten = 0) =>
        \E z \in IntactZones : z # target /\ disk[z]["sect0"] = synced
MediumInv == TypeOK /\ Writing /\ NothingNewer /\ SyncedKept

LEMMA MediumStart == Init => MediumInv
<1> SUFFICES ASSUME Init PROVE MediumInv
  OBVIOUS
<1>1. TypeOK
  BY InitialType
<1>2. Writing /\ NothingNewer
  BY DEF Init, Writing, NothingNewer, NoZone, IntactZones, Parts
<1>3. SyncedKept
  <2>1. ASSUME present > 1 PROVE 0 \in IntactZones /\ disk[0]["sect0"] = 1
    BY <2>1, ZonesAssumption DEF Init, IntactZones, ZoneSet, Intact, Parts
  <2>2. synced = 1 /\ target = -1
    BY DEF Init, NoZone
  <2> QED BY <2>1, <2>2 DEF SyncedKept
<1> QED BY <1>1, <1>2, <1>3 DEF MediumInv

LEMMA MediumSync == MediumInv /\ StartSync /\ TypeOK' => MediumInv'
<1> SUFFICES ASSUME MediumInv, StartSync, TypeOK' PROVE MediumInv'
  OBVIOUS
<1>1. /\ pc = "down" /\ target = NoZone /\ gen' = gen + 1 /\ left' = Parts
      /\ UNCHANGED <<present, disk, synced, rotten, pc>>
  BY DEF StartSync, server
<1>2. PICK z \in ZoneSet :
         Newest(z) /\ target' = IF z + 1 < present THEN z + 1 ELSE 0
  BY DEF StartSync
<1>3. TypeOK /\ NothingNewer /\ SyncedKept
  BY DEF MediumInv
<1>4. z < present /\ present \in Nat
  BY <1>2, <1>3 DEF Newest, IntactZones, TypeOK
<1>5. \A y \in ZoneSet, p \in Parts : disk[y][p] <= gen /\ disk[y][p] < gen + 1
  <2>1. \A y \in ZoneSet, p \in Parts : disk[y][p] \in Nat \cup {-1}
    BY <1>3 DEF TypeOK, Header, Rot
  <2> QED BY <1>3, <2>1 DEF NothingNewer, TypeOK
<1>6. Writing'
  <2>1. target' \in ZoneSet /\ target' < present
    BY <1>2, <1>4, <1>3, ZonesAssumption DEF ZoneSet, TypeOK
  <2>2. Parts # {}
    BY DEF Parts
  <2> QED BY <1>1, <1>5, <2>1, <2>2 DEF Writing
<1>7. IntactZones' = IntactZones
  BY <1>1 DEF IntactZones
<1>8. NothingNewer'
  <2>1. \A y \in ZoneSet, p \in Parts : disk[y][p] <= gen + 1
    <3>1. \A y \in ZoneSet, p \in Parts : disk[y][p] \in Nat \cup {-1}
      BY <1>3 DEF TypeOK, Header, Rot
    <3> QED BY <1>3, <1>5, <3>1 DEF TypeOK
  <2> QED BY <1>1, <1>3, <1>7, <2>1 DEF NothingNewer, TypeOK
<1>9. SyncedKept'
  <2> SUFFICES ASSUME present > 1, rotten = 0
               PROVE  \E y \in IntactZones : y # target' /\ disk[y]["sect0"] = synced
    BY <1>1, <1>7 DEF SyncedKept
  <2>1. PICK y \in IntactZones : disk[y]["sect0"] = synced
    BY <1>3 DEF SyncedKept
  <2>2. z \in IntactZones /\ disk[y]["sect0"] <= disk[z]["sect0"]
    BY <1>2 DEF Newest
  <2>3. disk[z]["sect0"] <= synced
    BY <1>3, <2>2 DEF NothingNewer
  <2>4. disk[z]["sect0"] \in Nat \cup {-1} /\ synced \in Nat
    BY <1>3 DEF TypeOK, Header, Rot, Parts
  <2>5. target' # z
    BY <1>2, <1>4 DEF ZoneSet
  <2> QED BY <2>1, <2>2, <2>3, <2>4, <2>5
<1> QED BY <1>6, <1>8, <1>9 DEF MediumInv

LEMMA MediumWrite ==
  ASSUME NEW q \in Parts, MediumInv, WritePart(q), TypeOK'
  PROVE  MediumInv'
<1>1. TypeOK /\ Writing /\ NothingNewer /\ SyncedKept
  BY DEF MediumInv
<1>2. /\ target # NoZone /\ q \in left
      /\ disk' = [disk EXCEPT ![target][q] = gen] /\ left' = left \ {q}
      /\ UNCHANGED <<present, gen, rotten, pc>>
      /\ IF left' = {} THEN synced' = gen /\ target' = NoZone
                       ELSE UNCHANGED <<synced, target>>
  BY DEF WritePart, server
<1>3. /\ target \in ZoneSet /\ target < present /\ pc = "down"
      /\ \A p \in Parts : IF p \in left THEN disk[target][p] < gen
                                        ELSE disk[target][p] = gen
  BY <1>1, <1>2 DEF TypeOK, Writing
<1>4. /\ \A z \in ZoneSet : z # target => disk'[z] = disk[z]
      /\ \A p \in Parts : disk'[target][p] = IF p = q THEN gen ELSE disk[target][p]
  BY <1>1, <1>2, <1>3 DEF TypeOK, Header
<1>5. Writing'
  BY <1>1, <1>2, <1>3, <1>4 DEF Writing
<1>6. ASSUME NEW z \in ZoneSet, z # target
      PROVE  z \in IntactZones' <=> z \in IntactZones
  BY <1>2, <1>4, <1>6 DEF IntactZones, Intact
<1>7. left' # {} => target \notin IntactZones'
  <2> SUFFICES ASSUME left' # {} PROVE target \notin IntactZones'
    OBVIOUS
  <2>1. PICK p \in left' : p # q /\ p \in Parts /\ p \in left
    BY <1>1, <1>2 DEF TypeOK
  <2>2. disk'[target][p] < gen /\ disk'[target][q] = gen
    BY <1>3, <1>4, <2>1
  <2>3. disk'[target][p] # disk'[target][q]
    BY <2>2, <1>1 DEF TypeOK
  <2> QED BY <2>1, <2>3 DEF IntactZones, Intact
<1>8. \A z \in ZoneSet, p \in Parts : disk'[z][p] <= gen
  BY <1>1, <1>4 DEF NothingNewer, TypeOK
<1>9. \A z \in ZoneSet : disk[z]["sect0"] \in Nat \cup {-1}
  BY <1>1 DEF TypeOK, Header, Parts, Rot
<1>10. CASE left' = {}
  <2>1. synced' = gen /\ target' = NoZone
    BY <1>2, <1>10
  <2>2. \A z \in IntactZones' : disk'[z]["sect0"] <= synced'
    BY <2>1, <1>8 DEF IntactZones, Parts
  <2>3. NothingNewer'
    BY <1>2, <1>8, <2>1, <2>2, <1>1 DEF NothingNewer, TypeOK
  <2>4. \A p \in Parts : disk'[target][p] = gen
    BY <1>2, <1>3, <1>4, <1>10
  <2>5. gen > 0
    BY <1>1 DEF TypeOK
  <2>6. target \in IntactZones'
    BY <1>2, <1>3, <2>4, <2>5 DEF IntactZones, Intact, Parts
  <2>7. SyncedKept'
    BY <2>1, <2>4, <2>6, <1>2, <1>3 DEF SyncedKept, NoZone, Parts, ZoneSet
  <2> QED BY <1>5, <2>3, <2>7 DEF MediumInv
<1>11. CASE left' # {}
  <2>1. \A z \in IntactZones' : z # target /\ z \in IntactZones /\ disk'[z] = disk[z]
    BY <1>4, <1>6, <1>7, <1>11 DEF IntactZones
  <2>2. NothingNewer'
    BY <1>1, <1>2, <1>8, <1>11, <2>1 DEF NothingNewer
  <2>3. SyncedKept'
    BY <1>1, <1>2, <1>4, <1>6, <1>11 DEF SyncedKept, IntactZones
  <2> QED BY <1>5, <2>2, <2>3 DEF MediumInv
<1> QED BY <1>10, <1>11

LEMMA MediumDamage ==
  ASSUME NEW x \in ZoneSet, NEW q \in Parts, NEW v \in {0, Rot},
         MediumInv, Damage(x, q, v), TypeOK'
  PROVE  MediumInv'
<1>1. TypeOK /\ NothingNewer
  BY DEF MediumInv
<1>2. /\ target = NoZone /\ disk' = [disk EXCEPT ![x][q] = v]
      /\ rotten' = rotten + 1
      /\ UNCHANGED <<present, gen, synced, target>>
  BY DEF Damage
<1>3. /\ \A z \in ZoneSet : z # x => disk'[z] = disk[z]
      /\ \A p \in Parts : disk'[x][p] = IF p = q THEN v ELSE disk[x][p]
  BY <1>1, <1>2 DEF TypeOK, Header
<1>4. x \notin IntactZones'
  <2>1. ~ v > 0
    BY DEF Rot
  <2> QED BY <1>3, <2>1 DEF IntactZones, Intact, Parts
<1>5. \A z \in IntactZones' : z \in IntactZones /\ disk'[z] = disk[z]
  BY <1>2, <1>3, <1>4 DEF IntactZones, Intact
<1>6. \A z \in ZoneSet, p \in Parts : disk'[z][p] <= gen
  <2>1. v <= gen
    BY <1>1 DEF TypeOK, Rot
  <2> QED BY <1>1, <1>3, <2>1 DEF NothingNewer
<1>7. Writing' /\ NothingNewer'
  BY <1>1, <1>2, <1>5, <1>6 DEF Writing, NothingNewer
<1>8. SyncedKept'
  BY <1>1, <1>2 DEF SyncedKept, TypeOK
<1> QED BY <1>7, <1>8 DEF MediumInv

(* The server changes nothing of the medium, and starts only when nothing  *)
(* is being written to it.                                                 *)
LEMMA MediumKept ==
  ASSUME MediumInv, UNCHANGED medium, target # NoZone => pc' = "down", TypeOK'
  PROVE  MediumInv'
<1>1. IntactZones' = IntactZones
  BY DEF medium, IntactZones
<1> QED BY <1>1 DEF MediumInv, medium, Writing, NothingNewer, SyncedKept

LEMMA MediumSteps == MediumInv /\ TypeOK' /\ [HeaderNext]_headervars => MediumInv'
<1> SUFFICES ASSUME MediumInv, TypeOK', [HeaderNext]_headervars PROVE MediumInv'
  OBVIOUS
<1>1. TypeOK /\ Writing /\ NothingNewer /\ SyncedKept
  BY DEF MediumInv
<1>2. CASE StartSync
  BY <1>2, MediumSync
<1>3. CASE Crash
  <2>1. IntactZones' = IntactZones
    BY <1>3 DEF Crash, IntactZones
  <2> QED BY <1>1, <1>3, <2>1
          DEF Crash, MediumInv, Writing, NothingNewer, SyncedKept, server,
              IntactZones, ZoneSet, NoZone
<1>4. CASE \E p \in Parts : WritePart(p)
  BY <1>4, MediumWrite
<1>5. CASE \E z \in ZoneSet, p \in Parts, v \in {0, Rot} : Damage(z, p, v)
  BY <1>5, MediumDamage
<1>6. CASE Start \/ Stop \/ ReadHeader \/ EndOfZones \/ CopyField
  <2>1. UNCHANGED medium
    BY <1>6 DEF Start, Stop, ReadHeader, EndOfZones, CopyField
  <2>2. target # NoZone => pc' = "down"
    BY <1>1, <1>6
       DEF Writing, Start, Stop, ReadHeader, EndOfZones, CopyField
  <2> QED BY <2>1, <2>2, MediumKept
<1>7. CASE DfStart \/ DfRead \/ UNCHANGED headervars
  <2>1. UNCHANGED medium /\ pc' = pc
    BY <1>7 DEF DfStart, DfRead, headervars, server
  <2> QED BY <1>1, <2>1, MediumKept DEF Writing
<1> QED BY <1>2, <1>3, <1>4, <1>5, <1>6, <1>7 DEF HeaderNext
-----------------------------------------------------------------------------
(* The server's side.  Of the zones read so far the newest intact header   *)
(* is in hd, and vol is what the stack held or one of those headers.       *)
Seen == IF pc = "reading" THEN i ELSE Zones

BestSoFar ==
    pc # "down" =>
        IF valid
        THEN /\ volhdrno \in IntactZones /\ hd = disk[volhdrno]
             /\ \A z \in IntactZones : z < Seen => disk[z]["sect0"] <= hd["sect0"]
        ELSE \A z \in IntactZones : ~ z < Seen
LastRead ==
    pc = "reading" =>
        \/ vol = StackJunk
        \/ \E z \in ZoneSet : z < present /\ z < i /\ vol = disk[z]
AtRest == pc = "down" => ~ valid /\ vol = StackJunk
ServerInv == BestSoFar /\ LastRead /\ AtRest

LEMMA ServerStart == Init => ServerInv
  BY DEF Init, ServerInv, BestSoFar, LastRead, AtRest

LEMMA ServerRead ==
  ASSUME TypeOK, ServerInv, ReadHeader
  PROVE  ServerInv'
<1>1. /\ pc = "reading" /\ i \in ZoneSet /\ i' = i + 1 /\ pc' = pc
      /\ UNCHANGED <<present, disk>>
  BY ZonesAssumption DEF ReadHeader, AllRead, TypeOK, medium, ZoneSet
<1>2. Seen = i /\ Seen' = i + 1
  BY <1>1 DEF Seen
<1>3. IntactZones' = IntactZones
  BY <1>1 DEF IntactZones
<1>4. LastRead'
  <2>1. CASE i < present
    BY <1>1, <2>1 DEF ReadHeader, ReadZone, LastRead, ZoneSet
  <2>2. CASE ~ i < present
    <3>1. vol' = vol
      BY <2>2 DEF ReadHeader, ReadZone
    <3> QED BY <1>1, <3>1 DEF ServerInv, LastRead, ZoneSet
  <2> QED BY <2>1, <2>2
<1>5. vol' \in Header
  BY <1>1 DEF ReadHeader, ReadZone, TypeOK
<1>6. Accepts(vol') <=> (Intact(vol') /\ Better(vol'))
  BY <1>5, ChecksMeanIntact DEF Accepts
<1>7. \A z \in IntactZones :
         z < i + 1 => z < i \/ (z = i /\ i < present /\ vol' = disk[i])
  BY <1>1 DEF IntactZones, ReadHeader, ReadZone, ZoneSet
<1>8. \A z \in ZoneSet : disk[z]["sect0"] \in Nat \cup {-1}
  BY DEF TypeOK, Header, Parts, Rot
<1>9. hd["sect0"] \in Nat \cup {-1} /\ vol'["sect0"] \in Nat \cup {-1}
  BY <1>5 DEF TypeOK, Header, Parts, Rot
<1>10. CASE Accepts(vol')
  <2>1. valid' /\ hd' = vol' /\ volhdrno' = i
    BY <1>10 DEF ReadHeader
  <2>2. Intact(vol') /\ Better(vol')
    BY <1>6, <1>10
  <2>3. i < present
    <3> SUFFICES ASSUME ~ i < present PROVE FALSE
      OBVIOUS
    <3>1. vol' = vol
      BY DEF ReadHeader, ReadZone
    <3>2. PICK z \in ZoneSet : z < present /\ z < i /\ vol = disk[z]
      BY <1>1, <2>2, <3>1, JunkIsNotIntact DEF ServerInv, LastRead
    <3>3. z \in IntactZones
      BY <2>2, <3>1, <3>2 DEF IntactZones
    <3>4. valid /\ vol["sect0"] <= hd["sect0"]
      BY <1>1, <1>2, <3>2, <3>3 DEF ServerInv, BestSoFar
    <3> QED BY <2>2, <3>1, <3>4, <1>9 DEF Better
  <2>4. vol' = disk[i] /\ i \in IntactZones
    BY <1>1, <2>2, <2>3 DEF ReadHeader, ReadZone, IntactZones
  <2>5. \A z \in IntactZones : z < i + 1 => disk[z]["sect0"] <= vol'["sect0"]
    <3> SUFFICES ASSUME NEW z \in IntactZones, z < i
                 PROVE  disk[z]["sect0"] <= vol'["sect0"]
      BY <1>7, <1>9, <2>4
    <3>1. valid /\ disk[z]["sect0"] <= hd["sect0"]
      BY <1>1, <1>2 DEF ServerInv, BestSoFar
    <3>2. z \in ZoneSet
      BY DEF IntactZones
    <3> QED BY <2>2, <3>1, <3>2, <1>8, <1>9 DEF Better
  <2> QED BY <1>1, <1>2, <1>3, <1>4, <2>1, <2>4, <2>5 DEF ServerInv, BestSoFar, AtRest
<1>11. CASE ~ Accepts(vol')
  <2>1. UNCHANGED <<valid, hd, volhdrno>>
    BY <1>11 DEF ReadHeader
  <2>2. ASSUME NEW z \in IntactZones, z = i, vol' = disk[i]
        PROVE  valid /\ disk[z]["sect0"] <= hd["sect0"]
    <3>1. Intact(vol')
      BY <2>2 DEF IntactZones
    <3>2. ~ Better(vol')
      BY <1>6, <1>11, <3>1
    <3> QED BY <2>2, <3>2, <1>9 DEF Better
  <2> QED BY <1>1, <1>2, <1>3, <1>4, <1>7, <2>1, <2>2 DEF ServerInv, BestSoFar, AtRest
<1> QED BY <1>10, <1>11

LEMMA ServerSteps == MediumInv /\ ServerInv /\ [HeaderNext]_headervars => ServerInv'
<1> SUFFICES ASSUME MediumInv, ServerInv, [HeaderNext]_headervars PROVE ServerInv'
  OBVIOUS
<1>1. TypeOK /\ Writing
  BY DEF MediumInv
<1>2. CASE \/ StartSync \/ Crash \/ \E p \in Parts : WritePart(p)
           \/ \E z \in ZoneSet, p \in Parts, v \in {0, Rot} : Damage(z, p, v)
  <2>1. pc = "down" /\ pc' = pc /\ valid' = valid /\ vol' = vol
    BY <1>1, <1>2 DEF StartSync, Crash, WritePart, Damage, server, Writing
  <2> QED BY <2>1 DEF ServerInv, BestSoFar, LastRead, AtRest
<1>3. CASE Start \/ Stop
  <2>1. CASE Stop
    BY <2>1 DEF Stop, ServerInv, BestSoFar, LastRead, AtRest
  <2>2. CASE Start
    <3>1. ~ valid' /\ vol' = StackJunk /\ pc' = "reading" /\ i' = 0
      BY <2>2 DEF Start, ServerInv, AtRest
    <3>2. Seen' = 0 /\ \A z \in IntactZones' : ~ z < 0
      BY <3>1 DEF Seen, IntactZones, ZoneSet
    <3> QED BY <3>1, <3>2 DEF ServerInv, BestSoFar, LastRead, AtRest
  <2> QED BY <1>3, <2>1, <2>2
<1>4. CASE ReadHeader
  BY <1>1, <1>4, ServerRead
<1>5. CASE EndOfZones \/ CopyField
  <2>1. /\ UNCHANGED <<valid, hd, volhdrno>> /\ IntactZones' = IntactZones
        /\ disk' = disk /\ pc # "down" /\ pc' \notin {"down", "reading"}
        /\ Seen' = Zones
        /\ Seen = Zones
    BY <1>1, <1>5 DEF EndOfZones, CopyField, IntactZones, medium, Seen, AllRead
  <2> QED BY <2>1 DEF ServerInv, BestSoFar, LastRead, AtRest
<1>6. CASE DfStart \/ DfRead \/ UNCHANGED headervars
  <2>1. UNCHANGED <<present, disk, server>>
    BY <1>6 DEF DfStart, DfRead, headervars, medium
  <2>2. IntactZones' = IntactZones /\ Seen' = Seen
    BY <2>1 DEF IntactZones, Seen, server
  <2> QED BY <2>1, <2>2 DEF ServerInv, BestSoFar, LastRead, AtRest, server
<1> QED BY <1>2, <1>3, <1>4, <1>5, <1>6 DEF HeaderNext

LEMMA Invariance == Spec => [](TypeOK /\ MediumInv /\ ServerInv)
<1>1. Init => MediumInv /\ ServerInv
  BY MediumStart, ServerStart
<1>2. TypeOK' /\ MediumInv /\ ServerInv /\ [HeaderNext]_headervars => MediumInv' /\ ServerInv'
  BY MediumSteps, ServerSteps
<1> QED BY <1>1, <1>2, TypeCorrect, PTL DEF Spec

LEMMA MountedChoice == TypeOK /\ ServerInv => ChosenNewest
<1> SUFFICES ASSUME TypeOK, ServerInv, Mounted
             PROVE  IF valid THEN Newest(volhdrno) /\ hd = disk[volhdrno]
                             ELSE IntactZones = {}
  BY DEF ChosenNewest
<1>1. pc # "down" /\ Seen = Zones
  BY DEF Mounted, Seen
<1>2. \A z \in IntactZones : z < Zones
  BY ZonesAssumption DEF IntactZones, ZoneSet
<1> QED BY <1>1, <1>2 DEF ServerInv, BestSoFar, Newest

(* readvolume() mounts an intact header and no intact one is newer.        *)
THEOREM MountsNewest == Spec => []ChosenNewest
  BY Invariance, MountedChoice, PTL

(* The last generation its owner wrote completely is the one mounted.      *)
THEOREM MountsSynced == Spec => []SyncedNotLost
<1>1. TypeOK /\ MediumInv /\ ServerInv => SyncedNotLost
  <2> SUFFICES ASSUME TypeOK, MediumInv, ServerInv,
                      Mounted, present > 1, rotten = 0
               PROVE  valid /\ hd["sect0"] = synced
    BY DEF SyncedNotLost
  <2>1. PICK z \in IntactZones : disk[z]["sect0"] = synced
    BY DEF MediumInv, SyncedKept
  <2>2. valid /\ Newest(volhdrno) /\ hd = disk[volhdrno]
    BY <2>1, MountedChoice DEF ChosenNewest
  <2>3. synced <= hd["sect0"] /\ hd["sect0"] <= synced
    BY <2>1, <2>2 DEF Newest, MediumInv, NothingNewer
  <2>4. hd["sect0"] \in Nat \cup {-1} /\ synced \in Nat
    BY DEF TypeOK, Header, Parts, Rot
  <2> QED BY <2>2, <2>3, <2>4
<1> QED BY <1>1, Invariance, PTL
-----------------------------------------------------------------------------
(* The df side.  Reading past the end of the device leaves in vol the      *)
(* header of the last zone there is, its generation is what the fields of  *)
(* volumehdr get one after another, each in the place of nothing, and what *)
(* df read of a field is what it holds, or the nothing of before.          *)
LastThere == IF pc = "reading" /\ i < present THEN i - 1 ELSE present - 1
HoldsLast ==
    (pc # "down" /\ present > 0 /\ (pc = "reading" => i > 0)) =>
        vol = disk[LastThere]
FieldNames == {"volu_size", "allocator_size", "allocator_free"}
Exported ==
    /\ pc \in {"down", "reading"} => \A f \in FieldNames : volumehdr[f] = 0
    /\ pc = "copying" =>
          \A k \in 1 .. 3 : volumehdr[Fields[k]] = IF k < i THEN vol["sect0"] ELSE 0
    /\ pc = "serving" => \A f \in FieldNames : volumehdr[f] = vol["sect0"]
DfType ==
    df \in [state : {"idle", "running", "done", "broken"},
            seen : Seq(Nat \cup {Rot}), early : Nat]
DfProgress ==
    /\ Len(df.seen) <= Len(DfReads)
    /\ df.state = "running" => Len(df.seen) < Len(DfReads)
    /\ df.state \in {"done", "broken"} => Len(df.seen) = Len(DfReads)
    /\ df.state = "broken" => df.seen[Len(DfReads)] \in {0, Rot}
    /\ df.state = "done" => df.seen[Len(DfReads)] # 0
DfTracks ==
    \A k \in 1 .. Len(df.seen) : df.seen[k] = 0 \/ df.seen[k] = volumehdr[DfReads[k]]
DfLate ==
    /\ df.early < Len(df.seen) => pc = "serving"
    /\ \A k \in 1 .. Len(df.seen) : k > df.early => df.seen[k] = vol["sect0"]
DfKept ==
    \A k \in 1 .. Len(df.seen) : \A j \in 1 .. k - 1 :
        (DfReads[j] = DfReads[k] /\ df.seen[k] = 0) => df.seen[j] = 0
DfSeen == DfTracks /\ DfLate /\ DfKept
DfInv == HoldsLast /\ Exported /\ DfType /\ DfProgress /\ DfSeen

LEMMA DfReadsFields == Len(DfReads) = 6 /\ \A k \in 1 .. 6 : DfReads[k] \in FieldNames
<1>1. Len(DfReads) = 6
  BY DEF DfReads
<1>2. ASSUME NEW k \in 1 .. 6 PROVE DfReads[k] \in FieldNames
  <2>1. k \in {1, 2, 3, 4, 5, 6}
    OBVIOUS
  <2> QED BY <2>1 DEF DfReads, FieldNames
<1> QED BY <1>1, <1>2

(* A df that has read nothing.                                             *)
LEMMA DfFresh ==
  ASSUME NEW s \in {"idle", "running"}, df' = [state |-> s, seen |-> <<>>, early |-> 0]
  PROVE  DfType' /\ DfProgress' /\ DfSeen'
<1>1. df'.state = s /\ df'.seen = <<>> /\ df'.early = 0 /\ Len(<<>>) = 0
  OBVIOUS
<1>2. DfType'
  BY DEF DfType
<1>3. DfProgress'
  BY <1>1, DfReadsFields DEF DfProgress
<1>4. 1 .. Len(df'.seen) = {}
  BY <1>1
<1> QED BY <1>1, <1>2, <1>3, <1>4 DEF DfSeen, DfTracks, DfLate, DfKept

LEMMA DfInitially == Init => DfInv
<1> SUFFICES ASSUME Init PROVE DfInv
  OBVIOUS
<1>1. /\ pc = "down" /\ df = [state |-> "idle", seen |-> <<>>, early |-> 0]
      /\ \A f \in FieldNames : volumehdr[f] = 0
  BY DEF Init, NoDf, NoFigures, FieldNames
<1>2. df.state = "idle" /\ df.seen = <<>> /\ df.early = 0 /\ Len(<<>>) = 0
  BY <1>1
<1>3. DfType
  BY <1>1 DEF DfType
<1>4. 1 .. Len(df.seen) = {}
  BY <1>2
<1>5. DfProgress
  BY <1>2, DfReadsFields DEF DfProgress
<1> QED BY <1>1, <1>2, <1>3, <1>4, <1>5
        DEF DfInv, HoldsLast, Exported, DfSeen, DfTracks, DfLate, DfKept

(* One turn of the loop: the zone there is, or the one read before.        *)
LEMMA LastZoneRead ==
  ASSUME TypeOK, HoldsLast, ReadHeader
  PROVE  HoldsLast'
<1>1. /\ pc = "reading" /\ pc' = pc /\ i \in 0 .. Zones - 1 /\ i' = i + 1
      /\ disk' = disk /\ present' = present /\ present \in 0 .. Zones
      /\ vol' = ReadZone
  BY ZonesAssumption DEF ReadHeader, AllRead, TypeOK, medium
<1>2. CASE i < present
  <2>1. vol' = disk[i] /\ LastThere' = i
    BY <1>1, <1>2 DEF ReadZone, LastThere
  <2> QED BY <1>1, <2>1 DEF HoldsLast
<1>3. CASE ~ i < present
  <2>1. vol' = vol /\ LastThere' = present - 1 /\ LastThere = present - 1
    BY <1>1, <1>3 DEF ReadZone, LastThere
  <2>2. present > 0 => i > 0
    BY <1>1, <1>3
  <2> QED BY <1>1, <2>1, <2>2 DEF HoldsLast
<1> QED BY <1>2, <1>3

(* A field copied takes the place of nothing.                              *)
LEMMA ExportedCopy ==
  ASSUME TypeOK, Exported, CopyField
  PROVE  /\ Exported'
         /\ \A f \in FieldNames : volumehdr[f] = 0 \/ volumehdr'[f] = volumehdr[f]
<1>1. /\ pc = "copying" /\ vol' = vol /\ i \in {1, 2, 3}
      /\ volumehdr' = [volumehdr EXCEPT ![Fields[i]] = vol["sect0"]]
      /\ IF i < 3 THEN i' = i + 1 /\ pc' = pc ELSE pc' = "serving"
  BY DEF CopyField, TypeOK, Fields
<1>2. /\ Fields[1] = "volu_size" /\ Fields[2] = "allocator_size"
      /\ Fields[3] = "allocator_free"
  BY DEF Fields
<1>3. \A f \in FieldNames :
         volumehdr'[f] = IF f = Fields[i] THEN vol["sect0"] ELSE volumehdr[f]
  BY <1>1 DEF TypeOK, Figures, FieldNames
<1>4. \A k \in 1 .. 3 : volumehdr[Fields[k]] = IF k < i THEN vol["sect0"] ELSE 0
  BY <1>1 DEF Exported
<1>5. \A k \in 1 .. 3 : Fields[k] \in FieldNames /\ (Fields[k] = Fields[i] <=> k = i)
  <2>1. \A k \in 1 .. 3 : k \in {1, 2, 3}
    OBVIOUS
  <2> QED BY <1>1, <1>2, <2>1 DEF FieldNames
<1>6. \A k \in 1 .. 3 :
         volumehdr'[Fields[k]] = IF k < i + 1 THEN vol["sect0"] ELSE 0
  <2>1. \A k \in 1 .. 3 : k < i + 1 <=> k < i \/ k = i
    BY <1>1
  <2> QED BY <1>3, <1>4, <1>5, <2>1
<1>7. \A f \in FieldNames : volumehdr[f] = 0 \/ volumehdr'[f] = volumehdr[f]
  <2>1. volumehdr[Fields[i]] = 0
    BY <1>1, <1>4
  <2> QED BY <1>3, <2>1
<1>8. CASE i < 3
  <2>1. i' = i + 1 /\ pc' = "copying"
    BY <1>1, <1>8
  <2> QED BY <1>1, <1>6, <1>7, <2>1 DEF Exported
<1>9. CASE i = 3
  <2>1. pc' = "serving" /\ \A k \in 1 .. 3 : k < i + 1
    BY <1>1, <1>9
  <2>2. \A f \in FieldNames : volumehdr'[f] = vol'["sect0"]
    BY <1>1, <1>2, <1>6, <2>1 DEF FieldNames
  <2> QED BY <1>7, <2>1, <2>2 DEF Exported
<1> QED BY <1>1, <1>8, <1>9

(* What df has read stays what its field holds, or nothing, as fields are  *)
(* copied and headers read.                                                *)
LEMMA DfStays ==
  ASSUME DfProgress, DfSeen, df' = df, pc # "serving" \/ UNCHANGED <<pc, vol>>,
         \A f \in FieldNames : volumehdr[f] = 0 \/ volumehdr'[f] = volumehdr[f],
         Len(df.seen) \in Nat, df.early \in Nat
  PROVE  DfSeen'
<1>1. \A k \in 1 .. Len(df.seen) : DfReads[k] \in FieldNames
  <2>1. \A k \in 1 .. Len(df.seen) : k \in 1 .. 6
    BY DfReadsFields DEF DfProgress
  <2> QED BY <2>1, DfReadsFields
<1>2. DfTracks'
  BY <1>1 DEF DfSeen, DfTracks
<1>3. DfLate'
  <2>1. CASE pc # "serving"
    <3>1. ~ df.early < Len(df.seen)
      BY <2>1 DEF DfSeen, DfLate
    <3>2. \A k \in 1 .. Len(df.seen) : ~ k > df.early
      BY <3>1
    <3> QED BY <3>1, <3>2 DEF DfLate
  <2>2. CASE UNCHANGED <<pc, vol>>
    BY <2>2 DEF DfSeen, DfLate
  <2> QED BY <2>1, <2>2
<1>4. DfKept'
  BY DEF DfSeen, DfKept
<1> QED BY <1>2, <1>3, <1>4 DEF DfSeen

(* One field read by df: while it serves it is of the header in vol.       *)
LEMMA DfReadsLast ==
  ASSUME TypeOK, DfInv, DfRead
  PROVE  DfInv'
<1> DEFINE n == Len(df.seen) + 1
           v == volumehdr[DfReads[n]]
           e == IF pc = "serving" THEN df.early ELSE n
<1>1. /\ df.state = "running" /\ df.seen \in Seq(Nat \cup {Rot})
      /\ df.early \in Nat /\ Len(df.seen) \in Nat /\ Len(df.seen) < 6
  BY DfReadsFields DEF DfRead, DfInv, DfType, DfProgress
<1>2. n \in 1 .. 6 /\ DfReads[n] \in FieldNames /\ n = Len(df.seen) + 1
  BY <1>1, DfReadsFields
<1>3. v \in Nat \cup {Rot}
  BY <1>2 DEF TypeOK, Figures, FieldNames
<1>4. PICK s \in {"running", "broken", "done"} :
         /\ df' = [state |-> s, seen |-> Append(df.seen, v), early |-> e]
         /\ s = "running" <=> n < 6
         /\ s = "broken" => v \in {0, Rot}
         /\ s = "done" => v # 0
  <2> HIDE DEF n, v, e
  <2>1. PICK s \in IF n < Len(DfReads) THEN {"running"}
                   ELSE IF v = 0 THEN {"broken"}
                   ELSE IF v = Rot THEN {"broken", "done"} ELSE {"done"} :
           df' = [state |-> s, seen |-> Append(df.seen, v), early |-> e]
    BY DEF DfRead, n, v, e
  <2> QED BY <2>1, DfReadsFields DEF Rot
<1>5. UNCHANGED <<present, disk, pc, i, vol, volumehdr>>
  BY DEF DfRead, medium, server
<1>6. e \in Nat /\ (e = df.early \/ e = n) /\ (pc # "serving" => e = n)
      /\ (pc = "serving" => e = df.early)
  BY <1>1
<1>7. v = volumehdr[DfReads[n]]
  OBVIOUS
<1> HIDE DEF v, e, n
<1>8. /\ Append(df.seen, v) \in Seq(Nat \cup {Rot})
      /\ Len(Append(df.seen, v)) = n /\ Append(df.seen, v)[n] = v
      /\ \A k \in 1 .. n - 1 : Append(df.seen, v)[k] = df.seen[k]
  BY <1>1, <1>2, <1>3
<1>9. /\ df'.state = s /\ df'.seen = Append(df.seen, v) /\ df'.early = e
  BY <1>4
<1>10. DfType'
  BY <1>4, <1>6, <1>8 DEF DfType
<1>11. DfProgress'
  BY <1>2, <1>4, <1>8, <1>9, DfReadsFields DEF DfProgress
<1>12. \A k \in 1 .. n : k = n \/ (k \in 1 .. n - 1 /\ k \in 1 .. Len(df.seen))
  BY <1>1, <1>2
<1>13. DfTracks'
  <2>1. ASSUME NEW k \in 1 .. n
        PROVE  df'.seen[k] = 0 \/ df'.seen[k] = volumehdr[DfReads[k]]
    BY <1>7, <1>8, <1>9, <1>12 DEF DfInv, DfSeen, DfTracks
  <2> QED BY <1>5, <1>8, <1>9, <2>1 DEF DfTracks
<1>14. DfLate'
  <2>1. CASE pc # "serving"
    <3>1. e = n
      BY <1>6, <2>1
    <3>2. ~ e < n /\ \A k \in 1 .. n : ~ k > e
      BY <1>2, <3>1
    <3> QED BY <1>8, <1>9, <3>2 DEF DfLate
  <2>2. CASE pc = "serving"
    <3>1. v = vol["sect0"] /\ e = df.early
      BY <1>2, <1>6, <1>7, <2>2 DEF DfInv, Exported
    <3>2. \A k \in 1 .. Len(df.seen) : k > e => df.seen[k] = vol["sect0"]
      BY <3>1 DEF DfInv, DfSeen, DfLate
    <3>3. \A k \in 1 .. n : k > e => df'.seen[k] = vol["sect0"]
      BY <1>8, <1>9, <1>12, <3>1, <3>2
    <3> QED BY <1>5, <1>8, <1>9, <2>2, <3>3 DEF DfLate
  <2> QED BY <2>1, <2>2
<1>15. DfKept'
  <2>1. ASSUME NEW k \in 1 .. n, NEW j \in 1 .. k - 1,
               DfReads[j] = DfReads[k], df'.seen[k] = 0
        PROVE  df'.seen[j] = 0
    <3>1. j \in 1 .. n - 1 /\ j \in 1 .. Len(df.seen) /\ df'.seen[j] = df.seen[j]
      <4>1. j \in 1 .. n - 1 /\ j \in 1 .. Len(df.seen)
        BY <1>1, <1>2
      <4> QED BY <1>8, <1>9, <4>1
    <3>2. CASE k = n
      <4>1. volumehdr[DfReads[j]] = 0
        BY <1>7, <1>8, <1>9, <2>1, <3>2
      <4> QED BY <3>1, <4>1 DEF DfInv, DfSeen, DfTracks
    <3>3. CASE k # n
      <4>1. k \in 1 .. Len(df.seen) /\ df.seen[k] = 0
        BY <1>8, <1>9, <1>12, <2>1, <3>3
      <4> QED BY <2>1, <3>1, <4>1 DEF DfInv, DfSeen, DfKept
    <3> QED BY <3>2, <3>3
  <2> QED BY <1>8, <1>9, <2>1 DEF DfKept
<1> QED
  BY <1>5, <1>10, <1>11, <1>13, <1>14, <1>15
     DEF DfInv, DfSeen, HoldsLast, LastThere, Exported

LEMMA DfSteps == MediumInv /\ DfInv /\ [HeaderNext]_headervars => DfInv'
<1> SUFFICES ASSUME MediumInv, DfInv, [HeaderNext]_headervars PROVE DfInv'
  OBVIOUS
<1>1. TypeOK /\ Writing /\ HoldsLast /\ Exported /\ DfType /\ DfProgress /\ DfSeen
  BY DEF MediumInv, DfInv
<1>2. Len(df.seen) \in Nat /\ df.early \in Nat
  BY <1>1 DEF DfType
<1>3. ASSUME df' = df PROVE DfType' /\ DfProgress'
  BY <1>1, <1>3 DEF DfType, DfProgress
<1>4. CASE \/ StartSync \/ Crash \/ \E p \in Parts : WritePart(p)
           \/ \E z \in ZoneSet, p \in Parts, v \in {0, Rot} : Damage(z, p, v)
  <2>1. pc = "down" /\ pc' = pc /\ df' = df /\ volumehdr' = volumehdr
    BY <1>1, <1>4 DEF StartSync, Crash, WritePart, Damage, server, Writing
  <2>2. DfSeen'
    BY <1>1, <1>2, <2>1, DfStays
  <2> QED BY <1>1, <1>3, <2>1, <2>2 DEF DfInv, HoldsLast, Exported
<1>5. CASE Start
  <2>1. /\ pc = "down" /\ pc' = "reading" /\ i' = 0 /\ df' = df
        /\ volumehdr' = volumehdr
    BY <1>5 DEF Start
  <2>2. DfSeen'
    BY <1>1, <1>2, <2>1, DfStays
  <2> QED BY <1>1, <1>3, <2>1, <2>2 DEF DfInv, HoldsLast, Exported
<1>6. CASE Stop
  <2>1. /\ pc' = "down" /\ df' = [state |-> "idle", seen |-> <<>>, early |-> 0]
        /\ \A f \in FieldNames : volumehdr'[f] = 0
    BY <1>6 DEF Stop, NoDf, NoFigures, FieldNames
  <2>2. DfType' /\ DfProgress' /\ DfSeen'
    BY <2>1, DfFresh
  <2> QED BY <2>1, <2>2 DEF DfInv, HoldsLast, Exported
<1>7. CASE ReadHeader
  <2>1. pc = "reading" /\ pc' = "reading" /\ df' = df /\ volumehdr' = volumehdr
    BY <1>7 DEF ReadHeader
  <2>2. DfSeen'
    BY <1>1, <1>2, <2>1, DfStays
  <2>3. HoldsLast'
    BY <1>1, <1>7, LastZoneRead
  <2> QED BY <1>1, <1>3, <2>1, <2>2, <2>3 DEF DfInv, Exported
<1>8. CASE EndOfZones
  <2>1. /\ pc = "reading" /\ i = Zones /\ pc' = "copying" /\ i' = 1 /\ df' = df
        /\ vol' = vol /\ disk' = disk /\ present' = present /\ volumehdr' = volumehdr
        /\ present \in 0 .. Zones
    BY <1>1, <1>8 DEF EndOfZones, AllRead, medium, TypeOK
  <2>2. HoldsLast'
    BY <1>1, <2>1, ZonesAssumption DEF HoldsLast, LastThere
  <2>3. Exported'
    <3>1. \A k \in 1 .. 3 : Fields[k] \in FieldNames /\ ~ k < 1
      <4>1. \A k \in 1 .. 3 : k \in {1, 2, 3} /\ ~ k < 1
        OBVIOUS
      <4> QED BY <4>1 DEF Fields, FieldNames
    <3> QED BY <1>1, <2>1, <3>1 DEF Exported
  <2>4. DfSeen'
    BY <1>1, <1>2, <2>1, DfStays
  <2> QED BY <1>3, <2>1, <2>2, <2>3, <2>4 DEF DfInv
<1>9. CASE CopyField
  <2>1. /\ pc = "copying" /\ pc' \in {"copying", "serving"} /\ df' = df
        /\ vol' = vol /\ disk' = disk /\ present' = present
    BY <1>9 DEF CopyField, medium
  <2>2. HoldsLast'
    BY <1>1, <2>1 DEF HoldsLast, LastThere
  <2>3. /\ Exported'
        /\ \A f \in FieldNames : volumehdr[f] = 0 \/ volumehdr'[f] = volumehdr[f]
    BY <1>1, <1>9, ExportedCopy
  <2>4. DfSeen'
    BY <1>1, <1>2, <2>1, <2>3, DfStays
  <2> QED BY <1>3, <2>1, <2>2, <2>3, <2>4 DEF DfInv
<1>10. CASE DfStart
  <2>1. /\ df' = [state |-> "running", seen |-> <<>>, early |-> 0]
        /\ UNCHANGED <<present, disk, pc, i, vol, volumehdr>>
    BY <1>10 DEF DfStart, NoDf, medium, server
  <2>2. DfType' /\ DfProgress' /\ DfSeen'
    BY <2>1, DfFresh
  <2> QED BY <1>1, <2>1, <2>2 DEF DfInv, HoldsLast, LastThere, Exported
<1>11. CASE DfRead
  BY <1>1, <1>11, DfReadsLast
<1>12. CASE UNCHANGED headervars
  <2>1. df' = df /\ UNCHANGED <<present, disk, pc, i, vol, volumehdr>>
    BY <1>12 DEF headervars, medium, server
  <2>2. DfSeen'
    BY <1>1, <1>2, <2>1, DfStays
  <2> QED BY <1>1, <1>3, <2>1, <2>2 DEF DfInv, HoldsLast, LastThere, Exported
<1> QED BY <1>4, <1>5, <1>6, <1>7, <1>8, <1>9, <1>10, <1>11, <1>12 DEF HeaderNext

LEMMA DfInvariance == Spec => [](TypeOK /\ ServerInv /\ DfInv)
<1>1. DfInv /\ MediumInv /\ [HeaderNext]_headervars => DfInv'
  BY DfSteps
<1> QED BY <1>1, DfInitially, Invariance, PTL DEF Spec

(* When the last zone of the device holds a header of some generation, a   *)
(* df that divides after the copy to volumehdr is complete is answered.    *)
THEOREM DfIsAnswered == Spec => []DfAnswers
<1>1. TypeOK /\ DfInv => DfAnswers
  <2> SUFFICES ASSUME TypeOK, DfInv, df.state = "broken", present > 0,
                      df.early < Len(DfReads)
               PROVE  disk[present - 1]["sect0"] <= 0
    BY DEF DfAnswers
  <2>1. Len(df.seen) = 6 /\ df.seen[6] \in {0, -1} /\ df.early < 6 /\ df.early \in Nat
    BY DfReadsFields DEF DfInv, DfProgress, DfType, Rot
  <2>2. pc = "serving" /\ df.seen[6] = vol["sect0"]
    BY <2>1 DEF DfInv, DfSeen, DfLate
  <2>3. vol = disk[present - 1]
    BY <2>2 DEF DfInv, HoldsLast, LastThere
  <2> QED BY <2>1, <2>2, <2>3
<1> QED BY <1>1, DfInvariance, PTL

(* What any df shows is of the header in the last zone, but for what it    *)
(* read as nothing before the copy was complete; a field that was copied   *)
(* stays so, and none is of a newer header than the one mounted.           *)
THEOREM DfShowsOneHeader == Spec => []DfFigures
<1>1. TypeOK /\ ServerInv /\ DfInv => DfFigures
  <2> SUFFICES ASSUME TypeOK, ServerInv, DfInv, df.state = "done", present > 0
               PROVE  /\ \A k \in DOMAIN df.seen :
                            \/ df.seen[k] = disk[present - 1]["sect0"]
                            \/ k <= df.early /\ df.seen[k] = 0
                      /\ \A k \in DOMAIN df.seen : \A j \in 1 .. k - 1 :
                            (DfReads[j] = DfReads[k] /\ df.seen[k] = 0) => df.seen[j] = 0
                      /\ (valid /\ Intact(disk[present - 1])) =>
                            \A k \in DOMAIN df.seen : df.seen[k] <= hd["sect0"]
    BY DEF DfFigures
  <2>1. /\ Len(df.seen) = 6 /\ DOMAIN df.seen = 1 .. 6 /\ df.seen[6] # 0
        /\ df.early \in Nat
    BY DfReadsFields DEF DfInv, DfProgress, DfType
  <2>2. volumehdr[DfReads[6]] # 0 /\ DfReads[6] \in FieldNames
    BY <2>1, DfReadsFields DEF DfInv, DfSeen, DfTracks
  <2>3. pc \in {"copying", "serving"}
    BY <2>2 DEF DfInv, Exported, TypeOK
  <2>4. vol = disk[present - 1]
    BY <2>3 DEF DfInv, HoldsLast, LastThere
  <2>5. \A f \in FieldNames : volumehdr[f] \in {0, vol["sect0"]}
    <3>1. \A f \in FieldNames : \E k \in 1 .. 3 : f = Fields[k]
      <4>1. /\ Fields[1] = "volu_size" /\ Fields[2] = "allocator_size"
            /\ Fields[3] = "allocator_free" /\ 1 \in 1 .. 3 /\ 2 \in 1 .. 3 /\ 3 \in 1 .. 3
        BY DEF Fields
      <4> QED BY <4>1 DEF FieldNames
    <3> QED BY <2>3, <3>1 DEF DfInv, Exported
  <2>6. \A k \in 1 .. 6 : df.seen[k] \in {0, vol["sect0"]}
    BY <2>1, <2>5, DfReadsFields DEF DfInv, DfSeen, DfTracks
  <2>7. \A k \in 1 .. 6 : ~ k <= df.early => df.seen[k] = vol["sect0"]
    BY <2>1 DEF DfInv, DfSeen, DfLate
  <2>8. \A k \in 1 .. 6 : \A j \in 1 .. k - 1 :
           (DfReads[j] = DfReads[k] /\ df.seen[k] = 0) => df.seen[j] = 0
    BY <2>1 DEF DfInv, DfSeen, DfKept
  <2>9. ASSUME valid, Intact(disk[present - 1])
        PROVE  \A k \in 1 .. 6 : df.seen[k] <= hd["sect0"]
    <3>1. present - 1 \in IntactZones
      <4>1. present \in 0 .. Zones /\ Zones \in Nat
        BY ZonesAssumption DEF TypeOK
      <4>2. present - 1 \in ZoneSet /\ present - 1 < present
        BY <4>1 DEF ZoneSet
      <4> QED BY <2>9, <4>2 DEF IntactZones
    <3>2. Newest(volhdrno) /\ hd = disk[volhdrno]
      BY <2>3, <2>9, MountedChoice DEF Mounted, ChosenNewest
    <3>3. vol["sect0"] <= hd["sect0"] /\ vol["sect0"] > 0
      BY <2>4, <2>9, <3>1, <3>2 DEF Newest, Intact
    <3>4. hd["sect0"] \in Int /\ vol["sect0"] \in Int
      BY DEF TypeOK, Header, Parts, Rot
    <3>5. 0 <= hd["sect0"]
      BY <3>3, <3>4
    <3> QED BY <2>6, <3>3, <3>5
  <2>10. \A k \in 1 .. 6 : \/ df.seen[k] = disk[present - 1]["sect0"]
                           \/ k <= df.early /\ df.seen[k] = 0
    BY <2>4, <2>6, <2>7
  <2> QED BY <2>1, <2>8, <2>9, <2>10
<1> QED BY <1>1, DfInvariance, PTL

-----------------------------------------------------------------------------
(* The scan.  A failed load leaves an older inode in suproot or root: the  *)
(* one in suproot is always the volume's, the one in root never matched.   *)
ScanType ==
    /\ volume \in Volumes /\ pfsname \in Names
    /\ at.i \in 1 .. SetCount + 1 /\ at.j \in 0 .. SetCount + 1
    /\ at = [i |-> at.i, j |-> at.j]
    /\ at.j > 0 => at.i <= SetCount
    /\ phase \in {"scanning", "found", "fatal"}
    /\ faults \in Nat
SuprootKept ==
    /\ suproot = NoInode \/ \E m \in Suproots : suproot = Inode[m]
    /\ at.j > 0 => suproot.suproot
RootPassed == phase # "found" => root.name # pfsname

(* As long as no load has failed the references left behind were looked at *)
(* and none led to a root of the name.                                     *)
PassedAll(refs, n) ==
    \A k \in 1 .. n : refs[k].type = "inode" => Inode[refs[k].to].name # pfsname
PassedSuproot(k) ==
    (volume[k].type = "inode" /\ Inode[volume[k].to].suproot) =>
        PassedAll(Inode[volume[k].to].roots, SetCount)
Searched ==
    (faults = 0 /\ phase # "found") =>
        /\ \A k \in 1 .. at.i - 1 : PassedSuproot(k)
        /\ at.j > 0 =>
              /\ volume[at.i].type = "inode" /\ suproot = Inode[volume[at.i].to]
              /\ PassedAll(suproot.roots, at.j - 1)
FatalAtEnd == phase = "fatal" => at.i = SetCount + 1

ScanInv ==
    /\ ScanType /\ SuprootKept /\ RootPassed /\ Searched /\ FatalAtEnd
    /\ MountsAsked
(* A volume header read back has a set of references.                      *)
LEMMA VolumeRefs ==
  ASSUME ScanType, NEW k \in 1 .. SetCount
  PROVE  /\ volume[k] \in Sref
         /\ volume[k].type = "inode" =>
               volume[k].to \in InodeId /\ volume[k].to \in Suproots
<1>1. Blockset(volume)
  BY InodeAssumption DEF ScanType
<1>2. volume[k] \in Range(volume)
  BY <1>1 DEF Blockset, Range
<1> QED BY <1>1, <1>2 DEF Blockset, Suproots

(* The references of a super-root the volume refers to are those of the    *)
(* roots that may be mounted.                                              *)
LEMMA RootRefs ==
  ASSUME ScanType, NEW m \in Suproots, Inode[m].suproot, NEW k \in 1 .. SetCount
  PROVE  LET r == Inode[m].roots[k] IN
         /\ r \in Sref
         /\ r.type = "inode" => r.to \in InodeId /\ r.to \in Mountable
<1>1. m \in InodeId
  <2>1. PICK x \in Range(volume) : x.type = "inode" /\ x.to = m
    BY DEF Suproots
  <2>2. PICK j \in 1 .. SetCount : volume[j] = x
    BY InodeAssumption DEF Range, ScanType, Blockset
  <2> QED BY <2>1, <2>2, VolumeRefs
<1>2. Blockset(Inode[m].roots)
  BY <1>1, InodeAssumption
<1>3. Inode[m].roots[k] \in Range(Inode[m].roots)
  BY <1>2 DEF Blockset, Range
<1>4. Inode[m].roots[k].type = "inode" =>
         Inode[m].roots[k].to \in Children(m)
  BY <1>3 DEF Children
<1> QED BY <1>2, <1>4 DEF Blockset, Mountable

(* What is there before an inode is read has no name.                      *)
LEMMA NoInodeFacts ==
  /\ ~ NoInode.suproot /\ NoInode.name \notin Names
  BY InodeAssumption DEF NoInode

(* The search for the root keeps its invariant, step by step.              *)
LEMMA ScanStart == MountInit => ScanInv
<1> SUFFICES ASSUME MountInit PROVE ScanInv
  OBVIOUS
<1>1. ScanType
  BY DEF MountInit, ScanType, SetCount
<1>2. SuprootKept /\ RootPassed
  BY NoInodeFacts DEF MountInit, SuprootKept, RootPassed
<1>3. Searched /\ FatalAtEnd /\ MountsAsked
  BY DEF MountInit, Searched, FatalAtEnd, MountsAsked
<1> QED BY <1>1, <1>2, <1>3 DEF ScanInv

LEMMA ScanReadSuproot == ScanInv /\ ReadSuproot => ScanInv'
<1> SUFFICES ASSUME ScanInv, ReadSuproot PROVE ScanInv'
  OBVIOUS
<1>1. ScanType /\ SuprootKept /\ RootPassed /\ Searched
  BY DEF ScanInv
<1>2. /\ phase = "scanning" /\ at.j = 0 /\ at.i \in 1 .. SetCount
      /\ UNCHANGED <<volume, pfsname, root, rootref, phase>>
  BY <1>1 DEF ReadSuproot, Scanning, ScanType
<1> DEFINE r == volume[at.i]
           down == r.type = "inode" /\ suproot'.suproot
<1>3. r \in Sref /\ (r.type = "inode" => r.to \in InodeId /\ r.to \in Suproots)
  BY <1>1, <1>2, VolumeRefs
<1>4. /\ r.type = "inode" => Loaded(r.to, suproot)
      /\ r.type # "inode" => UNCHANGED <<suproot, faults>>
      /\ at' = IF down THEN [at EXCEPT !.j = 1] ELSE [at EXCEPT !.i = @ + 1]
  BY DEF ReadSuproot, SrootRef
<1>5. /\ down => at' = [i |-> at.i, j |-> 1]
      /\ ~ down => at' = [i |-> at.i + 1, j |-> 0]
  BY <1>1, <1>2, <1>4 DEF ScanType
<1>6. /\ suproot' = suproot \/ (r.type = "inode" /\ suproot' = Inode[r.to])
      /\ faults' = 0 => /\ faults = 0
                        /\ r.type = "inode" => suproot' = Inode[r.to]
      /\ faults' \in Nat
  BY <1>1, <1>4 DEF Loaded, ScanType
<1> HIDE DEF down
<1>7. ScanType'
  BY <1>1, <1>2, <1>5, <1>6 DEF ScanType, SetCount
<1>8. SuprootKept'
  <2>1. suproot' = NoInode \/ \E m \in Suproots : suproot' = Inode[m]
    BY <1>1, <1>3, <1>6 DEF SuprootKept
  <2>2. at'.j > 0 => suproot'.suproot
    BY <1>5 DEF down
  <2> QED BY <1>2, <2>1, <2>2 DEF SuprootKept, Suproots
<1>9. Searched'
  <2> SUFFICES ASSUME faults' = 0
               PROVE  /\ \A k \in 1 .. at'.i - 1 : PassedSuproot(k)
                      /\ at'.j > 0 =>
                            /\ r.type = "inode" /\ at'.i = at.i
                            /\ suproot' = Inode[r.to]
                            /\ PassedAll(suproot'.roots, at'.j - 1)
    BY <1>2 DEF Searched, PassedSuproot, PassedAll
  <2>1. \A k \in 1 .. at.i - 1 : PassedSuproot(k)
    BY <1>1, <1>2, <1>6 DEF Searched
  <2>2. CASE down
    BY <1>5, <1>6, <2>1, <2>2 DEF PassedAll, down
  <2>3. CASE ~ down
    <3>1. PassedSuproot(at.i)
      BY <1>6, <2>3 DEF PassedSuproot, down
    <3>2. \A k \in 1 .. at'.i - 1 : k = at.i \/ k \in 1 .. at.i - 1
      BY <1>2, <1>5, <2>3
    <3> QED BY <1>5, <2>1, <2>3, <3>1, <3>2
  <2> QED BY <2>2, <2>3
<1>10. RootPassed' /\ FatalAtEnd' /\ MountsAsked'
  BY <1>1, <1>2 DEF RootPassed, FatalAtEnd, MountsAsked
<1> QED BY <1>7, <1>8, <1>9, <1>10 DEF ScanInv

LEMMA ScanLeaveSuproot == ScanInv /\ LeaveSuproot => ScanInv'
<1> SUFFICES ASSUME ScanInv, LeaveSuproot PROVE ScanInv'
  OBVIOUS
<1>1. ScanType /\ SuprootKept /\ RootPassed /\ Searched
  BY DEF ScanInv
<1>2. /\ phase = "scanning" /\ at.j = SetCount + 1 /\ at.i \in 1 .. SetCount
      /\ at' = [i |-> at.i + 1, j |-> 0]
      /\ UNCHANGED <<volume, pfsname, suproot, root, rootref, phase, faults>>
  BY <1>1 DEF LeaveSuproot, Scanning, InnerEnd, NextRef, ScanType, SetCount
<1>3. ScanType' /\ SuprootKept'
  BY <1>1, <1>2 DEF ScanType, SuprootKept, Suproots, SetCount
<1>4. Searched'
  <2>a. at.i \in Int /\ at'.i = at.i + 1 /\ at'.j = 0
    BY <1>2 DEF SetCount
  <2>b. \A k : PassedSuproot(k)' <=> PassedSuproot(k)
    BY <1>2, Zenon DEF PassedSuproot, PassedAll
  <2>c. at'.i - 1 = at.i /\ ~ at'.j > 0
    BY ONLY <2>a
  <2> SUFFICES ASSUME faults = 0
               PROVE  \A k \in 1 .. at.i : PassedSuproot(k)
    BY <1>2, <2>b, <2>c, Zenon DEF Searched
  <2>1. \A k \in 1 .. at.i - 1 : PassedSuproot(k)
    BY <1>1, <1>2 DEF Searched
  <2>2. PassedSuproot(at.i)
    BY <1>1, <1>2 DEF Searched, PassedSuproot, SetCount
  <2>3. \A k \in 1 .. at.i : k = at.i \/ k \in 1 .. at.i - 1
    BY <1>2
  <2> QED BY <2>1, <2>2, <2>3
<1>5. RootPassed' /\ FatalAtEnd' /\ MountsAsked'
  BY <1>1, <1>2 DEF RootPassed, FatalAtEnd, MountsAsked
<1> QED BY <1>3, <1>4, <1>5 DEF ScanInv

LEMMA ScanReadRoot == ScanInv /\ ReadRoot => ScanInv'
<1> SUFFICES ASSUME ScanInv, ReadRoot PROVE ScanInv'
  OBVIOUS
<1>1. ScanType /\ SuprootKept /\ RootPassed /\ Searched
  BY DEF ScanInv
<1>2. /\ phase = "scanning" /\ at.j \in 1 .. SetCount /\ at.i \in 1 .. SetCount
      /\ UNCHANGED <<volume, pfsname, suproot>>
  BY <1>1 DEF ReadRoot, Scanning, InnerEnd, ScanType, SetCount
<1> DEFINE r == suproot.roots[at.j]
<1>3. PICK m \in Suproots : suproot = Inode[m] /\ Inode[m].suproot
  BY <1>1, <1>2, NoInodeFacts DEF SuprootKept
<1>4. r.type = "inode" => r.to \in InodeId /\ r.to \in Mountable
  BY <1>1, <1>2, <1>3, RootRefs
<1>5. /\ faults' \in Nat
      /\ faults' = 0 => faults = 0 /\ (r.type = "inode" => root' = Inode[r.to])
      /\ root' = root \/ (r.type = "inode" /\ root' = Inode[r.to])
  BY <1>1 DEF ReadRoot, Loaded, ScanType
<1>6. SuprootKept' /\ FatalAtEnd'
  <2>1. at'.j > 0 => suproot.suproot
    BY <1>3
  <2>2. phase' # "fatal"
    BY <1>2 DEF ReadRoot, Found
  <2> QED BY <1>1, <1>2, <2>1, <2>2 DEF SuprootKept, Suproots, FatalAtEnd
<1>7. CASE r.type = "inode" /\ Matches(root')
  <2>1. phase' = "found" /\ rootref' = r.to /\ at' = at
    BY <1>7 DEF ReadRoot, Found, RootRef
  <2>2. root' = Inode[r.to] /\ root'.name = pfsname
    BY <1>1, <1>2, <1>5, <1>7 DEF Matches, RootPassed
  <2>3. MountsAsked'
    BY <1>2, <1>4, <1>7, <2>1, <2>2 DEF MountsAsked, Mountable, Suproots, Children
  <2>4. ScanType' /\ RootPassed' /\ Searched'
    BY <1>1, <1>2, <1>5, <2>1 DEF ScanType, RootPassed, Searched
  <2> QED BY <1>6, <2>3, <2>4 DEF ScanInv
<1>8. CASE ~ (r.type = "inode" /\ Matches(root'))
  <2>1. /\ at' = [at EXCEPT !.j = @ + 1] /\ UNCHANGED <<rootref, phase>>
        /\ r.type # "inode" => root' = root
        /\ root'.name # pfsname
    BY <1>1, <1>2, <1>8 DEF ReadRoot, Matches, RootPassed, load
  <2>2. at' = [i |-> at.i, j |-> at.j + 1]
    BY <1>1, <2>1 DEF ScanType
  <2>3. ScanType' /\ RootPassed' /\ MountsAsked'
    BY <1>1, <1>2, <1>5, <2>1, <2>2
       DEF ScanType, RootPassed, MountsAsked, SetCount
  <2>4. Searched'
    <3> SUFFICES ASSUME faults' = 0
                 PROVE  /\ \A k \in 1 .. at.i - 1 : PassedSuproot(k)
                        /\ volume[at.i].type = "inode"
                        /\ suproot = Inode[volume[at.i].to]
                        /\ PassedAll(suproot.roots, at.j)
      <4>1. at.j \in Int
        BY <1>1 DEF ScanType, SetCount
      <4>2. at'.i = at.i /\ at'.j - 1 = at.j
        BY ONLY <2>2, <4>1
      <4>3. \A k : PassedSuproot(k)' <=> PassedSuproot(k)
        BY <1>2, Zenon DEF PassedSuproot, PassedAll
      <4>4. PassedAll(suproot.roots, at.j - 1)' <=> PassedAll(suproot.roots, at'.j - 1)
        BY <1>2, Zenon DEF PassedAll
      <4> QED BY <1>2, <4>2, <4>3, <4>4, Zenon DEF Searched
    <3>1. /\ \A k \in 1 .. at.i - 1 : PassedSuproot(k)
          /\ volume[at.i].type = "inode"
          /\ suproot = Inode[volume[at.i].to]
          /\ PassedAll(suproot.roots, at.j - 1)
      BY <1>1, <1>2, <1>5 DEF Searched
    <3>2. r.type = "inode" => Inode[r.to].name # pfsname
      BY <1>5, <2>1
    <3>3. \A k \in 1 .. at.j : k = at.j \/ k \in 1 .. at.j - 1
      BY <1>2
    <3> QED BY <3>1, <3>2, <3>3 DEF PassedAll
  <2> QED BY <1>6, <2>3, <2>4 DEF ScanInv
<1> QED BY <1>7, <1>8

(* Walking the tree changes nothing of what the scan found.                *)
LEMMA ScanKept ==
  ASSUME ScanInv, UNCHANGED scan, faults' \in Nat, faults' = faults \/ phase = "found"
  PROVE  ScanInv'
<1>1. UNCHANGED <<volume, pfsname, at, suproot, root, rootref, phase>>
  BY DEF scan
<1>2. ScanType' /\ SuprootKept' /\ RootPassed' /\ FatalAtEnd'
  BY <1>1 DEF ScanInv, ScanType, SuprootKept, RootPassed, FatalAtEnd, Suproots
<1>3. Searched'
  BY <1>1 DEF ScanInv, Searched, PassedSuproot, PassedAll
<1>4. MountsAsked'
  BY <1>1 DEF ScanInv, MountsAsked, Mountable, Suproots
<1> QED BY <1>2, <1>3, <1>4 DEF ScanInv

LEMMA ScanSteps == ScanInv /\ [MountNext]_mvars => ScanInv'
<1> SUFFICES ASSUME ScanInv, [MountNext]_mvars PROVE ScanInv'
  OBVIOUS
<1>1. CASE NotFound
  <2>1. /\ at.i = SetCount + 1 /\ at.j = 0 /\ phase = "scanning"
        /\ phase' = "fatal"
        /\ UNCHANGED <<volume, pfsname, at, suproot, root, rootref, faults>>
    BY <1>1 DEF NotFound, Scanning, ScanInv, ScanType, SetCount
  <2>2. ScanType' /\ SuprootKept' /\ RootPassed' /\ FatalAtEnd' /\ MountsAsked'
    BY <2>1 DEF ScanInv, ScanType, SuprootKept, RootPassed, FatalAtEnd,
                Suproots, MountsAsked
  <2>3. Searched'
    BY <2>1 DEF ScanInv, Searched, PassedSuproot, PassedAll
  <2> QED BY <2>2, <2>3 DEF ScanInv
<1>2. CASE LoadRoot
  <2>1. UNCHANGED scan /\ phase = "found"
    BY <1>2 DEF LoadRoot
  <2>2. faults' \in Nat
    <3>1. CASE Indirect
      <4>1. faults' = faults \/ faults' = faults + 1
        BY <3>1, Zenon DEF Indirect
      <4> QED BY <4>1 DEF ScanInv, ScanType
    <3>2. CASE Up \/ MkInode \/ SkipEmpty \/ ListEntry \/ Unhandled
      BY <3>2 DEF Up, MkInode, SkipEmpty, ListEntry, Unhandled, ScanInv, ScanType
    <3> QED BY <1>2, <3>1, <3>2 DEF LoadRoot, Next
  <2> QED BY <2>1, <2>2, ScanKept
<1>3. CASE UNCHANGED mvars
  BY <1>3, ScanKept DEF mvars, vars, ScanInv, ScanType
<1> QED BY <1>1, <1>2, <1>3, ScanReadSuproot, ScanLeaveSuproot, ScanReadRoot
        DEF MountNext

LEMMA ScanInvariance == MountSpec => []ScanInv
  BY ScanStart, ScanSteps, PTL DEF MountSpec

(* What is mounted is a root of the name asked for, of a super-root of the *)
(* volume, and all that is kept of it is of that one root.                 *)
THEOREM MountsWhatWasAsked == MountSpec => []MountsAsked
<1>1. ScanInv => MountsAsked
  BY DEF ScanInv
<1> QED BY <1>1, ScanInvariance, PTL

(* The server gives up only when no root of the name can be found.         *)
THEOREM FindsWhatIsReadable == MountSpec => []FoundIfReadable
<1>1. ScanInv => FoundIfReadable
  <2> SUFFICES ASSUME ScanInv, phase = "fatal", faults = 0, NEW n \in Mountable
               PROVE  Inode[n].name # pfsname
    BY DEF FoundIfReadable
  <2>1. PICK m \in Suproots : Inode[m].suproot /\ n \in Children(m)
    BY DEF Mountable
  <2>2. Blockset(volume)
    BY InodeAssumption DEF ScanInv, ScanType
  <2>3. PICK k \in 1 .. SetCount : volume[k].type = "inode" /\ volume[k].to = m
    BY <2>2 DEF Suproots, Range, Blockset
  <2>4. PassedSuproot(k)
    BY DEF ScanInv, Searched, FatalAtEnd, SetCount
  <2>5. m \in InodeId
    BY <2>2, <2>3 DEF Blockset
  <2>6. Blockset(Inode[m].roots)
    BY <2>1, <2>5, InodeAssumption
  <2>7. PICK j \in 1 .. SetCount :
           Inode[m].roots[j].type = "inode" /\ Inode[m].roots[j].to = n
    BY <2>1, <2>6 DEF Children, Range, Blockset
  <2> QED BY <2>1, <2>3, <2>4, <2>7 DEF PassedSuproot, PassedAll
<1> QED BY <1>1, ScanInvariance, PTL
-----------------------------------------------------------------------------
(* The load.                                                               *)
LoadType ==
    /\ top \in Seq(BlockRef)
    /\ stack \in Seq(Level) /\ Len(stack) > 0
    /\ entry \in Seq(BlockRef) /\ cap \in Nat
    /\ maxinodes \in Nat /\ DOMAIN inodes = 0 .. maxinodes - 1
TableRoom ==
    /\ state # "idle" =>
          /\ phase = "found" /\ root.inum \in Nat
          /\ maxinodes > 0 \/ state \in {"noMemory", "overrun"}
    /\ maxinodes > 0 => phase = "found" /\ maxinodes <= MaxTable

(* The mount made the list of the root and its slot, and both stay.        *)
RootKept ==
    (phase = "found" /\ maxinodes > 0) =>
        /\ top = Inode[rootref].set
        /\ root.inum < maxinodes /\ inodes[root.inum].type = "inode"
LoadInv ==
    LoadType /\ TableRoom /\ RootKept /\ WithinMemory

(* What stands for a reference that is empty, or was not read.             *)
LEMMA EmptyBlocks == Empty \in BlockRef /\ Junk \in BlockRef /\ Junk.type = "other"
                     /\ Empty.type = "empty"
  BY DEF Empty, Junk, BlockRef, BlockTypes

(* The reference that is looked at.                                        *)
LEMMA BlockFacts ==
  ASSUME LoadType, ~ AtEnd
  PROVE  block \in BlockRef
<1>1. Len(stack) \in 1 .. Len(stack) /\ cur \in Level
  BY DEF LoadType, cur
<1>2. /\ cur.blocks \in Seq(BlockRef) /\ cur.offset \in Nat
      /\ cur.offset + 1 \in 1 .. Len(cur.blocks)
  BY <1>1 DEF Level, AtEnd
<1> QED BY <1>1, <1>2 DEF block, cur

(* cur->offset++, and what is below and above a level.                     *)
LEMMA AdvanceFacts ==
  ASSUME LoadType
  PROVE  Advance \in Seq(Level) /\ Len(Advance) = Len(stack)
<1>1. /\ stack \in Seq(Level) /\ Len(stack) \in 1 .. Len(stack)
      /\ stack[Len(stack)] \in Level
  BY DEF LoadType
<1> DEFINE top2 == [stack[Len(stack)] EXCEPT !.offset = @ + 1]
<1>2. top2 \in Level
  BY <1>1 DEF Level
<1>3. Advance = [stack EXCEPT ![Len(stack)] = top2]
  BY DEF Advance
<1> HIDE DEF top2
<1> QED BY <1>1, <1>2, <1>3

LEMMA EnterFacts ==
  ASSUME LoadType, NEW set \in Seq(BlockRef)
  PROVE  LET new == Append(Advance, Enter(set))
         IN  new \in Seq(Level) /\ Len(new) > 0
<1>1. Advance \in Seq(Level) /\ Len(Advance) \in Nat
  BY AdvanceFacts, LenProperties
<1>2. Enter(set) \in Level
  BY DEF Enter, Level
<1> DEFINE f == Enter(set)
           a == Advance
<1> HIDE DEF f, a
<1>3. Append(a, f) \in Seq(Level) /\ Len(Append(a, f)) = Len(a) + 1
  BY <1>1, <1>2 DEF a, f
<1> QED BY <1>1, <1>3 DEF a, f

LEMMA LeaveFacts ==
  ASSUME LoadType, ~ Outermost
  PROVE  LET new == [Front(stack) EXCEPT ![Len(stack) - 1] = Resume(@)]
         IN  new \in Seq(Level) /\ Len(new) > 0
<1> DEFINE front == SubSeq(stack, 1, Len(stack) - 1)
           new == [front EXCEPT ![Len(stack) - 1] = Resume(@)]
<1>1. stack \in Seq(Level) /\ Len(stack) \in Nat /\ Len(stack) > 1
  <2>1. stack \in Seq(Level) /\ Len(stack) > 0 /\ Len(stack) # 1
    BY DEF LoadType, Outermost
  <2>2. Len(stack) \in Nat
    BY <2>1, LenProperties
  <2>3. \A m \in Nat : m > 0 /\ m # 1 => m > 1
    OBVIOUS
  <2> QED BY Zenon, <2>1, <2>2, <2>3
<1>2. front \in Seq(Level) /\ Len(front) = Len(stack) - 1
  BY <1>1
<1>3. new = front
  <2>1. new = [f \in DOMAIN front |-> front[f]]
    BY <1>1, <1>2 DEF Resume
  <2>2. front = [f \in DOMAIN front |-> front[f]]
    BY <1>2
  <2> QED BY <2>1, <2>2
<1>4. Front(stack) = front
  BY DEF Front
<1> HIDE DEF front
<1> QED BY <1>1, <1>2, <1>3, <1>4

(* loadinode() keeps its own: back up from an indirect block.              *)
LEMMA LoadUp == LoadInv /\ Up /\ UNCHANGED scan => LoadInv'
<1> SUFFICES ASSUME LoadInv, Up, UNCHANGED scan PROVE LoadInv'
  OBVIOUS
<1>1. LoadType /\ TableRoom /\ RootKept /\ WithinMemory
  BY DEF LoadInv
<1>2. /\ UNCHANGED <<top, entry, cap, inodes, maxinodes, root, rootref, phase>>
      /\ state = "running" /\ state' \in {"running", "done"}
  BY DEF Up, scan
<1>3. stack' \in Seq(Level) /\ Len(stack') > 0
  <2>1. CASE Outermost
    BY <1>1, <2>1 DEF Up, LoadType
  <2>2. CASE ~ Outermost
    BY <1>1, <2>2, LeaveFacts DEF Up
  <2> QED BY <2>1, <2>2
<1>4. LoadType'
  BY <1>1, <1>2, <1>3 DEF LoadType
<1>5. TableRoom' /\ RootKept'
  BY <1>1, <1>2 DEF TableRoom, RootKept
<1>6. WithinMemory'
  BY <1>1, <1>2 DEF WithinMemory
<1> QED BY <1>4, <1>5, <1>6 DEF LoadInv

(* A reference that is passed, with or without an entry in the list.       *)
LEMMA LoadPass ==
  ASSUME LoadInv, SkipEmpty \/ ListEntry, UNCHANGED scan
  PROVE  LoadInv'
<1>1. LoadType /\ TableRoom /\ RootKept /\ WithinMemory
  BY DEF LoadInv
<1>2. /\ UNCHANGED <<top, inodes, maxinodes, root, rootref, phase, state>>
      /\ state = "running" /\ ~ AtEnd /\ stack' = Advance
  BY DEF SkipEmpty, ListEntry, At, scan
<1>3. stack' \in Seq(Level) /\ Len(stack') = Len(stack)
  BY <1>1, <1>2, AdvanceFacts
<1>4. entry' \in Seq(BlockRef) /\ cap' \in Nat /\ Len(entry') <= cap'
  <2>1. CASE SkipEmpty
    BY <1>1, <2>1 DEF SkipEmpty, LoadType, WithinMemory
  <2>2. CASE ListEntry
    <3>1. block \in BlockRef
      BY <1>1, <1>2, BlockFacts
    <3>2. entry \in Seq(BlockRef) /\ Len(entry) \in Nat /\ cap \in Nat /\ Len(entry) <= cap
      BY <1>1 DEF LoadType, WithinMemory
    <3>3. entry' = Append(entry, block) /\ cap' = NextCap
      BY <2>2 DEF ListEntry
    <3>4. entry' \in Seq(BlockRef) /\ Len(entry') = Len(entry) + 1
      BY <3>1, <3>2, <3>3
    <3>5. cap' \in Nat /\ Len(entry) + 1 <= cap'
      BY <3>2, <3>3, SizesAssumption DEF NextCap
    <3> QED BY <3>4, <3>5
  <2> QED BY <2>1, <2>2
<1>5. LoadType'
  BY <1>1, <1>2, <1>3, <1>4 DEF LoadType
<1>6. TableRoom' /\ RootKept'
  BY <1>1, <1>2 DEF TableRoom, RootKept
<1>7. WithinMemory'
  BY <1>1, <1>2, <1>4 DEF WithinMemory
<1> QED BY <1>5, <1>6, <1>7 DEF LoadInv

(* mkinode() keeps the slots it had, and writes to one that is there.      *)
LEMMA LoadInode == LoadInv /\ MkInode /\ UNCHANGED scan => LoadInv'
<1> SUFFICES ASSUME LoadInv, MkInode, UNCHANGED scan PROVE LoadInv'
  OBVIOUS
<1>1. LoadType /\ TableRoom /\ RootKept /\ WithinMemory
  BY DEF LoadInv
<1>2. /\ UNCHANGED <<top, entry, cap, root, rootref, phase>>
      /\ state = "running" /\ ~ AtEnd /\ block.type = "inode"
  BY DEF MkInode, At, scan
<1>3. block \in BlockRef
  BY <1>1, <1>2, BlockFacts
<1>4. /\ phase = "found" /\ maxinodes \in Nat /\ maxinodes > 0
      /\ maxinodes <= MaxTable /\ DOMAIN inodes = 0 .. maxinodes - 1
      /\ MaxTable \in Nat /\ root.inum \in Nat
  BY <1>1, <1>2, SizesAssumption DEF TableRoom, LoadType
<1> DEFINE n == block.id
           table == IF Fits(n) THEN inodes ELSE Grown(n)
           slots == IF Fits(n) THEN maxinodes ELSE 2 * n
<1>5. n \in Nat
  BY <1>3 DEF BlockRef
<1>6. /\ DOMAIN table = 0 .. slots - 1 /\ slots \in Nat
      /\ slots >= maxinodes /\ n \in 0 .. slots - 1
      /\ ~ Fits(n) => slots = 2 * n
      /\ Fits(n) => slots <= MaxTable
  BY <1>4, <1>5 DEF Grown, Fits
<1>7. \A m \in 0 .. slots - 1 :
         IF m < maxinodes THEN table[m] = inodes[m] ELSE table[m] = Junk
  BY <1>4, <1>5 DEF Grown, Fits
<1>8. IF slots <= MaxTable
      THEN /\ inodes' = [table EXCEPT ![n] = block] /\ maxinodes' = slots
           /\ stack' = Advance /\ state' = state
      ELSE state' = "overrun" /\ UNCHANGED <<stack, inodes, maxinodes>>
  BY <1>6 DEF MkInode
<1> HIDE DEF n, table, slots
<1>9. CASE slots <= MaxTable
  <2>1. /\ inodes' = [table EXCEPT ![n] = block] /\ maxinodes' = slots
        /\ stack' = Advance /\ state' = "running"
    BY <1>2, <1>8, <1>9
  <2>2. DOMAIN inodes' = 0 .. slots - 1
    BY <1>6, <2>1
  <2>3. \A m \in 0 .. slots - 1 :
           \/ m = n /\ inodes'[m] = block
           \/ m < maxinodes /\ inodes'[m] = inodes[m]
           \/ m >= maxinodes /\ inodes'[m] = Junk
    BY <1>4, <1>6, <1>7, <2>1
  <2>4. stack' \in Seq(Level) /\ Len(stack') = Len(stack)
    BY <1>1, <2>1, AdvanceFacts
  <2>5. LoadType'
    BY <1>1, <1>2, <1>6, <2>1, <2>2, <2>4 DEF LoadType
  <2>6. TableRoom'
    BY <1>1, <1>2, <1>4, <1>6, <1>9, <2>1 DEF TableRoom
  <2>7. RootKept'
    <3>1. /\ top = Inode[rootref].set
          /\ root.inum < maxinodes /\ inodes[root.inum].type = "inode"
      BY <1>1, <1>4 DEF RootKept
    <3>2. root.inum \in 0 .. slots - 1
      BY <1>4, <1>6, <3>1
    <3>3. inodes'[root.inum].type = "inode"
      BY <1>2, <1>4, <2>3, <3>1, <3>2 DEF n
    <3> QED BY <1>2, <2>1, <3>1, <3>2, <3>3, <1>6 DEF RootKept
  <2>9. WithinMemory'
    BY <1>1, <1>2, <2>1 DEF WithinMemory
  <2> QED BY <2>5, <2>6, <2>7, <2>9 DEF LoadInv
<1>10. CASE ~ slots <= MaxTable
  <2>1. state' = "overrun" /\ UNCHANGED <<stack, inodes, maxinodes>>
    BY <1>8, <1>10
  <2>2. 2 * block.id > MaxTable
    BY <1>4, <1>6, <1>10 DEF n
  <2>3. WithinMemory'
    BY <1>1, <1>2, <1>4, <2>1, <2>2 DEF WithinMemory, block, cur
  <2> QED BY <1>1, <1>2, <2>1, <2>3 DEF LoadInv, LoadType, TableRoom, RootKept
<1> QED BY <1>9, <1>10

(* Down into an indirect block.                                            *)
LEMMA LoadIndirect == LoadInv /\ Indirect /\ UNCHANGED scan => LoadInv'
<1> SUFFICES ASSUME LoadInv, Indirect, UNCHANGED scan PROVE LoadInv'
  OBVIOUS
<1>1. LoadType /\ TableRoom /\ RootKept /\ WithinMemory
  BY DEF LoadInv
<1>2. /\ UNCHANGED <<top, entry, cap, inodes, maxinodes, root, rootref, phase>>
      /\ state = "running" /\ ~ AtEnd /\ state' \in {"running", "noRadix"}
  BY Zenon DEF Indirect, At, scan
<1>3. block \in BlockRef
  BY <1>1, <1>2, BlockFacts
<1>4. stack' \in Seq(Level) /\ Len(stack') > 0
  <2>1. CASE UNCHANGED stack
    BY <1>1, <2>1 DEF LoadType
  <2>2. ASSUME NEW set \in Seq(BlockRef), stack' = Append(Advance, Enter(set))
        PROVE  stack' \in Seq(Level) /\ Len(stack') > 0
    BY <1>1, <2>2, EnterFacts
  <2>3. CASE block.to # None
    <3>1. block.to \in Node
      <4> HIDE DEF block
      <4> QED BY <1>3, <2>3 DEF BlockRef
    <3>2. Refs[block.to] \in Seq(BlockRef)
      BY <3>1, TreeAssumption
    <3>3. \A set \in Damaged(block.to, block.check) : set \in Seq(BlockRef)
      BY <3>1, DamagedType
    <3> QED BY <2>2, <2>3, <3>2, <3>3 DEF Indirect, AfterDamage
  <2> QED BY <2>1, <2>3 DEF Indirect
<1>5. LoadType'
  BY <1>1, <1>2, <1>4 DEF LoadType
<1>6. TableRoom' /\ RootKept'
  BY <1>1, <1>2 DEF TableRoom, RootKept
<1>7. WithinMemory'
  BY <1>1, <1>2 DEF WithinMemory
<1> QED BY <1>5, <1>6, <1>7 DEF LoadInv

(* Past a reference that is not followed.                                  *)
LEMMA LoadUnhandled == LoadInv /\ Unhandled /\ UNCHANGED scan => LoadInv'
<1> SUFFICES ASSUME LoadInv, Unhandled, UNCHANGED scan PROVE LoadInv'
  OBVIOUS
<1>1. LoadType /\ TableRoom /\ RootKept /\ WithinMemory
  BY DEF LoadInv
<1>2. /\ UNCHANGED <<top, stack, entry, cap, inodes, maxinodes>>
      /\ UNCHANGED <<root, rootref, phase>>
      /\ state = "running" /\ state' = "unhandled"
  BY DEF Unhandled, At, scan
<1>3. LoadType'
  BY <1>1, <1>2 DEF LoadType
<1>4. TableRoom' /\ RootKept'
  BY <1>1, <1>2 DEF TableRoom, RootKept
<1>5. WithinMemory'
  BY <1>1, <1>2 DEF WithinMemory
<1> QED BY <1>3, <1>4, <1>5 DEF LoadInv

LEMMA LoadStart == MountInit => LoadInv
<1> SUFFICES ASSUME MountInit PROVE LoadInv
  OBVIOUS
<1>1. /\ top = <<>> /\ stack = << Enter(<<>>) >> /\ entry = <<>> /\ cap = 0
      /\ inodes = <<>> /\ maxinodes = 0 /\ state = "idle" /\ phase = "scanning"
  BY DEF MountInit
<1>2. Enter(<<>>) \in Level /\ Enter(<<>>).blocks = <<>>
  BY DEF Enter, Level
<1>3. stack \in Seq(Level) /\ Len(stack) = 1 /\ stack[1] = Enter(<<>>)
  BY <1>1, <1>2
<1>4. LoadType
  BY <1>1, <1>3 DEF LoadType
<1>5. TableRoom /\ RootKept /\ WithinMemory
  BY <1>1 DEF TableRoom, RootKept, WithinMemory
<1> QED BY <1>4, <1>5 DEF LoadInv

(* The table as fsstart() makes it, and the list and the walk begun.       *)
LEMMA LoadFound ==
  ASSUME ScanInv, LoadInv, ReadRoot, Found, MountsAsked'
  PROVE  LoadInv'
<1> DEFINE n == root'.inum
           first == root'.slots
           table == IF n < first THEN [m \in 0 .. first - 1 |-> Empty]
                    ELSE [m \in 0 .. 2 * n - 1 |->
                            IF m < first THEN Empty ELSE Junk]
           slots == IF n < first THEN first ELSE 2 * n
           self == [type |-> "inode", id |-> n, to |-> None, check |-> TRUE]
<1>0. phase' = "found" /\ rootref' = RootRef.to /\ top' = root'.set
  BY Zenon DEF Found
<1>1. stack' = << Enter(root'.set) >> /\ entry' = <<>> /\ cap' = 0
  BY Zenon DEF Found
<1>a. IF slots <= MaxTable /\ n \in DOMAIN table
      THEN /\ inodes' = [table EXCEPT ![n] = self]
           /\ maxinodes' = slots /\ state' = "running"
      ELSE /\ inodes' = <<>> /\ maxinodes' = 0
           /\ state' = IF first > MaxTable THEN "noMemory" ELSE "overrun"
  BY Zenon DEF Found
<1>b. entry' \in Seq(BlockRef) /\ DOMAIN entry' = {} /\ Len(entry') = 0
  BY <1>1
<1>2. root' = Inode[rootref'] /\ rootref' \in InodeId
  <2>1. at.j \in 1 .. SetCount /\ ScanType /\ SuprootKept
    BY DEF ScanInv, ScanType, ReadRoot, InnerEnd, SetCount
  <2>2. PICK m \in Suproots : suproot = Inode[m] /\ Inode[m].suproot
    BY <2>1, NoInodeFacts DEF SuprootKept
  <2>3. suproot.roots[at.j].type = "inode"
    BY DEF ReadRoot, Found, load, Scanning
  <2>4. suproot.roots[at.j].to \in InodeId
    BY <2>1, <2>2, <2>3, RootRefs
  <2> QED BY <1>0, <2>4 DEF MountsAsked, RootRef
<1>3. root' \in InodeData /\ n \in Nat /\ first \in Nat /\ root'.set \in Seq(BlockRef)
  <2>1. root' \in InodeData
    BY <1>2, InodeAssumption
  <2> QED BY <2>1 DEF InodeData
<1>4. /\ DOMAIN table = 0 .. slots - 1 /\ slots \in Nat /\ n <= slots
      /\ \A m \in 0 .. slots - 1 : table[m] \in {Empty, Junk}
      /\ n \in DOMAIN table <=> slots > 0
      /\ slots > 0 => n < slots
      /\ ~ n < first => slots = 2 * n
      /\ n < first => slots = first
  BY <1>3, SMTT(30)
<1> HIDE DEF table, slots, self
<1>5. stack' \in Seq(Level) /\ Len(stack') = 1
  <2> DEFINE frame == Enter(root'.set)
  <2>1. frame \in Level
    BY <1>3 DEF Enter, Level
  <2>2. stack' = << frame >>
    BY <1>1
  <2> HIDE DEF frame
  <2> QED BY <2>1, <2>2
<1>7. CASE slots <= MaxTable /\ slots > 0
  <2>1. /\ inodes' = [table EXCEPT ![n] = self]
        /\ maxinodes' = slots /\ state' = "running"
    BY <1>a, <1>4, <1>7
  <2>2. /\ DOMAIN inodes' = 0 .. slots - 1 /\ n \in DOMAIN inodes'
        /\ inodes'[n] = self
        /\ \A m \in 0 .. slots - 1 : m # n => inodes'[m] \in {Empty, Junk}
    BY <1>4, <1>7, <2>1
  <2>3. LoadType'
    BY <1>0, <1>1, <1>b, <1>3, <1>4, <1>5, <2>1, <2>2 DEF LoadType
  <2>4. self.type = "inode" /\ self.id = n
    BY DEF self
  <2>5. TableRoom' /\ RootKept'
    BY <1>0, <1>2, <1>3, <1>4, <1>7, <2>1, <2>2, <2>4 DEF TableRoom, RootKept
  <2>7. WithinMemory'
    BY <1>1, <1>b, <2>1 DEF WithinMemory
  <2> QED BY <2>3, <2>5, <2>7 DEF LoadInv
<1>8. CASE ~ (slots <= MaxTable /\ slots > 0)
  <2>1. inodes' = <<>> /\ maxinodes' = 0
    BY <1>a, <1>4, <1>8
  <2>2. state' = IF first > MaxTable THEN "noMemory" ELSE "overrun"
    BY <1>a, <1>4, <1>8
  <2>3. first <= MaxTable => n = 0 \/ 2 * n > MaxTable
    BY <1>3, <1>4, <1>8, SizesAssumption
  <2>4. DOMAIN inodes' = {} /\ DOMAIN inodes' = 0 .. maxinodes' - 1
    BY <2>1
  <2>5. LoadType'
    BY <1>0, <1>1, <1>b, <1>3, <1>5, <2>1, <2>4 DEF LoadType
  <2>6. TableRoom' /\ RootKept'
    <3>1. state' \in {"noMemory", "overrun"}
      BY <2>2
    <3>2. maxinodes' = 0 /\ phase' = "found" /\ root'.inum \in Nat
      BY <1>0, <1>3, <2>1
    <3>3. RootKept'
      BY <3>2 DEF RootKept
    <3>4. ~ maxinodes' > 0
      BY <3>2
    <3> QED BY <3>1, <3>2, <3>3, <3>4, Zenon DEF TableRoom
  <2>8. WithinMemory'
    <3>1. state' = "overrun" => first <= MaxTable
      BY <1>3, <2>2, SizesAssumption
    <3> QED BY <1>1, <1>b, <2>1, <2>3, <3>1 DEF WithinMemory
  <2> QED BY <2>5, <2>6, <2>8 DEF LoadInv
<1> QED BY <1>7, <1>8

(* The scan touches nothing of the load.                                   *)
LEMMA LoadKept ==
  ASSUME LoadInv, UNCHANGED load, phase = "found" => UNCHANGED scan
  PROVE  LoadInv'
<1>1. UNCHANGED <<top, stack, entry, cap, inodes, maxinodes, state>>
  BY DEF load
<1>2. phase = "found" => UNCHANGED <<root, rootref, phase>>
  BY DEF scan
<1>3. LoadType /\ TableRoom /\ RootKept /\ WithinMemory
  BY DEF LoadInv
<1>4. phase # "found" => maxinodes = 0 /\ state = "idle" /\ DOMAIN inodes = {}
  <2>1. maxinodes \in Nat /\ DOMAIN inodes = 0 .. maxinodes - 1
    BY <1>3 DEF LoadType
  <2>2. phase # "found" => ~ maxinodes > 0 /\ state = "idle"
    BY <1>3 DEF TableRoom
  <2> QED BY <2>1, <2>2
<1>5. LoadType'
  BY <1>1, <1>3 DEF LoadType
<1>6. TableRoom' /\ RootKept'
  BY <1>1, <1>2, <1>3, <1>4 DEF TableRoom, RootKept
<1>8. WithinMemory'
  <2>1. block' = block
    BY <1>1 DEF block, cur
  <2> QED BY <1>1, <1>2, <1>3, <1>4, <2>1 DEF WithinMemory
<1> QED BY <1>5, <1>6, <1>8 DEF LoadInv

LEMMA LoadSteps ==
  ScanInv /\ ScanInv' /\ LoadInv /\ [MountNext]_mvars => LoadInv'
<1> SUFFICES ASSUME ScanInv, ScanInv', LoadInv, [MountNext]_mvars PROVE LoadInv'
  OBVIOUS
<1>1. CASE ReadSuproot \/ LeaveSuproot \/ NotFound
  BY <1>1, LoadKept DEF ReadSuproot, LeaveSuproot, NotFound, Scanning
<1>2. CASE ReadRoot /\ Found
  <2>1. MountsAsked'
    BY DEF ScanInv
  <2> QED BY <1>2, <2>1, LoadFound
<1>3. CASE ReadRoot /\ ~ Found
  BY <1>3, LoadKept DEF ReadRoot, Scanning
<1>4. CASE LoadRoot
  BY <1>4, LoadUp, LoadInode, LoadPass, LoadIndirect, LoadUnhandled
     DEF LoadRoot, Next
<1>5. CASE UNCHANGED mvars
  BY <1>5, LoadKept DEF mvars, vars, load
<1> QED BY <1>1, <1>2, <1>3, <1>4, <1>5 DEF MountNext

LEMMA LoadInvariance == MountSpec => []LoadInv
  BY LoadStart, LoadSteps, ScanInvariance, PTL DEF MountSpec

(* The list has room for its entries, and mkinode() writes outside the     *)
(* table only for a root of the number 0 or for lack of memory.            *)
THEOREM StaysWithinMemory == MountSpec => []WithinMemory
<1>1. LoadInv => WithinMemory
  BY DEF LoadInv
<1> QED BY <1>1, LoadInvariance, PTL

(* However often the table is grown and whatever inodes are entered in it, *)
(* what is listed is the set of the root that is mounted, and its own slot *)
(* holds an inode.                                                         *)
THEOREM RootStaysListed == MountSpec => []RootKept
<1>1. LoadInv => RootKept
  BY DEF LoadInv
<1> QED BY <1>1, LoadInvariance, PTL

(* mkinode() keeps what was entered before, however often the table moves. *)
LEMMA InodesKept ==
  ASSUME LoadInv, [MountNext]_mvars, phase = "found", NEW n \in DOMAIN inodes
  PROVE  /\ n \in DOMAIN inodes'
         /\ inodes[n].type = "inode" => inodes'[n].type = "inode"
<1>1. CASE MkInode
  <2>1. /\ state = "running" /\ ~ AtEnd /\ block.type = "inode"
        /\ LoadType
    BY <1>1, Zenon DEF MkInode, At, LoadInv
  <2>2. block.id \in Nat
    BY <2>1, BlockFacts DEF BlockRef
  <2>3. /\ maxinodes \in Nat /\ DOMAIN inodes = 0 .. maxinodes - 1
    BY <2>1 DEF LoadType
  <2>4. CASE UNCHANGED inodes
    BY <2>4
  <2>5. CASE ~ UNCHANGED inodes
    <3> DEFINE table == IF Fits(block.id) THEN inodes ELSE Grown(block.id)
    <3>1. inodes' = [table EXCEPT ![block.id] = block] /\ block.id \in DOMAIN table
      BY <1>1, <2>5 DEF MkInode
    <3>2. n \in DOMAIN table /\ table[n] = inodes[n]
      BY <2>2, <2>3 DEF Fits, Grown
    <3> HIDE DEF table
    <3> QED BY <2>1, <3>1, <3>2
  <2> QED BY <2>4, <2>5
<1>2. CASE UNCHANGED inodes
  BY <1>2
<1>3. MkInode \/ UNCHANGED inodes
  BY DEF MountNext, ReadSuproot, LeaveSuproot, ReadRoot, NotFound, LoadRoot,
     Scanning, Next, Up, SkipEmpty, ListEntry, Indirect, Unhandled, mvars, vars
<1> QED BY <1>1, <1>2, <1>3

(* No slot that held an inode loses it when the table moves.               *)
InodesStay ==
    [][phase = "found" =>
        \A n \in DOMAIN inodes :
            /\ n \in DOMAIN inodes'
            /\ inodes[n].type = "inode" => inodes'[n].type = "inode"]_mvars
(* mkinode() keeps what was entered before, however often the table moves. *)
THEOREM InodesDoStay == MountSpec => InodesStay
<1>1. LoadInv /\ [MountNext]_mvars =>
        [phase = "found" =>
          \A n \in DOMAIN inodes :
            /\ n \in DOMAIN inodes'
            /\ inodes[n].type = "inode" => inodes'[n].type = "inode"]_mvars
  BY InodesKept
<1> QED BY <1>1, LoadInvariance, PTL DEF MountSpec, InodesStay

-----------------------------------------------------------------------------
(* The walk from the set of the root.  What is listed and what is in the   *)
(* table is what the walk has passed.                                      *)
InTable(refs, table) ==
    \A k \in DOMAIN refs :
        refs[k].type = "inode" =>
            refs[k].id \in DOMAIN table /\ table[refs[k].id].type = "inode"
Passing ==
    state = "running" =>
        /\ WalkInv(top, lost, stack)
        /\ entry = OfType("dirent", Walked(lost, stack))
        /\ InTable(Walked(lost, stack), inodes)
ServedInv == Passing /\ ListedInOrder /\ TableComplete

LEMMA ServedStart == MountInit => ServedInv
  BY DEF MountInit, ServedInv, Passing, ListedInOrder, TableComplete

LEMMA ServedFound ==
  ASSUME LoadInv', Found
  PROVE  ServedInv'
<1>1. /\ top' = root'.set /\ stack' = << Enter(root'.set) >> /\ entry' = <<>> /\ lost' = <<>>
      /\ state' \in {"running", "noMemory", "overrun"}
  BY DEF Found
<1>2. top' \in Seq(BlockRef)
  BY DEF LoadInv, LoadType
<1>3. WalkInv(top', lost', stack') /\ Walked(lost', stack') = <<>>
  BY <1>1, <1>2, WalkBegins
<1>4. entry' = OfType("dirent", Walked(lost', stack'))
  BY <1>1, <1>3, OfTypeNone
<1>5. InTable(Walked(lost', stack'), inodes')
  <2>1. DOMAIN <<>> = {}
    OBVIOUS
  <2> QED BY <1>3, <2>1 DEF InTable
<1>6. Passing'
  BY <1>3, <1>4, <1>5 DEF Passing
<1>7. state' # "done"
  BY <1>1
<1> QED BY <1>6, <1>7 DEF ServedInv, ListedInOrder, TableComplete

(* A step of the walk.                                                     *)
LEMMA AtWalk ==
  ASSUME LoadInv, ServedInv, state = "running"
  PROVE  /\ WalkInv(top, lost, stack) /\ Levels(stack) /\ stack \in Seq(Level)
         /\ entry = OfType("dirent", Walked(lost, stack)) /\ InTable(Walked(lost, stack), inodes)
         /\ Len(stack) \in Nat \ {0} /\ phase = "found"
<1>1. /\ WalkInv(top, lost, stack)
      /\ entry = OfType("dirent", Walked(lost, stack)) /\ InTable(Walked(lost, stack), inodes)
  BY DEF ServedInv, Passing
<1>2. Levels(stack) /\ stack \in Seq(Level) /\ Len(stack) \in Nat \ {0}
  BY <1>1 DEF WalkInv, Levels
<1>3. phase = "found"
  BY DEF LoadInv, TableRoom
<1> QED BY <1>1, <1>2, <1>3

LEMMA AtBlock ==
  ASSUME LoadInv, ServedInv, state = "running", ~ AtEnd
  PROVE  LET f == stack[Len(stack)]
         IN  /\ f.offset < Len(f.blocks) /\ f.blocks[f.offset + 1] = block
             /\ f.offset + 1 \in 1 .. Len(f.blocks) /\ block \in BlockRef
<1> DEFINE f == stack[Len(stack)]
           b == f.blocks
           o == f.offset
<1>1. Len(stack) \in 1 .. Len(stack) /\ Levels(stack)
  BY AtWalk
<1>2. b \in Seq(BlockRef) /\ o \in 0 .. Len(b) /\ Len(b) \in Nat
  BY <1>1, LevelFacts, LenProperties
<1>3. ~ o >= Len(b) /\ block = b[o + 1]
  BY DEF AtEnd, cur, block
<1> HIDE DEF b, o, block
<1>4. o < Len(b) /\ o + 1 \in 1 .. Len(b) /\ b[o + 1] \in BlockRef
  BY <1>2, <1>3
<1> QED BY <1>3, <1>4 DEF b, o

(* Passing a reference that is not one to an indirect block.               *)
LEMMA ServedPass ==
  ASSUME LoadInv, ServedInv, state = "running", ~ AtEnd, block.type # "indirect",
         stack' = Advance, UNCHANGED <<top, lost, state>>,
         entry' = IF block.type = "dirent" THEN Append(entry, block) ELSE entry,
         \A n \in DOMAIN inodes :
            n \in DOMAIN inodes' /\ (inodes[n].type = "inode" => inodes'[n].type = "inode"),
         block.type = "inode" =>
            block.id \in DOMAIN inodes' /\ inodes'[block.id].type = "inode"
  PROVE  ServedInv'
<1> DEFINE w == Walked(lost, stack)
<1>1. stack' = Advanced(stack)
  BY DEF Advance, Advanced
<1>2. /\ WalkInv(top, lost, stack') /\ block \in BlockRef /\ w \in Seq(BlockRef)
      /\ Walked(lost, stack') = Append(w, block)
  <2> DEFINE f == stack[Len(stack)]
             r == f.blocks[f.offset + 1]
  <2>1. WalkInv(top, lost, stack) /\ f.offset < Len(f.blocks) /\ r = block
    BY AtWalk, AtBlock
  <2>2. r.type # "indirect"
    BY <2>1
  <2>3. /\ WalkInv(top, lost, Advanced(stack)) /\ r \in BlockRef /\ w \in Seq(BlockRef)
        /\ Walked(lost, Advanced(stack)) = Append(w, r)
    BY <2>1, <2>2, WalkPasses
  <2> HIDE DEF r
  <2> QED BY <1>1, <2>1, <2>3
<1>3. entry = OfType("dirent", w) /\ InTable(w, inodes)
  BY AtWalk
<1> HIDE DEF w
<1>4. InTable(w, inodes')
  BY <1>3 DEF InTable
<1>5. OfType("dirent", Append(w, block)) =
         IF block.type = "dirent" THEN Append(OfType("dirent", w), block)
         ELSE OfType("dirent", w)
  BY <1>2, OfTypeMore
<1>6. entry' = OfType("dirent", Walked(lost, stack'))
  BY <1>2, <1>3, <1>5
<1> DEFINE v == Append(w, block)
<1>7. /\ v \in Seq(BlockRef) /\ Len(v) = Len(w) + 1 /\ v[Len(w) + 1] = block
      /\ \A k \in 1 .. Len(w) : v[k] = w[k]
  BY <1>2, AppendProperties
<1> HIDE DEF v
<1>8. ASSUME NEW k \in DOMAIN v, v[k].type = "inode"
      PROVE  v[k].id \in DOMAIN inodes' /\ inodes'[v[k].id].type = "inode"
  <2>1. k = Len(w) + 1 \/ k \in 1 .. Len(w)
    BY <1>2, <1>7
  <2>2. CASE k = Len(w) + 1
    BY <1>7, <1>8, <2>2
  <2>3. CASE k \in 1 .. Len(w)
    <3>1. k \in DOMAIN w /\ v[k] = w[k]
      BY <1>2, <1>7, <2>3
    <3> QED BY <1>4, <1>8, <3>1 DEF InTable
  <2> QED BY <2>1, <2>2, <2>3
<1>9. InTable(Walked(lost, stack'), inodes')
  BY <1>2, <1>8 DEF InTable, v
<1> QED BY <1>2, <1>6, <1>9 DEF ServedInv, Passing, ListedInOrder, TableComplete

LEMMA ServedMkInode ==
  ASSUME ScanInv, LoadInv, ServedInv, MkInode, LoadRoot
  PROVE  ServedInv'
<1>1. /\ state = "running" /\ ~ AtEnd /\ block.type = "inode"
      /\ UNCHANGED <<top, entry, lost>>
  BY DEF MkInode, At
<1>2. phase = "found" /\ [MountNext]_mvars
  BY DEF LoadRoot, MountNext
<1>3. \A n \in DOMAIN inodes :
         n \in DOMAIN inodes' /\ (inodes[n].type = "inode" => inodes'[n].type = "inode")
  BY <1>2, InodesKept
<1> DEFINE n == block.id
           table == IF Fits(n) THEN inodes ELSE Grown(n)
<1>4. \/ /\ n \in DOMAIN table /\ inodes' = [table EXCEPT ![n] = block]
         /\ stack' = Advance /\ UNCHANGED state
      \/ state' = "overrun"
  BY DEF MkInode
<1> HIDE DEF table
<1>5. CASE state' = "overrun"
  BY <1>5 DEF ServedInv, Passing, ListedInOrder, TableComplete
<1>6. CASE /\ n \in DOMAIN table /\ inodes' = [table EXCEPT ![n] = block]
           /\ stack' = Advance /\ UNCHANGED state
  <2>1. n \in DOMAIN inodes' /\ inodes'[n] = block
    BY <1>6
  <2> QED BY <1>1, <1>3, <1>6, <2>1, ServedPass
<1> QED BY <1>4, <1>5, <1>6

LEMMA ServedSkip ==
  ASSUME LoadInv, ServedInv, SkipEmpty \/ ListEntry
  PROVE  ServedInv'
<1>1. /\ state = "running" /\ ~ AtEnd /\ block.type \in {"empty", "dirent"}
      /\ stack' = Advance /\ UNCHANGED <<top, lost, state, inodes>>
      /\ entry' = IF block.type = "dirent" THEN Append(entry, block) ELSE entry
  BY DEF SkipEmpty, ListEntry, At
<1> QED BY <1>1, ServedPass

LEMMA ServedIndirect ==
  ASSUME LoadInv, ServedInv, Indirect
  PROVE  ServedInv'
<1>1. /\ state = "running" /\ ~ AtEnd /\ block.type = "indirect"
      /\ UNCHANGED <<top, entry, inodes>>
  BY DEF Indirect, At
<1>2. CASE block.to = None
  <2>1. state' = "noRadix"
    BY <1>2 DEF Indirect
  <2> QED BY <2>1 DEF ServedInv, Passing, ListedInOrder, TableComplete
<1>3. CASE block.to # None
  <2>1. block.to \in Node
    <3>1. block \in BlockRef
      BY <1>1, AtBlock
    <3> HIDE DEF block
    <3> QED BY <1>3, <3>1 DEF BlockRef
  <2>2. \E blocks \in Seq(BlockRef) :
           /\ stack' = Append(Advance, Enter(blocks)) /\ UNCHANGED state
           /\ \/ lost' = lost /\ blocks = Refs[block.to]
              \/ lost' = Losing(lost, PathOf(stack), blocks)
    <3>1. Refs[block.to] \in Seq(BlockRef)
      BY <2>1, TreeAssumption
    <3>2. CASE stack' = Append(Advance, Enter(Refs[block.to])) /\ UNCHANGED lost
      BY <1>3, <3>1, <3>2 DEF Indirect
    <3>3. CASE \E blocks \in Damaged(block.to, block.check) :
                  /\ stack' = Append(Advance, Enter(blocks))
                  /\ lost' = Losing(lost, PathOf(stack), blocks)
      BY <1>3, <2>1, <3>3, DamagedType DEF Indirect
    <3> QED BY <1>3, <3>2, <3>3 DEF Indirect, AfterDamage
  <2>3. PICK blocks \in Seq(BlockRef) :
           /\ stack' = Append(Advance, Enter(blocks)) /\ UNCHANGED state
           /\ \/ lost' = lost /\ blocks = Refs[block.to]
              \/ lost' = Losing(lost, PathOf(stack), blocks)
    BY <2>2
  <2>4. stack' = Entered(stack, blocks)
    BY <2>3 DEF Advance, Advanced, Entered
  <2>5. PathOf(stack) = PlaceBelow(stack)
    BY <1>1, AtWalk, PathIs
  <2> DEFINE f == stack[Len(stack)]
             r == f.blocks[f.offset + 1]
  <2>6. WalkInv(top, lost, stack) /\ f.offset < Len(f.blocks) /\ r = block
    BY <1>1, AtWalk, AtBlock
  <2>7. r.type = "indirect" /\ BlocksOf(r.to) = Refs[block.to]
    BY <1>1, <1>3, <2>6 DEF BlocksOf
  <2> HIDE DEF block
  <2>8. /\ WalkInv(top, lost', Entered(stack, blocks))
        /\ Walked(lost', Entered(stack, blocks)) = Walked(lost, stack)
    BY <2>3, <2>5, <2>6, <2>7, WalkEnters
  <2>9. entry = OfType("dirent", Walked(lost, stack)) /\ InTable(Walked(lost, stack), inodes)
    BY <1>1, AtWalk
  <2> HIDE DEF f, r
  <2> QED BY <1>1, <2>3, <2>4, <2>8, <2>9 DEF ServedInv, Passing, ListedInOrder, TableComplete
<1> QED BY <1>2, <1>3

LEMMA ServedUp ==
  ASSUME LoadInv, ServedInv, Up
  PROVE  ServedInv'
<1>1. state = "running" /\ AtEnd /\ UNCHANGED <<top, entry, inodes, lost>>
  BY DEF Up
<1>2. /\ WalkInv(top, lost, stack) /\ entry = OfType("dirent", Walked(lost, stack))
      /\ InTable(Walked(lost, stack), inodes)
      /\ Len(stack) \in Nat \ {0} /\ stack \in Seq(Level)
      /\ stack[Len(stack)].offset >= Len(stack[Len(stack)].blocks)
  BY <1>1, AtWalk DEF AtEnd, cur
<1>3. CASE Outermost
  <2>1. Len(stack) = 1 /\ state' = "done"
    BY <1>3 DEF Up, Outermost
  <2>2. Walked(lost, stack) = Below(top, lost)
    BY <1>2, <2>1, WalkEnds
  <2>3. entry' = OfType("dirent", Tree)' /\ InTable(Tree', inodes')
    BY <1>1, <1>2, <2>2 DEF Tree
  <2>4. TableComplete'
    BY <2>3 DEF TableComplete, InTable, Range
  <2> QED BY <2>1, <2>3, <2>4 DEF ServedInv, Passing, ListedInOrder
<1>4. CASE ~ Outermost
  <2>1. Len(stack) > 1 /\ UNCHANGED state
    <3>1. Len(stack) # 1
      BY <1>4 DEF Outermost
    <3>2. Len(stack) > 1
      <4>1. Len(stack) \in Nat \ {0}
        BY <1>2
      <4> DEFINE n == Len(stack)
      <4> HIDE DEF n
      <4>2. n \in Nat \ {0} /\ n # 1 => n > 1
        OBVIOUS
      <4> QED BY <3>1, <4>1, <4>2 DEF n
    <3>3. UNCHANGED state
      BY <1>4 DEF Up
    <3> QED BY <3>2, <3>3
  <2>2. WalkInv(top, lost, Front(stack)) /\ Walked(lost, Front(stack)) = Walked(lost, stack)
    BY <1>2, <2>1, WalkLeaves
  <2>3. stack' = Front(stack)
    <3> DEFINE f == Front(stack)
    <3>1. stack' = [f EXCEPT ![Len(stack) - 1] = f[Len(stack) - 1]]
      BY <1>4 DEF Up, Resume
    <3>2. f \in Seq(Level)
      BY <1>2 DEF Front
    <3> HIDE DEF f
    <3> QED BY <3>1, <3>2 DEF f
  <2> QED BY <1>1, <1>2, <2>1, <2>2, <2>3 DEF ServedInv, Passing, ListedInOrder, TableComplete
<1> QED BY <1>3, <1>4

LEMMA ServedSteps ==
  ScanInv /\ LoadInv /\ LoadInv' /\ ServedInv /\ [MountNext]_mvars => ServedInv'
<1> SUFFICES ASSUME ScanInv, LoadInv, LoadInv', ServedInv, [MountNext]_mvars
             PROVE  ServedInv'
  OBVIOUS
<1>1. ASSUME UNCHANGED load PROVE ServedInv'
  BY <1>1 DEF load, ServedInv, Passing, ListedInOrder, TableComplete, Tree
<1>2. CASE ReadSuproot \/ LeaveSuproot \/ NotFound \/ UNCHANGED mvars
  BY <1>1, <1>2 DEF ReadSuproot, LeaveSuproot, NotFound, mvars, vars, load
<1>3. CASE ReadRoot
  BY <1>1, <1>3, ServedFound DEF ReadRoot
<1>4. CASE LoadRoot
  <2>1. CASE Unhandled
    <3>1. state' = "unhandled"
      BY <2>1 DEF Unhandled
    <3> QED BY <3>1 DEF ServedInv, Passing, ListedInOrder, TableComplete
  <2> QED BY <1>4, <2>1, ServedUp, ServedMkInode, ServedSkip, ServedIndirect
         DEF LoadRoot, Next
<1> QED BY <1>2, <1>3, <1>4 DEF MountNext

LEMMA ServedInvariance == MountSpec => []ServedInv
  BY ServedStart, ServedSteps, ScanInvariance, LoadInvariance, PTL DEF MountSpec

(* What damage was taken for it was taken for where a block has no hash,   *)
(* but for empty references.                                               *)
DamageIsZero == Hashed(top) => \A r : FromDamage(r) => r = Empty
Known(r) == InTree(r) \/ (~ Hashed(top) /\ FromDamage(r))
TableKnown ==
    \A n \in DOMAIN inodes : \A r :
        (r = inodes[n] /\ r.type = "inode") =>
            r.id = n /\ (Known(r) \/ n = root.inum)
ListKnown == \A k \in DOMAIN entry : \A r : r = entry[k] => Known(r)
KnownInv == DamageIsZero /\ TableKnown /\ ListKnown

LEMMA KnownStart == MountInit => KnownInv
<1> SUFFICES ASSUME MountInit PROVE KnownInv
  OBVIOUS
<1>1. entry = <<>> /\ inodes = <<>> /\ lost = <<>> /\ DOMAIN <<>> = {}
  BY DEF MountInit
<1> QED BY <1>1 DEF KnownInv, DamageIsZero, FromDamage, TableKnown, ListKnown

(* A reference that is met is of the tree or of what was lost.             *)
LEMMA BlockIsRead ==
  ASSUME LoadInv, ServedInv, state = "running", ~ AtEnd
  PROVE  InTree(block) \/ FromDamage(block)
<1> DEFINE n == Len(stack)
           j == stack[Len(stack)].offset + 1
<1>1. /\ WalkInv(top, lost, stack) /\ n \in 1 .. Len(stack)
      /\ j \in 1 .. Len(stack[n].blocks) /\ stack[n].blocks[j] = block
  BY AtWalk, AtBlock
<1> HIDE DEF n, j
<1>2. \/ \E h \in DOMAIN top : top[h] = stack[n].blocks[j]
      \/ \E m \in Node : \E h \in DOMAIN Refs[m] : Refs[m][h] = stack[n].blocks[j]
      \/ \E q \in DOMAIN lost : \E h \in DOMAIN lost[q] : lost[q][h] = stack[n].blocks[j]
  BY ONLY <1>1, FromTree
<1> HIDE DEF block
<1> QED BY <1>1, <1>2 DEF InTree, FromDamage

LEMMA BlockIsKnown ==
  ASSUME LoadInv, ServedInv, KnownInv, state = "running", ~ AtEnd, block # Empty
  PROVE  Known(block)
  BY BlockIsRead DEF KnownInv, DamageIsZero, Known

(* What rests when the tree, the list, the table and the root rest.        *)
LEMMA KnownMore ==
  ASSUME UNCHANGED top, \A r : FromDamage(r) => FromDamage(r)', NEW r, Known(r)
  PROVE  Known(r)'
<1>1. InTree(r) => InTree(r)'
  BY DEF InTree
<1>2. Hashed(top)' = Hashed(top)
  BY DEF Hashed
<1> QED BY <1>1, <1>2 DEF Known

LEMMA KnownKept ==
  ASSUME KnownInv, UNCHANGED <<top, lost, entry, inodes>>,
         UNCHANGED root \/ DOMAIN inodes = {}
  PROVE  KnownInv'
<1>1. \A r : FromDamage(r)' <=> FromDamage(r)
  BY DEF FromDamage
<1>2. \A r : Known(r) => Known(r)'
  BY <1>1, KnownMore
<1>3. Hashed(top)' = Hashed(top)
  BY DEF Hashed
<1>4. DamageIsZero'
  BY <1>1, <1>3 DEF KnownInv, DamageIsZero
<1>5. TableKnown' /\ ListKnown'
  BY <1>2 DEF KnownInv, TableKnown, ListKnown
<1> QED BY <1>4, <1>5 DEF KnownInv

LEMMA KnownFound ==
  ASSUME LoadInv, Found
  PROVE  KnownInv'
<1> DEFINE n == root'.inum
           first == root'.slots
           table == IF n < first THEN [m \in 0 .. first - 1 |-> Empty]
                    ELSE [m \in 0 .. 2 * n - 1 |->
                            IF m < first THEN Empty ELSE Junk]
           slots == IF n < first THEN first ELSE 2 * n
           self == [type |-> "inode", id |-> n, to |-> None, check |-> TRUE]
<1>1. entry' = <<>> /\ lost' = <<>> /\ DOMAIN <<>> = {}
  <2>1. entry' = <<>> /\ lost' = <<>>
    BY Zenon DEF Found
  <2> QED BY <2>1
<1>2. \/ n \in DOMAIN table /\ inodes' = [table EXCEPT ![n] = self]
      \/ inodes' = <<>>
  BY Zenon DEF Found
<1>3. \A m \in DOMAIN table : table[m] \in {Empty, Junk}
  OBVIOUS
<1>4. self.type = "inode" /\ self.id = n
  OBVIOUS
<1> HIDE DEF table, self
<1>5. ASSUME NEW m \in DOMAIN inodes', inodes'[m].type = "inode"
      PROVE  inodes'[m].id = m /\ m = root'.inum
  <2>1. inodes' = [table EXCEPT ![n] = self] /\ n \in DOMAIN table
    BY <1>1, <1>2, <1>5
  <2>2. (m = n /\ inodes'[m] = self) \/ inodes'[m] \in {Empty, Junk}
    BY <1>3, <1>5, <2>1
  <2> QED BY <1>4, <1>5, <2>2, EmptyBlocks
<1> QED BY <1>1, <1>5 DEF KnownInv, DamageIsZero, FromDamage, TableKnown, ListKnown

(* mkinode() enters the reference that is met in the slot of its number.   *)
LEMMA KnownInode ==
  ASSUME LoadInv, ServedInv, KnownInv, MkInode, UNCHANGED scan
  PROVE  KnownInv'
<1>1. /\ state = "running" /\ ~ AtEnd /\ block.type = "inode"
      /\ UNCHANGED <<top, lost, entry, root>>
  BY DEF MkInode, At, scan
<1>2. Known(block)
  <2>1. block # Empty
    BY <1>1, EmptyBlocks
  <2> QED BY <1>1, <2>1, BlockIsKnown
<1> DEFINE n == block.id
           table == IF Fits(n) THEN inodes ELSE Grown(n)
<1>3. \/ n \in DOMAIN table /\ inodes' = [table EXCEPT ![n] = block]
      \/ UNCHANGED inodes
  BY DEF MkInode
<1>4. \A m \in DOMAIN table :
         (m \in DOMAIN inodes /\ table[m] = inodes[m]) \/ table[m] = Junk
  <2>1. /\ block.id \in Nat /\ maxinodes \in Nat /\ DOMAIN inodes = 0 .. maxinodes - 1
    <3>1. block \in BlockRef
      BY <1>1, AtBlock
    <3>2. block.id \in Nat
      <4> HIDE DEF block
      <4> QED BY <3>1 DEF BlockRef
    <3> QED BY <3>2 DEF LoadInv, LoadType
  <2> QED BY <2>1 DEF Fits, Grown
<1>5. CASE UNCHANGED inodes
  BY <1>1, <1>5, KnownKept
<1>6. CASE n \in DOMAIN table /\ inodes' = [table EXCEPT ![n] = block]
  <2>1. \A r : FromDamage(r)' <=> FromDamage(r)
    BY <1>1 DEF FromDamage
  <2>2. \A r : Known(r) => Known(r)'
    BY <1>1, <2>1, KnownMore
  <2>3. Hashed(top)' = Hashed(top)
    BY <1>1 DEF Hashed
  <2>4. DamageIsZero' /\ ListKnown'
    BY <1>1, <2>1, <2>2, <2>3 DEF KnownInv, DamageIsZero, ListKnown
  <2> HIDE DEF n, table
  <2>5. ASSUME NEW m \in DOMAIN inodes', NEW r, r = inodes'[m], r.type = "inode"
        PROVE  r.id = m /\ (Known(r)' \/ m = root'.inum)
    <3>1. m \in DOMAIN table
      BY <1>6, <2>5
    <3>2. CASE m = n
      <4>1. r = block
        BY <1>6, <2>5, <3>1, <3>2
      <4>2. block.id = m
        BY <3>2 DEF n
      <4>3. Known(r)
        BY <1>2, <4>1
      <4>4. Known(r)'
        BY <2>2, <4>3
      <4> QED BY <4>1, <4>2, <4>4
    <3>3. CASE m # n
      <4>1. r = table[m]
        BY <1>6, <2>5, <3>1, <3>3
      <4>2. m \in DOMAIN inodes /\ r = inodes[m]
        BY <1>4, <2>5, <3>1, <4>1, EmptyBlocks
      <4>3. r.id = m /\ (Known(r) \/ m = root.inum)
        BY <2>5, <4>2 DEF KnownInv, TableKnown
      <4> QED BY <1>1, <2>2, <4>3
    <3> QED BY <3>2, <3>3
  <2>6. TableKnown'
    BY <2>5 DEF TableKnown
  <2> QED BY <2>4, <2>6 DEF KnownInv
<1> QED BY <1>3, <1>5, <1>6

LEMMA KnownEntry ==
  ASSUME LoadInv, ServedInv, KnownInv, ListEntry, UNCHANGED scan
  PROVE  KnownInv'
<1>1. /\ state = "running" /\ ~ AtEnd /\ block.type = "dirent"
      /\ UNCHANGED <<top, lost, inodes, root>> /\ entry' = Append(entry, block)
  BY DEF ListEntry, At, scan
<1>2. Known(block)
  <2>1. block # Empty
    BY <1>1, EmptyBlocks
  <2> QED BY <1>1, <2>1, BlockIsKnown
<1>3. block \in BlockRef /\ entry \in Seq(BlockRef)
  BY <1>1, AtBlock DEF LoadInv, LoadType
<1>4. \A r : FromDamage(r)' <=> FromDamage(r)
  BY <1>1 DEF FromDamage
<1>5. \A r : Known(r) => Known(r)'
  BY <1>1, <1>4, KnownMore
<1>6. Hashed(top)' = Hashed(top)
  BY <1>1 DEF Hashed
<1>7. DamageIsZero' /\ TableKnown'
  BY <1>1, <1>4, <1>5, <1>6 DEF KnownInv, DamageIsZero, TableKnown
<1> HIDE DEF block
<1>8. /\ entry' \in Seq(BlockRef) /\ Len(entry') = Len(entry) + 1
      /\ entry'[Len(entry) + 1] = block /\ \A k \in 1 .. Len(entry) : entry'[k] = entry[k]
      /\ Len(entry) \in Nat
  BY <1>1, <1>3, AppendProperties, LenProperties
<1>9. ASSUME NEW k \in DOMAIN entry', NEW r, r = entry'[k] PROVE Known(r)'
  <2>1. k = Len(entry) + 1 \/ k \in 1 .. Len(entry)
    BY <1>8, <1>9
  <2>2. CASE k = Len(entry) + 1
    <3>1. r = block
      BY <1>8, <1>9, <2>2
    <3> QED BY <1>2, <1>5, <3>1
  <2>3. CASE k \in 1 .. Len(entry)
    <3>1. k \in DOMAIN entry /\ r = entry[k]
      BY <1>3, <1>8, <1>9, <2>3
    <3>2. Known(r)
      BY <3>1 DEF KnownInv, ListKnown
    <3> QED BY <1>5, <3>2
  <2> QED BY <2>1, <2>2, <2>3
<1> QED BY <1>7, <1>9 DEF KnownInv, ListKnown

(* Another lost block adds what it is taken for: nothing when it is hashed.*)
LEMMA KnownIndirect ==
  ASSUME LoadInv, ServedInv, KnownInv, Indirect, UNCHANGED scan
  PROVE  KnownInv'
<1>1. /\ state = "running" /\ ~ AtEnd /\ block.type = "indirect"
      /\ UNCHANGED <<top, entry, inodes, root>>
  BY DEF Indirect, At, scan
<1>2. CASE UNCHANGED lost
  BY <1>1, <1>2, KnownKept
<1>3. CASE lost' # lost
  <2>1. PICK blocks \in Damaged(block.to, block.check) :
           block.to # None /\ lost' = Losing(lost, PathOf(stack), blocks)
    BY <1>3 DEF Indirect
  <2>2. /\ WalkInv(top, lost, stack) /\ Levels(stack)
        /\ stack[Len(stack)].offset < Len(stack[Len(stack)].blocks)
        /\ block \in BlockRef
    BY <1>1, AtWalk, AtBlock
  <2> DEFINE q == PlaceBelow(stack)
  <2>3. PathOf(stack) = q
    BY <2>2, PathIs
  <2>4. q \notin DOMAIN lost
    BY <2>2, LostAdvanced DEF PlaceBelow, WalkInv
  <2> HIDE DEF q
  <2>5. /\ DOMAIN lost' = DOMAIN lost \cup {q} /\ lost'[q] = blocks
        /\ \A p \in DOMAIN lost : lost'[p] = lost[p]
    BY <2>1, <2>3, <2>4 DEF Losing
  <2>6. \A r : FromDamage(r) => FromDamage(r)'
    BY <2>5 DEF FromDamage
  <2>7. \A r : FromDamage(r)' => FromDamage(r) \/ \E k \in DOMAIN blocks : blocks[k] = r
    BY <2>5 DEF FromDamage
  <2>8. \A r : Known(r) => Known(r)'
    BY <1>1, <2>6, KnownMore
  <2>9. TableKnown' /\ ListKnown'
    BY <1>1, <2>8 DEF KnownInv, TableKnown, ListKnown
  <2>10. Hashed(top)' = Hashed(top)
    BY <1>1 DEF Hashed
  <2>11. DamageIsZero'
    <3> SUFFICES ASSUME Hashed(top), NEW r, FromDamage(r)' PROVE r = Empty
      BY <2>10 DEF DamageIsZero
    <3>1. InTree(block)
      <4>1. block # Empty
        BY <1>1, EmptyBlocks
      <4> QED BY <1>1, <4>1, BlockIsRead DEF KnownInv, DamageIsZero
    <3>2. block \in Range(top) \cup UNION {Range(Refs[n]) : n \in Node}
      <4> HIDE DEF block
      <4> QED BY <3>1 DEF InTree, Range
    <3>3. block.check
      BY <1>1, <3>2 DEF Hashed
    <3>4. block.to \in Node
      <4> HIDE DEF block
      <4> QED BY <2>1, <2>2 DEF BlockRef
    <3>5. blocks \in Seq(BlockRef) /\ \A k \in 1 .. Len(blocks) : blocks[k] = Empty
      <4>1. /\ blocks \in Seq(BlockRef)
            /\ block.check => \A k \in 1 .. Len(blocks) : blocks[k] = Empty
        BY <3>4, DamagedType
      <4> QED BY <3>3, <4>1
    <3>6. \A k \in DOMAIN blocks : blocks[k] = Empty
      BY <3>5
    <3> QED BY <2>7, <3>6 DEF KnownInv, DamageIsZero
  <2> QED BY <2>9, <2>11 DEF KnownInv
<1> QED BY <1>2, <1>3

LEMMA KnownSteps ==
  LoadInv /\ ServedInv /\ KnownInv /\ [MountNext]_mvars => KnownInv'
<1> SUFFICES ASSUME LoadInv, ServedInv, KnownInv, [MountNext]_mvars PROVE KnownInv'
  OBVIOUS
<1>1. phase # "found" => DOMAIN inodes = {}
  <2>1. maxinodes \in Nat /\ DOMAIN inodes = 0 .. maxinodes - 1
    BY DEF LoadInv, LoadType
  <2>2. phase # "found" => ~ maxinodes > 0
    BY DEF LoadInv, TableRoom
  <2> QED BY <2>1, <2>2
<1>2. ASSUME UNCHANGED load, UNCHANGED root \/ phase # "found" PROVE KnownInv'
  BY <1>1, <1>2, KnownKept DEF load
<1>3. CASE ReadSuproot \/ LeaveSuproot \/ NotFound \/ UNCHANGED mvars
  BY <1>2, <1>3 DEF ReadSuproot, LeaveSuproot, NotFound, Scanning, mvars, scan, vars, load
<1>4. CASE ReadRoot
  BY <1>2, <1>4, KnownFound DEF ReadRoot, Scanning
<1>5. CASE LoadRoot
  <2>1. CASE Up \/ SkipEmpty \/ Unhandled
    BY <1>5, <2>1, KnownKept DEF LoadRoot, Up, SkipEmpty, Unhandled, scan
  <2> QED BY <1>5, <2>1, KnownInode, KnownEntry, KnownIndirect DEF LoadRoot, Next
<1> QED BY <1>3, <1>4, <1>5 DEF MountNext

(* What is in the table and in the list is of the tree, or was taken from  *)
(* a damaged block where some block has no hash, and each inode is in the  *)
(* slot of its number.                                                     *)
THEOREM NothingIsInvented == MountSpec => []NothingInvented
<1>1. KnownInv => NothingInvented
  BY DEF KnownInv, TableKnown, ListKnown, Known, NothingInvented
<1> QED BY <1>1, KnownStart, KnownSteps, LoadInvariance, ServedInvariance, PTL DEF MountSpec

(* Whatever damaged blocks are taken for, the entries served for the root  *)
(* are those of the tree of the root asked for as it was read, in its      *)
(* order, and the table has the root and every inode that was read.        *)
THEOREM RootIsServed == MountSpec => []RootServed
<1>1. ScanInv /\ LoadInv /\ ServedInv => RootServed
  <2> SUFFICES ASSUME LoadInv, ServedInv, phase = "found", state = "done"
               PROVE  /\ top = Inode[rootref].set
                      /\ ListedInOrder
                      /\ inodes[root.inum].type = "inode"
                      /\ TableComplete
    BY DEF RootServed
  <2>1. maxinodes > 0
    BY DEF LoadInv, TableRoom
  <2>2. top = Inode[rootref].set /\ inodes[root.inum].type = "inode"
    BY <2>1 DEF LoadInv, RootKept
  <2> QED BY <2>2 DEF ServedInv
<1> QED BY <1>1, ScanInvariance, LoadInvariance, ServedInvariance, PTL

=============================================================================
