-------------------------------- MODULE Fids --------------------------------
(***************************************************************************)
(* The fids of the server over the table of inodes: fsattach, fswalkclone, *)
(* fswalk with loadsubdir, getfentry, loadinode and loadinodes, fsopen,    *)
(* fsstat, and fsread of a directory with cacheddirread, of 9p.c.  lib9p   *)
(* handles one request at a time; how it makes a Twalk of clones and       *)
(* single steps, and which requests it refuses itself, is modelled as the  *)
(* code relies on it.  A call of loadinodes() does what DirLoad shows of   *)
(* it: it lists the entries and enters the inodes of the directory, but    *)
(* for those in parts whose block is lost.                                 *)
(*                                                                         *)
(* A directory's entries lie in a buffer on the heap that several fids may *)
(* point to.  DirEnts and the cache of a file share a union: the pointer   *)
(* with lastbuf, the count with lastbufoffset.                             *)
(***************************************************************************)
EXTENDS Integers, SequencesExt, FiniteSets, FiniteSetsExt

CONSTANTS
    Fid,        \* the fids of the clients
    Name,       \* names in walks
    Inum,       \* inode numbers
    Trees,      \* file systems: of each number its kind, its iparent, and
                \* the parts of its entries and inodes
    RootInum,
    FirstMax,   \* slots the table is first made for (inode_count)
    MaxFaults,  \* bound: loads that fail
    Unused      \* what a fid is that is not in use

ObjTypes == {"dir", "file", "link", "other"}
Entry == [name : STRING, inum : Inum, long : BOOLEAN]
Part == [entries : Seq(Entry), inodes : Seq(Inum), indirect : BOOLEAN]
ASSUME TreesAssumption ==
    /\ Inum \subseteq Nat /\ 0 \in Inum /\ RootInum \in Inum \ {0}
    /\ \A t \in Trees :
          /\ t.kind \in [Inum -> ObjTypes \cup {"none"}] /\ t.kind[0] = "none"
          /\ t.parent \in [Inum -> Inum] /\ t.parts \in [Inum -> Seq(Part)]
          /\ \A n \in Inum : t.kind[n] # "dir" => t.parts[n] = <<>>
          /\ \A n \in Inum : \A k \in DOMAIN t.parts[n] :
                \A m \in Range(t.parts[n][k].inodes) : t.kind[m] # "none"
          /\ \A n \in Inum : t.kind[n] = "none" => t.parent[n] = 0
ASSUME BoundsAssumption ==
    IsFiniteSet(Fid) /\ FirstMax \in Nat /\ MaxFaults \in Nat

Nil == -1
Buffers == 0 .. Cardinality(Fid) + 1
Qid == [path : Nat, type : {"dir", "file"}]
Aux == [qid : Qid, inode : Inum, entry : Buffers \cup {Nil}, count : Nat]
ASSUME UnusedAssumption ==
    /\ Unused \notin [qid : Qid, aux : Aux, open : BOOLEAN]
    /\ Unused \notin [named : Nat, here : Inum, dir : BOOLEAN]

VARIABLES
    tree,       \* the file system that is served
    table,      \* the slots of the inode table that were entered
    maxinodes,
    fids,       \* qid and Aux of each fid, and whether it is open
    heap,       \* the buffers of directory entries
    out,        \* the last reply: its kind, and the entries of a listing
    server,     \* up, or how it ended
    faults      \* loads that have failed

disk == <<tree, table, maxinodes, faults>>
vars == <<disk, fids, heap, out, server>>

RootQid == [path |-> RootInum, type |-> "dir"]
RootEntry == 0
RootCount == Len(heap[RootEntry])
RootAux == [qid |-> RootQid, inode |-> RootInum, entry |-> RootEntry, count |-> RootCount]
-----------------------------------------------------------------------------
(* mkinode() for each of the inodes, in their order: slots there are then. *)
Grown(slots, inums) ==
    LET max[k \in 0 .. Len(inums)] ==
            IF k = 0 THEN slots
            ELSE IF inums[k] >= max[k - 1] THEN 2 * inums[k] ELSE max[k - 1]
    IN  max[Len(inums)]

(* Mistake: a table that grows is made anew. *)
Entered_Anew(s, inums) ==
    IF Grown(s.max, inums) > s.max THEN Range(inums) ELSE s.table \cup Range(inums)

Entered(s, inums) == s.table \cup Range(inums)

(* loadinodes() of the directory n for a server s: what it may list, enter *)
(* in the table, and fail to load.  The blocks of what is no directory are *)
(* of a type that ends the server.                                         *)
Loads(n, s) ==
    LET parts == tree.parts[n]
        Lossy == {k \in DOMAIN parts : parts[k].indirect}
        Listed(lost) == FlattenSeq([k \in DOMAIN parts |->
                            IF k \in lost THEN <<>> ELSE parts[k].entries])
        Met(lost) == FlattenSeq([k \in DOMAIN parts |->
                            IF k \in lost THEN <<>> ELSE parts[k].inodes])
    IN  {[entries |-> Listed(lost),
          table |-> Entered(s, Met(lost)),
          max |-> Grown(s.max, Met(lost)),
          faults |-> s.faults + Cardinality(lost)] :
            lost \in {x \in SUBSET Lossy : s.faults + Cardinality(x) <= MaxFaults}}

(* fsstart() made the table, entered the root and loaded it.               *)
Init ==
    /\ tree \in Trees
    /\ \E load \in Loads(RootInum, [table |-> {RootInum}, faults |-> 0,
                                    max |-> Grown(FirstMax, <<RootInum>>)]) :
          /\ table = load.table /\ maxinodes = load.max /\ faults = load.faults
          /\ heap = [b \in Buffers |-> IF b = RootEntry THEN load.entries ELSE <<>>]
    /\ fids = [f \in Fid |-> Unused]
    /\ out = <<"ok">>
    /\ server = "up"

Used(f) == fids[f] # Unused
Closed(f) == server = "up" /\ Used(f) /\ ~ fids[f].open

(* A request that gets an error, or ends the server, changes no fid.       *)
Answer(reply) == out' = reply /\ UNCHANGED <<fids, heap, server>>
End(how) == server' = how /\ out' = <<"ok">> /\ UNCHANGED <<fids, heap>>

(* Mistake: the attached fid keeps no entries until it is opened. *)
AttachAux_Bare == [RootAux EXCEPT !.entry = Nil, !.count = 0]

AttachAux == RootAux

Attach(f) ==
    /\ server = "up" /\ ~ Used(f)
    /\ fids' = [fids EXCEPT ![f] = [qid |-> RootQid, aux |-> AttachAux, open |-> FALSE]]
    /\ out' = <<"ok">>
    /\ UNCHANGED <<disk, heap, server>>

(* getfentry(): nil for a number past the table, and for the number one    *)
(* past its last slot what lies behind it.                                 *)
GetFEntry(n, s) ==
    IF n > s.max THEN "nil" ELSE IF n \in s.table THEN "entry" ELSE "junk"

(* What a variable holds after loadinode() into it, which has the value    *)
(* good or one of those before, and how many loads failed.  The reference  *)
(* in a slot that was never entered is zero or junk and loads nothing.     *)
LoadInode(n, good, before, s) ==
    IF GetFEntry(n, s) = "junk" THEN before \X {0}
    ELSE {<<good, 0>>} \cup (IF s.faults < MaxFaults THEN before \X {1} ELSE {})

(* The entries in the cache of a, as far as the buffer holds them.         *)
Cached(hp, a) ==
    IF a.count = 0 THEN <<>>
    ELSE [k \in 1 .. Min({a.count, Len(hp[a.entry])}) |-> hp[a.entry][k]]

(* Mistake: the type of the object is taken for that of the qid. *)
QidType_Object(type) == type

QidType(type) == IF type = "dir" THEN "dir" ELSE "file"

(* loadsubdir() on the entries of s.aux: a qid, or how the call fails.     *)
(* Without a buffer but with a count left by another use of the union it   *)
(* reads through nil.  A long name that cannot be loaded reads as what the *)
(* stack held, which may be the name that is looked for; the inode of the  *)
(* entry is loaded into the stack to see its type, and only then does the  *)
(* number 0 stand for no entry.                                            *)
LoadSubdir(s, name) ==
    LET a == s.aux
        list == Cached(s.heap, a)
        Unread == {x \in SUBSET {k \in DOMAIN list : list[k].long} :
                     s.faults + Cardinality(x) <= MaxFaults}
        Taken(unread) ==
            {k \in DOMAIN list :
                /\ k \in unread \/ list[k].name = name
                /\ \A j \in 1 .. k - 1 : j \in unread \/ list[j].name # name}
        Missed(unread) == \A k \in DOMAIN list : k \in unread \/ list[k].name # name
        Losing(unread) == [s EXCEPT !.faults = @ + Cardinality(unread)]
        Fail(t, how) == [t EXCEPT !.res = how]
        At(t, n) ==
            IF GetFEntry(n, t) = "nil" THEN {Fail(t, "fatal")}
            ELSE {[t EXCEPT !.res = IF seen[1] = "other" THEN "fatal"
                                    ELSE IF n = 0 THEN "notFound" ELSE @,
                            !.qid = [path |-> n, type |-> QidType(seen[1])],
                            !.faults = @ + seen[2]] :
                    seen \in LoadInode(n, tree.kind[n], ObjTypes, t)}
    IN  IF a.count = 0 THEN {Fail(s, "notFound")}
        ELSE IF a.entry = Nil THEN {Fail(s, "nilBuffer")}
        ELSE UNION {(UNION {At(Losing(u), list[k].inum) : k \in Taken(u)})
                    \cup (IF Missed(u) THEN {Fail(Losing(u), "notFound")} ELSE {}) : u \in Unread}

(* Mistake: a directory is loaded into the buffer the fid has. *)
NewBuffer_Own(a, busy) ==
    IF a.entry = Nil THEN CHOOSE b \in Buffers : b \notin busy ELSE a.entry

(* loadinodes() starts from no capacity and so with memory of its own.     *)
NewBuffer(a, busy) == CHOOSE b \in Buffers : b \notin busy

(* fswalk() from where s.qid was found: the inode is loaded into new       *)
(* memory, of zeros, and for a directory its entries; for a file only      *)
(* lastbuf and lastbufcount are set.                                       *)
Enter(s, busy) ==
    LET q == s.qid
        b == NewBuffer(s.aux, busy)
        Dir(t, n) ==
            IF tree.kind[n] \in {"file", "link"} THEN {[t EXCEPT !.res = "fatal"]}
            ELSE {[t EXCEPT !.aux.inode = n, !.aux.count = Len(load.entries),
                      !.aux.entry = IF load.entries = <<>> THEN Nil ELSE b,
                      !.heap = IF load.entries = <<>> THEN @ ELSE [@ EXCEPT ![b] = load.entries],
                      !.table = load.table, !.max = load.max, !.faults = load.faults] :
                    load \in Loads(n, t)}
    IN  IF GetFEntry(q.path, s) = "nil" THEN {[s EXCEPT !.res = "nilEntry"]}
        ELSE UNION {LET t == [s EXCEPT !.faults = @ + seen[2]]
                        n == seen[1]
                    IN  IF q.type = "dir" THEN Dir(t, n)
                        ELSE {[t EXCEPT !.aux.inode = n, !.aux.entry = Nil]} :
                        seen \in LoadInode(q.path, q.path, {0}, s)}

(* fswalk(): s holds the fid's qid and Aux, what the server has, and how   *)
(* the walk is going.                                                      *)
Walk1(s, name, busy) ==
    CASE name = "/" -> {[s EXCEPT !.qid = RootQid, !.aux = [RootAux EXCEPT !.qid = s.aux.qid]]}
      [] name = "." -> {[s EXCEPT !.qid = s.aux.qid]}
      [] name = ".." ->
            Enter([s EXCEPT !.qid = [path |-> tree.parent[s.aux.inode], type |-> "dir"]], busy)
      [] OTHER ->
            UNION {IF r.res = "ok" THEN Enter(r, busy) ELSE {r} : r \in LoadSubdir(s, name)}

(* fswalkclone(): the Aux is copied with its pointers; of a directory the  *)
(* entries are then copied from the buffer to itself.                      *)
Clone(fid) ==
    IF fid.qid.type = "dir" THEN fid.aux ELSE [fid.aux EXCEPT !.entry = Nil]

(* The buffers that some fid, but the one that walks, still points to.     *)
Busy(walker) ==
    {RootEntry} \cup {fids[g].aux.entry : g \in {h \in Fid : Used(h) /\ h # walker}}

(* The walk along at most two names, which ends where one of them fails.   *)
Along(s, path, busy) ==
    LET one == IF path = <<>> THEN {s} ELSE Walk1(s, path[1], busy)
    IN  IF Len(path) < 2 THEN one
        ELSE UNION {IF t.res = "ok" THEN Walk1(t, path[2], busy) ELSE {t} :
                      t \in one}

(* The newfid of a walk that does not get all the way is dropped; what was *)
(* loaded for the first name stays in the table.                           *)
Walk(f, nf, path) ==
    /\ Closed(f)
    /\ nf = f \/ ~ Used(nf)
    /\ IF path # <<>> /\ fids[f].qid.type # "dir"
       THEN Answer(<<"error">>) /\ UNCHANGED disk    \* walk in non-directory
       ELSE IF f = nf /\ Len(path) > 1
       THEN Answer(<<"error">>) /\ UNCHANGED disk    \* not implemented
       ELSE \E s \in Along([res |-> "ok", qid |-> fids[f].qid,
                            aux |-> IF nf = f THEN fids[f].aux ELSE Clone(fids[f]),
                            heap |-> heap, table |-> table, max |-> maxinodes,
                            faults |-> faults],
                           path, Busy(nf)) :
               /\ table' = s.table /\ maxinodes' = s.max /\ faults' = s.faults
               /\ UNCHANGED tree
               /\ CASE s.res = "ok" ->
                         /\ fids' = [fids EXCEPT ![nf] =
                                        [qid |-> s.qid, aux |-> s.aux, open |-> FALSE]]
                         /\ heap' = s.heap /\ out' = <<"ok">> /\ UNCHANGED server
                    [] s.res = "notFound" ->
                         Answer(<<"error">>)
                    [] OTHER -> End(s.res)

(* fsopen(); what it does for a file is in FileRead and FileMap.  What is  *)
(* a directory is no list of a file's blocks.                              *)
Open(f) ==
    /\ Closed(f)
    /\ IF fids[f].qid.type = "file" /\ tree.parts[fids[f].aux.inode] # <<>>
       THEN End("fatal")
       ELSE /\ fids' = [fids EXCEPT ![f].open = TRUE,
                    ![f].aux = IF fids[f].qid.path = RootInum
                               THEN [@ EXCEPT !.entry = RootEntry, !.count = RootCount]
                               ELSE @]
            /\ out' = <<"ok">>
            /\ UNCHANGED <<heap, server>>
    /\ UNCHANGED disk

(* dirread9p() with cacheddirread(), a directory from its first entry to   *)
(* its last.  Inodes and long names are loaded into the stack.             *)
ReadDir(f) ==
    /\ server = "up" /\ Used(f) /\ fids[f].open /\ fids[f].qid.type = "dir"
    /\ LET list == Cached(heap, fids[f].aux)
           s == [table |-> table, max |-> maxinodes, faults |-> faults]
           Seen(k) == LoadInode(list[k].inum, tree.kind[list[k].inum], ObjTypes, s)
       IN  \/ /\ \A k \in DOMAIN list : \E seen \in Seen(k) : seen[1] # "other" /\ seen[2] = 0
              /\ \A k \in DOMAIN list : GetFEntry(list[k].inum, s) # "nil"
              /\ \E unread \in SUBSET {k \in DOMAIN list : list[k].long} :
                    /\ faults + Cardinality(unread) <= MaxFaults
                    /\ faults' = faults + Cardinality(unread)
                    /\ Answer(<<"entries", [k \in DOMAIN list |->
                          [name |-> IF k \in unread THEN "?" ELSE list[k].name,
                           inum |-> list[k].inum]]>>)
           \/ \E k \in DOMAIN list :
                    \/ GetFEntry(list[k].inum, s) = "nil" /\ End("fatal") /\ UNCHANGED faults
                    \/ \E seen \in Seen(k) :
                          seen[1] = "other" /\ End("fatal") /\ faults' = faults + seen[2]
    /\ UNCHANGED <<tree, table, maxinodes>>

(* fsstat(): of the inode the qid names, not the one the Aux holds.        *)
Stat(f) ==
    /\ server = "up" /\ Used(f)
    /\ LET q == fids[f].qid
       IN  Answer(IF q.path # RootInum /\ q.path > maxinodes
                  THEN <<"error">> ELSE <<"ok">>)
    /\ UNCHANGED disk

Clunk(f) ==
    /\ server = "up" /\ Used(f)
    /\ fids' = [fids EXCEPT ![f] = Unused]
    /\ out' = <<"ok">>
    /\ UNCHANGED <<disk, heap, server>>

Paths == {<<>>} \cup {<<a>> : a \in Name} \cup {<<a, b>> : a, b \in Name}

Next == \E f \in Fid :
    \/ Attach(f) \/ Open(f) \/ ReadDir(f) \/ Stat(f) \/ Clunk(f)
    \/ \E nf \in Fid, path \in Paths : Walk(f, nf, path)

Spec == Init /\ [][Next]_vars
-----------------------------------------------------------------------------
TypeOK ==
    /\ tree \in Trees /\ table \subseteq Inum /\ maxinodes \in Nat
    /\ fids \in [Fid -> {Unused} \cup [qid : Qid, aux : Aux, open : BOOLEAN]]
    /\ heap \in [Buffers -> Seq(Entry)]
    /\ server \in {"up", "nilBuffer", "nilEntry", "fatal"}
    /\ faults \in 0 .. MaxFaults

Promise == INSTANCE FidSpec WITH
    node <- [f \in Fid |->
               IF Used(f) THEN [named |-> fids[f].qid.path, here |-> fids[f].aux.inode,
                                dir |-> fids[f].qid.type = "dir"]
               ELSE Unused],
    opened <- {f \in Fid : Used(f) /\ fids[f].open},
    listed <- IF out[1] = "entries" THEN out[2] ELSE <<>>,
    failed <- faults > 0

(* The entries a fid of a directory has cached are those of the directory  *)
(* its inode is, or once it is open as the root, of the root, although     *)
(* buffers are shared by fids, handed from fid to fid by clones, and left  *)
(* behind by walks; as long as no load failed they are all its entries.    *)
(* Only "." after the name of a file, or of what was taken for one when a  *)
(* load failed, leaves the root's qid with what a file has in its cache,   *)
(* until the fid is opened.                                                *)
DirListsItsInode ==
    \A f \in Fid : (Used(f) /\ fids[f].qid.type = "dir") =>
        LET a == fids[f].aux
            n == IF fids[f].open /\ fids[f].qid = RootQid THEN RootInum ELSE a.inode
        IN  \/ /\ fids[f].qid = RootQid /\ ~ fids[f].open /\ a.entry = Nil
               /\ tree.kind[a.inode] # "dir" \/ faults > 0
            \/ \E lost \in IF faults > 0 THEN SUBSET DOMAIN tree.parts[n] ELSE {{}} :
                  Cached(heap, a) = Promise!Entries(n, lost)

(* A file system that has the inode of what a directory names with the     *)
(* directory or with the root, and whose inodes know as their parent the   *)
(* directory that names them, or the root, or nothing.                     *)
Complete(t) ==
    LET Known(m, n) ==
            \/ t.parent[m] \in {n, RootInum}
            \/ t.kind[t.parent[m]] = "none"
    IN  /\ t.kind[RootInum] = "dir" /\ Known(RootInum, RootInum)
        /\ \A n \in Inum : \A k \in DOMAIN t.parts[n] : \A e \in Range(t.parts[n][k].entries) :
              /\ Known(e.inum, n)
              /\ t.kind[e.inum] # "none" =>
                    \E m \in {n, RootInum} : \E j \in DOMAIN t.parts[m] :
                        e.inum \in Range(t.parts[m][j].inodes)

(* The fids implement the naming that is promised.                         *)
AbsSpec == Promise!Spec

(* One without devices, whose entries and parents all have inodes.         *)
Sound(t) ==
    /\ Complete(t)
    /\ \A n \in Inum : t.kind[t.parent[n]] # "none" \/ t.parent[n] = 0
    /\ \A n \in Inum : \A k \in DOMAIN t.parts[n] : \A e \in Range(t.parts[n][k].entries) :
          t.kind[e.inum] \in {"dir", "file", "link"}

(* As long as no load has failed, no sequence of requests on a sound file  *)
(* system ends the server, but for the walk beyond a file: an inode that   *)
(* is listed, walked to or walked up to is in the table by then, whichever *)
(* fid brought it there and however often the table was moved.             *)
KeepsServing ==
    (Sound(tree) /\ faults = 0) => server \in {"up", "nilBuffer"}

(* A name that is not there gets the error "notFound", and no walk ends   *)
(* the server.                                                             *)
WalksAreAnswered == server # "nilBuffer"
=============================================================================
