# A verification development for hammer2fs

hammer2fs serves a HAMMER2 partition, read-only, over 9P on Plan 9; `disk/label`
makes the partitions of a BSD `disklabel64` visible as files.  This directory
holds TLA+ modules translated from the code, TLC configurations that check them
on small instances, and TLAPS proofs of what holds for every value of the
constants.  The modules are translations of the code in `src/`; where a module
stands for something that is not in the repository (lib9p, the sd driver's ctl
file, the writer of the file system, the medium), its comments say so and it is
modelled as the code relies on it.

    tlc -config FileRead.cfg MCSeqReader       # one run; PROJECT.json lists them all
    tlapm FileReadProofs.tla                   # one module of proofs

Contents: [the system](#1-the-system), [the modules](#2-the-modules),
[the runs](#3-the-runs), [the proofs](#4-the-proofs),
[where code and documentation disagree](#5-where-the-code-disagrees-with-its-documents),
[what is left out](#6-what-is-not-modelled), [the plan](#7-the-plan).

## 1. The system

### Components, state and operations

| component | source | state | operations |
|---|---|---|---|
| start-up | `hammer2fs.c`, `thread.c` | `filename`, `root.pfsname` | options; start the console's proc, then the file server |
| volume headers | `hammer2.c` `readvolume` | `hd`, `volumehdr` (global), locals `vol`, `valid`, `volhdrno` | read four headers, check magic and CRCs, keep the newest |
| mount | `9p.c` `fsstart`, `hammer2.c` `loadinode` | `root` (global): inode, entries | super-root from the header's blockset, root of the name asked for, its entries |
| directory loading | `9p.c` `loadinodes`, `mkinode` | a chain of `Aux` as a stack, `DirEnts` (list, count, capacity), global table `inodes`/`maxinodes` | walk the tree of block references, list entries, enter inodes |
| file block list | `9p.c` `loaddatablocklist` | a chain of `Aux`, the linked list `datablocks` | walk the tree of a file's references |
| block loading | `9p.c` `verifycheck`, `loadblock` | the caller's buffer | read, check the hash, decompress |
| file reading | `9p.c` `fsopen`, `fileread` | per fid: `datablocks`, `lastbuf`, `lastbufoffset`, `lastbufcount` | open, read at any offset: embedded data, cache hit, hole, load |
| fids and names | `9p.c` `fsattach`, `fswalk`, `fswalkclone`, `loadsubdir`, `getfentry`, `fsstat`, `fsread`, `cacheddirread` | per fid: qid and `Aux` (inode, entries; a union with the cache of a file); buffers of entries on the heap shared by fids | attach, clone, walk one name, open, list, stat |
| console | `cons.c` | none of its own; reads `volumehdr` | `df`, `help` |
| `disk/label` | `util/label.c`, `util/edit.c` | `edit.part`, `edit.ctlpart`, the device's partition table | read a text or BSD label, list its partitions, compare with the device, send `delpart` and `part` |
| partition editor, expressions | `util/edit.c` commands, `util/calc.y` | the same lists | not reached by `disk/label` |
| LZ4, blocks | `lz4.c` | `LZ4_stream_t_internal`: hash table, offset, kind of table; the locals of a call | compress a block (into any room, or to fill a room), decompress a block, a part of one, or one whose decoded size is known |
| LZ4, streams | `lz4.c` | the same structure with a dictionary or that of another state; `LZ4_streamDecode_t_internal` of a receiver | reset, load or attach a dictionary, compress the next block, save the dictionary; set, decompress the next block |
| xxHash | `xxhash.c` | `XXH32_state_t`, `XXH64_state_t`: four accumulators, a buffer and its fill | hash a block; reset, update, digest |
| other codecs and hashes | libflate, libsec | none | pure functions |
| debugging dumps | `hammer2.c` `dumpinode`, `dumpblock` | none | not called |

### How they interact

- `threadmain` starts the console's proc *before* the file server, so `df` may
  run before, during and after the mount.  The two share only `volumehdr`.
- `fsstart` calls `readvolume`, then scans the header's blockset and the
  super-root for the root, then `loadinodes`, which also fills the global inode
  table.  All of this is done before the first request is served.
- `loadblock` hands the image to `LZ4_decompress_safe` and the caller's buffer with
  it, and `verifycheck` compares `XXH64` of the image with the reference.
- lib9p reads one request at a time and calls the handlers; there is no
  concurrency among handlers.  What varies is the order of requests of several
  fids, and what fids share: the inode table, and heap buffers of directory
  entries which `fswalkclone` hands from fid to fid by copying pointers.
- `fswalk` to a directory calls `loadinodes` again, which may grow the inode
  table; a name of more than 64 bytes is loaded from a block whenever it is compared
  or listed, and so is the inode of every entry that is found or listed.  `fsopen` of a file calls `loaddatablocklist`; `fileread` calls
  `loadblock`.
- The owner of the file system (DragonFly) writes volume headers in rotation,
  and may crash while it does; it is not in the repository, but it decides what
  `readvolume` can find.
- `disk/label` is a separate program.  Its standard output is meant to be the
  device's ctl file: every line it prints changes the device.

### What is hard about it

1. One-block caching with errors: `loadblock` decompresses into the cache before
   it knows whether the image is sound.
2. Arithmetic at edges: block, hole, file and buffer ends cut replies short in
   six places of `fileread`; an `int` holds a 64-bit distance.
3. Trees walked with hand-written stacks, while lists and tables grow, with
   blocks that cannot be read in between.
4. Unions and shared pointers in `Aux`: what a fid's cache means depends on the
   last walk, and several fids point at the same buffers.
5. Stale variables: results of `seek`, `read`, `loadinode` and of loading a long name
   that are printed or ignored leave the previous contents, or the stack's, in a
   variable that is used next.
6. A second proc that reads a structure while it is copied.
7. The LZ4 codec copies by 8 and 16 bytes beyond what it means to copy, keeps the
   hash table of one block for the next, and cuts a match short to fill an output;
   a streamed hash keeps a partial stripe between calls.
8. The blocks of an LZ4 stream depend on bytes that neither call is given: what came
   before, wherever sender and receiver keep it, while both overwrite it piece by
   piece.
9. `disk/label` replaces partitions with a sequence of separate commands, any of
   which may be refused, and may be killed between any two.

### What makes each component correct

- *File reading*: every byte of a reply is the file's byte (or an error is
  sent); a sequential reader reaches exactly the end; no assertion fails.
- *Directories and block lists*: exactly what is in the tree, in its order; a
  lost block costs what lies below it and nothing else, or, where no hash gives the
  damage away, has its bytes taken for references; no write outside memory.
- *Mount*: the newest intact header; the root that was asked for or none.
- *Fids*: a fid names the node that its walks lead to, whatever other fids do; no
  sequence of requests ends the server (but for the walk of section 5).
- *`df`*: an answer once the file system is mounted; figures that a header has, of one
  zone however the copy is overtaken, and never newer than what is mounted.
- *LZ4*: what is compressed decompresses to itself, nothing is written or read
  outside the buffers, and a block cut short or too long for its buffer never passes
  for a whole one (`loadblock` does not compare the count it gets with anything).  Of
  a stream: the message arrives, whichever of the documented ways of using memory its
  sender and its receiver have chosen.
- *xxHash*: the hash depends on every byte once, and not on how a stream was cut.
- *`disk/label`*: the device ends with the label's partitions; no unchanged
  partition is ever deleted.

`PROJECT.json` lists the hazards one by one at their lines, with the properties
that cover each.

## 2. The modules

    BlockIO --- FileRead --- SeqReader            BlockTree --- DirLoad --- Mount
    (loadblock)     |                                  |
                FileSpec (INSTANCE)                 FileMap

    VolumeHeader    Fids --- FidSpec (INSTANCE)    Label    XxHash
                    Lz4Encode, Lz4Decode --- Lz4Stream --- Lz4

Proofs, each module extending what it is about:

    FileReadProofs     BlockTreeProofs --- MountProofs         CodecProofs --- Lz4Proofs
    FidProofs                 |            (and VolumeHeader)  (XxHash, Lz4)
    LabelProofs        FileMapProofs

`MC*` modules define the instances.

**BlockIO** — constants and operators for one call of `loadblock`.  A block
reference is its key, span, stored length, check and compression method.  Bytes
are abstracted to *the offset they belong at in the file*, a zero, or `Junk`: a
byte that is not the right one shows as a wrong number.  `LoadBlock` yields the
set of possible results (error or not, and the buffer after it): intact or
damaged image, check method handled or not, decompression that fails half-way
after it has overwritten part of the buffer.  That a damaged block does not match
its hash is taken from the hashes.

**FileRead** — one fid.  `Open` is `fsopen`; `Read` is the disjunction of the
branches of `fileread` in the code's order (end, past the end, embedded, hit,
search, hole, load), with each failed `assert` as an action that ends the server
(`crashed`).  `End`, `Stops`, `Nearest`, `HitCount`, `HoleCount` (with the `int`),
`MissCount`, `DropCache`, `NameCache` are the lines' own expressions.

**FileSpec** — what reading promises, without cache, list or medium.  `FileRead`
instances it with its own `file` and `out` and with `May`, the values a byte may be
read as: the file's own, any value where a block without a hash may be garbled, and
any value if the list of blocks is out of order (redundant references, section 5).
`AbsSpec` is the refinement, checked on all files and proved (`ImplementsFile`).

**SeqReader** — a client that copies a file through the fid while others read
through it: liveness of short replies, failed loads and retries.

**BlockTree, DirLoad, FileMap** — block references as a finite graph
(`Refs[n]`: the references that block *n* holds).  `stack` is the `Aux` chain.  An
action per kind of reference met, and `Up` for the end of a level.  `Damaged` is what
the buffer of a level may hold when the load of its block fails or lets damage through.
A hash gives the damage away, and the buffer stays zero, which reads as empty
references.  Without a hash any bytes get there (`verifycheck` answers 1 to them and
`pread`'s result is not looked at: 9p.c:728-730, 774, 779-783), and each reference is
any of `Garbage`, whatever set of references that is (how many there are is told by the
reference's radix): entries, inodes, data, what ends
the server, and indirect blocks, from which the walk goes on.  `lost` has, for each place
of the tree where that happened, the references that were taken from the buffer.
`Below(set, lost)` is the reference the walks are compared with: the references under a
block set in the order of the tree, as it was read, that is, with `lost[p]` for those of
the block at the place *p*.  `Below(set, <<>>)` is the tree itself; `Hashed(set)` says that
all indirect blocks have hashes.  `Leaves` is a recursive function, so that it can be
proved about.  It is defined, and the walks end, in trees where no block is below itself
(`AcyclicAssumption`); the writer of a file system makes no other, and the code has no
guard against one.  (Garbage may name a block that the walk is in: the walk then goes
round once more for each time damage is let through, and so ends as `MaxFaults` bounds
that.  A medium that answers with such bytes for ever would keep the walk for ever.)
`DirLoad` keeps the capacity of the list and the inode table with
`maxinodes`; a write outside either is the end state `overrun`.  `FileMap` differs
as the code does: an error ends the server.

**Mount** — `fsstart`: the two nested loops as a position `at`, the variables
`suproot` and `root` that keep old contents when `loadinode` fails; when the root
is found, `DirLoad`'s own actions load it.  The blocks of super-roots and roots
themselves are taken to have hashes: `loadinode` fails and the variable keeps what it
held (`Loaded`).  A table for which there is no memory ends
the mount (`noMemory`), one that a root of the number 0 leaves empty is written to
(`overrun`).

**VolumeHeader** — the medium (zones, each header four parts stamped with the
generation that wrote them, so that a CRC matches exactly when its parts are of
one generation), its writer (parts reach the medium in any order; crash; rot),
`readvolume` one zone at a time, the copy of `volumehdr` field by field, and
`cmddf` reading field by field.  Data races are thereby nondeterministic choices
at the width of a field.  `df.early` counts the figures a `df` read before the copy was
complete, and so tells its last read, the divisor, from the others.

**Fids, FidSpec** — a fid is a qid, its `Aux` and whether it is open.  `heap` holds
the buffers of entries, `Aux.entry` points into it; the union is modelled by `Clone`,
`Enter` and `Open`, which set the fields the code sets and leave the others.  The
file system that is served is a constant tree: of each inode its kind, its parent, and
the parts (direct, or behind an indirect block) that its entries and the inodes it
holds lie in.  `Loads` is what `DirLoad` shows of a call of `loadinodes`: entries
listed, inodes entered in `table`, `maxinodes` grown, the parts lost whose block does not
load.  `LoadInode` is a load into a variable that keeps what it held when the load
fails, or when the slot of the table was never entered; `GetFEntry` lets one number
past the table's last slot pass, as the code does.  A name that is loaded from a block
and cannot be read is whatever the stack held, so it may match.  `Walk` is lib9p's clone and step over
at most two names.  The server ends by a nil buffer, a nil entry, or `sysfatal`.
`FidSpec` is the naming promise over places: the node a fid names, the node its walks
start at (`.` makes the two differ), and whether it is a directory.
`Complete(t)` says that what the directories of a file system list is there, `Sound(t)`
also that their listings meet nothing the code ends at.  `UnusedAssumption`: the mark of
a fid that is not in use is no fid.  Without a failed
load walks lead where the names lead and directories list all their entries; `failed`
says what a load that failed may cost.

**Label** — `disk/label`: reading either format, the list, names made up by
writing over string literals (`lit`: what each literal reads as now; with `packed`
the compiler may have put literals next to one another: a chain of suffixes then runs over
those behind, and those before whose end is overwritten read on, `Overrun`), `ctldiff` as deletes and
adds in the code's order with `Refused`, `Kill` and further runs of the program.
Offsets pass through an `int` (`AsInt`).  `Words` are the names the literals
may be overwritten with.  `Live` are the entries a label has partitions for: in a text
label those of some length, in the other format those of a type.  `DeletesOnlyChanged`
is about what lies inside the disk partition, which is all that `rdctlpart` reads.

**Lz4Encode, Lz4Decode, Lz4** — `LZ4_compress_generic` and
`LZ4_decompress_generic`, one action per part of the main loop (search, literals,
match, test of the next position, last literals; shortcut, literals, match).  Blocks,
tokens, length bytes and offsets are the real ones, as sequences of bytes; `high`,
`written` and `readTo` record how far any copy, by 8 or by 16, ever reached.  The hash
of a word is a weighted sum modulo the number of slots: the properties must hold for
any hash, and one slot makes every word collide.  Each takes the code's template
arguments in its `job` or `mode`: where the block, its prefix and its dictionary lie
in memory, which is an array of bytes by address, and which of them matches may reach.
`Lz4` compresses the blocks of a buffer one after the other with one state, by any of
four calls, and gives each result to the decompressors: with room to spare, too little
room, a part of it asked for, or the block cut short.  Parameters are `KB64` (64 KB;
`MAX_DISTANCE` is one less), `KB4` (4 KB, above which a used table is cleared), and the
1 GB and 2 GB at which a state is cleared or its indexes are rescaled.

**Lz4Stream** — a message sent block by block.  The sender's state is `ctx`
(`Loaded`, `Attached`, `Renormed`, `Tidied`, `Unoverlapped` are the steps the calls take
on it, `Continue` their choice of dictionary mode, `SaveDict` the move of the last
bytes); the receiver's is `sd` (`Told`, `Switched`, `ContinueArgs`, `DictArgs`).
`WriteBlock` puts the next block where the sender's way of using memory tells, and so
overwrites what lies there; `Receive` does the same at the other end.  A `way` is one
pair of those lz4.h describes.  `Failed` is a block that did not fit: the stream is
begun anew, as lz4.h requires.

**XxHash** — both widths.  The arithmetic is symbolic: an accumulator is the seed and
the words its rounds took, a hash is the accumulators, the length and the finishing
steps.  Two hashes that are equal here are equal for any primes and rotations.

`PROJECT.json` ("map") gives the lines each definition stands for.

## 3. The runs

Passing runs:

| run | what it asks | instance, and why it is enough |
|---|---|---|
| `file_read` | is the cache coherent, are the replies true, do they advance, do the asserts hold, for files the code can and cannot serve; does a copy end, and where; does `FileRead` implement `FileSpec` | 12 files of up to 8 bytes (one of 19 for the `int` of 16 values), blocks of up to 3 bytes: full and short blocks, leading, middle and trailing holes, empty and embedded files, hashed, unhashed and unknown methods, overlong and unsorted lists; all offsets to one past the end; counts 1, 2, 5 (shorter, equal, longer than a block); two damaged loads; a client copies the file with count 5 while others read anywhere in between.  Every branch and every way a reply is cut short occurs |
| `volume_header` | newest intact header, nothing lost in a crash, `df` answered and its figures those of one header, not newer than what is mounted | 4 zones as in the code, device cut off after any of them, 3 generations (the rotation passes over a torn header and over a completed one), one rotten part |
| `file_map` | is the list of a file's blocks complete and in the order of the tree, is no lost block served as a hole, does the walk end | every set of four references out of 6 kinds over indirect blocks two deep; two damaged blocks, of which one without a hash is taken for any five kinds of reference: nothing, other data, what ends the server, an indirect block of no size, and the block itself again, so that garbage is met at every depth |
| `mount` | is what is served what was asked for, listed completely and in order, its inodes entered, in bounds | volumes with every combination of four references over two super-roots, roots of the same name, one behind an indirect block; and volumes whose root has every set of three references out of 6 kinds, and an entry, over four indirect blocks, two deep, one of them without a hash: damaged it is any list of an entry and an inode the tree does not have, nothing, what ends the server, and itself again.  First capacity 2, so that the list grows at every depth; tables with room for the root, for one more, or for nothing; two failing loads among inodes and blocks |
| `fids` | naming promise kept, cached entries belong to the inode, the server stays up | 2 fids, which is a fid and its clone: what a third adds is another owner of a shared buffer, and no step looks at more than the buffers that are pointed to.  Three file systems: all inodes in the root, with a link, an empty directory and a long name behind an indirect block; inodes in their own directories, so that walks grow the table; and an unsound one with numbers past the table, one past it, 0, and a device.  A table of two slots at first, so that it grows while the root is loaded and again in walks; one failing load; paths of up to two names.  Fids are symmetric, no property tells them apart |
| `label` | list good, device right after a run, only changed partitions deleted | all labels of up to three entries out of 6 (zero, overlapping, adjacent, equal starts, equal types), text labels with a bad line, overfull labels, an entry of no length, one that reaches past the disk partition, one with its name; devices with every consistent subset of five earlier partitions inside, across and outside; one refused command, failing read or kill, then any number of reruns |
| `lz4` | is what is decompressed what was compressed, does every copy stay inside, are blocks that do not fit or are not whole refused | 79 buffers: every three of four pieces (a byte, a run, a cycle of three, bytes without repetition) and a tail; cycles of 2 to 9 bytes (each row of the decoder's two tables); runs of 310 and 1300 (lengths of several bytes of 255, one of each kind of overflow check); a word again at the far end of the window and one behind it; three blocks of one buffer with one state, so that a table is kept, cleared or left behind.  1 slot and 97; room for nothing up to compressBound; accelerations 1 and 3; decoding with -9 to +30 bytes of room.  Streams: words that come again after 5, 12, 16, 31 and 32 bytes (within a copy of 8, within a block, at the far end of the window, outside it), with and without odd bytes.  Senders with a ring of two largest blocks or a larger one, two buffers, or one buffer that saves 32, 10 or 3 bytes; receivers with the ring of `LZ4_DECODER_RING_BUFFER_SIZE`, one in step with the sender's, one larger by a block, or one buffer with the history next to it or a byte away, safe and fast; dictionaries of 3, 7, 11 and 40 bytes, loaded or attached, adjacent or a byte away; blocks that do not fit; new streams with a state reset or reset fast; the forced external dictionary.  Rings of 85 and 132 are sent round to the rescaling of indexes |
| `xxhash` | is a stream's digest the hash of the whole, and does the hash take every byte | both widths, pieces of 0 to 36, 48, 63, 64 and 65 bytes (all sizes around a word, a half word, a stripe and two), up to 100 bytes, two seeds, two streams of one state |

`mount` checks `DirLoad` with it: the root is loaded by `DirLoad`'s own actions.

The run `lz4` holds with a condition that the finding `dest_size` makes necessary
(section 5): blocks that `compress_destSize` leaves with fewer than five last literals
are excepted from `RoundTrip` and `WholeOrRefused` (`TailKept`).  Parts are asked for
only within the decoded size.  A window of 32 bytes instead of 64 KB, a limit of 20
instead of 4 KB, and 50 and 100 instead of 1 and 2 GB leave every comparison with them
as it is; all other constants of the codec are the real ones.  Blocks of up to 22 bytes
(`MaxBlock`) are longer than `KB4` or not, and a ring of two of them is longer than the
window.  That a ring has room for two of the largest blocks is a condition too, which
the finding `ring_buffer` makes necessary.

Runs that find a documented claim violated (findings): `trailing_hole`,
`file_step`, `ring_buffer`, `dest_size`; see section 5.

Deadlock is checked for `volume_header`, where something can always
happen (the server can be started or stopped).  The other systems may really
stop: a program ends, a buffer is compressed, a stream is at its bound, a server that aborted runs no more.

**Bounds.**  `MaxFaults`, `MaxRot`, `MaxTrouble`: how often the environment may fail.
`MaxGen`: generations written.  They appear in guards of environment actions
only.  `MaxTable` is memory.
`FirstMax` is the `inode_count` of the volume, the size the table starts with.
`MaxLength` and `Streams` bound what a caller of xxHash feeds; `Slack` and `Lost` are
the differences in size a decoder is called with.  No bound cuts off an action of the code.

**Fairness.**  `FileMap` and `Mount` (with the steps of `DirLoad`): weak fairness of the whole
next-state relation: one proc runs the function, and waits for nothing but the
disk.  `SeqReader`: weak fairness of the client's own open and read, since lib9p
takes every request it reads to its handler; none for other clients.  Retries end
because a medium that fails for ever is excluded by `MaxFaults`.  The other
modules assume no fairness and state no liveness.

## 4. The proofs

Every theorem holds for all values of the constants that the named assumptions of
the modules allow; there are no other hypotheses, except where one is stated.  Almost
no invariant that the runs check is inductive as it stands; what follows names the
strengthening and why it is needed.

`FileReadProofs` (every set of files, requests, buffer size, `int` range and
number of faults):

- `TypeCorrect`: `Spec => []TypeOK`, where `TypeOK` says also that `datablocks` is
  the file's list once opened.
- `CacheIsCoherent`: the cached bytes are those of the block the cache names.  With
  `TypeOK` it is inductive: `LoadBlockResult` and `ReadBlockResult` say what any
  outcome of a load leaves in buffer and count; all other branches leave the cache.
- `RepliesDoAdvance`: lemmas `HitFacts`, `HoleCountFacts`, `MissFacts` bound the
  three counts; each needs where the search ended (`PassedBy`, `NearestIs`).
- `RepliesAreTrue`: for sorted lists.  The step needs `CacheCoherent` for hits;
  `HoleIsZero` says that between the offset and `Nearest` no block has a byte, and
  is where sortedness is used.
- `AssertsDoHold`: no assert fails for a file that is *servable*: sorted, blocks no
  longer than their spans, no hole at the end, within the range of an `int`, no
  freemap check, no request of zero bytes.  The runs show that the conditions are
  needed.
- `ImplementsFile`: `FileRead` implements `FileSpec`.  An open maps to a stutter, as does
  an assert that fails, and each branch of `fileread` that answers to one read of the
  promise; `RepliesAdvance` and `SortedRepliesTrue`, now as invariants, give what the
  abstract step requires of the count and of the bytes.

`MountProofs`, of the volume headers (every number of zones, generations and faults):

- `TypeCorrect`.
- `MountsNewest` (`ChosenNewest`) and `MountsSynced` (`SyncedNotLost`).  The
  strengthening has two halves.  `MediumInv`: only the zone being
  written mixes generations, nothing is newer than the last completed generation,
  and that generation survives in a zone other than the one being written (this is
  what the rotation is for, and why two zones are needed).  `ServerInv`: of the
  zones read so far the newest intact one is in `hd`, and `vol` is the stack's
  contents or a header already read — which is why a short read, that leaves `vol`
  alone, is harmless to the choice.  `ChecksMeanIntact` turns the code's checks
  into intactness.
- `DfIsAnswered` (`DfAnswers`) and `DfShowsOneHeader` (`DfFigures`), for two procs that
  interleave at the width of a field.  The invariant: `vol` is what the last zone of the
  device holds once it is read (`HoldsLast`, the code's bug that makes the figures
  those of the last header); of `volumehdr` the fields copied so far are of it and the
  others zero (`Exported`); each figure a `df` has read is zero or what `volumehdr` has
  (`DfTracks`), and behind the `early` ones it is the last zone's (`DfLate`).  A
  `df` whose division comes after the copy is answered, however early it started; one
  that overlaps the copy may mix the last header's figures with zeros, and shows nothing else.

`BlockTreeProofs` (lemmas; every tree without cycles) are about the walks with a
hand-written stack.  `LeavesIs` shows that the recursive reference `Leaves` is defined
and unfolds; `FlattenIs` and `FlattenMore` do the same for the library's fold.
`WalkInv(top, lost, stack)` is what both walks rely on: each level has a block of the
tree, or the buffer that `lost` has for its place, and the one above it stands at its
reference.  `Walked(lost, stack)` is what the levels have passed, one after the other.
`WalkPasses`, `WalkEnters`, `WalkLeaves`: passing a reference adds it to `Walked`,
entering a block or losing one adds nothing, leaving a level neither adds nor loses
anything; `WalkEnds`: at the end `Walked` is the tree as it was read, `Below`.  What a
damaged block is taken for may lead on to any block, so a place, not a block, is what is lost.

`FileMapProofs`: `RestIsListed` (`RestListed`) and `AllOrNone` (`AllBlocksOrNone`).
`MapInv`: the list is the data references of `Walked`, and while all indirect blocks
are hashed nothing was lost, since a lost one ends the server.  Both hold for any set
`Garbage`.

and of the scan and the loading (every volume, tree, size of list and table, and number
of faults):

- `MountsWhatWasAsked` (`MountsAsked`) and `FindsWhatIsReadable` (`FoundIfReadable`).
  `ScanInv`: `suproot` and `root`, which keep old contents when `loadinode` fails, hold
  an inode of this volume or nothing (`SuprootKept`, `RootPassed`), and while nothing
  failed no reference that was passed led to a root of the name (`Searched`).
- `NothingIsInvented`, `StaysWithinMemory`.  `LoadInv`: the table has room for what is in
  it, no list outgrows its memory, and the mount's own inode and list stay (`RootKept`).
  `KnownInv`: what a level of the stack may add is of the tree, or was taken from a lost
  buffer (`BlockIsRead`), and while all blocks are hashed those buffers are zero
  (`DamageIsZero`), so that only an empty reference comes of them.
- `RootIsServed` (`RootServed`): the list and the table are those of the tree as it was
  read, complete and in order.  `ServedInv` is `WalkInv` with the entries and the inodes
  that `Walked` has.
- `RootStaysListed` and `InodesDoStay` (an action property): `mkinode` keeps what it
  moves.  No run states these two.

`FidProofs` (every set of trees, fids and paths, any number of failed loads):

- `FidTypes`, `FidsListTheirInode` (`DirListsItsInode`), `FidsKeepServing`
  (`KeepsServing`: while loads succeed a sound file system's server ends by the nil buffer of
  `file_step` only, section 5), and the refinement `FidsNameNodes`: under `Complete(tree)`, `Fids`
  implements `FidSpec`.  `FidInv` says of each fid what its union means: a directory's
  has what a load of it lists (`Caches`, in a buffer that others may share: no handler
  writes a buffer another fid points to), a file's has nothing, and the one case where
  the qid and the cache disagree is spelled out (`Leftover`).  `AtHome` is what makes
  `..` work: while no load failed the inode a fid is at, its parent, its parent's parent
  and so on are in the table (`Home`: some set of inodes of the table has them all), and
  so are those its entries name (`Stocked`).

`LabelProofs` (every label, device, number of refusals and kills, both layouts of
literals):

- `LabelTypes`, `ListIsGood`, `TableIsTheLabels`, and the action property
  `OnlyChangedAreDeleted` (`DeletesOnlyChanged`).  `LabelInv` has a part for the list
  while it is read (`ReadInv`: its order, names and extents of the entries so far) and
  one for what `ctldiff` believes of the device (`DiffInv`: what it read and did not
  change is still there; what is stale is neither equivalent nor unchanged; with no
  error so far what was added is there).

`CodecProofs`, about what the server calls:

- `StateHoldsTheTail`, `DigestIsOneShot`, `HashTakesEveryByte`: the three properties of
  xxHash, for streams of every length, cut anywhere, both widths.  `HashInv`: the
  accumulators are those of the whole stripes fed so far, the buffer has the bytes
  behind them, and `memsize` is the rest of a division.  The loops of the code are
  recursive functions over stripes; `RoundsAre`, `FinishIs` and `LanesAre` say what they
  come to.
- `DecodesInside`: `DecSpec` is the decompressor called again and again, for blocks of
  *any* bytes and any memory, as `LZ4_decompress_safe` and its variants with a prefix or
  a dictionary call it.  `StaysInside`: no copy, those by 8, 16 and 18 included, goes
  past `dst` or `src`, and the result fits.  `DecInv` says where a sequence may start:
  in the input with a byte to read, in the output not past its end, and, for a match,
  with 8 bytes left for the first copy whatever its length turns out to be.  It is the
  decoder's part of `CopiesInside`, without the encoder: what is on a medium need not
  come from one.  That is also why it is about whole blocks and given sizes only:
  `LZ4_decompress_fast` has to trust its input, and in a part of a block the distance to
  the end of `dst` is what the caller makes of it.

`Lz4Proofs`, about the compressor, for every input, window, number of slots and size of `dst`; for a
block alone, a row of blocks with one state, or a stream in any memory of which lz4.h:279
tells (`Documented`: a ring has room for two of the largest blocks, a dictionary lies
within the buffer it is in front of, and the forced external dictionary, a function for
tests, is not used):

- `MatchesInWindow` (`MatchInWindow`): what a match refers to is in the block, in what
  lies in front of it or in the dictionary, before the word it stands for and within
  `MAX_DISTANCE`.  The table says only *where* a word was seen, in indexes of an
  earlier call; `EncInv` says what those still mean.  `StateOK`: no index is above
  `currentOffset`, and those of the kind of table at hand are behind it by as much as
  the dictionary has bytes, or too far to be taken.  `LoopOK` and `AtMatch` carry that
  through the search, with `anchor`, `ip` and the ends of the input.  Each of
  the calls between blocks has its lemma (`Renormed`, `Tidied`, `Unoverlapped`, loading,
  attaching, saving): a dictionary of fewer than four bytes is dropped, a part that the
  input overwrites is cut off, and indexes near the limit are moved down together.
- `EncodesInside` (the half of `CopiesInside` that is the encoder's, in streams too) and `CallsSucceed`
  (`Succeeds`).  `RoomOK` has for each of the three output directives how far `dst` may be at each
  place of the loop (`Directed`), and how long it is for what it has consumed (`Growth`:
  at most 256 bytes of `dst` for 255 of `src`, and what a token and its literals
  may be ahead; without the limit that is what `LZ4_compressBound` rests on).  Both are stated of blocks that the code's own estimate is right for
  (`Estimated`: no limit on the output, or no more than 128 KB; the server's are at most
  64 KB): the length of a match is estimated at a byte for every 256 where the loop
  below writes one for every 255 (lz4.c:763), which for long matches is more than the
  reserve.  Of longer blocks in a limited `dst` nothing is claimed.
- `HistoryStays` (`HistoryKept`): what the compressor takes for its dictionary is the end
  of what the receiver has decoded.  `StoryOK` says of each of the sender's ways of using its
  memory which bytes of the message are where (`Shows`), between blocks (`IdleStory`)
  and while one is compressed (`BusyStory`); that the block which now
  arrives overwrites nothing of the dictionary is what each of the documented ways is
  needed for, and what the ring of `ring_buffer` fails.

and about compressor and decompressor together, for every input, state, size of `dst` and
of the buffer decoded into, and cut, in the calls of one block (`InBlocks`: alone or in a
row with one state):

- `BlocksComeBack` (`RoundTrip`), `PartsAreTold` (`WholeOrRefused`) and `CopiesStayInside`
  (`CopiesInside`).  `RoundInv` does not say what a prefix of a block decodes to.  It says
  what the block *tells*: there is a set of marks, pairs of a place in `dst` and the
  number of source bytes told before it, such that from each mark a sequence (literals
  that are the source's, and a match whose bytes are those of the source as far
  back as its offset) leads to another mark or it is where the last literals start (`Goes`
  while the block is written, `Tells` when it is whole).
  The set, not a recursion over the block, is what keeps this within the prover's reach: a
  step of the compressor adds a mark and changes no byte in front of it (`Recorded`).
  Two places of the code go back on what is written, and neither reaches behind the last
  mark: the length of a match is added to a token that is in `dst` already, and a match
  for which `dst` has no room is taken out again with its literals (lz4.c:721-726).
  The decoder then walks from mark to mark (`OnTrack`): at a token what it has written is the
  source up to that mark, in the middle of a sequence also the offset, and when it ends
  what it answers (`Answers`).  `Tracked` says that this is the case for what this
  compressor told.  There is a lemma for each step of the decoder: `ShortcutTracks`
  (the two copies of fixed size), `LiteralsTrack`, `CopyTracks` (of a match that overlaps itself and is
  spread by the two tables too), `LastTracks`, and `RefusedTracks` for blocks cut short.
- Their hypotheses.  `Fillable`: where `dst` is to be filled, the block is of no more than
  128 KB, for the same estimate (lz4.c:763) as `Estimated` above: a longer one may overrun.
  `TailKept`, a premise within `RoundTrip`, and for `LZ4_decompress_fast` of
  `CopiesStayInside`: the block ends in five literals, which `dest_size` shows not to be
  so of all (section 5); `LZ4_decompress_safe` stays inside without it.  Where
  `dst` is not to be filled `Fillable` is true, and the code ends every match five bytes
  before the block's end (`matchlimit`).
- A stream (`way.sender # "blocks"`) is not covered by these three: see below.

Two techniques carry these proofs where induction over data would be wanted: a
recursive *function* over numbers is unfolded by showing that the set of numbers at
which it is as claimed has all of them (`Counting`, `NatInSet`, `CountUp`: well-foundedness
of the numbers, from the library), and a fold or a recursion over a tree by the rank
that `AcyclicAssumption` gives its blocks.

**What the attempts to prove showed.**  These were wrong or missing in the model or in
a property, and are corrected; the runs check the corrected form:

- `KeepsServing` held for the three trees of the run, but the condition `Sound` was too
  weak for others: inodes whose parent is a number that nothing has, or is not the
  directory that lists them, end the server too (`..`).  `Complete` and `Sound` now say so.
- `DirListsItsInode` has one more exception than "after a file": what was *taken* for a
  file when a load failed.
- `Found` made the mount's first table whatever its size, so that no bound on the table
  was inductive: a table for which there is no memory now ends the mount (`noMemory`).
  And the assumptions did not say that a header and a super-root have four references
  each (`Blockset`), which the code's loops count on.
- `ListGood` counted entries of no length in both formats; `label.c` skips them in
  text labels only.
- `DeletesOnlyChanged` was false of partitions that are or reach past the disk
  partition: `rdctlpart` does not read them, so an equal line of the label does not keep
  what is inside.  The property is now about what `rdctlpart` reads, and the run has
  such labels.
- `Below` was defined by a recursion that nothing made well-founded.
- `MatchInWindow` had been stated of every match found.  It is false of some: a match that
  is cut short to fill `dst` (lz4.c:763-770) may end before the word whose place is in the table already,
  when it was found there and extended backwards (lz4.c:684), and the word at the cut then
  "matches" one ahead of it.  `dst` is so full by then that this match is given up before it is written
  (lz4.c:721-726).  The property is now about the matches that are written, and the
  invariant has the case (`Full`).
- `Succeeds` had said that `destSize` fills `dst` but for one byte.  It leaves one more
  for every 255 * 255 bytes, since it estimates how long the length of the last literals
  will be from the room there is, not from what is then left for them (lz4.c:859-860); the
  first `dst` in which that shows is one of 65041 bytes, far beyond the run's.

**Model-checked only.**

- Liveness under fairness: `CopyCompletes`, `Ends`, `Settles`; the prover has no rule
  for `ENABLED`.
- Of a stream that is sent and received (`Lz4Stream`): `RoundTrip`, `WholeOrRefused` and
  the decoder's half of `CopiesInside`.  There the source of a match is in what earlier
  blocks left in the receiver's memory, in a prefix or an external dictionary or both, and an
  invariant would have to carry what each of the receiver's ways keeps of the message
  through all blocks, as `StoryOK` does for the sender.  The sender's half, `HistoryKept`
  and `MatchInWindow` (the match is of bytes that are the message's, and near enough), is
  proved.
- The four runs that find a claim violated.


## 5. Where the code disagrees with its documents

With runs:

- `trailing_hole`: line 666 overwrites `nearest` with every element passed, so a read
  in a hole at the end of a file that has data fails `assert(nearest >
  r->ifcall.offset)` (9p.c:683); the server aborts.
- `file_step`: a Twalk of two names whose first is a file reads through a nil
  pointer (9p.c:402, 313-315) instead of answering `not found`.
- `dest_size`: `LZ4_compress_destSize` estimates the bytes a match length takes by
  `matchCode>>8` (lz4.c:763), where they are counted by 255.  A match that just passes
  the test can leave room for four last literals; `LZ4_decompress_safe` refuses the
  block (lz4.c:1498).  1300 equal bytes into a `dst` of 15 show it.  The server only
  decompresses.
- `ring_buffer`: lz4.h:290 says that an input buffer that is a ring "can have any size,
  including < 64 KB".  `LZ4_compress_fast_continue` notices that a block has overwritten
  part of the dictionary only when the block ends inside of it (lz4.c:1167).  In a ring
  without room for two of the largest blocks it may end at the dictionary's end or
  beyond; old indexes then name places in the block itself, and a match found there is
  told by the distance of what was overwritten.  Two blocks of 22 bytes that begin
  alike, in a ring of 30, show it: the second arrives as the first.  Nothing in the
  repository sends streams.

Met while modelling, stated by no run (each is in the modules, as the code has it):

- a hole of a multiple of 2^32 bytes fails the assert of line 688, as its length is
  put in an `int` first (9p.c:684);
- a read of embedded data is not clipped to the count asked for (9p.c:624-626): the reply
  may be longer (`RepliesAdvance` says this of files in blocks only);
- a read of zero bytes before the end of a file in blocks fails `assert(count > 0)`
  (9p.c:649, 688, 714; `AssertsHold` is about requests of one byte or more, and the
  runs have no other, so they do not show that the condition is needed);
- `df` shows the header read last (`volumehdr = vol`, hammer2.c:105), accepted or not,
  and so the figures of an older generation than the one mounted when the newest
  header is not in the last zone (`DfFigures` says what is left of the promise);
- sectors of a 64-bit label are kept in an `int` (label.c:260, 300): a partition that
  starts at sector 2^31 or later does not appear on the device (`ListGood` is about
  labels within the range);
- redundant references: hammer2_disk.h:733-740 says that a block set is an unsorted
  array with duplicates.  `fileread` stops at the first element past the offset
  (9p.c:672-674), so of an unsorted set it serves zeros for data; `loadinodes` lists
  a duplicate as often as it is there (9p.c:216);
- a root whose reference was moved into an indirect block (hammer2_disk.h:745-746)
  is not found (9p.c:97-98);
- `df` before the mount, or one whose division comes before that field is copied, divides
  by the zero in `allocator_size` (cons.c:45; the console starts first,
  hammer2fs.c:65-66); one that overlaps the copy may show some figures of the header and
  some zeros;
- an indirect block without a hash is walked whatever was read of it: `verifycheck` has
  nothing to compare (9p.c:728-730), `pread` may have failed (9p.c:774), and any bytes are
  references (9p.c:779-783), so that entries, inodes and blocks may be listed that no
  directory or file has.  `NothingInvented`, `RootServed` and `RestListed` say that no more
  than that happens;
- a long match in a limited `dst` may be estimated short by more than the six bytes in
  reserve: `matchCode>>8` (lz4.c:763) against a byte for every 255, so from some 400 KB of
  match on.  The length is then written past the end of `dst`, where lz4.h:124 says that
  `LZ4_compress_default` never writes outside; such sizes are beyond the runs, and excepted
  from the theorems.  The server only decompresses;
- the error of an indirect block is only printed (9p.c:242-245): entries listed may
  have no inode (`getfentry`, 9p.c:60-61), and listing them may end the server (`KeepsServing` is about
  sound file systems and loads that succeed);
- `getfentry` refuses a number greater than `maxinodes` (9p.c:63), which lets the
  one past the last slot read what lies behind the table;
- `.` answers with `Aux.Qid`, which is set at attach and never again
  (9p.c:374-377, 122); `..` of the root leads to inode 0 (9p.c:371-373);
- a long name that cannot be loaded is compared and listed as what the stack held
  (9p.c:295), and so is the type of an inode that cannot be loaded (9p.c:281, 336): a walk may reach an
  entry it did not name, and a listing may end the server.

## 6. What is not modelled

- LZ4: the table of pointers a 32-bit machine uses for large blocks, which differs in how
  an entry is kept only; the calls that allocate a state, and the obsolete names, which
  call those that are modelled; accelerations other than 1 of a stream.
- The arithmetic of xxHash, and that a damaged block has another hash.
- libflate and libsec are not in the repository; BlockIO has what the callers rely on.
- More hazards than a model tells apart: a name of exactly 64 bytes is not terminated
  in `check.buf` (9p.c:289); a label may count more partitions than the 16 of the
  structure read (label.c:270); when the console's pipe is closed `consproc` spins
  (cons.c:69).
- The partition editor's commands and `calc.y`: `label.c:65` sets `printflag`, and
  lines 106-109 exit after the one command `P`.
- `dumpinode`, `dumpblock`: not called.
- Formatting: contents of stat replies, the text of `df` and `help`, the splitting of
  directory reads over messages (lib9p's `dirread9p`).
- Names are values: the 64-byte buffer for names is not looked into.  Of a name stored
  in a data block the model has that it may fail to load, not its bytes.
- More than two names in one walk, and directory reads that end in the middle.
- `disk/label`: lines of the ctl file beyond 4096 bytes or 128 lines, more than 16
  entries in a label; both read what is not there.
- Allocation failures, except that of the inode table in `DirLoad`.
- The structures of the on-disk format that only a writer uses.

## 7. The plan

Done: models of file reading, volume headers, directories and mount, fids over a
growing table of inodes, `disk/label`, the block codec, its streams, and the hash; and
proofs of every property of theirs but liveness and those of section 4, "Model-checked
only".  Next:

1. *Composition*: an opened file of `Fids` with the list that `FileMap` makes and the
   cache of `FileRead`.
2. *LZ4 streams, the round trip*: `RoundInv` over the blocks of a stream, with what each of
   the receiver's ways keeps of the message.
3. *Label*: lines and entries beyond the tables' room.
