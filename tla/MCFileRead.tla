----------------------------- MODULE MCFileRead -----------------------------
(* Small instances of FileRead: files of at most 8 bytes in blocks of at   *)
(* most 3, every offset up to one past the end, requests of 1, 2 and 5.    *)
EXTENDS FileRead

Block(key, len, dlen, check, comp) ==
    [key |-> key, len |-> len, dlen |-> dlen, check |-> check, comp |-> comp]

InBlocks(size, blocks) == [size |-> size, direct |-> FALSE, blocks |-> blocks]
Embedded(size) == [size |-> size, direct |-> TRUE, blocks |-> <<>>]

(* A full block, a hole, a short last block. *)
Holed == InBlocks(7, << Block(0, 2, 2, "xxhash64", "lz4"),
                        Block(5, 3, 2, "sha192", "none") >>)
(* A hashed block before and after one that no hash protects. *)
Mixed == InBlocks(6, << Block(0, 2, 2, "xxhash64", "none"),
                        Block(2, 2, 2, "none", "lz4"),
                        Block(4, 2, 2, "iscsi32", "zlib") >>)
(* A leading hole, an unverified plain block, an unhandled method. *)
Odd == InBlocks(6, << Block(1, 2, 2, "disabled", "none"),
                      Block(3, 2, 2, "unknown", "none"),
                      Block(5, 1, 1, "xxhash64", "unknown") >>)
AllHole == InBlocks(4, <<>>)

SoundFiles == {Holed, Mixed, Odd, AllHole, Embedded(4), InBlocks(0, <<>>)}

(* Files the code meets and cannot serve as the asserts claim. *)
Trailing == InBlocks(6, << Block(0, 2, 2, "xxhash64", "none") >>)
Wide == InBlocks(19, << Block(17, 2, 2, "xxhash64", "none") >>)
Unsorted == InBlocks(4, << Block(2, 2, 2, "xxhash64", "none"),
                           Block(0, 2, 2, "xxhash64", "none") >>)
BeyondEnd == InBlocks(2, << Block(2, 2, 2, "xxhash64", "none") >>)
Freemap == InBlocks(2, << Block(0, 2, 2, "freemap", "none") >>)
Oversized == Embedded(6)

HardFiles == SoundFiles \cup
    {Trailing, Wide, Unsorted, BeyondEnd, Freemap, Oversized}

TrailingHole == {Trailing}
AllOffsets == 0 .. 8
WideOffsets == 0 .. 20
=============================================================================
