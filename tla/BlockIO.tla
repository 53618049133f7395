------------------------------- MODULE BlockIO -------------------------------
(***************************************************************************)
(* loadblock() and verifycheck() of 9p.c: what reading one block can       *)
(* return.                                                                 *)
(*                                                                         *)
(* Bytes are abstracted to what a reader can tell apart: the byte at       *)
(* offset o of a stream is the token o; a byte the medium never held is    *)
(* Junk.  A block reference is a record                                    *)
(*     key    offset of its first byte in the stream,                      *)
(*     len    the span of keys it stands for (1 << keybits, at most 64 KB),*)
(*     dlen   the bytes an intact image decodes to,                        *)
(*     check  its check method,   comp  its compression method.            *)
(*                                                                         *)
(* The result of pread() is never looked at: a failed or short read leaves *)
(* the stack buffer as it was.  Such a read and a rotten medium are the    *)
(* same thing to the code, an image that is "damaged".                     *)
(***************************************************************************)
EXTENDS Integers

CONSTANT
    BufCap      \* bytes in a block buffer (HAMMER2_BLOCKREF_LEAF_MAX+1)

ASSUME BufCapAssumption == BufCap \in Nat \ {0}

Zero == -1                  \* a byte of a hole
Junk == -2                  \* a byte no part of the stream ever held
Byte == Nat \cup {Zero, Junk}
Buffer == [0 .. BufCap - 1 -> Byte]

Hashes == {"iscsi32", "sha192", "xxhash64"}
CheckMethods == Hashes \cup {"none", "disabled", "freemap", "unknown"}
CompMethods == {"none", "autozero", "lz4", "zlib", "unknown"}
Images == {"intact", "damaged"}

BlockRef == [key : Nat, len : 1 .. BufCap, dlen : 1 .. BufCap,
             check : CheckMethods, comp : CompMethods]

(* The images verifycheck() lets through; "freemap" is its assert(0). *)
VerifyCheck(block, image) ==
    \/ block.check \in {"none", "disabled"}
    \/ block.check \in Hashes /\ image = "intact"

Payload(block, image, i) == IF image = "intact" THEN block.key + i ELSE Junk

(* dst with its first n bytes replaced by those of the image. *)
Overlay(block, image, dst, n) ==
    [i \in 0 .. BufCap - 1 |->
        IF i < n THEN Payload(block, image, i) ELSE dst[i]]

Plain(block) == block.comp \in {"none", "autozero"}

(* What loadblock(block, dst, BufCap, &rsize) may return.  An error before *)
(* the decompressor ran leaves dst alone; a decompressor fed with damaged  *)
(* bytes writes some prefix of dst and then succeeds, with any length, or  *)
(* fails, and rsize is set on success only.                                *)
LoadBlock(block, image, dst, rsize) ==
    LET Outcome(s, n, r) ==
            [status |-> s, dst |-> Overlay(block, image, dst, n), rsize |-> r]
    IN  IF block.check = "freemap" THEN {Outcome("abort", 0, rsize)}
        ELSE IF ~ VerifyCheck(block, image) \/ block.comp = "unknown"
             THEN {Outcome("error", 0, rsize)}
        ELSE IF Plain(block) \/ image = "intact"
             THEN {Outcome("ok", block.dlen, block.dlen)}
        ELSE {Outcome("ok", n, n) : n \in 0 .. BufCap}
                 \cup {Outcome("error", n, rsize) : n \in 0 .. BufCap}
=============================================================================
