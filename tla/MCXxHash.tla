------------------------------ MODULE MCXxHash ------------------------------
(* Small instances of XxHash: pieces around the word and stripe sizes.     *)
EXTENDS XxHash
Lengths == (0 .. 36) \cup {48, 63, 64, 65}
=============================================================================
