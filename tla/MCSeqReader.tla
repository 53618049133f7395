----------------------------- MODULE MCSeqReader -----------------------------
(* SeqReader on the files of MCFileRead, those the code cannot serve       *)
(* included.                                                               *)
EXTENDS MCFileRead, SeqReader
=============================================================================
