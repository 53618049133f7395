------------------------------ MODULE SeqReader ------------------------------
(***************************************************************************)
(* A client that copies a file from its start to its end through a fid of  *)
(* FileRead, asking again after an error, while other procs that share the *)
(* fid read where they like.  The client is the caller 9P presumes; it is  *)
(* not code of the repository.                                             *)
(***************************************************************************)
EXTENDS FileRead

CONSTANT
    CopyCount   \* the byte count the client asks for

ASSUME CopyCountAssumption == CopyCount \in Counts

VARIABLES
    pos,        \* bytes received so far, the offset of the next Tread
    done        \* an empty reply told the client that the file ends here

copyVars == <<vars, pos, done>>

CopyInit == Init /\ pos = 0 /\ done = FALSE

CopyOpen == Open /\ UNCHANGED <<pos, done>>

Copy ==
    /\ ~ done
    /\ Read(pos, CopyCount)
    /\ IF crashed' THEN UNCHANGED <<pos, done>>
       ELSE /\ pos' = pos + out'.cnt
            /\ done' = (out'.kind = "data" /\ out'.cnt = 0)

ReadByOthers ==
    /\ \E off \in Offsets, n \in Counts : Read(off, n)
    /\ UNCHANGED <<pos, done>>

CopyNext == CopyOpen \/ Copy \/ ReadByOthers

(* lib9p takes every request it reads to its handler: the copying client   *)
(* is served in the end.  Nothing is assumed of the others.                *)
CopySpec ==
    CopyInit /\ [][CopyNext]_copyVars /\ WF_copyVars(CopyOpen) /\ WF_copyVars(Copy)

(* Short replies and errors that pass never keep the client from the end:  *)
(* once the medium stops failing, a load that failed is tried again and    *)
(* the copy of a servable file without a refused block completes, and ends *)
(* where the file ends.                                                    *)
CopyCompletes ==
    (Servable(file) /\ \A b \in BlockSet(file) : b.check # "unknown" /\ b.comp # "unknown")
        => <>(done /\ pos = file.size)
=============================================================================
