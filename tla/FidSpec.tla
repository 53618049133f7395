------------------------------ MODULE FidSpec ------------------------------
(***************************************************************************)
(* What the server promises of its fids: a fid names a node of the tree; a *)
(* walk moves it, or a new fid, to where all the names lead, or nothing;   *)
(* reading a directory lists its entries.  Once a load has failed, a node  *)
(* may come without its inode, a directory without some of its entries,    *)
(* and an entry with a long name under another name.                       *)
(***************************************************************************)
EXTENDS Integers, SequencesExt

CONSTANTS
    Fid,        \* the fids of the clients
    Name,       \* names in walks
    RootInum,   \* the node that is attached to
    Unused      \* where a fid is that is not in use

VARIABLES tree,     \* kind, parent and parts of each node's entries
          node,     \* of each fid the node it names, the one its walks
                    \* start at, and whether it is taken for a directory
          opened,   \* the fids that are open
          listed,   \* the entries in the last reply, if it held any
          failed    \* a load has failed

(* The entries of a directory without those in some of its parts.          *)
Entries(n, lost) ==
    FlattenSeq([k \in DOMAIN tree.parts[n] |->
        IF k \in lost THEN <<>> ELSE tree.parts[n][k].entries])

RootPlace == [named |-> RootInum, here |-> RootInum, dir |-> TRUE]

(* A node with its inode, or, if that may be missing, one without content. *)
Place(n) ==
    IF ~ failed' /\ tree.kind[n] # "none"
    THEN {[named |-> n, here |-> n, dir |-> tree.kind[n] = "dir"]}
    ELSE [named : {n}, here : {n, 0}, dir : BOOLEAN]

(* The entries of n that a name stands for.                                *)
Named(n, name) ==
    LET all == Entries(n, {})
    IN  {all[k] : k \in {j \in DOMAIN all :
            IF failed' THEN all[j].name = name \/ all[j].long
            ELSE all[j].name = name /\ \A m \in 1 .. j - 1 : all[m].name # name}}

(* The name "." leads to what is attached to, but walks go on where they   *)
(* were.                                                                   *)
Step(p, name) ==
    CASE name = "/" -> {RootPlace}
      [] name = ".." -> Place(tree.parent[p.here])
      [] name = "." -> {[p EXCEPT !.named = RootInum, !.dir = TRUE]}
      [] OTHER -> UNION {Place(e.inum) : e \in Named(p.here, name)}

(* The places that a path of at most two names leads to.                   *)
Resolve(p, path) ==
    CASE Len(path) = 0 -> {p}
      [] Len(path) = 1 -> Step(p, path[1])
      [] OTHER -> UNION {Step(q, path[2]) : q \in Step(p, path[1])}

Init == node = [f \in Fid |-> Unused] /\ opened = {} /\ listed = <<>>

Attach(f) ==
    /\ node[f] = Unused
    /\ node' = [node EXCEPT ![f] = RootPlace]
    /\ listed' = <<>> /\ UNCHANGED opened

Walk(f, nf, path) ==
    /\ node[f] # Unused /\ f \notin opened
    /\ nf = f \/ node[nf] = Unused
    /\ \E p \in Resolve(node[f], path) : node' = [node EXCEPT ![nf] = p]
    /\ listed' = <<>> /\ UNCHANGED opened

Open(f) ==
    /\ node[f] # Unused /\ opened' = opened \cup {f}
    /\ listed' = <<>> /\ UNCHANGED node

Shows(reply, list) ==
    /\ Len(reply) = Len(list)
    /\ \A k \in DOMAIN list :
          /\ reply[k].inum = list[k].inum
          /\ reply[k].name = list[k].name \/ (failed' /\ list[k].long)

ReadDir(f) ==
    /\ f \in opened /\ node[f].dir
    /\ LET n == IF node[f].named = RootInum THEN RootInum ELSE node[f].here
       IN  \E lost \in IF failed' THEN SUBSET DOMAIN tree.parts[n] ELSE {{}} :
              Shows(listed', Entries(n, lost))
    /\ UNCHANGED <<node, opened>>

Clunk(f) ==
    /\ node[f] # Unused
    /\ node' = [node EXCEPT ![f] = Unused] /\ opened' = opened \ {f}
    /\ listed' = <<>>

(* Any other request is answered, or refused, and changes nothing.         *)
Other == listed' = <<>> /\ UNCHANGED <<node, opened>>

Paths == {<<>>} \cup {<<a>> : a \in Name} \cup {<<a, b>> : a, b \in Name}

Next ==
    /\ failed => failed'
    /\ UNCHANGED tree
    /\ Other \/ \E f \in Fid :
          \/ Attach(f) \/ Open(f) \/ ReadDir(f) \/ Clunk(f)
          \/ \E nf \in Fid, path \in Paths : Walk(f, nf, path)

Spec == Init /\ [][Next]_<<tree, node, opened, listed, failed>>
=============================================================================
