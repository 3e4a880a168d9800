------------------------------ MODULE FileTree ------------------------------
(***************************************************************************)
(* What a Driver (src/include/fs/FS.h) promises its callers: a tree of     *)
(* directories and files addressed by path.  A call either succeeds and    *)
(* changes exactly the node it names, or reports an error and changes      *)
(* nothing.  ThornFAT is checked to implement this specification.          *)
(*                                                                         *)
(* Contents are sequences of cells; growing a file leaves the new cells    *)
(* unspecified, because the driver does not clear the blocks it adds.      *)
(***************************************************************************)
EXTENDS Integers, Sequences

CONSTANTS Path,     \* the non-empty paths callers use
          Data,     \* what a caller can write in one cell
          Sizes,    \* the lengths callers truncate to
          Extents   \* the <<offset, length>> pairs callers write

VARIABLES tree,     \* path |-> [type, data], for every node but the root
          reply     \* [op, status] of the last call

treeVars == <<tree, reply>>

Parent(p)   == SubSeq(p, 1, Len(p) - 1)
Below(p, q) == Len(p) < Len(q) /\ SubSeq(q, 1, Len(p)) = p
IsDir(p)    == p = <<>> \/ (p \in DOMAIN tree /\ tree[p].type = "Directory")
IsFile(p)   == p \in DOMAIN tree /\ tree[p].type = "File"
Answer(op)  == reply' = [op |-> op, status |-> "OK"]

Init == tree = <<>> /\ reply.status = "OK"

\* create and mkdir add one empty node to an existing directory.
Add(op, p, type) ==
    /\ Answer(op)
    /\ p \notin DOMAIN tree
    /\ IsDir(Parent(p))
    /\ tree' = [q \in DOMAIN tree \cup {p} |->
                   IF q = p THEN [type |-> type, data |-> <<>>] ELSE tree[q]]

\* unlink takes away a file.
Unlink(p) ==
    /\ Answer("unlink")
    /\ IsFile(p)
    /\ tree' = [q \in DOMAIN tree \ {p} |-> tree[q]]

\* rmdir takes away a directory with nothing below it.
Rmdir(p) ==
    /\ Answer("rmdir")
    /\ IsDir(p)
    /\ \A q \in DOMAIN tree : ~Below(p, q)
    /\ tree' = [q \in DOMAIN tree \ {p} |-> tree[q]]

\* rename moves p and everything below it to q; a file at q is replaced.
Rename(p, q) ==
    LET moved   == {r \in DOMAIN tree : r = p \/ Below(p, r)}
        kept    == DOMAIN tree \ (moved \cup {q})
        new(r)  == q \o SubSeq(r, Len(p) + 1, Len(r))
        old(s)  == p \o SubSeq(s, Len(q) + 1, Len(s))
    IN  /\ Answer("rename")
        /\ p \in DOMAIN tree /\ p # q /\ ~Below(p, q)
        /\ IsDir(Parent(q))
        /\ q \in DOMAIN tree => IsFile(q)
        /\ tree' = [s \in kept \cup {new(r) : r \in moved} |->
                       IF s \in kept THEN tree[s] ELSE tree[old(s)]]

\* The file p, and nothing else, gets a content of length n that keeps the
\* cells of the old one, but for those at the indices in `lost`.
Edit(op, p, n, lost) ==
    /\ Answer(op)
    /\ IsFile(p)
    /\ LET was == tree[p].data
           now == tree'[p].data
       IN  /\ tree' = [tree EXCEPT ![p].data = now]
           /\ Len(now) = n
           /\ \A i \in (DOMAIN was \cap 1..n) \ lost : now[i] = was[i]

Truncate(p, n) == Edit("truncate", p, n, {})

\* write puts n copies of d at offset `off`, extending the file if need be.
Write(p, off, n, d) ==
    /\ reply'.op = "write"
    /\ IsFile(p)
    /\ LET len == Len(tree[p].data)
       IN  Edit("write", p, IF off + n > len THEN off + n ELSE len, off+1 .. off+n)
    /\ LET now == tree'[p].data IN \A i \in off+1 .. off+n : now[i] = d

\* Lookups, mounting, and every call that fails.
Observe ==
    /\ reply'.status # "OK" \/ reply'.op \in {"touch", "mount"}
    /\ UNCHANGED tree

Next ==
    \/ Observe
    \/ \E p \in Path :
          \/ Add("create", p, "File")
          \/ Add("mkdir", p, "Directory")
          \/ Unlink(p)
          \/ Rmdir(p)
          \/ \E q \in Path : Rename(p, q)
          \/ \E n \in Sizes : Truncate(p, n)
          \/ \E x \in Extents, d \in Data : Write(p, x[1], x[2], d)

Spec == Init /\ [][Next]_treeVars
=============================================================================
