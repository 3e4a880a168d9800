---------------------------- MODULE ThornFATTree ----------------------------
(***************************************************************************)
(* The tree of directories and files that a ThornFAT partition stands for, *)
(* and the properties that relate the entries of different directories.    *)
(***************************************************************************)
EXTENDS ThornFAT

-----------------------------------------------------------------------------
(* The tree on the disk: what the table f, the cells d and the root entry r *)
(* stand for.                                                               *)

\* The slots of a directory that hold a node.
LiveSlots(f, d, dir) ==
    {l \in Slots(f, dir) :
        /\ d[l] \notin Data
        /\ d[l].name \in Name
        /\ ~IsFree(f, d[l])}

\* <<path, cell>> for the nodes of the directory `dir`, whose path is p.
Children(f, d, p, dir) == {<<Append(p, d[l].name), l>> : l \in LiveSlots(f, d, dir)}

\* ... and for all nodes below r, level by level; a tree of distinct directories
\* is no deeper than the disk is large.
NodesOf(f, d, r) ==
    LET level[k \in 0..BlockCount] ==
            IF k = 0 THEN Children(f, d, <<>>, r)
            ELSE LET parents == {n \in level[k-1] : d[n[2]].type = "Directory"}
                 IN  UNION {Children(f, d, n[1], d[n[2]]) : n \in parents}
    IN  UNION {level[k] : k \in 0..BlockCount}

\* The cells of a file, in order.
Content(f, d, e) ==
    LET cells == {<<Index(f, e.start, l), d[l]>> : l \in Cells(f, e.start, 0, e.length)}
    IN  [i \in 1..e.length |-> (CHOOSE c \in cells : c[1] = i - 1)[2]]

TreeOf(f, d, r) ==
    LET nodes == NodesOf(f, d, r)
        entry(p) == d[(CHOOSE n \in nodes : n[1] = p)[2]]
    IN  [p \in {n[1] : n \in nodes} |->
            [type |-> entry(p).type,
             data |-> IF entry(p).type = "File" THEN Content(f, d, entry(p)) ELSE <<>>]]

\* Blocks that are not free and that no entry in use leads to.
LeakedIn(f, d, r) ==
    LET entries == {r} \cup {d[n[2]] : n \in NodesOf(f, d, r)}
    IN  {b \in Usable : f[b] # 0} \ UNION {Chain(f, e.start) : e \in entries}

Nodes       == NodesOf(fat, disk, RootEntry)
LiveEntries == {RootEntry} \cup {disk[n[2]] : n \in Nodes}

-----------------------------------------------------------------------------
(* Properties. *)

\* Two nodes never share a block (forget, resize and newFile all pick blocks
\* from the table, and rename copies an entry with its start block).
ChainsDisjoint ==
    /\ \A m, n \in Nodes : m # n =>
          Chain(fat, disk[m[2]].start) \cap Chain(fat, disk[n[2]].start) = {}
    /\ \A n \in Nodes : StartBlock \notin Chain(fat, disk[n[2]].start)

\* Every node's chain ends with FINAL and is long enough for its length, so
\* that readFile() and write() never run off its end.
ChainsSound ==
    \A e \in LiveEntries :
        /\ \A b \in Chain(fat, e.start) : fat[b] = FINAL \/ fat[b] > 0
        /\ e.length <= EntriesPerBlock * ChainLength(fat, e.start)

\* The names in a directory are distinct, whichever slot newFile() reuses and
\* wherever rename() puts an entry.
UniqueNames == \A m, n \in Nodes : m[1] = n[1] => m = n

\* A directory begins with its ".." entry (without it readDir() leaves
\* first_index unset), and none of its slots holds a file's data.
DirectoriesHeaded ==
    \A e \in LiveEntries : e.type = "Directory" =>
        /\ e.length >= 1
        /\ Slots(fat, e) # {}
        /\ \A l \in Slots(fat, e) : disk[l] \notin Data
        /\ e # RootEntry => disk[<<e.start, 0>>].name = ".."

\* A call that succeeds gives back every block it stops using.
NoLeakOnSuccess ==
    [][reply'.status = "OK" =>
          LeakedIn(fat', disk', RootEntry') \subseteq LeakedIn(fat, disk, RootEntry)]_vars

-----------------------------------------------------------------------------
(* From make() on, before the root directory has been stored.               *)

\* The root's "." stands where getRoot() and readDir() look for it, and ".." is
\* beside it.
RootStored ==
    /\ disk[RootLoc] \notin Data /\ disk[RootLoc].name = "."
    /\ disk[<<StartBlock, 1>>] \notin Data /\ disk[<<StartBlock, 1>>].name = ".."

\* Whatever is called after make(), and whichever entries come to the root's
\* first two slots meanwhile, from the moment that the root's entry is stored
\* the partition is in order.
StoredSound ==
    RootStored => RootCoherent /\ DirectoriesHeaded /\ ChainsSound

\* Once stored, the root's entry stays until the next make().
StoredStays == [][RootStored => RootStored' \/ reply'.op = "make"]_vars

-----------------------------------------------------------------------------
(* What comments of the source say, and the code does not always do. *)

\* ThornFAT.cpp:684, of a directory whose last block is full: "We'll take the
\* value from the free block we found earlier to use as the next block in the
\* parent directory."  The directory can be read afterwards.
GrownDirectoryReadable ==
    \A e \in LiveEntries : e.type = "Directory" => ReadDirStatus(fat, e) = "OK"

\* ThornFAT.cpp:1616: "Only the root directory has a "." entry stored in the disk
\* image."  So a driver that mounts the partition finds a directory there.
RemountFindsRoot == root = NoRoot => RootEntry.type = "Directory"
=============================================================================
