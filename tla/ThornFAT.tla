------------------------------ MODULE ThornFAT ------------------------------
(***************************************************************************)
(* ThornFATDriver (src/src/fs/ThornFAT/ThornFAT.cpp): the calls of the     *)
(* Driver interface (src/include/fs/FS.h), one action for each, over the   *)
(* table and the cells of one partition and the root entry that the driver *)
(* keeps in memory.  Times, modes and the free-block count, which no       *)
(* operation reads, are left out.  Calls do not overlap: the kernel's      *)
(* shell makes them one after the other.                                   *)
(***************************************************************************)
EXTENDS ThornFATDisk

CONSTANTS
  Path,     \* the non-empty paths callers use; <<>> is "/"
  Sizes,    \* the lengths callers truncate to
  Extents,  \* the <<offset, length>> pairs callers write
  Careful   \* callers never mkdir an existing path, truncate or write a
            \* directory, or rename a node onto itself or below itself

ASSUME CallsAssumption ==
    /\ Path \subseteq Seq(Name) \ {<<>>}
    /\ Sizes \subseteq Nat
    /\ Extents \subseteq Nat \X (Nat \ {0})
    /\ Careful \in BOOLEAN

VARIABLES
  fat,      \* the file allocation table
  disk,     \* the cells of every block
  root,     \* the driver's copy of the root entry
  reply     \* [op, status] of the last call

vars == <<fat, disk, root, reply>>

AnyPath == Path \cup {<<>>}
Parent(p)   == SubSeq(p, 1, Len(p) - 1)
LastName(p) == IF p = <<>> THEN "" ELSE p[Len(p)]
Below(p, q) == Len(p) < Len(q) /\ SubSeq(q, 1, Len(p)) = p

Answer(op, status) == reply' = [op |-> op, status |-> status]

-----------------------------------------------------------------------------
(* Looking a path up. *)

Hit(l, e) == [status |-> "OK", loc |-> l, entry |-> e]
Miss(s)   == [status |-> s, loc |-> RootLoc, entry |-> Zero]

\* getRoot() reads the root entry once and keeps it.
RootEntry == IF root = NoRoot THEN Decode(disk[RootLoc]) ELSE root

\* One turn of find()'s loop: the entry called `name` in the directory that h
\* has reached.  Entries that are free are passed over.
Lookup(h, name) ==
    LET dir     == h.entry
        matches == {l \in Slots(fat, dir) :
                        /\ disk[l] \notin Data
                        /\ disk[l].name = name
                        /\ ~IsFree(fat, disk[l])}
        first   == FirstSlot(fat, dir, matches)
    IN  CASE h.status # "OK"                 -> Miss(h.status)
          [] h.status = "OK" /\ dir.type = "File" -> Miss("ENOTDIR")
          [] h.status = "OK" /\ dir.type # "File" /\ ReadDirStatus(fat, dir) # "OK" ->
                Miss(ReadDirStatus(fat, dir))
          [] OTHER -> IF matches = {} THEN Miss("ENOENT") ELSE Hit(first, disk[first])

\* The node that a sequence of names leads to from the root.
Resolve(p) ==
    LET reached[i \in 0..Len(p)] ==
            IF i = 0 THEN Hit(RootLoc, RootEntry) ELSE Lookup(reached[i-1], p[i])
    IN  reached[Len(p)]

Find(p) ==
    IF p = <<>> THEN Hit(RootLoc, RootEntry)
    ELSE Lookup(Resolve(Parent(p)), LastName(p))

\* find() with get_parent: a file on the way is an error.
NotFile(h)    == IF h.status = "OK" /\ h.entry.type = "File" THEN Miss("ENOTDIR") ELSE h
FindParent(p) == NotFile(Find(Parent(p)))

-----------------------------------------------------------------------------
(* newFile(). *)

\* readDir()'s first_index, the number of "." and ".." entries.  It is left
\* uninitialized when the directory starts with neither; all indices behind the
\* last slot come to the same.
FirstIndices(dir) ==
    LET name == Decode(disk[<<dir.start, 0>>]).name
    IN  CASE dir.start = 0 -> {0}
          [] dir.start # 0 /\ name = "."  -> {2}
          [] dir.start # 0 /\ name = ".." -> {1}
          [] OTHER -> 0..dir.length

\* What newFile() leaves behind: a status, the table, the cells, the cached
\* root, and the new entry, its place and the parent's entry.
Made(s, f, d, r, e, l, dir) ==
    [status |-> s, fat |-> f, disk |-> d, root |-> r, entry |-> e, loc |-> l, parent |-> dir]
Unmade(s, f) == Made(s, f, disk, RootEntry, Zero, RootLoc, Zero)

\* Variant: the parent gets longer even if a slot of it is used again.
PlacedAndGrown(f, e, l, h, grow) ==
    LET dir == [h.entry EXCEPT !.length = @ + 1]
    IN  Made("OK", f, PutEntry(PutEntry(disk, e, l), dir, h.loc),
             RootAfter(RootAfter(RootEntry, e), dir), e, l, dir)

\* The entry e is written at l, and then the parent, one entry longer if grow.
Placed(f, e, l, h, grow) ==
    LET dir == IF grow THEN [h.entry EXCEPT !.length = @ + 1] ELSE h.entry
        d   == PutEntry(disk, e, l)
        r   == RootAfter(RootEntry, e)
    IN  IF grow THEN Made("OK", f, PutEntry(d, dir, h.loc), RootAfter(r, dir), e, l, dir)
        ELSE Made("OK", f, d, r, e, l, dir)

\* newFile() of path p, whose parent find() has reached as h.  Every caller asks
\* for at most one cell, so that the loop which allocates further blocks for the
\* file never runs.
NewFile(h, p, length, type, noalloc, firstIndex) ==
    LET dir   == h.entry
        taken == FindFreeBlock(fat)
        f1    == IF noalloc THEN fat ELSE Mark(fat, taken, FINAL)
        need  == BlocksFor(length)
        entry(b) == [name   |-> IF noalloc THEN "" ELSE LastName(p), type |-> type,
                     length |-> length, start  |-> IF noalloc THEN 0 ELSE b]
        reusable == {l \in Slots(f1, dir) :
                        /\ Index(f1, dir.start, l) >= firstIndex
                        /\ IsFree(f1, Decode(disk[l]))}
        blocks == BlocksFor(dir.length)
        last   == Nth(f1, dir.start, blocks - 1)
        rem    == dir.length - EntriesPerBlock * (blocks - 1)
        \* Scenario three: a new block for the directory.
        f2     == Mark(f1, taken, last)
        start  == FindFreeBlock(f2)
        f3     == IF noalloc THEN f2 ELSE Mark(f2, start, FINAL)
        full   == CASE dir.length < EntriesPerBlock -> ~noalloc /\ ~HasFree(f1, need)
                    [] dir.length >= EntriesPerBlock ->
                          /\ rem = EntriesPerBlock
                          /\ ~HasFree(f1, IF noalloc THEN 1 ELSE 2 + need)
    IN  IF h.status \notin {"OK", "ENOENT"} THEN Unmade(h.status, fat)
        ELSE IF ~noalloc /\ taken = UNUSABLE THEN Unmade("ENOSPC", fat)
        ELSE IF ReadDirStatus(f1, dir) # "OK" THEN Unmade(ReadDirStatus(f1, dir), f1)
        ELSE IF reusable # {}
             THEN Placed(f1, entry(taken), FirstSlot(f1, dir, reusable), h, FALSE)
        ELSE IF full THEN Unmade("ENOSPC", fat)
        ELSE IF dir.length < EntriesPerBlock
             THEN Placed(f1, entry(taken), <<dir.start, dir.length>>, h, TRUE)
        ELSE IF rem = EntriesPerBlock THEN Placed(f3, entry(start), <<taken, 0>>, h, TRUE)
        ELSE Placed(f1, entry(taken), <<last, rem>>, h, TRUE)

-----------------------------------------------------------------------------
(* The calls. *)

Fail(op, status) ==
    Answer(op, status) /\ root' = RootEntry /\ UNCHANGED <<fat, disk>>

\* One entry e is written at l, over the table f.
Save(op, f, d, e, l) ==
    /\ Answer(op, "OK")
    /\ fat' = f
    /\ disk' = PutEntry(d, e, l)
    /\ root' = RootAfter(RootEntry, e)

Took(op, new) ==
    Answer(op, new.status) /\ fat' = new.fat /\ disk' = new.disk /\ root' = new.root

\* Variant: no look for the path before newFile().
CreateUnchecked(p) ==
    \E i \in FirstIndices(FindParent(p).entry) :
        Took("create", NewFile(FindParent(p), p, 0, "File", FALSE, i))

Create(p) ==
    LET h == Find(p)
    IN  \/ h.status = "OK" /\ Fail("create", "EEXIST")
        \/ /\ h.status # "OK"
           /\ \E i \in FirstIndices(FindParent(p).entry) :
                 Took("create", NewFile(FindParent(p), p, 0, "File", FALSE, i))

\* Variant: the first entry of the new directory is left as it is.
MkdirHeadless(p) ==
    /\ Careful => Find(p).status # "OK"
    /\ \E i \in FirstIndices(FindParent(p).entry) :
          Took("mkdir", NewFile(FindParent(p), p, 1, "Directory", FALSE, i))

\* Variant: that entry is written at the beginning of the parent.
MkdirAtParent(p) ==
    /\ Careful => Find(p).status # "OK"
    /\ \E i \in FirstIndices(FindParent(p).entry) :
          LET new    == NewFile(FindParent(p), p, 1, "Directory", FALSE, i)
              dotdot == [new.parent EXCEPT !.name = ".."]
          IN  IF new.status # "OK" THEN Took("mkdir", new)
              ELSE /\ Answer("mkdir", "OK")
                   /\ fat' = new.fat
                   /\ disk' = PutEntry(new.disk, dotdot, <<new.parent.start, 0>>)
                   /\ root' = RootAfter(new.root, dotdot)

\* The new directory gets the parent's entry, renamed, as its first.
Mkdir(p) ==
    /\ Careful => Find(p).status # "OK"
    /\ \E i \in FirstIndices(FindParent(p).entry) :
          LET new    == NewFile(FindParent(p), p, 1, "Directory", FALSE, i)
              dotdot == [new.parent EXCEPT !.name = ".."]
          IN  IF new.status # "OK" THEN Took("mkdir", new)
              ELSE /\ Answer("mkdir", "OK")
                   /\ fat' = new.fat
                   /\ disk' = PutEntry(new.disk, dotdot, <<new.entry.start, 0>>)
                   /\ root' = RootAfter(new.root, dotdot)

Unlink(p) ==
    LET h == Find(p)
        e == h.entry
    IN  \/ h.status # "OK" /\ Fail("unlink", h.status)
        \/ h.status = "OK" /\ e.type = "Directory" /\ Fail("unlink", "EISDIR")
        \/ /\ h.status = "OK" /\ e.type = "File"
           /\ Save("unlink", Forget(fat, e.start), disk, [e EXCEPT !.start = 0], h.loc)

Rmdir(p) ==
    LET h == Find(p)
        e == h.entry
        Refused(s) == Fail("rmdir", s)
    IN  \/ p = <<>> /\ Answer("rmdir", "EINVAL") /\ UNCHANGED <<fat, disk, root>>
        \/ p # <<>> /\ h.status # "OK" /\ Refused(h.status)
        \/ p # <<>> /\ h.status = "OK" /\ e.type = "File" /\ Refused("ENOTDIR")
        \/ /\ p # <<>> /\ h.status = "OK" /\ e.type = "Directory"
           /\ \/ NotEmpty(fat, disk, e) /\ Refused("ENOTEMPTY")
              \/ /\ ~NotEmpty(fat, disk, e)
                 /\ Save("rmdir", Forget(fat, e.start), disk,
                         [e EXCEPT !.start = 0, !.length = 0], h.loc)

\* Variant: the old entry stays.
MovedByCopy(d, src, l, name) ==
    [k \in Loc |-> IF k = l THEN [src.entry EXCEPT !.name = name] ELSE d[k]]

\* rename() writes the moved entry and clears the old one without writeEntry.
Moved(d, src, l, name) ==
    [k \in Loc |-> CASE k = src.loc -> Zero
                     [] k # src.loc /\ k = l -> [src.entry EXCEPT !.name = name]
                     [] OTHER -> d[k]]

Rename(p, q) ==
    LET src == Find(p)
        dst == Find(q)
        e   == dst.entry
        gone == [e EXCEPT !.start = 0]
    IN  /\ Careful => p # <<>> /\ p # q /\ ~Below(p, q)
        /\ \/ src.status # "OK" /\ Fail("rename", src.status)
           \/ /\ src.status = "OK" /\ dst.status \notin {"OK", "ENOENT"}
              /\ Fail("rename", dst.status)
           \/ /\ src.status = "OK" /\ dst.status = "OK" /\ e.type = "Directory"
              /\ Fail("rename", "EISDIR")
           \/ /\ src.status = "OK" /\ dst.status = "OK" /\ e.type = "File"
              /\ Answer("rename", "OK")
              /\ fat' = Forget(fat, e.start)
              /\ disk' = Moved(PutEntry(disk, gone, dst.loc), src, dst.loc, LastName(q))
              /\ root' = RootAfter(RootEntry, gone)
           \/ /\ src.status = "OK" /\ dst.status = "ENOENT"
              /\ \E i \in FirstIndices(FindParent(q).entry) :
                    LET new == NewFile(FindParent(q), q, 0, src.entry.type, TRUE, i)
                    IN  IF new.status # "OK" THEN Took("rename", new)
                        ELSE /\ Answer("rename", "OK")
                             /\ fat' = new.fat
                             /\ disk' = Moved(new.disk, src, new.loc, LastName(q))
                             /\ root' = new.root

\* resize() of entry e at l to n cells.
Resized(e, l, n) ==
    LET old  == ChainLength(fat, e.start)
        new  == BlocksFor(n)
        Done(f, d) == [status |-> "OK", fat |-> f, entry |-> [e EXCEPT !.length = n],
                       disk |-> PutEntry(d, [e EXCEPT !.length = n], l)]
        \* "old_c || 1" in the source is 1.
        toAdd == new - 1
    IN  CASE e.length = n -> [status |-> "OK", fat |-> fat, entry |-> e, disk |-> disk]
          [] e.length # n /\ n = 0 -> Done(Mark(Forget(fat, e.start), e.start, FINAL), disk)
          [] e.length # n /\ n > 0 /\ old = new -> Done(fat, ZeroOutFree(fat, disk, e, n))
          [] e.length # n /\ n > 0 /\ old > new ->
                Done(Cut(fat, e.start, new), ZeroOutFree(fat, disk, e, n))
          [] OTHER ->
                IF HasFree(fat, toAdd) THEN Done(Extend(fat, e.start, toAdd), disk)
                ELSE [status |-> "ENOSPC", fat |-> fat, entry |-> e, disk |-> disk]

Truncate(p, n) ==
    LET h == Find(p)
        r == Resized(h.entry, h.loc, n)
    IN  \/ h.status # "OK" /\ Fail("truncate", h.status)
        \/ /\ h.status = "OK"
           /\ Careful => p # <<>> /\ h.entry.type = "File"
           /\ Answer("truncate", r.status)
           /\ fat' = r.fat
           /\ disk' = r.disk
           /\ root' = IF r.entry = h.entry THEN RootEntry ELSE RootAfter(RootEntry, r.entry)

Write(p, off, n, d) ==
    LET h    == Find(p)
        len  == IF off + n > h.entry.length THEN off + n ELSE h.entry.length
        r    == Resized(h.entry, h.loc, len)
        dest == Cells(r.fat, h.entry.start, off, off + n)
        data == [l \in Loc |-> IF l \in dest THEN d ELSE r.disk[l]]
    IN  \/ h.status # "OK" /\ Fail("write", h.status)
        \/ h.status = "OK" /\ r.status # "OK" /\ Fail("write", r.status)
        \/ /\ h.status = "OK" /\ r.status = "OK"
           /\ Careful => p # <<>> /\ h.entry.type = "File"
           /\ Save("write", r.fat, data, r.entry, h.loc)

\* read() and utimens() write the entry back with new times.
Touch(p) ==
    LET h == Find(p)
    IN  \/ h.status # "OK" /\ Fail("touch", h.status)
        \/ h.status = "OK" /\ Save("touch", fat, disk, h.entry, h.loc)

\* The shell unmounts and mounts the partition: a new driver.
Mount == Answer("mount", "OK") /\ root' = NoRoot /\ UNCHANGED <<fat, disk>>

-----------------------------------------------------------------------------
(* make() and the specification. *)

\* Variant: the superblock's own block is not counted.
FreshTableShort ==
    [b \in Block |-> CASE b \in 0..FatBlocks - 1 -> UNUSABLE
                       [] b = StartBlock          -> FINAL
                       [] b \in Overwritten       -> RootWord(b - StartBlock - 1)
                       [] OTHER                   -> 0]

\* initFAT(): the superblock's and the table's own blocks are never free.  Then
\* initData() writes the root's entries into the table.
FreshTable ==
    [b \in Block |-> CASE b \in Reserved    -> UNUSABLE
                       [] b = StartBlock    -> FINAL
                       [] b \in Overwritten -> RootWord(b - StartBlock - 1)
                       [] OTHER             -> 0]

\* The partition has been cleared, and none of its blocks but the superblock and
\* the table are written: not the root's own, either.
FreshDisk == [l \in Loc |-> IF l[1] \in Reserved THEN Zero ELSE Cleared]

RootDir == [name |-> ".", type |-> "Directory", start |-> StartBlock, length |-> 2]

Make ==
    /\ Answer("make", "OK")
    /\ fat' = FreshTable
    /\ disk' = FreshDisk
    /\ root' = RootDir

\* make() has returned.
Fresh ==
    /\ fat = FreshTable
    /\ disk = FreshDisk
    /\ root = RootDir
    /\ reply = [op |-> "make", status |-> "OK"]

\* After make(), a first call has written the root's entry where getRoot() and
\* readDir() look for it: reading "/", or its utimens().  (A call that lengthens
\* the root does so, too.)
Init ==
    /\ fat = FreshTable
    /\ disk = PutEntry(FreshDisk, RootDir, RootLoc)
    /\ root = RootDir
    /\ reply = [op |-> "touch", status |-> "OK"]

Next ==
    \/ Mount
    \/ \E p \in AnyPath :
          \/ Create(p)
          \/ Mkdir(p)
          \/ Unlink(p)
          \/ Rmdir(p)
          \/ Touch(p)
          \/ \E q \in AnyPath : Rename(p, q)
          \/ \E n \in Sizes : Truncate(p, n)
          \/ \E x \in Extents, d \in Data : Write(p, x[1], x[2], d)

\* The calls on a partition whose root directory has been stored.
Spec == Init /\ [][Next]_vars

\* All calls from make() on.
FreshSpec == Fresh /\ [][Make \/ Next]_vars

-----------------------------------------------------------------------------
(* Properties. *)

\* Every link, entry and cell has the form that its readers expect: a block
\* number that can be come across is always that of a block outside the
\* superblock and the table whose link make() has not written over.
TypeOK ==
    /\ fat \in [Block -> Int]
    /\ \A b \in Reserved \cup Usable : fat[b] \in Link
    /\ disk \in [Loc -> Cell]
    /\ root \in Entry \cup {NoRoot}

\* The allocator never hands out, links to or frees a block of the superblock
\* or the table, which initFAT() marks, nor one whose link initData() has
\* written over: nothing comes to the words of the entries that stand there.
TableReserved ==
    /\ \A b \in Reserved : fat[b] = UNUSABLE
    /\ \A b \in Overwritten : fat[b] = RootWord(b - StartBlock - 1)

\* Once make() has returned, no entry or data is written over the superblock or
\* the table (writeEntry and write() compute their offsets from links and
\* entries read earlier).
MetadataUntouched ==
    \A b \in Reserved, i \in 0..EntriesPerBlock - 1 : disk[<<b, i>>] = Zero

\* Once the root has been stored, the driver's copy of its entry, the "." on the
\* disk and the ".." beside it agree, although some writes go past writeEntry().
RootCoherent ==
    /\ root # NoRoot => root = disk[RootLoc]
    /\ disk[<<StartBlock, 1>>] = [disk[RootLoc] EXCEPT !.name = ".."]
=============================================================================
