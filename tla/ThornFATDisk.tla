---------------------------- MODULE ThornFATDisk ----------------------------
(***************************************************************************)
(* The on-disk format of ThornFAT and the helpers of ThornFATDriver that   *)
(* only read it (src/src/fs/ThornFAT/ThornFAT.cpp).                        *)
(*                                                                         *)
(* A cell is sizeof(DirEntry) bytes, the unit every length is counted in:  *)
(* a block holds EntriesPerBlock cells, and a cell holds a directory entry *)
(* or user data.  The file allocation table is a function of its own; the  *)
(* cells of the blocks it lives in stand for its bytes and the             *)
(* superblock's, and nothing may be written there.                         *)
(***************************************************************************)
EXTENDS Integers, FiniteSets, Sequences

CONSTANTS
  BlockCount,       \* superblock.blockCount
  FatBlocks,        \* superblock.fatBlocks
  EntriesPerBlock,  \* superblock.blockSize / sizeof(DirEntry)
  Name,             \* the file names callers use
  Data,             \* what a caller can write in one cell
  Cleared,          \* what Partition::clear() leaves in a cell
  TailWord          \* the four bytes after DirEntry's padding, never set

\* The checks of make(): at least MINBLOCKS blocks, room for two entries in a
\* block, and a table that leaves room for the root directory.
ASSUME GeometryAssumption ==
    /\ BlockCount \in Nat /\ FatBlocks \in Nat /\ EntriesPerBlock \in Nat
    /\ BlockCount >= 3 /\ EntriesPerBlock >= 2
    /\ FatBlocks >= 1 /\ FatBlocks + 1 < BlockCount

ASSUME NameAssumption == {"", ".", ".."} \cap Name = {}

UNUSABLE == -1
FINAL    == -2

Block      == 0..BlockCount - 1
StartBlock == FatBlocks + 1
Reserved   == 0..FatBlocks                    \* superblock and table

\* initData() writes the root's "." and ".." where initFAT() has stopped: behind
\* the link of the root's block, over the links of the blocks that follow it.
\* RootWord(k) is what the k-th of these links becomes: the names, the lengths,
\* the start blocks and the types (Directory is 1) of two entries of 80 words.
RootWord(k) ==
    CASE k = 0       -> 46
      [] k = 80      -> 46 + 256 * 46
      [] k % 80 = 70 -> 640
      [] k % 80 = 72 -> StartBlock
      [] k % 80 = 73 -> 1
      [] k % 80 = 79 -> TailWord
      [] OTHER       -> 0

\* The blocks whose links say something else than "free" from then on.
Overwritten ==
    {b \in StartBlock + 1..BlockCount - 1 :
        b - StartBlock - 1 < 160 /\ RootWord(b - StartBlock - 1) # 0}

\* The blocks that files and directories may use.
Usable == (StartBlock..BlockCount - 1) \ Overwritten
Loc        == Block \X (0..EntriesPerBlock - 1)
RootLoc    == <<StartBlock, 0>>

\* What a table entry may hold: free, a mark, or the next block.
Link  == {0, UNUSABLE, FINAL} \cup Usable

Entry == [name : Name \cup {"", ".", ".."}, type : {"File", "Directory"},
          start : {0} \cup Usable, length : Nat]

Cell  == Entry \cup Data

\* A cell of user data is told apart from an entry; what the driver reads in a
\* directory that held some is Decode's matter.
ASSUME DataAssumption == Data \cap Entry = {}

\* The bytes `nothing`, read as an entry: free, because start is 0.
Zero  == [name |-> "", type |-> "File", start |-> 0, length |-> 0]

\* IDEDevice::clear() writes zeroes; AHCIDevice::clear() writes an array that it
\* has not initialized, which is as good as user data.
ASSUME ClearedAssumption == Cleared \in {Zero} \cup Data

ASSUME TailWordAssumption == TailWord \in Int

\* DirEntry(): the root field of a driver that has not read the root yet.
NoRoot == [name |-> "", type |-> "File", start |-> UNUSABLE, length |-> 0]

\* A directory slot that held user data would decode to anything; the
\* invariant DirectoriesHeaded of ThornFATTree says that none does.
Decode(c) == IF c \in Data THEN Zero ELSE c

BlocksFor(n) == (n + EntriesPerBlock - 1) \div EntriesPerBlock     \* updiv

-----------------------------------------------------------------------------
(* Chains. *)

\* S is closed under the links that readFAT follows.
Closed(f, S) == \A x \in S : f[x] > 0 => f[x] \in S

\* The blocks visited from b: the least closed set that contains it.
Chain(f, b) ==
    IF f[b] <= 0 THEN {b}
    ELSE CHOOSE S \in SUBSET Usable :
            /\ b \in S /\ Closed(f, S)
            /\ \A R \in SUBSET S : b \in R /\ Closed(f, R) => R = S

ChainLength(f, b) == Cardinality(Chain(f, b))

\* How many links lead from b to x, and the block that many links away (some
\* block of the chain, if it is shorter than that).
Steps(f, b, x) == ChainLength(f, b) - ChainLength(f, x)
Nth(f, b, n)   ==
    CHOOSE x \in Chain(f, b) :
        Steps(f, b, x) = n \/ \A y \in Chain(f, b) : Steps(f, b, y) # n

\* The table after one entry is written.
Mark(f, b, v) == [x \in Block |-> IF x = b THEN v ELSE f[x]]

\* Variant: the walk stops before the block that ends the chain.
ForgetButLast(f, b) == [x \in Block |-> IF x \in Chain(f, b) /\ f[x] > 0 THEN 0 ELSE f[x]]

\* forget() frees every block of the chain that ends or continues it.
Forget(f, b) ==
    [x \in Block |-> IF x \in Chain(f, b) /\ (f[x] = FINAL \/ f[x] > 0) THEN 0 ELSE f[x]]

FreeBlocks(f) == {b \in Block : f[b] = 0}

\* Variant: block 0 stands for "none".
FindFreeBlockOrZero(f) ==
    IF FreeBlocks(f) = {} THEN 0
    ELSE CHOOSE b \in FreeBlocks(f) : \A c \in FreeBlocks(f) : b <= c

\* The first free block, or UNUSABLE when there is none.
FindFreeBlock(f) ==
    IF FreeBlocks(f) = {} THEN UNUSABLE
    ELSE CHOOSE b \in FreeBlocks(f) : \A c \in FreeBlocks(f) : b <= c

\* hasFree() tests the count after each free block it meets, so that even a
\* demand for none needs one.
HasFree(f, n) == FreeBlocks(f) # {} /\ Cardinality(FreeBlocks(f)) >= n

-----------------------------------------------------------------------------
(* Entries and directories. *)

IsFree(f, e) == e.start = 0 \/ f[e.start] = 0

\* The index of cell l in the file or directory that starts at block b.
Index(f, b, l) == EntriesPerBlock * Steps(f, b, l[1]) + l[2]

\* The cells of the chain from b whose index is in from..to-1.
Cells(f, b, from, to) ==
    UNION {{<<x[1], i>> : i \in {j \in 0..EntriesPerBlock - 1 :
                                    /\ from <= EntriesPerBlock * x[2] + j
                                    /\ EntriesPerBlock * x[2] + j < to}} :
              x \in {<<y, Steps(f, b, y)>> : y \in Chain(f, b) \cap Block}}

Slots(f, dir) == Cells(f, dir.start, 0, dir.length)

\* readDir()'s status.  readFile() gives up when the chain is too short.
ReadDirStatus(f, dir) ==
    CASE dir.length = 0 \/ dir.type = "File" -> "ENOTDIR"
      [] dir.length > EntriesPerBlock * ChainLength(f, dir.start) -> "EINVAL"
      [] OTHER -> "OK"

\* The first of some slots of a directory, in the order readDir() lists them.
FirstSlot(f, dir, S) ==
    CHOOSE l \in S : \A m \in S : Index(f, dir.start, l) <= Index(f, dir.start, m)

\* hasStuff() of a directory entry looks at the length alone.
HasStuff(f, e) ==
    IF e.type = "File" THEN ~IsFree(f, e) ELSE e.name # ".." /\ e.length > 0

\* Variant: directories of two entries, as the root's two, count as empty.
NotEmptyPastTwo(f, d, dir) ==
    /\ ReadDirStatus(f, dir) = "OK" /\ dir.length > 2
    /\ \E l \in Slots(f, dir) : HasStuff(f, Decode(d[l]))

\* directoryEmpty() = 0, a directory with something left in it; a directory
\* that cannot be read counts as empty to rmdir().
NotEmpty(f, d, dir) ==
    /\ ReadDirStatus(f, dir) = "OK" /\ dir.length > 1
    /\ \E l \in Slots(f, dir) : HasStuff(f, Decode(d[l]))

\* writeEntry() of e at l; the entry "." of the root is copied to "..".
PutEntry(d, e, l) ==
    [k \in Loc |-> CASE k = l -> e
                     [] k # l /\ l = RootLoc /\ k = <<StartBlock, 1>> ->
                            [e EXCEPT !.name = ".."]
                     [] OTHER -> d[k]]

\* Variant: the cached root is never refreshed.
RootKept(r, e) == r

\* ... and the cached root follows the length of any entry written for it.
RootAfter(r, e) == IF e.start = StartBlock THEN [r EXCEPT !.length = e.length] ELSE r

-----------------------------------------------------------------------------
(* Resizing. *)

\* Variants: the chain's last new block is not marked; the new blocks are hung
\* on the first block and not on the last.
ExtendUnmarked(f, b, count) ==
    LET taken   == {x \in FreeBlocks(f) :
                        Cardinality({y \in FreeBlocks(f) : y < x}) < count}
        next(S) == CHOOSE y \in S : \A z \in S : y <= z
    IN  [x \in Block |->
            CASE x \in taken /\ (\E y \in taken : y > x) -> next({y \in taken : y > x})
              [] x \in Chain(f, b) /\ f[x] <= 0 /\ taken # {} -> next(taken)
              [] OTHER -> f[x]]
ExtendAtFirst(f, b, count) ==
    LET taken   == {x \in FreeBlocks(f) :
                        Cardinality({y \in FreeBlocks(f) : y < x}) < count}
        next(S) == IF S = {} THEN FINAL ELSE CHOOSE y \in S : \A z \in S : y <= z
    IN  [x \in Block |->
            CASE x \in taken -> next({y \in taken : y > x})
              [] x = b /\ taken # {} -> next(taken)
              [] OTHER -> f[x]]

\* resize() takes `count` free blocks, lowest first, and hangs them on the
\* end of the chain from b.
Extend(f, b, count) ==
    LET taken   == {x \in FreeBlocks(f) :
                        Cardinality({y \in FreeBlocks(f) : y < x}) < count}
        next(x) == {y \in taken : y > x}
        least(S) == CHOOSE y \in S : \A z \in S : y <= z
    IN  [x \in Block |->
            CASE x \in taken -> IF next(x) = {} THEN FINAL ELSE least(next(x))
              [] x \in Chain(f, b) /\ f[x] <= 0 /\ taken # {} -> least(taken)
              [] OTHER -> f[x]]

\* Variants: the new last block keeps its link; the blocks after it stay taken.
CutUnended(f, b, count) ==
    [x \in Block |-> IF x \in Chain(f, b) /\ Steps(f, b, x) >= count THEN 0 ELSE f[x]]
CutUnfreed(f, b, count) ==
    [x \in Block |-> IF x \in Chain(f, b) /\ Steps(f, b, x) = count - 1 THEN FINAL ELSE f[x]]

\* resize() keeps the first `count` blocks of the chain and frees the rest.
Cut(f, b, count) ==
    [x \in Block |->
        CASE x \notin Chain(f, b)          -> f[x]
          [] x \in Chain(f, b) /\ Steps(f, b, x) >= count    -> 0
          [] x \in Chain(f, b) /\ Steps(f, b, x) = count - 1 -> FINAL
          [] OTHER -> f[x]]

\* zeroOutFree() clears the bytes that follow the new end on the disk, as many
\* as the file loses, whichever blocks they are in.
ZeroOutFree(f, d, e, n) ==
    LET block == Nth(f, e.start, BlocksFor(n) - 1)
        first == EntriesPerBlock * block + n - EntriesPerBlock * (BlocksFor(n) - 1)
        at(l) == EntriesPerBlock * l[1] + l[2]
    IN  IF n % EntriesPerBlock = 0 \/ e.length <= n THEN d
        ELSE [l \in Loc |-> IF first <= at(l) /\ at(l) < first + e.length - n
                            THEN Zero ELSE d[l]]
=============================================================================
