# A TLA+ development of the Thorn kernel

Thorn (dsOS) is a kernel for x86-64 written in C++. This directory holds TLA+
modules for the parts of it whose correctness is hardest to see by reading or
testing, configurations with which TLC checks them on small instances, and
proofs, checked by TLAPS, of what holds for every instance. Paths such as
`src/src/...` are relative to the root of the repository.

## 1. Inventory

The kernel boots, sets up paging, its heap and the interrupts, and enters a
shell (`src/src/Test.cpp`), which is the caller of everything else. There is one
thread of control besides the interrupt handlers; the mutexes are there for the
processes and processors to come.

| Part | State | Operations | Hard behaviour | Correct when |
|---|---|---|---|---|
| **ThornFAT** (`src/src/fs/ThornFAT`) | superblock, allocation table, directory entries and data on a partition; a copy of the root entry | make, create, mkdir, rename, unlink, rmdir, truncate, write, read, utimens, lookups | a long sequence of legal calls; slots and blocks used again; a stale copy of the root; a full disk; a call that fails half way; a power failure between writes | chains are disjoint and end; the table and the superblock are never touched; names are unique; a call changes just the node it names; nothing leaks |
| **Mutex, Lock, Locked** (`src/include/Mutex.h`, `Locked.h`) | one flag for a mutex, one pointer for a guard | lock, unlock, try_unlock; a guard's constructor and destructor | interleaving; destructors that release whether or not the guard is locked | exclusion; a mutex that is waited for is got |
| **RecursiveMutex** | flag, owner, depth, a submutex | lock, try_lock, unlock, try_unlock | lock() is not atomic; identifiers of threads that are never set | exclusion; depth counts; assertions hold; no orphaned lock |
| **Heap** (`src/src/memory/Memory.cpp`) | list of blocks, end, highestAllocated, a count | malloc, calloc, free, posix_memalign | splitting and merging with alignment gaps; pages assigned while it grows | live memory overlaps nothing; the list is coherent; memory has pages |
| **AHCI device, cache** (`src/src/device/AHCIDevice.cpp`, `src/include/Cache.h`) | blocks by number, most recent first, a flushed flag each | read, write, clear, flush, eviction | parts of blocks; stale and evicted data; flush errors; a device that is replaced | a read returns the last write of a block that was not evicted; what changed counts as not flushed |
| **Partition** (`src/src/fs/Partition.cpp`) | offset, length, records of accesses | read, write, clear | bounds | stays inside its range |
| **AHCI port** (`src/src/hardware/AHCI.cpp`) | registers, command slots, one shared buffer | read, readBytes, write, access, stop, identify | polling; a device that answers late, never or with an error; commands given up and still under way | a call that succeeds has moved its blocks; each call returns |
| **IDE** (`src/src/hardware/IDE.cpp`) | channels, devices | sectors, partial sectors, ATAPI | polling; read, modify, write | bytes around a partial write survive |
| **Page allocator, page tables** (`src/src/arch/x86_64/PageMeta.cpp`, `src/32/paging.cpp`) | bitmap, four levels of tables | allocate, assign, identityMap, free | two allocators over one bitmap; bits of a last word; running out | a page is handed out once; tables and buffers are mapped where they are used |
| **Processes** (`src/src/Kernel.cpp`, `Process.cpp`) | table of processes, last identifier, page owners | makeProcess, nextPID, allocatePage | allocation under a lock; identifiers that wrap around | identifiers are unique |
| **Timer, interrupts** (`APIC.cpp`, `Interrupts.cpp`, `src/asm/interrupts.S`) | ticks, timer_max, timer_addr, waiting, the timer's mode | wait, the handlers | a handler between any two stores, which the compiler may reorder | every wait ends, and not early |
| **Keyboard, terminal, serial, printf, PCI, UHCI, GPT, MBR, ELF, SHA-1, boot** | tables, registers | input, output, parsing | little | not the subject of this development |

How they interact: the shell calls a `Driver` (ThornFAT); the driver reads and
writes its `Partition`; the partition adds its offset and calls the storage
device; the AHCI device answers from its cache and its port talks to the
hardware. The heap calls the pager for pages, under the pager's mutex; the AHCI
port's constructor takes pages in the same way. The hazards of all these parts,
each at its line, are listed in `PROJECT.json`, with the property that covers
each one or the reason why none does yet.

## 2. Modules

| Module | Models | Depends on |
|---|---|---|
| `FileTree` | what a Driver promises: a tree of nodes by path | |
| `ThornFATDisk` | the disk format and the driver's helpers on chains, entries and resizing | |
| `ThornFAT` | the driver: one action for each call | `ThornFATDisk` |
| `ThornFATTree` | the tree a disk stands for, and the properties that need it | `ThornFAT` |
| `MCThornFAT` | the instances for TLC and the refinement of `FileTree` | `ThornFATTree`, `FileTree` |
| `ThornFATProofs` | theorems about `ThornFAT` | `ThornFAT`, `Minimum` |
| `ThornFATTreeProofs` | theorems about the tree, and the refinement of `FileTree` | `MCThornFAT`, `ThornFATProofs` |
| `Mutex`, `MutexProofs` | Mutex and the guards of the pager's users | |
| `RecursiveMutex`, `MCRecursiveMutex`, `RecursiveMutexProofs` | RecursiveMutex for threads with identifiers | |
| `Heap` | malloc and free | |
| `Paging` | the page bitmap, the walk of `assign()`, the boot's allocator: operators on one record | |
| `KernelMemory` | the boot, the heap and the ports over one pager | `Heap`, `Paging` |
| `KernelMemoryProofs` | theorems about `Heap` by itself and about `KernelMemory` | `KernelMemory`, `Minimum` |
| `BlockDevice` | what a storage device promises a file system | |
| `StorageCache` | Partition, AHCIDevice and Cache; that they implement `BlockDevice` | `BlockDevice` |
| `StorageCacheProofs` | theorems about `StorageCache`, the refinement among them | `StorageCache`, `Minimum` |
| `Timer` | `wait()` and the handler of interrupt 32 | |
| `AHCIPort` | a port: `access()` and its callers, polling a device by way of `wait()` | `Timer` |
| `AHCIPortProofs` | theorems about `AHCIPort` and `Timer` | `AHCIPort`, `Minimum` |
| `Minimum` | lemmas on least and greatest elements, and on folds, that the proofs share | |

### ThornFAT

`fat` is the allocation table, `disk` the cells of all blocks, `root` the
driver's `root` field, `reply` the operation and status of the last call. A cell
is `sizeof(DirEntry)` bytes: all lengths are counted in cells, a block has
`EntriesPerBlock` of them, and a cell holds an entry or user data. The bytes of
the table are `fat`: `initFAT()`, `writeFAT()` and `initData()`, which write
there, change `fat`. The cells of the table's blocks, and of the superblock's, are
there to say that nothing else does: they are `Zero` when `make()` returns, and a
write at an offset computed from links and entries would change them
(`MetadataUntouched`).

**What make() leaves.** `Make` is the whole of `make()`. `initFAT()` zeroes the table
by way of a `position` of its own, then writes `FatBlocks + 2` links from
`writeOffset = block_size` on (`ThornFAT.cpp:1075`), and leaves `writeOffset` there;
`initData()` writes the two entries of the root with `write(root)`, which goes on from
`writeOffset`. So "." and ".." come to lie over the links of the blocks
behind the root's (`FreshTable`): `RootWord(k)` is what the k-th of them then reads
as, and `Overwritten` the blocks for which that is not 0, which `findFreeBlock()`
passes over for good; with 320 bytes in an entry it is at most ten blocks of a
partition. `Usable` are the others. The root's own block is not written (`FreshDisk`):
it keeps what `Partition::clear()` left, `Cleared`, which is zeroes on an IDE disk and
an array that was not initialised on an AHCI disk. `TailWord` is the padding at the end
of an entry, which nothing sets either. The driver has the root entry in memory.

Hence two specifications. `FreshSpec` begins where `make()` has returned (`Fresh`) and
lets callers do anything, `make()` again included. `Init`, and with it `Spec`, is a
later state of it: a call has written the root's entry in its place (`writeEntry()`
writes both "." and ".." for the root), as `utimens()` and `read()` of "/" do at
once and each call that makes the root longer does on the way; `StoringRoot` proves that
the first of these leads from `Fresh` to `Init`. The tree properties are about `Spec`,
because they are false before: the root then has no entry on the disk. What holds
from `make()` on is said of `FreshSpec` (`thornfat_fresh`, section 3).

Each call is one action with the code's early returns as its disjuncts: the
status of a lookup, then the checks of the call, then its writes. `NewFile` is
`newFile()` with its scenarios; its fourth loop, which allocates further blocks
for the file, cannot run because no caller asks for more than one cell.
`Resized` is `resize()` with its five branches. `Chain` is the set of blocks that
`readFAT()` leads to, as the least set closed under the links, so that the
operators need no recursion; the order in the chain is `Steps`, a difference of
cardinalities. `Touch` stands for `utimens()` and for the write-back of `read()`;
`Mount` for a new driver on the same partition.

Defects that the code has are in the model as the code has them: the reversed
arguments of `writeFAT()` in scenario three (`f2`), `hasFree(0)`, `old_c || 1`,
the missing existence check of `mkdir()`, `zeroOutFree()` that does not stop at
the end of a block, the block that `newFile()` keeps when the parent cannot be
read, `first_index` without a value (`FirstIndices`: for a directory that starts with
neither "." nor "..", as the root does right after `make()`, any value), `rename()`
onto itself.

What is abstracted: times, modes and `blocksFree`, which no operation reads;
contents of cells; names are members of a small set and paths are sequences of
names, so that simplification and the length limit are not modelled;
`checkBlock()`, which hangs on an invalid block, is never reached in the states
that `ChainsSound` allows; the second part of `directoryEmpty()`'s caller, which
only prints; `CHECK` of device errors: the partition always answers.

`Careful` is what a caller must respect, and what the shell does not test for
it: no `mkdir` of a path that exists, no `truncate` or `write` of a directory, no
`rename` of a node onto or below itself. With `Careful = FALSE` the actions are
the code's on those inputs too.

### FileTree and the refinement

`FileTree` promises what `src/include/fs/FS.h` says by its names: each call that
succeeds changes the node that it names, one that fails changes nothing. The
mapping is `TreeOf(fat, disk, root)`: the live slots of a directory, and, below
them, those of the directories they name; contents are the cells in the order of
the chain. `MCThornFAT` keeps its value in a variable, because TLC would compute
it anew for each property. `TreeSpec` says that `ThornFAT` implements `FileTree`
under this mapping.

### Mutex and RecursiveMutex

A thread of `Mutex` gets a guard (`Locked::get`), may unlock it and lock it
again (`Lock::unlock`, `Lock::lock`), and destroys it. `Abandon` is the early
return of the constructor of `AHCI::Port` (`src/src/hardware/AHCI.cpp:325-329`):
the guard's destructor calls `try_unlock()` although the guard is unlocked.
`strayed` remembers that it took the mutex from another thread.

`RecursiveMutex` takes what the operations do under the submutex as one step;
`lock()` is three: `Lock` under the submutex, `Exchange` outside of it, and `Own`
under it again. `halted` is where an assertion stops a thread, with the submutex
locked. `ThreadID` gives the identifiers. `OwnID` are those that a scheduler would set:
the run and the theorems are about these. Today `src/src/Threading.cpp` leaves every
thread with 0, with which the mutex does not work (section 4).

### Heap, Paging and KernelMemory

`blocks` is the list from `base`, its order that of `next`; a block is an
address, a size and the free flag. `Grow` is `allocate()` by way of
`requestSpace()`, `Reuse` the first fit with `split()`, `Free` is `free()` with
`merge()`. `live` is what callers hold, by pointer, and what they asked for.
Addresses are relative to the page-aligned start of the heap.

`Paging` has the memory as a record: the marked frames, the entries that are
present and the page each names, and whether the kernel has stopped for want of
a page. An entry is `<<level, index>>`, the index counting the entries of its
level from address 0, so that `EntryOf` does what the shifts and masks of
`getPML4Index()` and the others do, and the walk of `assign()` is a fold over
the levels. The boot's walk is the same but for its allocator: `BootFree` starts
at the second word of 32 bits, `FindFree` at the first of 64 and stops before a
last word that is not whole. The boot overwrites a last-level entry where
`assign()` leaves it.

`KernelMemory` starts with an empty bitmap: `BootPage` is one turn of
`setup_paging()`'s loops, `ApicInit` the mapping of the APIC's registers; then
the heap and `MakePort` run in any order. `MakePort` stands for either of the two
rounds in which Port's constructor takes its pages, both of which ignore a null
address. `GrowMapped` and `GrowStuck` add to `Grow` the pages that
`requestSpace()` assigns; without one left, `assign()` halts. Each of these
steps runs under the pager's lock, whose own behaviour is `Mutex`. Frames are
never given back: nothing in the code does.

### StorageCache and BlockDevice

A step of `StorageCache` is one turn of a call's loop: the part of it that lies
in one block (`Segment`). `map` and `list` are those of `Cache`; `Use` is
`operator[]` with `ensureSpace()` and `moveFront()`. As the code is written,
nothing ever comes from the disk: where an entry is created, `readCache()` calls
`read()`, and so itself, instead of the port, and finds the entry that it has
just made. A block that is not cached therefore reads as zeroes, a whole block
that is read becomes unflushed, and the first successful write of `flush()`
halts the kernel (`perished`), because the test of the status is inverted. No
code calls `flush()`; the model lets it be called between two calls.
`SelectPartition` is the shell's: the device is deleted and made anew.
`clear()` writes an array that it has not initialised: any bytes.

`BlockDevice` says what `src/include/device/Storage.h` offers a file system: a
memory of bytes, moved in order, in pieces of one block, that may lose a block
only if more blocks are in use than `Capacity`, or when the device is replaced.
`ImplementsDevice` is the refinement, `Capacity` being the cache's length, `mem`
what was last written (`latest`). It begins with a memory of zeroes and says
nothing of the disk, as the code never moves anything between the two until `flush()`:
that a block is never read from the disk is in the model, but breaks no property.

### Timer and AHCIPort

`wait()` sets four globals that are not volatile, so that the compiler may store
them in any order: `todo` holds the stores still to be made, and a tick may come
between any two. `SetUp` is all four at once while the timer is off, when nobody
can tell. `Test` reads `waiting` and `Halt` executes the `hlt`: a `Tick` between the
two (step "sleep") wakes nobody, and `wait()` sleeps on although `waiting` is FALSE. That
it returns all the same is due to the timer's periodic mode, whose next interrupt ends
the `hlt`; `CallsReturn` says so, and fails if the mode is one-shot (`TickOnce`). `Tick`
is `isr_32`: it counts, compares for equality and calls `timer_addr`. `TimerInit` is how the kernel
boots: with the timer running (`Kernel.cpp:118`) and `timer_max` at -1.

`AHCIPort` composes `wait()` with `access()`: where the driver polls, it calls
`wait()` (`Sleep`) and goes on when it has returned (`At`). `phase` says where
`access()` is: waiting for the port to be ready, for its command, for the port to
settle, or in `stop()`. `call`, `done` and `data` are a `read()`, `readBytes()` or
`write()` and what it has done so far. The device is external: it works at one
command at a time and moves block by block through the shared buffer, completes,
fails and halts, or does nothing at all. It acts only while `wait()` is out
(`Device`): the two share no variable, so that a step of the device inside a wait
can be moved before it. The counting of turns follows the code: when the device
gets ready at the last turn, the call gives up all the same.

A call given up as hung leaves its command with the device. The model keeps what
follows: its data may arrive during the next calls, a late error halts the device
and each later command stays in another slot, until `BadSlot`. `mixed` remembers
that a write copied its block into the buffer while such a command was under
way, which is the one case in which a write that succeeds stores something else;
`WriteStored` and `DiskChanges` leave it out, so that this hazard has no property.
`Slots` is the count that the HBA's capabilities give; that a halted device with more
than 8 slots drives `access()` past the 8 places of `commandTables` is not modelled.

Not modelled: the constructor's register sequence; `identify()`, which returns
early by an inverted test (`AHCI.cpp:190`) unless the port stays busy, when it
gives out a second command: the properties are about calls without it;
`writeBytes()` and `rebase()`, which nothing calls.

## 3. Runs

| Run | Question | Bounds |
|---|---|---|
| `thornfat_fresh` | what holds from `make()` on, whatever is called first? | 2 names, 3 paths (a, b, a/b), 7 blocks of 5 cells, of which `make()` takes one, 5 calls, `make()` among them |
| `thornfat_remount` | is there a root directory when the partition is mounted again? (violated) | as above, 2 paths |
| `thornfat_tree` | do calls on a tree of two levels keep the structure sound and implement `FileTree`? | 2 names, 4 paths (a, b, a/a and b/a), 7 blocks of 4 cells (4 usable), 6 calls |
| `thornfat_file` | do two files that grow and shrink stay apart? | 8 blocks of 4 cells (5 usable), lengths 0, 4 and 12, a write across a block's end, 6 calls |
| `thornfat_full` | can a directory be read after its second block is added? (violated) | 2 cells in a block |
| `thornfat_self` | is a node there after a rename onto itself? (violated) | `Careful = FALSE` |
| `thornfat_zero` | does a truncation leave other files alone? (violated) | two files with interleaved blocks |
| `mutex` | exclusion, and the mutex is got again and again | 4 threads |
| `recursive_own` | exclusion, depth, assertions | 4 threads, 3 locks each |
| `heap` | is live memory apart, counted, merged and backed by pages, and does each page serve one purpose? | requests of 0, 33, 40, 104 bytes; pages of 128 bytes; 310 bytes of heap; 3 levels of 4 entries, 27 pages of memory; 3 rounds of 2 pages for ports |
| `storage` | does the cache remember, and implement `BlockDevice`? | 4 blocks of 2 bytes, 2 of them in the cache; a partition of 5 bytes that starts at the second block |
| `ahci` | do calls that succeed move their blocks, whatever the device does, and do all return? | 3 blocks, 2 slots, 2 turns; reads of 1, 2 and 3 blocks in runs of 2 and 1, writes of 2 |

**Why the bounds are enough.** With four usable blocks one of which is the
root's, three nodes fill the disk: blocks are taken, freed and taken again, and
`ENOSPC` happens in each place that the code has for it. A directory of four
cells takes two entries beside its head in the root and three elsewhere, so that
slots are used again in either. Six calls are enough to make a directory and
a file in it, to move both, to remove them and to use their slots and blocks
once more. The bound on calls is there because cells that are freed keep their
bytes, which makes the number of different disks large; as it ends behaviours,
these runs say `CHECK_DEADLOCK FALSE`. A directory block that is full and needs a
second one is left to `thornfat_full`, which shows that it goes wrong there.

`thornfat_fresh` has five cells in a block: two for the root's own entries, two for nodes
of either name and one for a rename between them, so that no directory needs a second
block and meets the defect that `thornfat_full` shows;
`Cleared` is zeroes there, as a cell that does not decode to a free slot would keep
files out of it. `StoredSound` holds of every state of it in which the root is stored,
also when files stood in the slots of "." and ".." and were overwritten by them.

The file runs use lengths at, below and above a block's end. In `thornfat_file`,
lengths of truncations are multiples of a block, as `zeroOutFree()` does nothing
then; with others the run would show the violation of `thornfat_zero` and
nothing else.

The heap's sizes cover a request that splits a block exactly, with a remainder
smaller than a header, and with a real remainder; 33 and 40 are not multiples of
the alignment. `HeaderSize`, `MemoryAlign` are the code's; a page is scaled down
to four alignments so that the heap crosses pages. `MaxEnd` is a little more than
two pages, so that the heap grows by none, one and two pages at a time. Memory is
so small that the ports, or the heap, meet its end in some orders: the run
reaches null pages and a kernel that halts. Three levels stand for four: the walk
repeats one step for each level above the last. A word of the boot's bitmap has
half the bits of the kernel's, as in the code.

In `storage` the partition covers three blocks, the last of them in part, and the
cache holds two: calls begin and end inside blocks, cover whole ones, and evict.
In `ahci` two slots are enough for a command left behind and another beside it,
and for `BadSlot`; two turns, for a device that answers at the first look, at the
last, one too late, or never; three blocks, for a read in two runs. `MaxTicks` lets
the count pass the goal of a wait, which is always 1 in this code. Both runs are
complete: there is no bound on the number of calls.

**Deadlock** is checked in all the runs that do not say otherwise: the mutexes can
always go on. The others may stop: `thornfat_*` at the bound on calls, `heap` when
no page is left, `storage` when `flush()` halts the kernel, `ahci` when the timer's
handler calls a null pointer.

**Fairness.** `Mutex` states weak fairness of what a thread does once it has asked
for the mutex. It says that a thread that can go on goes on: critical sections in
the kernel are finite, and `lock()` polls, with a wait of one tick between two
attempts. It does not say that a given thread gets the mutex, as `lock()` has no
queue, and `SomeoneEnters` does not ask for that.

`AHCIPort` states weak fairness of `access()` and of `wait()`, which the processor
executes, and of the tick, which a timer in periodic mode repeats. The device has
none: `CallsReturn` must hold although it may never answer. A wait that the boot's
timer has spoilt (`Mishap`) is excepted: it does hang, and `LaterWaitsSound` says
that only the first wait of the kernel can be one.

Each property of a passing run is also checked to fail when a definition it
depends on is replaced by a plausible mistake: the operators called *Variant*
in the comments, paired with the properties in `PROJECT.json`.

## 4. What the checks show to be wrong in the code

* `thornfat_remount`: a partition mounted right after `make()` has no root directory,
  because `initData()` writes the root's entries into the allocation table
  (`ThornFAT.cpp:1090` after `1075`). There they make blocks unusable (`Overwritten`),
  and as the root's own block has no entries, a file created first may come to the slot
  of the root's "." (`ThornFAT.cpp:575`) and is lost when the root is stored.
* `thornfat_full`: the new block of a directory is linked to the directory's last
  block instead of the reverse (`ThornFAT.cpp:686`).
* `thornfat_self`: a rename onto itself removes the node (`ThornFAT.cpp:1204`).
* `thornfat_zero`: `zeroOutFree()` clears other files' blocks (`ThornFAT.cpp:987`).
* Without a run of its own: `lock()` of a recursive mutex tests `!locked` where
  `try_lock()` tests `locked` (`Mutex.h:42`). With the identifier 0 that every thread has
  (`Threading.cpp:5`) and that also means "no owner", it takes a free mutex for its own,
  counts up and leaves it unlocked, and `unlock()` meets its assertion at line 93.

## 5. Proofs

TLAPS proves, for every value of the constants under the named assumptions:

* `ThornFATProofs!TypeCorrect` and `ReservedStayReserved`: with careful callers
  `[]TypeOK` and `[]TableReserved`, from `make()` on (`FreshSpec`) and from the stored root
  on (`Spec`). The content of `TypeOK` is that every link and
  every start block that is ever stored is free, a mark or the number of a block
  outside the superblock and the table whose link `make()` has not written over: any
  number that is followed can be used as an index, although the table has words in it
  that are no links. The inductive invariant is `TypeOK /\ TableReserved`; each needs
  the other, because `findFreeBlock()` returns only usable blocks as long as the
  reserved ones are marked, and marks stay as long as chains of usable blocks lead
  to usable blocks. The argument goes up from the helpers (`ForgetTable`,
  `ExtendTable`, `CutTable`: each keeps the form of the table) over lookups
  (`LookupFacts`, `ResolveFacts`) and `newFile()` (`NewFileSound`) to one lemma
  for each call. The closure that `Chain` chooses is handled in `ChainFacts`.
  `Careful` is needed because a directory that is written as a file may hold
  anything.
* `ThornFATProofs!MetadataStays`: with careful callers `[]MetadataUntouched`, for both
  specifications. The property says nothing of the entries by which the next write
  finds its place; the invariant `HInv` does: every cell that holds a directory with
  entries names a usable block (`Housed`), and so does the driver's root. Then a lookup ends at a cell of a usable block (`FoundHoused`), chains stay
  in usable blocks, and so `newFile()`, `resize()` and `zeroOutFree()` write
  behind the table only, or write zeroes (`NewFileHoused`, `ResizedHoused`). It says
  nothing of the root's own block, so that it holds before the root is stored and after
  a block was linked the wrong way round.
* `ThornFATProofs!RootStaysCoherent`: from the stored root on (`Init`), with careful
  callers, `[]RootCoherent`. The invariant
  `MInv` says that the root's first block ends its chain, that no other
  block is followed by it (`Unlinked`), that the root's entry has its form, and that
  no entry which a path can name leads to it (`Clean`). Then a chain that begins
  elsewhere never comes to the root's block (`FiledChain`, by the minimality of
  `Chain`), a name leads to a node stored elsewhere (`LookupNamed`), and so what
  `newFile()` (`NewFileClean`), `resize()` and `zeroOutFree()` (`ResizedClean`,
  `ZeroOutClean`) and each call write lies outside the first two cells of the root.
  One step breaks `Unlinked`: a second block for the root is
  linked to the first and not the first to it (the finding of `thornfat_full`). The
  root is then longer than its chain (`Full`), no path can be looked up, and nothing
  more is written but the root's entry; the invariant has this as its other case.
  `StoringRoot` proves that a reachable state is `Init`. The theorems of the tree
  below start there as well.
* `ThornFATTreeProofs!ChainsStayDisjoint`, `ChainsStaySound`, `NamesStayUnique` and
  `DirectoriesStayHeaded`: the four safety properties of the tree, for any disk, names,
  paths, data and number of calls, under three conditions on the callers. Each of them
  keeps away from one of the findings of section 4, and TLC shows in the run named
  there that the properties fail without it:
  * `Careful`, as above (`thornfat_self`);
  * `Whole`: truncations end at the end of a block, so that `zeroOutFree()` has
    nothing to clear (`thornfat_zero`);
  * no directory outgrows its block (`thornfat_full`). This is stated in two ways.
    `Roomy` is a condition on the constants alone: a block has a slot for each name,
    and two for the root's own entries. `RoomyTree` then proves that no directory
    ever needs a second block (`Uncrowded`: a slot is only added when all are
    taken by different names). `FittingTree` leaves the names open and takes the
    condition as `[]Fits`, of the behaviour.

  The runs `thornfat_tree` and `thornfat_file` have `Careful`, `Whole` and `Roomy`.

  The properties speak of the nodes below the root, which are found level by level.
  Nothing about levels is inductive: `rename()` moves a directory with all that is below
  it, and `newFile()` may fill a slot that has been free for long. The invariant `TInv`
  speaks of cells instead: `Used` are those that hold an entry in use, wherever they are.
  It says that their chains, and the root's, are blocks in use and end (`Sealed`), have no
  block in common (`Separate`) and are long enough (`Long`); that a directory is one
  block (`Compact`), begins with its header and has entries in all its slots
  (`Headed`); that each cell in use is a slot of a directory (`Owned`), where no other has
  its name (`Unique`), and that the other slots are really free (`Filled`). `Separate`
  is why freeing a chain takes no block from another one (`CutChain`), and needs `Sealed`:
  a chain that led to a free block would meet the next file that takes it. `Owned`
  is why the cells that a removed directory or file leaves behind in its blocks, which
  keep their bytes, are never taken for entries later: a block that is taken for a
  directory gets a header and a length of one. `Compact` is why a name is looked for
  in one block, and `Filled` why `newFile()` finds the slot that it takes to be
  free. The argument goes up from chains (`ChainWithin`, `ChainSame`, `CutChain`,
  `ExtendChain`) over what a change to the disk keeps of the invariant (`AddNode`, `MoveNode`,
  `Remove`, `Refile`, `SetLength`) to one lemma for each call and `StepTree`. `NodesFound`
  leads back to the properties: by induction on the levels of the tree, each node is a cell
  of `Used`, and two nodes with one cell are one.
* `ThornFATTreeProofs!NoBlockLost`: under the same conditions no call that succeeds
  makes a block unreachable that is not free (`NoLeakOnSuccess`). What is lost is
  defined by what paths lead to, and `TInv` by cells, so the proof needs that each
  entry in use is on some path: `Connected`, proved by induction on the shortest path
  that is not as it was. A path leads to one cell and a cell is on one path
  (`Paths`), a node keeps its path when the nodes along it keep their name and
  block (`StillAt`), `rename()` takes the paths below its source along (`ShiftedAt`), and
  an empty directory is on no path but its own (`RemovedAt`). Then the blocks that are
  lost are those that no entry in use leads to (`SpareLeaked`), and of these no call
  makes one more. A call that fails may: `newFile()` takes a block before it looks for the
  parent, which is one of the hazards listed.
* `ThornFATTreeProofs!DriverImplementsTree`: under the same conditions the driver
  implements `FileTree` (`TreeSpec`). Each call is first brought to its effect on the
  cells (`Effects`: a node `Added`, `Taken`, `Relocated`, `Edited`, or nothing), with
  all other nodes as they were (`Stays`), and each effect to its picture in the tree:
  `AddedShown`, `TakenShown`, `RelocatedShown`, `TruncatedShown`, `WrittenShown`,
  `KeptShown` and `FreshShown`. `Pictured` gives the mapping a form without its choices:
  the domain is the set of paths that lead somewhere, and each shows the node there. For
  the content of files the index of a cell in its chain has to tell the cell
  (`IndexOnce`), which stays so when the chain grows or is cut (`ContentResized`).
* `MutexProofs!Exclusion`: `[]MutualExclusion` for any set of threads. The
  invariant adds that the flag is set while a thread is inside.
* `RecursiveMutexProofs!Exclusion`, `Depth`, `Assertions`, `NoOrphans`: for any set of threads with
  distinct positive identifiers that do not call `lock()` on a mutex they hold.
  The invariant says who is in the window between the exchange and the owner's
  name, and what the owner and the depth are outside of it.
* `StorageCacheProofs`: for any sizes of disk, block, cache and partition,
  `CacheBounded`, `CacheRemembers`, `CacheKeepsRecent`, `ChangesAreDirty`,
  `FlushesAll`, and `Refinement`: the cache implements `BlockDevice`. The invariant `IInv` adds to
  `TypeOK` and `Remembers` that the list has no block twice (without which an
  eviction could leave a key in the list), that a call in progress lies on the
  disk, that every cached block counts as used, and that `flush()` has left only
  flushed blocks behind it. `CacheKeepsRecent` adds that `recent` has each block
  once, so that moving a block to the front of `recent` moves it to the front of
  `list`, which is the beginning of `recent`. The refinement rests on two facts: a block is
  evicted only if the blocks in use, which include all the cached ones, are more
  than the cache holds; and what `Copied` delivers of a block that is not lost is,
  by `Remembers`, what was written there.
* `AHCIPortProofs`: for any disk, number of slots, number of turns and sizes of
  runs, `WaitsSound`, `NoQueue`, `ReadsDeliver`, `WritesStore` and
  `OnlyTheWriteChanges`. `TimerInv` says that from the second wait on the timer is
  off until the set-up is complete and that `waiting` then means `ticks < goal`.
  `PortInv` says what the device may be at in each phase (`Place`): when
  `access()` has got as far as giving out a command, the device is busy with no
  other one, because the task file register was not busy; and `Progress`: what
  the call has moved is the same on both sides, and stays so because nothing
  given up before can be under way once a first access has succeeded, as each
  successful access ends in `stop()`.
* `KernelMemoryProofs`, its first part: for any sizes of header, alignment, page and request, and however
  far the heap grows, `SpecLiveIntact`, `SpecAccounted` and `SpecCoalesced` of
  `Heap`'s own specification. The invariant `HeapInv` says that the blocks follow
  each other in the order of the list, none reaching over the next header and the
  last one ending before `end` (`Ordered`, `Placed`), that what follows a header is
  aligned (`Aligned`), and that each pointer out is that of a block in use which is
  at least as large as was asked for (`Given`). Each part is needed: that a
  remainder made by `split()` does not run over the next header follows from the
  signed `new_size` only because the next block starts where it does; that two
  callers' bytes are apart, from the order of the list; that `free()` takes off
  what `allocate()` added, from one block for a pointer. `SplitCleft` and
  `MergeFacts` say what becomes of the list.
* `KernelMemoryProofs`, its second part: `MemoryIsHeap`, that the heap in the kernel is the heap, from
  which its three properties carry over; then `SpecFramesApart`, `SpecReachable` and
  `SpecBacked`, for any number of levels, entries in a table, frames, ports, and
  words of any two sizes. They rest on `MemoryInv`:
  * `Valid`: the frame behind an entry of the kernel's own (a table, a page of the
    stack or the heap) is marked, is that of no other such entry and not given to
    a port (`Sound`); tables lie in memory; what is mapped before the heap is
    mapped to itself.
  * `Ported`: the ports' pages are different, lie in memory, and are mapped to their
    own addresses as long as the kernel has not halted. A port may get no page: the
    null address, which the boot has mapped to itself.
  * `BootAt`: which part of memory the boot has mapped after so many turns, and that
    it has marked no more frames than it has filled entries (`Few`), so that its
    findFree(), which does not look at the end of memory, stays in it.
  * `HeapMapped` and `Backing`: the heap's pages are there as far as
    `highestAllocated`, which is past `end` and lies as far into its page as the
    first header.

  A walk of `assign()`, the pages of `requestSpace()` and those of a port are folds;
  `Minimum!FoldExists` and `FoldStates` turn a fold into the row of its
  intermediate states, by the least turn that fails, and so into facts about each
  turn (`TablesIn`, `ExtendedRun`, `PortsFold`).

Assumptions: `GeometryAssumption` (the checks of `make()`), `NameAssumption`,
`DataAssumption` (a cell of user data is told apart from an entry: what bytes of data
would decode to is `Decode`'s matter), `ClearedAssumption` (what is left in a cleared
cell is zeroes or like user data), `TailWordAssumption`,
`CallsAssumption`, `ConstantsAssumption`, `StorageAssumption`, `TimerAssumption`,
`PortAssumption`, `HeapAssumption`, `PagingAssumption`, `BootAssumption` and
`MemoryAssumption`, all evaluated by TLC on the instances. `BootAssumption` says that
the machine has memory enough for the kernel, the boot's tables and the stack: the
boot's allocator does not test it, and hands out frames past the end of memory on
a machine that has less. `MemoryAssumption` has the layout of `Kernel.cpp:103` (the
identity map and the APIC below the heap, the heap below the map of physical
memory) and that `MEMORY_ALIGN`, a multiple of 8, is at most 8 more than a header,
without which `Backed` would fail.

Only model-checked: the liveness properties `SomeoneEnters` and `CallsReturn`, which
are out of the provers' reach. A bound of TLC's is left in some theorems: `MaxEnd`,
`MaxPorts` and `MaxCalls` are constants of any size there.

## 6. Not modelled

* ThornFAT with a power failure or a device error inside a call. As the AHCI
  device keeps every write in its cache and nothing calls `flush()`, a power
  failure today leaves the disk as it was; a model of partial writes is worth
  making when writes reach the disk.
* Processes: `makeProcess()`, `nextPID()` and `allocatePage()` have no callers, and
  with the identifier 0 of all threads their locks do not lock. The module is planned
  for when they run.
* An interrupt of the keyboard inside `malloc()`: `Heap` takes each call as one
  step, and the code does nothing to make it so.
* The IDE driver: port input and output by polling without a bound.
* Page allocation of more than one page at a time and `freeEntry()`, which nothing
  uses; flags of page table entries.
* Input, output, parsing: keyboard, terminal, serial port, printf, PCI, UHCI, GPT,
  MBR, ELF, SHA-1, and the vendored libraries (libc++, musl, elfio, the PCI
  identifiers), which are most of the lines of the repository.

## 7. Plan

1. *Done*: ThornFAT, the mutexes, the heap; type correctness and the reserved
   table; exclusion.
2. *Done*: the cache and its refinement of `BlockDevice`, the port with the timer,
   the pager under the heap; their safety proved.
3. *Done*: the heap's and the pager's safety, `MetadataUntouched` and `RootCoherent`
   proved, then the tree's: `ChainsDisjoint`, `ChainsSound`, `UniqueNames`,
   `DirectoriesHeaded`, `NoLeakOnSuccess` and the refinement of `FileTree`. Left: what
   holds without `Whole`, when a truncation ends inside a block.
4. `ThornFATCrash`: rmdir, unlink, create and truncate as the sequence of their
   device writes over `BlockDevice`, with device errors.
5. `Processes`, composed with `RecursiveMutex` and `Mutex`.
6. IDE: the read, modify and write of parts of sectors.
