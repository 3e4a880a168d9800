------------------------------- MODULE Paging -------------------------------
(***************************************************************************)
(* Page frames and the kernel's page tables: the walk of assign() and the  *)
(* bitmap of PageMeta4K (src/src/arch/x86_64/PageMeta.cpp), and the boot   *)
(* code that fills the first tables with an allocator of its own over the  *)
(* same bitmap (src/32/paging.cpp).  Addresses are page numbers.  An entry *)
(* is named by its level and by the number of pages like its own before    *)
(* it, so that <<Levels, v>> is the entry that maps the virtual page v.    *)
(***************************************************************************)
EXTENDS Integers, SequencesExt, FiniteSetsExt

CONSTANTS
  Levels, Fanout,     \* levels of tables, and entries in a table
  PhysicalStart,      \* the physical page after the kernel: frame 0
  MemoryHigh,         \* the last physical page
  WordBits, BootBits, \* bits in a word of the bitmap, for the kernel and the boot
  IdentityPages,      \* how many pages the boot maps to themselves
  StackPages,
  ApicPage

ASSUME PagingAssumption ==
    /\ {Levels, Fanout, PhysicalStart, WordBits, BootBits} \subseteq Nat \ {0}
    /\ {MemoryHigh, IdentityPages, StackPages, ApicPage} \subseteq Nat
    /\ PhysicalStart < MemoryHigh /\ MemoryHigh < ApicPage

None == 0  \* no address: physical page 0 belongs to the firmware

\* The virtual addresses end with the stack; physical memory is mapped before it.
LastPage  == Fanout ^ Levels - 1
MemoryMap == LastPage - StackPages - MemoryHigh

EntryOf(v, level) == <<level, v \div Fanout ^ (Levels - level)>>

\* A state of the memory: the marked frames, the entries that are present, and
\* whether the kernel has halted for want of a page.
Fresh == [used |-> {}, entries |-> <<>>, stuck |-> FALSE]

Put(m, e, page) ==
    [m EXCEPT !.entries = [x \in DOMAIN m.entries \cup {e} |->
                              IF x = e THEN page ELSE m.entries[x]]]

-----------------------------------------------------------------------------
(* Allocators. *)

\* The boot's findFree(1) leaves out the first word; the bitmap is far larger than
\* what the boot marks.
BootFree(used) == Min((BootBits..BootBits + Cardinality(used)) \ used)

Pages == MemoryHigh - PhysicalStart

\* PageMeta4K::findFree(), -1 if there is none: the bits of a last word that is
\* not whole are left out.
FindFree(used) ==
    LET free == (0..(Pages \div WordBits) * WordBits - 1) \ used
    IN  IF free = {} THEN -1 ELSE Min(free)

FreeFrame(by, used) == IF by = "boot" THEN BootFree(used) ELSE FindFree(used)

\* One level of a walk for the virtual page v: an entry that is missing gets a
\* page of its own.
Level(m, e, by) ==
    LET f == FreeFrame(by, m.used)
    IN  IF m.stuck \/ e \in DOMAIN m.entries THEN m
        ELSE IF f = -1 THEN [m EXCEPT !.stuck = TRUE]
        ELSE Put([m EXCEPT !.used = @ \cup {f}], e, PhysicalStart + f)

Tables(m, v, by) ==
    FoldLeft(LAMBDA n, level : Level(n, EntryOf(v, level), by), m, [l \in 1..Levels - 1 |-> l])

-----------------------------------------------------------------------------
(* The boot. *)

BootAllocate(m, v, page) == Put(Tables(m, v, "boot"), <<Levels, v>>, page)

\* The virtual pages that the boot maps, and the tables they need: with the stack
\* they fit between the kernel and the end of memory.
BootAddresses == (0..IdentityPages - 1) \cup (MemoryMap..LastPage)
BootTables    == {EntryOf(v, level) : v \in BootAddresses, level \in 1..Levels - 1}

ASSUME BootAssumption ==
    /\ IdentityPages > 0 /\ MemoryMap \in Nat
    /\ PhysicalStart + BootBits + Cardinality(BootTables) + StackPages <= MemoryHigh

\* setup_paging(), page by page: the first pages are mapped to themselves, all of
\* the memory below the stack, and the stack to new pages.
BootPages == IdentityPages + MemoryHigh + 1 + StackPages

BootStep(m, i) ==
    LET p == i - IdentityPages
        q == p - MemoryHigh - 1
        f == BootFree(m.used)
    IN  IF p < 0 THEN BootAllocate(m, i, i)
        ELSE IF q < 0 THEN BootAllocate(m, MemoryMap + p, p)
        ELSE BootAllocate([m EXCEPT !.used = @ \cup {f}], LastPage - q, PhysicalStart + f)

-----------------------------------------------------------------------------
(* The pager. *)

\* Variant: the page given is not looked at.
AssignNew(m, v, page) == Level(Tables(m, v, "pager"), <<Levels, v>>, "pager")

\* assign(): an entry that is present stays as it is; without a page given it
\* gets a new one.
Assign(m, v, page) ==
    LET tables == Tables(m, v, "pager")
    IN  IF page = None THEN Level(tables, <<Levels, v>>, "pager")
        ELSE IF tables.stuck \/ <<Levels, v>> \in DOMAIN tables.entries THEN tables
        ELSE Put(tables, <<Levels, v>>, page)

\* Variant: the frame is not marked.
AllocateUnmarked(m) ==
    LET f == FindFree(m.used)
    IN  IF f = -1 THEN [m |-> m, page |-> None]
        ELSE [m |-> m, page |-> PhysicalStart + f]

\* allocateFreePhysicalAddress(): the memory afterwards, and the page or None.
Allocate(m) ==
    LET f == FindFree(m.used)
    IN  IF f = -1 THEN [m |-> m, page |-> None]
        ELSE [m |-> [m EXCEPT !.used = @ \cup {f}], page |-> PhysicalStart + f]

IdentityMap(m, page) == Assign(m, page, page)
=============================================================================
