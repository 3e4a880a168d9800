---------------------------- MODULE KernelMemory ----------------------------
(***************************************************************************)
(* The heap, the ports of the disk controllers and the pager that gives    *)
(* both their pages, from the boot on.  Each takes the pager's lock for    *)
(* all the pages it needs at a time.                                       *)
(***************************************************************************)
EXTENDS Heap, Paging

CONSTANTS
  HeapPage,    \* the virtual page where the heap starts
  PortFrames,  \* pages that Port's constructor asks for
  MaxPorts     \* bound: how many ports are made

\* What the boot maps to itself and the APIC lie below the heap, and the heap's region
\* ends before the map of physical memory (Kernel::boot() calls setBounds() so); a
\* BlockMeta has 24 bytes and MEMORY_ALIGN is 32.
ASSUME MemoryAssumption ==
    /\ {HeapPage, PortFrames, MaxPorts} \subseteq Nat
    /\ IdentityPages <= HeapPage /\ ApicPage < HeapPage /\ HeapPage <= MemoryMap
    /\ MemoryAlign % 8 = 0 /\ MemoryAlign - HeaderSize <= 8

VARIABLES
  memory,  \* as in Paging
  dma,     \* the pages given to ports, in order
  booted   \* pages the boot has mapped; one more for APIC::init()

mvars == <<memory, dma, booted>>

-----------------------------------------------------------------------------
(* requestSpace(): pages are assigned while highestAllocated <= end. *)

NewPages(from, to) ==
    [i \in 1..(to \div PageLength) - (from \div PageLength) |->
        HeapPage + (from \div PageLength) + i - 1]

Extended(from, to) ==
    FoldLeft(LAMBDA m, v : Assign(m, v, None), memory, NewPages(from, to))

GrowMapped(size) ==
    /\ Grow(size)
    /\ memory' = Extended(highest, highest')
    /\ ~memory'.stuck
    /\ UNCHANGED <<dma, booted>>

\* No page is left: the kernel halts before it writes the block's header.
GrowStuck(size) ==
    LET to == Realign(end) + size + HeaderSize + 1
    IN  /\ size > 0 /\ \A i \in DOMAIN blocks : ~Fits(blocks[i], size)
        /\ to <= MaxEnd
        /\ memory' = Extended(highest, Assigned(highest, to))
        /\ memory'.stuck
        /\ UNCHANGED <<vars, dma, booted>>

-----------------------------------------------------------------------------
\* One page of a port: allocated and mapped to its own address, without a look at
\* whether there was one.
PortPage(s, i) ==
    LET a == Allocate(s.m)
    IN  [m |-> IdentityMap(a.m, a.page), pages |-> Append(s.pages, a.page)]

MakePort ==
    LET after == FoldLeft(PortPage, [m |-> memory, pages |-> <<>>], [i \in 1..PortFrames |-> i])
    IN  /\ Len(dma) < MaxPorts * PortFrames
        /\ memory' = after.m
        /\ dma' = dma \o after.pages
        /\ UNCHANGED <<vars, booted>>

-----------------------------------------------------------------------------
InitMemory == Init /\ memory = Fresh /\ dma = <<>> /\ booted = 0

BootPage ==
    /\ booted < BootPages
    /\ memory' = BootStep(memory, booted)
    /\ booted' = booted + 1
    /\ UNCHANGED <<vars, dma>>

\* APIC::init() maps its registers.
ApicInit ==
    /\ booted = BootPages
    /\ memory' = IdentityMap(memory, ApicPage)
    /\ booted' = booted + 1
    /\ UNCHANGED <<vars, dma>>

Running == booted > BootPages /\ ~memory.stuck

NextMemory ==
    \/ BootPage
    \/ ApicInit
    \/ \E size \in Request : Running /\ GrowMapped(size)
    \/ \E size \in Request : Running /\ GrowStuck(size)
    \/ \E size \in Request : Running /\ Reuse(size) /\ UNCHANGED mvars
    \/ \E p \in DOMAIN live : Running /\ Free(p) /\ UNCHANGED mvars
    \/ Running /\ AllocateNothing /\ UNCHANGED mvars
    \/ Running /\ MakePort

SpecMemory == InitMemory /\ [][NextMemory]_<<vars, mvars>>

-----------------------------------------------------------------------------
(* Properties. *)

Entries == DOMAIN memory.entries

\* The entries whose pages were allocated: tables, the stack and the heap.
Own == {e \in Entries : \/ e[1] < Levels
                        \/ e[2] > LastPage - StackPages
                        \/ HeapPage <= e[2] /\ e[2] < MemoryMap}

\* No page serves two purposes: the tables, the stack, the heap's pages and the
\* ports' buffers are all different, although two allocators with words of
\* different sizes have taken them from one bitmap.
FramesApart ==
    LET given == {i \in DOMAIN dma : dma[i] # None}
    IN  Cardinality({memory.entries[e] : e \in Own} \cup {dma[i] : i \in given})
            = Cardinality(Own) + Cardinality(given)

MappedTo(v, page) == <<Levels, v>> \in Entries /\ memory.entries[<<Levels, v>>] = page

\* What the kernel writes by address is what the hardware reads: a port's page is
\* mapped to its own address, whoever has mapped it first, and every page table
\* lies in the part of memory through which assign() reaches it.
Reachable ==
    Running =>
        /\ \A i \in DOMAIN dma : MappedTo(dma[i], dma[i])
        /\ \A e \in Entries : e[1] < Levels =>
               MappedTo(MemoryMap + memory.entries[e], memory.entries[e])

Page(address) == HeapPage + address \div PageLength

\* Every header and all that callers hold has pages, if its size is a multiple of
\* 8: setBounds() starts to assign pages at the first header and not at the start
\* of its page, so that the last MemoryAlign - HeaderSize - 2 bytes of another
\* size can lie in a page not yet assigned, which is a fault that ends the kernel.
Backed ==
    /\ \A i \in DOMAIN blocks : \A a \in {blocks[i].at, blocks[i].at + HeaderSize - 1} :
           <<Levels, Page(a)>> \in Entries
    /\ \A p \in DOMAIN live : live[p] % 8 = 0 =>
           \A v \in Page(p)..Page(p + live[p] - 1) : <<Levels, v>> \in Entries
=============================================================================
