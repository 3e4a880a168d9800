-------------------------------- MODULE Heap --------------------------------
(***************************************************************************)
(* The kernel's heap (src/src/memory/Memory.cpp): a list of blocks, each a *)
(* header followed by the bytes handed out, that grows at its end and has  *)
(* pages assigned to it as it grows.  Addresses are relative to the start  *)
(* given to setBounds(), which is page-aligned.  Callers free what they    *)
(* were given, once; a pointer is the address after a header.              *)
(***************************************************************************)
EXTENDS Integers, Sequences, FiniteSets, SequencesExt, FiniteSetsExt

CONSTANTS
  HeaderSize,   \* sizeof(BlockMeta)
  MemoryAlign,  \* MEMORY_ALIGN
  PageLength,   \* PAGE_LENGTH
  Request,      \* the sizes callers ask for
  MaxEnd        \* bound: how far the heap may grow

ASSUME HeapAssumption ==
    /\ HeaderSize \in Nat \ {0} /\ MemoryAlign \in Nat \ {0} /\ PageLength \in Nat \ {0}
    /\ HeaderSize < MemoryAlign /\ PageLength % MemoryAlign = 0
    /\ Request \subseteq Nat /\ MaxEnd \in Nat

VARIABLES
  blocks,     \* the list from base: [at, size, free], `next` being the order
  end,        \* Memory::end
  highest,    \* Memory::highestAllocated
  allocated,  \* Memory::allocated
  live        \* pointer |-> the size asked for, of what callers hold

vars == <<blocks, end, highest, allocated, live>>

Realign(val) ==
    LET offset == (val + HeaderSize) % MemoryAlign
    IN  IF offset # 0 THEN val + MemoryAlign - offset ELSE val

\* Variant: a page at most is assigned.
AssignedOnce(h, e) == IF h <= e THEN h + PageLength ELSE h

\* Pages are assigned until highestAllocated is past the end.
Assigned(h, e) ==
    IF h <= e THEN h + PageLength * ((e - h) \div PageLength + 1) ELSE h

Fits(b, size) == b.free /\ b.size >= size

\* Variant: the remainder reaches over the header of the next block.
SplitOverNext(bs, i, size) ==
    LET at   == Realign(bs[i].at + size + HeaderSize + 1)
        rest == IF i < Len(bs) THEN bs[i + 1].at - at ELSE bs[i].at + bs[i].size - at
    IN  IF rest > 0
        THEN [InsertAt(bs, i + 1, [at |-> at, size |-> rest, free |-> TRUE])
                 EXCEPT ![i].size = size]
        ELSE bs

\* split() of the i-th block: what the list becomes.
Split(bs, i, size) ==
    LET at   == Realign(bs[i].at + size + HeaderSize + 1)
        rest == IF i < Len(bs) THEN bs[i + 1].at - at - HeaderSize
                ELSE bs[i].at + bs[i].size - at
    IN  IF bs[i].size > size + HeaderSize /\ rest > 0
        THEN [InsertAt(bs, i + 1, [at |-> at, size |-> rest, free |-> TRUE])
                 EXCEPT ![i].size = size]
        ELSE bs

\* Variant: free() does not merge.
MergeNone(bs) == bs

\* One turn of merge(): a free block after a free block becomes part of it.
Join(bs, b) ==
    IF bs # <<>> /\ Last(bs).free /\ b.free
    THEN [bs EXCEPT ![Len(bs)].size = @ + HeaderSize + b.size]
    ELSE Append(bs, b)

\* merge() joins each run of free blocks to its first.
Merge(bs) == FoldLeft(Join, <<>>, bs)

-----------------------------------------------------------------------------
(* malloc() and free(). *)

\* Variant: the size asked for is counted, not the block's.
GiveAsked(b, size) ==
    /\ allocated' = allocated + size + HeaderSize
    /\ live' = [p \in DOMAIN live \cup {b.at + HeaderSize} |->
                    IF p = b.at + HeaderSize THEN size ELSE live[p]]

Give(b, size) ==
    /\ allocated' = allocated + b.size + HeaderSize
    /\ live' = [p \in DOMAIN live \cup {b.at + HeaderSize} |->
                    IF p = b.at + HeaderSize THEN size ELSE live[p]]

\* requestSpace(): no block fits.
Grow(size) ==
    LET b == [at |-> Realign(end), size |-> size, free |-> FALSE]
    IN  /\ size > 0 /\ \A i \in DOMAIN blocks : ~Fits(blocks[i], size)
        /\ end' = b.at + size + HeaderSize + 1
        /\ end' <= MaxEnd
        /\ highest' = Assigned(highest, end')
        /\ blocks' = Append(blocks, b)
        /\ Give(b, size)

\* The first block that fits is split and taken.
Reuse(size) ==
    \E i \in DOMAIN blocks :
        LET now == [Split(blocks, i, size) EXCEPT ![i].free = FALSE]
        IN  /\ size > 0 /\ Fits(blocks[i], size)
            /\ \A j \in 1..i - 1 : ~Fits(blocks[j], size)
            /\ blocks' = now
            /\ Give(now[i], size)
            /\ UNCHANGED <<end, highest>>

\* malloc(0) is a null pointer.
AllocateNothing == 0 \in Request /\ UNCHANGED vars

Free(p) ==
    \E i \in DOMAIN blocks :
        /\ blocks[i].at + HeaderSize = p
        /\ blocks' = Merge([blocks EXCEPT ![i].free = TRUE])
        /\ allocated' = allocated - (blocks[i].size + HeaderSize)
        /\ live' = [q \in DOMAIN live \ {p} |-> live[q]]
        /\ UNCHANGED <<end, highest>>

\* setBounds().
Init ==
    /\ blocks = <<>>
    /\ end = 0
    /\ highest = Realign(0)
    /\ allocated = 0
    /\ live = <<>>

Next ==
    \/ AllocateNothing
    \/ \E size \in Request : Grow(size) \/ Reuse(size)
    \/ \E p \in DOMAIN live : Free(p)

Spec == Init /\ [][Next]_vars

-----------------------------------------------------------------------------
(* Properties. *)

\* Two spans of bytes that have none in common.
Apart(a, n, b, m) == a + n <= b \/ b + m <= a

\* What a caller holds lies in a block of its own that is marked as taken: it
\* overlaps neither what another caller holds nor any header of the list, so
\* that no store of a caller can reach the list, whatever was split and merged.
LiveIntact ==
    \A p \in DOMAIN live :
        /\ \A q \in DOMAIN live \ {p} : Apart(p, live[p], q, live[q])
        /\ \A i \in DOMAIN blocks : Apart(p, live[p], blocks[i].at, HeaderSize)
        /\ \E i \in DOMAIN blocks : blocks[i].at + HeaderSize = p /\ ~blocks[i].free

\* The count of allocated bytes is that of the blocks in use: what allocate()
\* adds for a block is what free() takes off, even if the block was left larger
\* than what was asked for.
Counted(n, b) == IF b.free THEN n ELSE n + b.size + HeaderSize
Taken(bs)     == FoldLeft(Counted, 0, bs)
Accounted     == allocated = Taken(blocks)

\* Every run of free blocks is one block, although split() makes new ones.
Coalesced == \A i \in 1..Len(blocks) - 1 : ~(blocks[i].free /\ blocks[i + 1].free)
=============================================================================
