--------------------------- MODULE ThornFATProofs ---------------------------
(***************************************************************************)
(* ThornFAT keeps to the blocks it may use, for every partition, every set *)
(* of paths and every sequence of calls from make() on that respects       *)
(* Careful: the table and the entries stay well formed, and no block of    *)
(* the superblock or the table is ever handed out, linked to, freed or     *)
(* written over.  From the moment that the root directory is stored, its   *)
(* entry, the copy of it and the driver's agree.                           *)
(***************************************************************************)
EXTENDS ThornFAT, Minimum, TLAPS, FiniteSetTheorems

-----------------------------------------------------------------------------
(* Blocks and tables. *)

\* The blocks are those of the superblock and the table, the usable ones, and
\* those whose links initData() has written over.
LEMMA BlockFacts ==
  /\ Block = Reserved \cup Usable \cup Overwritten
  /\ Reserved \cap Usable = {} /\ Overwritten \cap (Reserved \cup Usable) = {}
  /\ Block \subseteq Nat /\ 0 \in Reserved /\ StartBlock \in Usable
  /\ 0 \notin Usable /\ UNUSABLE \notin Block /\ FINAL \notin Block
  /\ UNUSABLE < 0 /\ FINAL < 0 /\ UNUSABLE # FINAL
  /\ IsFiniteSet(Block) /\ RootLoc \in Loc
<1>1. IsFiniteSet(Block)
  BY FS_Interval, GeometryAssumption DEF Block
<1> QED
  BY <1>1, GeometryAssumption
     DEF Block, Reserved, Usable, Overwritten, StartBlock, UNUSABLE, FINAL, RootLoc, Loc

\* What initData() has written over a link is a number, and does not say "free".
LEMMA RootWordFacts ==
  ASSUME NEW b \in Overwritten
  PROVE  RootWord(b - StartBlock - 1) \in Int /\ RootWord(b - StartBlock - 1) # 0
<1>1. StartBlock \in Int
  BY GeometryAssumption DEF StartBlock
<1>2. \A k \in Int : RootWord(k) \in Int
  BY <1>1, TailWordAssumption DEF RootWord
<1>3. b - StartBlock - 1 \in Int /\ RootWord(b - StartBlock - 1) # 0
  BY <1>1, GeometryAssumption DEF Overwritten
<1> QED
  BY <1>2, <1>3

\* A table in which the links of the blocks that are in use are well formed, the
\* reserved blocks are marked, and nothing else comes to the words of initData().
Table(f) ==
    /\ f \in [Block -> Int]
    /\ \A b \in Reserved \cup Usable : f[b] \in Link
    /\ \A b \in Reserved : f[b] = UNUSABLE
    /\ \A b \in Overwritten : f[b] = RootWord(b - StartBlock - 1)

\* Links are numbers.
LEMMA LinkFacts == Link \subseteq Int /\ 0 \in Link /\ FINAL \in Link /\ UNUSABLE \in Link
BY GeometryAssumption DEF Link, UNUSABLE, FINAL, Usable, StartBlock

\* The start of an entry: no block, or one that files may use.
Start == {0} \cup Usable

\* A chain stays among the usable blocks: the least closed set exists, because
\* the intersection of the closed sets that contain b is closed itself.
LEMMA ChainLeast ==
  ASSUME NEW f, Table(f), NEW b \in Start
  PROVE  /\ b \in Chain(f, b) /\ Chain(f, b) \subseteq Start
         /\ b \in Usable => Chain(f, b) \subseteq Usable
         /\ Closed(f, Chain(f, b))
         /\ \A R \in SUBSET Chain(f, b) : b \in R /\ Closed(f, R) => R = Chain(f, b)
<1> USE BlockFacts
<1>0. b \in Block /\ f[b] \in Link /\ Usable \subseteq Nat
  BY DEF Table, Start
<1>1. CASE f[b] <= 0
  <2>1. Chain(f, b) = {b}
    BY <1>1 DEF Chain
  <2>2. ~(f[b] > 0)
    <3>2. f[b] \in Int
      BY ONLY <1>0, LinkFacts
    <3> QED BY ONLY <3>2, <1>1
  <2> QED BY <2>1, <2>2 DEF Closed, Start
<1>2. CASE ~(f[b] <= 0)
  <2>1. b \in Usable
    <3>1. CASE b = 0
      <4>1. f[b] = UNUSABLE
        BY <3>1 DEF Table
      <4> QED BY <4>1, <1>2 DEF UNUSABLE
    <3> QED BY <3>1 DEF Start
  <2> DEFINE Good(S) == b \in S /\ Closed(f, S)
             Least(S) == /\ b \in S /\ Closed(f, S)
                         /\ \A R \in SUBSET S : b \in R /\ Closed(f, R) => R = S
             I == {x \in Usable : \A S \in SUBSET Usable : Good(S) => x \in S}
  <2>2. I \in SUBSET Usable /\ b \in I
    BY <2>1
  <2>3. Closed(f, I)
    <3> SUFFICES ASSUME NEW x \in I, f[x] > 0 PROVE f[x] \in I
      BY DEF Closed
    <3>1. f[x] \in Usable
      <4>1. f[x] \in Link
        BY <2>2 DEF Table
      <4> QED BY <4>1 DEF Link, UNUSABLE, FINAL
    <3>2. ASSUME NEW S \in SUBSET Usable, Good(S) PROVE f[x] \in S
      BY <3>2 DEF Closed
    <3> QED BY <3>1, <3>2
  <2>4. Least(I)
    BY <2>2, <2>3
  <2>5. PICK S \in SUBSET Usable : S = Chain(f, b) /\ Least(S)
    <3>1. Chain(f, b) = CHOOSE S \in SUBSET Usable : Least(S)
      BY <1>2 DEF Chain
    <3> HIDE DEF Least, I
    <3> QED BY <3>1, <2>4, <2>2
  <2> QED BY <2>5 DEF Start
<1> QED
  BY <1>1, <1>2, <1>0 DEF Link, UNUSABLE, FINAL

LEMMA ChainFacts ==
  ASSUME NEW f, Table(f), NEW b \in Start
  PROVE  /\ b \in Chain(f, b) /\ Chain(f, b) \subseteq Start
         /\ b \in Usable => Chain(f, b) \subseteq Usable
BY ChainLeast

\* findFreeBlock() returns a usable block unless every block is taken.
LEMMA FreeBlockFacts ==
  ASSUME NEW f, Table(f)
  PROVE  /\ FreeBlocks(f) \subseteq Usable
         /\ FreeBlocks(f) # {} => FindFreeBlock(f) \in FreeBlocks(f)
         /\ FreeBlocks(f) = {} => FindFreeBlock(f) = UNUSABLE
<1>1. FreeBlocks(f) \subseteq Usable
  BY BlockFacts, RootWordFacts DEF FreeBlocks, Table, UNUSABLE
<1>2. FreeBlocks(f) # {} => \E b \in FreeBlocks(f) : \A c \in FreeBlocks(f) : b <= c
  BY <1>1, BlockFacts, NatMin
<1> QED
  BY <1>1, <1>2 DEF FindFreeBlock

\* A usable block may be given any link without harm to the table.
LEMMA MarkTable ==
  ASSUME NEW f, Table(f), NEW b \in Usable, NEW v \in Link
  PROVE  Table(Mark(f, b, v))
BY BlockFacts, LinkFacts DEF Table, Mark

\* forget() takes no mark of the superblock or the table away, and does not come
\* to a word of initData()'s.
LEMMA ForgetTable ==
  ASSUME NEW f, Table(f), NEW b \in Start
  PROVE  Table(Forget(f, b))
<1>1. \A x \in Reserved : x \in Block /\ f[x] = UNUSABLE /\ ~(f[x] = FINAL \/ f[x] > 0)
  BY BlockFacts DEF Table, UNUSABLE, FINAL
<1>2. \A x \in Overwritten : x \in Block /\ x \notin Chain(f, b)
  BY ChainFacts, BlockFacts DEF Start
<1>3. Usable \subseteq Block /\ Reserved \subseteq Block
  BY BlockFacts
<1> QED
  BY <1>1, <1>2, <1>3, LinkFacts DEF Table, Forget

\* Shrinking a chain changes none but its blocks.
LEMMA CutTable ==
  ASSUME NEW f, Table(f), NEW b \in Usable, NEW n
  PROVE  Table(Cut(f, b, n))
<1>1. \A x \in Reserved \cup Overwritten : x \in Block /\ x \notin Chain(f, b)
  BY ChainFacts, BlockFacts DEF Start
<1> DEFINE link(x) == CASE x \notin Chain(f, b)                    -> f[x]
                        [] x \in Chain(f, b) /\ Steps(f, b, x) >= n    -> 0
                        [] x \in Chain(f, b) /\ Steps(f, b, x) = n - 1 -> FINAL
                        [] OTHER -> f[x]
<1>2. \A x \in Block : link(x) \in {f[x], 0, FINAL}
  OBVIOUS
<1>3. \A x \in Reserved \cup Overwritten : link(x) = f[x]
  BY <1>1
<1>4. Cut(f, b, n) = [x \in Block |-> link(x)]
  BY DEF Cut
<1> HIDE DEF link
<1> QED
  BY <1>2, <1>3, <1>4, BlockFacts, LinkFacts DEF Table

\* Growing a chain links free blocks to its end.
LEMMA ExtendTable ==
  ASSUME NEW f, Table(f), NEW b \in Usable, NEW n
  PROVE  Table(Extend(f, b, n))
<1> DEFINE taken == {x \in FreeBlocks(f) :
                        Cardinality({y \in FreeBlocks(f) : y < x}) < n}
           next(x) == {y \in taken : y > x}
           least(S) == CHOOSE y \in S : \A z \in S : y <= z
           link(x) == CASE x \in taken -> IF next(x) = {} THEN FINAL ELSE least(next(x))
                        [] x \in Chain(f, b) /\ f[x] <= 0 /\ taken # {} -> least(taken)
                        [] OTHER -> f[x]
<1>1. taken \subseteq Usable /\ taken \subseteq Nat
  BY FreeBlockFacts, BlockFacts
<1>2. ASSUME NEW S, S \subseteq taken, S # {} PROVE least(S) \in Usable
  <2>1. \E y \in S : \A z \in S : y <= z
    BY <1>1, <1>2, NatMin
  <2> QED BY <1>1, <1>2, <2>1
<1>3. ASSUME NEW x \in Reserved \cup Usable PROVE link(x) \in Link
  <2>1. f[x] \in Link
    BY DEF Table
  <2>2. taken # {} => least(taken) \in Usable
    BY <1>2
  <2>3. next(x) # {} => least(next(x)) \in Usable
    BY <1>2
  <2> HIDE DEF taken, next, least
  <2> QED BY <2>1, <2>2, <2>3 DEF Link
<1>4. ASSUME NEW x \in Reserved \cup Overwritten PROVE link(x) = f[x]
  <2>1. x \notin taken /\ x \notin Chain(f, b)
    BY <1>1, ChainFacts, BlockFacts DEF Start
  <2> HIDE DEF taken, next, least
  <2> QED BY <2>1
<1>5. Extend(f, b, n) = [x \in Block |-> link(x)]
  BY DEF Extend
<1> HIDE DEF link
<1> QED
  BY <1>3, <1>4, <1>5, BlockFacts, LinkFacts DEF Table

-----------------------------------------------------------------------------
(* Entries and directories. *)

\* The number of links between two blocks is an integer.
LEMMA StepsFacts ==
  ASSUME NEW f, Table(f), NEW b \in Start, NEW x \in Chain(f, b)
  PROVE  Steps(f, b, x) \in Int
<1>1. ASSUME NEW y \in Start PROVE ChainLength(f, y) \in Nat
  <2>1. Chain(f, y) \in SUBSET Block
    BY ChainFacts, BlockFacts, <1>1 DEF Start
  <2>2. IsFiniteSet(Chain(f, y))
    BY <2>1, BlockFacts, FS_Subset
  <2> QED BY <2>2, FS_CardinalityType DEF ChainLength
<1>2. x \in Start
  BY ChainFacts
<1> QED
  BY <1>1, <1>2 DEF Steps

\* The slots of a directory are cells of the disk, at natural indices.
LEMMA SlotFacts ==
  ASSUME NEW f, Table(f), NEW dir \in Entry, NEW l \in Slots(f, dir)
  PROVE  l \in Loc /\ Index(f, dir.start, l) \in Nat
<1>1. dir.start \in Start
  BY DEF Entry, Start
<1>2. PICK x \in {<<y, Steps(f, dir.start, y)>> : y \in Chain(f, dir.start) \cap Block} :
        \E j \in 0..EntriesPerBlock - 1 :
            l = <<x[1], j>> /\ 0 <= EntriesPerBlock * x[2] + j
  BY DEF Slots, Cells
<1>3. PICK j \in 0..EntriesPerBlock - 1 :
            l = <<x[1], j>> /\ 0 <= EntriesPerBlock * x[2] + j
  BY <1>2
<1>4. PICK y \in Chain(f, dir.start) \cap Block : x = <<y, Steps(f, dir.start, y)>>
  BY <1>2
<1>5. l = <<y, j>> /\ 0 <= EntriesPerBlock * Steps(f, dir.start, y) + j
  BY <1>3, <1>4
<1>6. Steps(f, dir.start, y) \in Int
  BY <1>1, <1>4, StepsFacts
<1> QED
  BY <1>4, <1>5, <1>6, GeometryAssumption DEF Loc, Index

\* There is a first among any slots of a directory.
LEMMA FirstSlotFacts ==
  ASSUME NEW f, Table(f), NEW dir \in Entry, NEW S, S \subseteq Slots(f, dir), S # {}
  PROVE  FirstSlot(f, dir, S) \in S /\ FirstSlot(f, dir, S) \in Loc
<1> DEFINE ix(l) == Index(f, dir.start, l)
           V == {ix(l) : l \in S}
<1>1. \A l \in S : l \in Loc /\ ix(l) \in Nat
  BY SlotFacts
<1>2. PICK v \in V : \A w \in V : v <= w
  <2>1. V \subseteq Nat /\ V # {}
    BY <1>1
  <2> HIDE DEF V
  <2> QED BY <2>1, NatMin
<1>3. PICK l \in S : \A m \in S : ix(l) <= ix(m)
  BY <1>2
<1> QED
  BY <1>1, <1>3 DEF FirstSlot

\* Nth() always names a block of the chain.
LEMMA NthFacts ==
  ASSUME NEW f, Table(f), NEW b \in Start, NEW n
  PROVE  Nth(f, b, n) \in Start /\ Nth(f, b, n) \in Chain(f, b)
<1>1. Chain(f, b) # {} /\ Chain(f, b) \subseteq Start
  BY ChainFacts
<1>2. \E x \in Chain(f, b) :
         Steps(f, b, x) = n \/ \A y \in Chain(f, b) : Steps(f, b, y) # n
  BY <1>1
<1> QED
  BY <1>1, <1>2 DEF Nth

\* A cell read as an entry is one.
LEMMA DecodeFacts ==
  /\ Zero \in Entry /\ NoRoot \notin Entry
  /\ \A c \in Cell : Decode(c) \in Entry
<1>1. Zero \in Entry
  BY DEF Zero, Entry
<1>2. NoRoot \notin Entry
  BY BlockFacts DEF NoRoot, Entry
<1> QED
  BY <1>1, <1>2 DEF Decode, Cell

\* Writing an entry, or following its length, keeps cells and entries.
LEMMA PutEntryFacts ==
  ASSUME NEW d \in [Loc -> Cell], NEW e \in Entry, NEW l, NEW r \in Entry
  PROVE  PutEntry(d, e, l) \in [Loc -> Cell] /\ RootAfter(r, e) \in Entry
<1>1. [e EXCEPT !.name = ".."] \in Entry /\ [r EXCEPT !.length = e.length] \in Entry
  BY DEF Entry
<1>2. ASSUME NEW k \in Loc
      PROVE  (CASE k = l -> e
                [] k # l /\ l = RootLoc /\ k = <<StartBlock, 1>> -> [e EXCEPT !.name = ".."]
                [] OTHER -> d[k]) \in Cell
  BY <1>1 DEF Cell
<1>3. PutEntry(d, e, l) \in [Loc -> Cell]
  BY <1>2 DEF PutEntry
<1> QED
  BY <1>1, <1>3 DEF RootAfter

-----------------------------------------------------------------------------
(* Looking a path up. *)

\* The first inductive invariant: well-formed values, and the reserved blocks
\* marked (the mark keeps findFreeBlock() and the chains among Usable).
IInv == TypeOK /\ TableReserved

\* A place and an entry that find() may return.
Typed(h) == h.loc \in Loc /\ h.entry \in Entry

LEMMA IInvTable == IInv <=> Table(fat) /\ disk \in [Loc -> Cell] /\ root \in Entry \cup {NoRoot}
BY DEF IInv, TypeOK, TableReserved, Table

LEMMA RootEntryFacts == ASSUME IInv PROVE RootEntry \in Entry /\ Typed(Hit(RootLoc, RootEntry))
BY IInvTable, DecodeFacts, BlockFacts DEF RootEntry, Typed, Hit

\* One turn of find()'s loop returns a cell of the disk and what is in it; an
\* entry that is found is in use, so that its start is a usable block.
LEMMA LookupFacts ==
  ASSUME IInv, NEW h, Typed(h), NEW name
  PROVE  /\ Typed(Lookup(h, name))
         /\ Lookup(h, name).status = "OK" => Lookup(h, name).entry.start \in Usable
<1> DEFINE dir == h.entry
           matches == {l \in Slots(fat, dir) :
                        /\ disk[l] \notin Data
                        /\ disk[l].name = name
                        /\ ~IsFree(fat, disk[l])}
           first == FirstSlot(fat, dir, matches)
<1>1. ASSUME NEW s, s # "OK" PROVE Typed(Miss(s)) /\ Miss(s).status # "OK"
  BY <1>1, BlockFacts, DecodeFacts DEF Typed, Miss
<1>2. ASSUME matches # {}
      PROVE  Typed(Hit(first, disk[first])) /\ Hit(first, disk[first]).entry.start \in Usable
  <2>1. first \in matches /\ first \in Loc
    <3> HIDE DEF matches
    <3>1. matches \subseteq Slots(fat, dir)
      BY DEF matches
    <3> QED BY <1>2, <3>1, FirstSlotFacts, IInvTable DEF Typed
  <2>2. disk[first] \notin Data /\ ~IsFree(fat, disk[first])
    BY <2>1
  <2> HIDE DEF first
  <2>3. disk[first] \in Entry
    BY <2>1, <2>2, IInvTable DEF Cell
  <2>4. disk[first].start \in Usable
    BY <2>2, <2>3 DEF Entry, IsFree
  <2> QED BY <2>1, <2>3, <2>4 DEF Typed, Hit
<1>3. CASE h.status # "OK"
  BY <1>1, <1>3 DEF Lookup
<1>4. CASE h.status = "OK" /\ dir.type = "File"
  BY <1>1, <1>4 DEF Lookup
<1>5. CASE h.status = "OK" /\ dir.type # "File" /\ ReadDirStatus(fat, dir) # "OK"
  BY <1>1, <1>5 DEF Lookup
<1>6. CASE h.status = "OK" /\ dir.type # "File" /\ ReadDirStatus(fat, dir) = "OK"
  <2>1. Lookup(h, name) = IF matches = {} THEN Miss("ENOENT") ELSE Hit(first, disk[first])
    BY <1>6 DEF Lookup
  <2> HIDE DEF matches, first
  <2> QED BY <2>1, <1>1, <1>2
<1> QED
  BY <1>3, <1>4, <1>5, <1>6

\* Resolve() goes through one node for each prefix of the path: the recursive
\* function has a value for all of them (by the least prefix that lacks one).
Reached(g, p) ==
    /\ g[0] = Hit(RootLoc, RootEntry) /\ g[Len(p)] = Resolve(p)
    /\ \A i \in 1..Len(p) : g[i] = Lookup(g[i-1], p[i])

LEMMA ResolveReached ==
  ASSUME NEW p \in Seq(Name)
  PROVE  \E g : Reached(g, p)
<1> DEFINE top == Hit(RootLoc, RootEntry)
           Body(g, i) == IF i = 0 THEN top ELSE Lookup(g[i-1], p[i])
           Solves(g, n) == g = [i \in 0..n |-> Body(g, i)]
           Unsolved == {n \in Nat : ~ \E g : Solves(g, n)}
<1>1. Len(p) \in Nat
  OBVIOUS
<1>2. Unsolved = {}
  <2> SUFFICES ASSUME Unsolved # {} PROVE FALSE
    OBVIOUS
  <2>1. PICK n \in Unsolved : \A m \in Unsolved : n <= m
    <3> HIDE DEF Unsolved
    <3>1. Unsolved \subseteq Nat
      BY DEF Unsolved
    <3> QED BY <3>1, NatMin
  <2>2. CASE n = 0
    <3> DEFINE g == [i \in 0..0 |-> top]
    <3>1. Solves(g, 0)
      <4>1. [i \in 0..0 |-> Body(g, i)] = [i \in 0..0 |-> top]
        OBVIOUS
      <4> QED BY <4>1
    <3> QED BY <3>1, <2>2, <2>1
  <2>3. CASE n # 0
    <3>1. n \in Nat /\ n - 1 \in Nat /\ n - 1 \notin Unsolved
      <4>1. Unsolved \subseteq Nat
        OBVIOUS
      <4> HIDE DEF Unsolved
      <4> QED BY <4>1, <2>1, <2>3
    <3>2. PICK g : Solves(g, n - 1)
      BY <3>1
    <3> DEFINE g2 == [i \in 0..n |-> Body(g, i)]
    <3>3. ASSUME NEW i \in 0..n PROVE Body(g2, i) = Body(g, i)
      <4>1. CASE i = 0
        BY <4>1
      <4>2. CASE i # 0
        <5>1. i - 1 \in 0..n-1 /\ i - 1 \in 0..n
          BY <4>2, <3>1
        <5>2. g[i-1] = Body(g, i-1)
          <6> HIDE DEF Body
          <6> QED BY <5>1, <3>2
        <5>3. g2[i-1] = Body(g, i-1)
          <6> HIDE DEF Body
          <6> QED BY <5>1
        <5> HIDE DEF g2
        <5>4. Body(g2, i) = Lookup(g2[i-1], p[i]) /\ Body(g, i) = Lookup(g[i-1], p[i])
          BY <4>2
        <5> QED BY <5>2, <5>3, <5>4
      <4> QED BY <4>1, <4>2
    <3>4. Solves(g2, n)
      <4> HIDE DEF Body
      <4> QED BY <3>3
    <3> QED BY <3>4, <2>1
  <2> QED BY <2>2, <2>3
<1> DEFINE reached == CHOOSE g : Solves(g, Len(p))
<1>3. Solves(reached, Len(p))
  <2> HIDE DEF Solves
  <2> QED BY <1>1, <1>2
<1>4. Resolve(p) = reached[Len(p)]
  BY DEF Resolve
<1> HIDE DEF reached
<1>5. \A i \in 0..Len(p) : reached[i] = Body(reached, i)
  <2> HIDE DEF Body
  <2> QED BY <1>3
<1>6. Reached(reached, p)
  <2>1. 0 \in 0..Len(p) /\ \A i \in 1..Len(p) : i \in 0..Len(p) /\ i # 0
    BY <1>1
  <2> QED BY <1>4, <1>5, <2>1 DEF Reached
<1> QED
  BY <1>6

\* Every node that find() passes on its way is well formed (by the least one
\* that is not).
LEMMA ResolveFacts ==
  ASSUME IInv, NEW p \in Seq(Name)
  PROVE  Typed(Resolve(p))
<1>1. Len(p) \in Nat
  OBVIOUS
<1>2. PICK g : Reached(g, p)
  BY ResolveReached
<1> DEFINE Bad == {n \in 0..Len(p) : ~Typed(g[n])}
<1>3. Bad = {}
  <2> SUFFICES ASSUME Bad # {} PROVE FALSE
    OBVIOUS
  <2>1. PICK n \in Bad : \A m \in Bad : n <= m
    <3> HIDE DEF Bad
    <3>1. Bad \subseteq Nat
      BY DEF Bad
    <3> QED BY <3>1, NatMin
  <2>2. n # 0
    BY <2>1, <1>2, RootEntryFacts DEF Reached
  <2>3. n \in 1..Len(p) /\ n - 1 \in 0..Len(p) /\ Typed(g[n-1])
    BY <2>1, <2>2, <1>1
  <2>4. Typed(Lookup(g[n-1], p[n]))
    BY <2>3, LookupFacts
  <2> QED BY <2>1, <2>3, <2>4, <1>2 DEF Reached
<1> QED
  BY <1>1, <1>2, <1>3 DEF Reached

LEMMA PathFacts ==
  ASSUME NEW p \in AnyPath
  PROVE  p \in Seq(Name) /\ Parent(p) \in Seq(Name) /\ LastName(p) \in Name \cup {"", ".", ".."}
<1>1. p \in Seq(Name)
  <2>1. CASE p \in Path
    BY <2>1, CallsAssumption
  <2>2. CASE p = <<>>
    BY <2>2
  <2> QED BY <2>1, <2>2 DEF AnyPath
<1>2. Parent(p) \in Seq(Name)
  BY <1>1 DEF Parent
<1>3. LastName(p) \in Name \cup {"", ".", ".."}
  <2>1. CASE p = <<>>
    BY <2>1 DEF LastName
  <2>2. CASE p # <<>>
    <3>1. Len(p) \in 1..Len(p)
      BY <1>1, <2>2
    <3>2. p[Len(p)] \in Name
      BY <1>1, <3>1
    <3>3. LastName(p) = p[Len(p)]
      BY <2>2 DEF LastName
    <3> QED BY <3>2, <3>3
  <2> QED BY <2>1, <2>2
<1> QED
  BY <1>1, <1>2, <1>3

\* What find() returns, of a node and of the parent of one.
LEMMA FindFacts ==
  ASSUME IInv, NEW p \in Seq(Name)
  PROVE  /\ Typed(Find(p))
         /\ p # <<>> /\ Find(p).status = "OK" => Find(p).entry.start \in Usable
<1>1. CASE p = <<>>
  BY <1>1, RootEntryFacts DEF Find
<1>2. CASE p # <<>>
  <2>1. Typed(Resolve(Parent(p)))
    <3>1. Parent(p) \in Seq(Name)
      BY DEF Parent
    <3> QED BY <3>1, ResolveFacts
  <2> QED BY <1>2, <2>1, LookupFacts DEF Find
<1> QED
  BY <1>1, <1>2

LEMMA FindParentFacts ==
  ASSUME IInv, NEW p \in AnyPath
  PROVE  Typed(FindParent(p))
<1>1. Typed(Find(Parent(p)))
  BY PathFacts, FindFacts
<1>2. Typed(Miss("ENOTDIR"))
  BY BlockFacts, DecodeFacts DEF Typed, Miss
<1> QED
  BY <1>1, <1>2 DEF FindParent, NotFile

-----------------------------------------------------------------------------
(* newFile() and resize(). *)

\* What newFile() may leave behind.
Sound(new) ==
    /\ Table(new.fat) /\ new.disk \in [Loc -> Cell] /\ new.root \in Entry
    /\ new.entry \in Entry /\ new.parent \in Entry

LEMMA UnmadeSound ==
  ASSUME IInv, NEW f, Table(f), NEW s
  PROVE  Sound(Unmade(s, f))
BY IInvTable, RootEntryFacts, DecodeFacts DEF Sound, Unmade, Made

LEMMA PlacedSound ==
  ASSUME IInv, NEW f, Table(f), NEW e \in Entry, NEW l, NEW h, Typed(h),
         NEW grow \in BOOLEAN
  PROVE  Sound(Placed(f, e, l, h, grow))
<1> DEFINE dir == IF grow THEN [h.entry EXCEPT !.length = @ + 1] ELSE h.entry
           d   == PutEntry(disk, e, l)
           r   == RootAfter(RootEntry, e)
<1>1. dir \in Entry
  <2>1. h.entry \in Entry
    BY DEF Typed
  <2>2. h.entry.length \in Nat
    BY <2>1 DEF Entry
  <2>3. h.entry.length + 1 \in Nat
    BY <2>2
  <2> QED BY <2>1, <2>3 DEF Entry
<1>2. d \in [Loc -> Cell] /\ r \in Entry
  BY IInvTable, RootEntryFacts, PutEntryFacts
<1>3. PutEntry(d, dir, h.loc) \in [Loc -> Cell] /\ RootAfter(r, dir) \in Entry
  <2> HIDE DEF d, r, dir
  <2> QED BY <1>1, <1>2, PutEntryFacts
<1>4. Placed(f, e, l, h, grow) =
        IF grow THEN Made("OK", f, PutEntry(d, dir, h.loc), RootAfter(r, dir), e, l, dir)
        ELSE Made("OK", f, d, r, e, l, dir)
  BY DEF Placed
<1> HIDE DEF d, r, dir
<1> QED
  BY <1>1, <1>2, <1>3, <1>4 DEF Sound, Made

\* newFile() hands out only blocks that findFreeBlock() found, and the block
\* that it adds to a directory is linked to the directory's last one.
LEMMA NewFileSound ==
  ASSUME IInv, NEW h, Typed(h), NEW p \in AnyPath, NEW length \in Nat,
         NEW type \in {"File", "Directory"}, NEW noalloc \in BOOLEAN, NEW firstIndex
  PROVE  Sound(NewFile(h, p, length, type, noalloc, firstIndex))
<1> DEFINE dir   == h.entry
           taken == FindFreeBlock(fat)
           f1    == IF noalloc THEN fat ELSE Mark(fat, taken, FINAL)
           need  == BlocksFor(length)
           entry(b) == [name   |-> IF noalloc THEN "" ELSE LastName(p), type |-> type,
                        length |-> length, start  |-> IF noalloc THEN 0 ELSE b]
           reusable == {l \in Slots(f1, dir) :
                        /\ Index(f1, dir.start, l) >= firstIndex
                        /\ IsFree(f1, Decode(disk[l]))}
           blocks == BlocksFor(dir.length)
           last   == Nth(f1, dir.start, blocks - 1)
           rem    == dir.length - EntriesPerBlock * (blocks - 1)
           f2     == Mark(f1, taken, last)
           start  == FindFreeBlock(f2)
           f3     == IF noalloc THEN f2 ELSE Mark(f2, start, FINAL)
           full   == CASE dir.length < EntriesPerBlock -> ~noalloc /\ ~HasFree(f1, need)
                       [] dir.length >= EntriesPerBlock ->
                             /\ rem = EntriesPerBlock
                             /\ ~HasFree(f1, IF noalloc THEN 1 ELSE 2 + need)
           found  == noalloc \/ taken # UNUSABLE
<1>1. Typed(h) /\ Table(fat) /\ dir \in Entry /\ dir.start \in Start
  BY IInvTable DEF Typed, Entry, Start
<1>0. dir.length \in Nat /\ EntriesPerBlock \in Nat
  <2>1. dir \in Entry
    BY <1>1
  <2> HIDE DEF dir
  <2> QED BY <2>1, GeometryAssumption DEF Entry
<1>2. /\ FreeBlocks(fat) \subseteq Usable /\ FINAL \in Link /\ 0 # FINAL
      /\ taken # UNUSABLE => taken \in Usable
  BY <1>1, FreeBlockFacts DEF Link, FINAL
<1>3. found => Table(f1)
  BY <1>1, <1>2, MarkTable
<1>4. ASSUME NEW b, noalloc \/ b \in Usable PROVE entry(b) \in Entry
  <2>1. LastName(p) \in Name \cup {"", ".", ".."}
    BY PathFacts
  <2> QED BY <1>4, <2>1 DEF Entry
<1>5. ASSUME found, rem = EntriesPerBlock, dir.length >= EntriesPerBlock, ~full
      PROVE  Table(f3) /\ entry(start) \in Entry
  <2>1. FreeBlocks(f1) # {}
    <3>1. HasFree(f1, IF noalloc THEN 1 ELSE 2 + need)
      <4>1. ~(dir.length < EntriesPerBlock)
        BY <1>0, <1>5
      <4> HIDE DEF dir, f1, need, rem
      <4> QED BY <1>5, <4>1
    <3> QED BY <3>1 DEF HasFree
  <2>2. taken \in Usable
    <3>1. CASE noalloc
      <4>1. FreeBlocks(fat) # {}
        BY <2>1, <3>1
      <4> QED BY <4>1, <1>1, FreeBlockFacts
    <3>2. CASE ~noalloc
      BY <3>2, <1>2, <1>5
    <3> QED BY <3>1, <3>2
  <2>3. last \in Link
    BY <1>1, <1>3, <1>5, NthFacts DEF Start, Link
  <2>4. Table(f2)
    BY <1>3, <1>5, <2>2, <2>3, MarkTable
  <2>5. CASE noalloc
    BY <2>4, <2>5, <1>4
  <2>6. CASE ~noalloc
    <3>1. taken \notin FreeBlocks(f1)
      BY <2>2, <2>6, <1>2 DEF FreeBlocks, Mark
    <3>2. FreeBlocks(f1) \subseteq FreeBlocks(f2)
      <4> HIDE DEF f1, taken, last
      <4> QED BY <3>1 DEF FreeBlocks, Mark
    <3>3. start \in Usable
      <4> HIDE DEF f1, f2
      <4> QED BY <2>1, <2>4, <3>2, FreeBlockFacts
    <3>4. Table(Mark(f2, start, FINAL))
      <4> HIDE DEF f2, start
      <4> QED BY <2>4, <3>3, <1>2, MarkTable
    <3> QED BY <2>6, <3>3, <3>4, <1>4
  <2> QED BY <2>5, <2>6
<1>6. NewFile(h, p, length, type, noalloc, firstIndex) =
        IF h.status \notin {"OK", "ENOENT"} THEN Unmade(h.status, fat)
        ELSE IF ~noalloc /\ taken = UNUSABLE THEN Unmade("ENOSPC", fat)
        ELSE IF ReadDirStatus(f1, dir) # "OK" THEN Unmade(ReadDirStatus(f1, dir), f1)
        ELSE IF reusable # {}
             THEN Placed(f1, entry(taken), FirstSlot(f1, dir, reusable), h, FALSE)
        ELSE IF full THEN Unmade("ENOSPC", fat)
        ELSE IF dir.length < EntriesPerBlock
             THEN Placed(f1, entry(taken), <<dir.start, dir.length>>, h, TRUE)
        ELSE IF rem = EntriesPerBlock THEN Placed(f3, entry(start), <<taken, 0>>, h, TRUE)
        ELSE Placed(f1, entry(taken), <<last, rem>>, h, TRUE)
  BY DEF NewFile
<1>7. ASSUME NEW s, NEW f, Table(f) PROVE Sound(Unmade(s, f))
  BY <1>7, UnmadeSound
<1>8. ASSUME NEW f, Table(f), NEW b, noalloc \/ b \in Usable, NEW l, NEW grow \in BOOLEAN
      PROVE  Sound(Placed(f, entry(b), l, h, grow))
  <2>1. entry(b) \in Entry
    BY <1>4, <1>8
  <2> HIDE DEF entry
  <2> QED BY <1>1, <1>8, <2>1, PlacedSound
<1>9. ASSUME found, rem = EntriesPerBlock, dir.length >= EntriesPerBlock, ~full, NEW l
      PROVE  Sound(Placed(f3, entry(start), l, h, TRUE))
  <2>1. Table(f3) /\ entry(start) \in Entry
    BY <1>5, <1>9
  <2> HIDE DEF entry, f3, start
  <2> QED BY <1>1, <2>1, PlacedSound
<1>10. found => noalloc \/ taken \in Usable
  BY <1>2
<1>11. ~(dir.length < EntriesPerBlock) => dir.length >= EntriesPerBlock
  BY <1>0
<1> HIDE DEF dir, taken, f1, need, entry, reusable, blocks, last, rem, f2, start, f3, full
<1>12. CASE ~found \/ h.status \notin {"OK", "ENOENT"}
  BY <1>1, <1>6, <1>7, <1>12
<1>13. CASE found /\ h.status \in {"OK", "ENOENT"}
  <2>1. CASE ReadDirStatus(f1, dir) # "OK"
    BY <1>3, <1>6, <1>7, <1>13, <2>1
  <2>2. CASE ReadDirStatus(f1, dir) = "OK" /\ reusable # {}
    BY <1>3, <1>6, <1>8, <1>10, <1>13, <2>2
  <2>3. CASE ReadDirStatus(f1, dir) = "OK" /\ reusable = {} /\ full
    BY <1>1, <1>6, <1>7, <1>13, <2>3
  <2>4. CASE /\ ReadDirStatus(f1, dir) = "OK" /\ reusable = {} /\ ~full
             /\ dir.length < EntriesPerBlock
    BY <1>3, <1>6, <1>8, <1>10, <1>13, <2>4
  <2>5. CASE /\ ReadDirStatus(f1, dir) = "OK" /\ reusable = {} /\ ~full
             /\ ~(dir.length < EntriesPerBlock) /\ rem = EntriesPerBlock
    BY <1>6, <1>9, <1>11, <1>13, <2>5
  <2>6. CASE /\ ReadDirStatus(f1, dir) = "OK" /\ reusable = {} /\ ~full
             /\ ~(dir.length < EntriesPerBlock) /\ rem # EntriesPerBlock
    BY <1>3, <1>6, <1>8, <1>10, <1>13, <2>6
  <2> QED BY <2>1, <2>2, <2>3, <2>4, <2>5, <2>6
<1> QED
  BY <1>12, <1>13

\* Clearing cells leaves cells.
LEMMA ZeroOutFreeCells ==
  ASSUME NEW f, NEW d \in [Loc -> Cell], NEW e, NEW n
  PROVE  ZeroOutFree(f, d, e, n) \in [Loc -> Cell]
<1>1. Zero \in Cell
  BY DecodeFacts DEF Cell
<1> DEFINE block == Nth(f, e.start, BlocksFor(n) - 1)
           first == EntriesPerBlock * block + n - EntriesPerBlock * (BlocksFor(n) - 1)
           at(l) == EntriesPerBlock * l[1] + l[2]
           cleared(l) == first <= at(l) /\ at(l) < first + e.length - n
<1>2. \/ ZeroOutFree(f, d, e, n) = d
      \/ ZeroOutFree(f, d, e, n) = [l \in Loc |-> IF cleared(l) THEN Zero ELSE d[l]]
  BY DEF ZeroOutFree
<1> HIDE DEF cleared
<1> QED
  BY <1>1, <1>2

\* resize() leaves the table, the cells and the entry well formed.
LEMMA ResizedSound ==
  ASSUME IInv, NEW e \in Entry, e.start \in Usable, NEW l, NEW n \in Nat
  PROVE  /\ Table(Resized(e, l, n).fat) /\ Resized(e, l, n).disk \in [Loc -> Cell]
         /\ Resized(e, l, n).entry \in Entry
<1> DEFINE old  == ChainLength(fat, e.start)
           new  == BlocksFor(n)
           longer == [e EXCEPT !.length = n]
           Done(f, d) == [status |-> "OK", fat |-> f, entry |-> longer,
                          disk |-> PutEntry(d, longer, l)]
           Good(r) == Table(r.fat) /\ r.disk \in [Loc -> Cell] /\ r.entry \in Entry
           Keep(s) == [status |-> s, fat |-> fat, entry |-> e, disk |-> disk]
<1>1. Table(fat) /\ disk \in [Loc -> Cell] /\ FINAL \in Link
  BY IInvTable DEF Link
<1>2. longer \in Entry
  BY DEF Entry
<1>3. ASSUME NEW f, Table(f), NEW d \in [Loc -> Cell] PROVE Good(Done(f, d))
  <2>1. PutEntry(d, longer, l) \in [Loc -> Cell]
    <3> HIDE DEF longer
    <3> QED BY <1>2, <1>3, RootEntryFacts, PutEntryFacts
  <2> HIDE DEF longer
  <2> QED BY <1>2, <1>3, <2>1
<1>4. \A s : Good(Keep(s))
  BY <1>1
<1>5. /\ Table(Mark(Forget(fat, e.start), e.start, FINAL))
      /\ Table(Cut(fat, e.start, new))
      /\ Table(Extend(fat, e.start, new - 1))
      /\ ZeroOutFree(fat, disk, e, n) \in [Loc -> Cell]
  <2>1. Table(Forget(fat, e.start))
    BY <1>1, ForgetTable DEF Start
  <2> QED BY <1>1, <2>1, MarkTable, CutTable, ExtendTable, ZeroOutFreeCells
<1>6. Resized(e, l, n) \in
        {Keep("OK"), Keep("ENOSPC"),
         Done(Mark(Forget(fat, e.start), e.start, FINAL), disk),
         Done(fat, ZeroOutFree(fat, disk, e, n)),
         Done(Cut(fat, e.start, new), ZeroOutFree(fat, disk, e, n)),
         Done(Extend(fat, e.start, new - 1), disk)}
  BY DEF Resized
<1>7. Good(Resized(e, l, n))
  <2> HIDE DEF Good, Done, Keep, new
  <2> QED BY <1>1, <1>3, <1>4, <1>5, <1>6
<1> QED
  BY <1>7

-----------------------------------------------------------------------------
(* The calls. *)

\* The invariant of the next state, from its parts.
Kept == Table(fat') /\ disk' \in [Loc -> Cell] /\ root' \in Entry \cup {NoRoot}

LEMMA KeptInvariant == ASSUME Kept PROVE IInv'
BY DEF Kept, IInv, TypeOK, TableReserved, Table

\* A call that fails changes at most the copy of the root entry.
LEMMA FailKept == ASSUME IInv, NEW op, NEW status, Fail(op, status) PROVE Kept
BY IInvTable, RootEntryFacts DEF Fail, Kept

LEMMA SaveKept ==
  ASSUME IInv, NEW op, NEW f, Table(f), NEW d \in [Loc -> Cell], NEW e \in Entry, NEW l,
         Save(op, f, d, e, l)
  PROVE  Kept
BY RootEntryFacts, PutEntryFacts DEF Save, Kept

LEMMA TookKept ==
  ASSUME NEW op, NEW new, Sound(new), Took(op, new)
  PROVE  Kept
BY DEF Took, Sound, Kept

LEMMA CreateKept == ASSUME IInv, NEW p \in AnyPath, Create(p) PROVE Kept
<1>1. CASE Fail("create", "EEXIST")
  BY <1>1, FailKept
<1>2. ASSUME NEW i, Took("create", NewFile(FindParent(p), p, 0, "File", FALSE, i)) PROVE Kept
  BY <1>2, FindParentFacts, NewFileSound, TookKept
<1> QED
  BY <1>1, <1>2 DEF Create

\* mkdir() writes the parent's entry into the block that newFile() found.
LEMMA MkdirKept == ASSUME IInv, NEW p \in AnyPath, Mkdir(p) PROVE Kept
<1>1. PICK i :
          LET new    == NewFile(FindParent(p), p, 1, "Directory", FALSE, i)
              dotdot == [new.parent EXCEPT !.name = ".."]
          IN  IF new.status # "OK" THEN Took("mkdir", new)
              ELSE /\ Answer("mkdir", "OK")
                   /\ fat' = new.fat
                   /\ disk' = PutEntry(new.disk, dotdot, <<new.entry.start, 0>>)
                   /\ root' = RootAfter(new.root, dotdot)
  BY DEF Mkdir
<1> DEFINE new    == NewFile(FindParent(p), p, 1, "Directory", FALSE, i)
           dotdot == [new.parent EXCEPT !.name = ".."]
<1>2. Sound(new)
  BY FindParentFacts, NewFileSound
<1>3. new.parent \in Entry
  BY <1>2 DEF Sound
<1>4. dotdot \in Entry
  <2> HIDE DEF new
  <2> QED BY <1>3 DEF Entry
<1>5. CASE new.status # "OK"
  <2>1. Took("mkdir", new)
    BY <1>1, <1>5
  <2> HIDE DEF new
  <2> QED BY <1>2, <2>1, TookKept
<1>6. CASE new.status = "OK"
  <2>1. /\ fat' = new.fat
        /\ disk' = PutEntry(new.disk, dotdot, <<new.entry.start, 0>>)
        /\ root' = RootAfter(new.root, dotdot)
    BY <1>1, <1>6
  <2> HIDE DEF new, dotdot
  <2> QED BY <1>2, <1>4, <2>1, PutEntryFacts DEF Sound, Kept
<1> QED
  BY <1>5, <1>6

LEMMA UnlinkKept == ASSUME IInv, NEW p \in AnyPath, Unlink(p) PROVE Kept
<1> DEFINE h == Find(p)
           e == h.entry
           gone == [e EXCEPT !.start = 0]
<1>1. Typed(h)
  BY PathFacts, FindFacts
<1>2. gone \in Entry /\ e.start \in Start
  <2>1. e \in Entry
    BY <1>1 DEF Typed
  <2> HIDE DEF e
  <2> QED BY <2>1 DEF Entry, Start
<1>3. Table(Forget(fat, e.start))
  BY <1>2, IInvTable, ForgetTable
<1>4. ASSUME NEW s, Fail("unlink", s) PROVE Kept
  BY <1>4, FailKept
<1>5. CASE Save("unlink", Forget(fat, e.start), disk, gone, h.loc)
  <2> HIDE DEF gone, h
  <2> QED BY <1>2, <1>3, <1>5, IInvTable, SaveKept
<1> QED
  BY <1>4, <1>5 DEF Unlink

LEMMA RmdirKept == ASSUME IInv, NEW p \in AnyPath, Rmdir(p) PROVE Kept
<1> DEFINE h == Find(p)
           e == h.entry
           gone == [e EXCEPT !.start = 0, !.length = 0]
<1>1. Typed(h)
  BY PathFacts, FindFacts
<1>2. gone \in Entry /\ e.start \in Start
  <2>1. e \in Entry
    BY <1>1 DEF Typed
  <2> HIDE DEF e
  <2> QED BY <2>1 DEF Entry, Start
<1>3. Table(Forget(fat, e.start))
  BY <1>2, IInvTable, ForgetTable
<1>4. ASSUME NEW s, Fail("rmdir", s) PROVE Kept
  BY <1>4, FailKept
<1>5. CASE Save("rmdir", Forget(fat, e.start), disk, gone, h.loc)
  <2> HIDE DEF gone, h
  <2> QED BY <1>2, <1>3, <1>5, IInvTable, SaveKept
<1>6. CASE UNCHANGED <<fat, disk, root>>
  BY <1>6, IInvTable DEF Kept
<1> QED
  BY <1>4, <1>5, <1>6 DEF Rmdir

\* rename() writes an entry over another, whatever it moves.
LEMMA MovedCells ==
  ASSUME NEW d \in [Loc -> Cell], NEW src, Typed(src), NEW l,
         NEW name \in Name \cup {"", ".", ".."}
  PROVE  Moved(d, src, l, name) \in [Loc -> Cell]
<1>1. src.entry \in Entry
  BY DEF Typed
<1>2. [src.entry EXCEPT !.name = name] \in Cell /\ Zero \in Cell
  BY <1>1, DecodeFacts DEF Entry, Cell
<1> QED
  BY <1>2 DEF Moved

LEMMA RenameKept == ASSUME IInv, NEW p \in AnyPath, NEW q \in AnyPath, Rename(p, q) PROVE Kept
<1> DEFINE src == Find(p)
           dst == Find(q)
           e   == dst.entry
           gone == [e EXCEPT !.start = 0]
<1>1. Typed(src) /\ Typed(dst) /\ src.entry.type \in {"File", "Directory"}
      /\ LastName(q) \in Name \cup {"", ".", ".."}
  <2>1. Typed(src) /\ Typed(dst) /\ LastName(q) \in Name \cup {"", ".", ".."}
    BY PathFacts, FindFacts
  <2> HIDE DEF src
  <2> QED BY <2>1 DEF Typed, Entry
<1>2. ASSUME NEW s, Fail("rename", s) PROVE Kept
  BY <1>2, FailKept
<1>3. ASSUME fat' = Forget(fat, e.start),
             disk' = Moved(PutEntry(disk, gone, dst.loc), src, dst.loc, LastName(q)),
             root' = RootAfter(RootEntry, gone)
      PROVE  Kept
  <2>1. gone \in Entry /\ e.start \in Start
    <3>1. e \in Entry
      BY <1>1 DEF Typed
    <3> HIDE DEF e
    <3> QED BY <3>1 DEF Entry, Start
  <2>2. Table(fat')
    BY <1>3, <2>1, IInvTable, ForgetTable
  <2> HIDE DEF gone, src, dst
  <2>3. PutEntry(disk, gone, dst.loc) \in [Loc -> Cell] /\ root' \in Entry
    BY <1>3, <2>1, IInvTable, RootEntryFacts, PutEntryFacts
  <2>4. disk' \in [Loc -> Cell]
    BY <1>1, <1>3, <2>3, MovedCells
  <2> QED BY <2>2, <2>3, <2>4 DEF Kept
<1>4. ASSUME NEW i,
             LET new == NewFile(FindParent(q), q, 0, src.entry.type, TRUE, i)
             IN  IF new.status # "OK" THEN Took("rename", new)
                 ELSE /\ Answer("rename", "OK")
                      /\ fat' = new.fat
                      /\ disk' = Moved(new.disk, src, new.loc, LastName(q))
                      /\ root' = new.root
      PROVE  Kept
  <2> DEFINE new == NewFile(FindParent(q), q, 0, src.entry.type, TRUE, i)
  <2>1. Sound(new)
    <3> HIDE DEF src
    <3> QED BY <1>1, FindParentFacts, NewFileSound
  <2>2. CASE new.status # "OK"
    <3>1. Took("rename", new)
      BY <1>4, <2>2
    <3> HIDE DEF new
    <3> QED BY <2>1, <3>1, TookKept
  <2>3. CASE new.status = "OK"
    <3>1. /\ fat' = new.fat
          /\ disk' = Moved(new.disk, src, new.loc, LastName(q))
          /\ root' = new.root
      BY <1>4, <2>3
    <3> HIDE DEF new, src
    <3> QED BY <1>1, <2>1, <3>1, MovedCells DEF Sound, Kept
  <2> QED BY <2>2, <2>3
<1> QED
  BY <1>2, <1>3, <1>4 DEF Rename

\* A careful caller resizes files that it found by name, not the root.
LEMMA TruncateKept ==
  ASSUME IInv, Careful, NEW p \in AnyPath, NEW n \in Sizes, Truncate(p, n)
  PROVE  Kept
<1> DEFINE h == Find(p)
           r == Resized(h.entry, h.loc, n)
<1>1. CASE Fail("truncate", h.status)
  BY <1>1, FailKept
<1>2. ASSUME h.status = "OK", p # <<>>, fat' = r.fat, disk' = r.disk,
             root' = IF r.entry = h.entry THEN RootEntry ELSE RootAfter(RootEntry, r.entry)
      PROVE  Kept
  <2>1. Typed(h) /\ h.entry.start \in Usable /\ n \in Nat
    BY <1>2, PathFacts, FindFacts, CallsAssumption
  <2>2. Table(r.fat) /\ r.disk \in [Loc -> Cell] /\ r.entry \in Entry
    <3> HIDE DEF h
    <3> QED BY <2>1, ResizedSound DEF Typed
  <2>3. root' \in Entry
    <3> HIDE DEF r
    <3> QED BY <1>2, <2>2, IInvTable, RootEntryFacts, PutEntryFacts
  <2> QED BY <1>2, <2>2, <2>3 DEF Kept
<1> QED
  BY <1>1, <1>2 DEF Truncate

LEMMA WriteKept ==
  ASSUME IInv, Careful, NEW p \in AnyPath, NEW x \in Extents, NEW c \in Data,
         Write(p, x[1], x[2], c)
  PROVE  Kept
<1> DEFINE h    == Find(p)
           len  == IF x[1] + x[2] > h.entry.length THEN x[1] + x[2] ELSE h.entry.length
           r    == Resized(h.entry, h.loc, len)
           dest == Cells(r.fat, h.entry.start, x[1], x[1] + x[2])
           data == [l \in Loc |-> IF l \in dest THEN c ELSE r.disk[l]]
<1>1. ASSUME NEW s, Fail("write", s) PROVE Kept
  BY <1>1, FailKept
<1>2. ASSUME h.status = "OK", p # <<>>, Save("write", r.fat, data, r.entry, h.loc)
      PROVE  Kept
  <2>1. Typed(h) /\ h.entry.start \in Usable
    BY <1>2, PathFacts, FindFacts
  <2>2. len \in Nat
    <3>1. h.entry.length \in Nat /\ x[1] \in Nat /\ x[2] \in Nat
      <4> HIDE DEF h
      <4> QED BY <2>1, CallsAssumption DEF Typed, Entry
    <3> HIDE DEF h
    <3> QED BY <3>1
  <2>3. Table(r.fat) /\ r.disk \in [Loc -> Cell] /\ r.entry \in Entry
    <3> HIDE DEF h, len
    <3> QED BY <2>1, <2>2, ResizedSound DEF Typed
  <2>4. data \in [Loc -> Cell]
    <3> HIDE DEF r, dest
    <3> QED BY <2>3 DEF Cell
  <2> HIDE DEF r, data, h
  <2> QED BY <1>2, <2>3, <2>4, SaveKept
<1> QED
  BY <1>1, <1>2 DEF Write

LEMMA TouchKept == ASSUME IInv, NEW p \in AnyPath, Touch(p) PROVE Kept
<1> DEFINE h == Find(p)
<1>1. ASSUME NEW s, Fail("touch", s) PROVE Kept
  BY <1>1, FailKept
<1>2. CASE Save("touch", fat, disk, h.entry, h.loc)
  <2>1. h.entry \in Entry
    BY PathFacts, FindFacts DEF Typed
  <2> HIDE DEF h
  <2> QED BY <1>2, <2>1, IInvTable, SaveKept
<1> QED
  BY <1>1, <1>2 DEF Touch

-----------------------------------------------------------------------------
(* Once the root has been stored, its first cell is its own entry, and a      *)
(* chain or an entry that led to its block would let that entry be written    *)
(* over.                                                                      *)

\* The root's first block ends its chain.
Based(f) == Table(f) /\ f[StartBlock] = FINAL

\* No block that files may use is followed by the root's (the words that make()
\* leaves in the table may say so).
Unlinked(f) == \A x \in Reserved \cup Usable : f[x] # StartBlock
Apart(f)    == Based(f) /\ Unlinked(f)

\* The blocks that are neither reserved nor the root's first.
Filed == Usable \ {StartBlock}

\* The root's entry and the copy of it that follows, and the cells where
\* something else may be written.
RootUp       == <<StartBlock, 1>>
Elsewhere(l) == l[1] \in Usable /\ l \notin {RootLoc, RootUp}

RootForm(e) ==
    /\ e \in Entry /\ e.start = StartBlock /\ e.type = "Directory"
    /\ e.name = "." /\ e.length >= 2

\* Only entries that no path can name lead to the root.
RootNamed(c) ==
    c \notin Data /\ c.start = StartBlock => c.type = "Directory" /\ c.name \in {".", ".."}

\* The cells: the root's entry and its copy, no other way to the root, and
\* nothing in the reserved blocks.
Clean(d) ==
    /\ RootForm(d[RootLoc]) /\ d[RootUp] = [d[RootLoc] EXCEPT !.name = ".."]
    /\ \A l \in Loc : RootNamed(d[l])
    /\ \A l \in Loc : l[1] \in Reserved => d[l] = Zero

\* When a second block is added to the root, the link is written the wrong way
\* round, to the root's first block; but the root is then longer than its chain
\* and no path can be looked up any more.
Full(e) == e.length > EntriesPerBlock

\* A table, the cells and the driver's copy of the root's entry.
Good(f, d, r) ==
    /\ Based(f) /\ Clean(d) /\ r \in {NoRoot, d[RootLoc]}
    /\ Unlinked(f) \/ Full(d[RootLoc])

\* The second inductive invariant.  The writes go by lookups, lookups by chains
\* and entries, so that nothing less stays true: neither MetadataUntouched nor
\* RootCoherent says where the next entry will be written.
MInv == IInv /\ Good(fat, disk, root)

LEMMA FiledFacts ==
  /\ Usable \subseteq Block /\ Reserved \subseteq Block /\ StartBlock \notin Reserved
  /\ Filed \subseteq Usable /\ Filed \subseteq Block /\ Filed \subseteq Start
  /\ StartBlock \in Usable /\ StartBlock \in Start /\ StartBlock \notin Filed
  /\ StartBlock \in Link /\ FINAL \in Link /\ 0 \in Link
  /\ StartBlock # 0 /\ StartBlock # FINAL /\ StartBlock # UNUSABLE
  /\ RootLoc[1] = StartBlock /\ RootUp[1] = StartBlock
  /\ RootLoc \in Loc /\ RootUp \in Loc /\ RootUp # RootLoc
BY BlockFacts, GeometryAssumption
   DEF Filed, Start, RootUp, Link, RootLoc, Loc, Block, StartBlock, Usable, Overwritten,
       FINAL, UNUSABLE

LEMMA RootChain ==
  ASSUME NEW f, Based(f)
  PROVE  Chain(f, StartBlock) = {StartBlock}
BY DEF Based, Chain, FINAL

\* A chain that does not begin at the root's block never comes to it.
LEMMA FiledChain ==
  ASSUME NEW f, Apart(f), NEW b \in Filed
  PROVE  Chain(f, b) \subseteq Filed
<1>1. Table(f) /\ b \in Start /\ b \in Usable /\ b # StartBlock
  BY FiledFacts DEF Apart, Based, Filed
<1>2. b \in Chain(f, b) /\ Chain(f, b) \subseteq Usable
  BY <1>1, ChainLeast
<1> DEFINE R == Chain(f, b) \ {StartBlock}
<1>3. Closed(f, Chain(f, b))
  BY <1>1, ChainLeast
<1>4. Closed(f, R)
  BY <1>2, <1>3, BlockFacts DEF Closed, Apart, Unlinked
<1>5. R = Chain(f, b)
  BY <1>1, <1>2, <1>4, ChainLeast
<1> QED
  BY <1>2, <1>5 DEF Filed

\* A block that is handed out is not the root's.
LEMMA FreeFiled ==
  ASSUME NEW f, Based(f)
  PROVE  FreeBlocks(f) \subseteq Filed
BY FreeBlockFacts, FiledFacts DEF Based, FreeBlocks, Filed, FINAL

LEMMA MarkFiled ==
  ASSUME NEW f, Based(f), NEW b \in Filed, NEW v \in Link
  PROVE  /\ Based(Mark(f, b, v))
         /\ Unlinked(f) /\ v # StartBlock => Unlinked(Mark(f, b, v))
<1>1. Table(Mark(f, b, v))
  BY FiledFacts, MarkTable DEF Based
<1>2. Mark(f, b, v)[StartBlock] = FINAL
  BY FiledFacts, BlockFacts DEF Mark, Based
<1> QED
  BY <1>1, <1>2, FiledFacts DEF Based, Unlinked, Mark

LEMMA ForgetFiled ==
  ASSUME NEW f, Apart(f), NEW b \in Filed
  PROVE  Apart(Forget(f, b))
<1>1. Table(Forget(f, b))
  BY ForgetTable, FiledFacts DEF Apart, Based
<1>2. StartBlock \notin Chain(f, b) /\ StartBlock \in Block
  BY FiledChain, FiledFacts, BlockFacts
<1> QED
  BY <1>1, <1>2, FiledFacts DEF Apart, Based, Unlinked, Forget

LEMMA CutFiled ==
  ASSUME NEW f, Apart(f), NEW b \in Filed, NEW n
  PROVE  Apart(Cut(f, b, n))
<1>1. Table(Cut(f, b, n))
  BY CutTable, FiledFacts DEF Apart, Based
<1>2. StartBlock \notin Chain(f, b) /\ StartBlock \in Block
  BY FiledChain, FiledFacts, BlockFacts
<1>3. \A x \in Block : Cut(f, b, n)[x] \in {f[x], 0, FINAL}
  BY DEF Cut
<1> QED
  BY <1>1, <1>2, <1>3, FiledFacts DEF Apart, Based, Unlinked, Cut

LEMMA ExtendFiled ==
  ASSUME NEW f, Apart(f), NEW b \in Filed, NEW n
  PROVE  Apart(Extend(f, b, n))
<1> DEFINE taken == {x \in FreeBlocks(f) :
                        Cardinality({y \in FreeBlocks(f) : y < x}) < n}
           next(x) == {y \in taken : y > x}
           least(S) == CHOOSE y \in S : \A z \in S : y <= z
           link(x) == CASE x \in taken -> IF next(x) = {} THEN FINAL ELSE least(next(x))
                        [] x \in Chain(f, b) /\ f[x] <= 0 /\ taken # {} -> least(taken)
                        [] OTHER -> f[x]
<1>1. taken \subseteq Filed /\ taken \subseteq Nat
  BY FreeFiled, FiledFacts, BlockFacts DEF Apart
<1>2. ASSUME NEW S, S \subseteq taken, S # {} PROVE least(S) # StartBlock
  <2>1. \E y \in S : \A z \in S : y <= z
    BY <1>1, <1>2, NatMin
  <2> QED BY <1>1, <1>2, <2>1, FiledFacts
<1>3. Extend(f, b, n) = [x \in Block |-> link(x)]
  BY DEF Extend
<1>4. ASSUME NEW x \in Reserved \cup Usable PROVE link(x) # StartBlock
  <2>1. f[x] # StartBlock
    BY DEF Apart, Unlinked
  <2>2. taken # {} => least(taken) # StartBlock
    BY <1>2
  <2>3. next(x) # {} => least(next(x)) # StartBlock
    BY <1>2
  <2> HIDE DEF taken, next, least
  <2> QED BY <2>1, <2>2, <2>3, FiledFacts
<1>5. link(StartBlock) = f[StartBlock]
  <2>1. StartBlock \notin taken /\ StartBlock \notin Chain(f, b)
    BY <1>1, FiledChain, FiledFacts
  <2> HIDE DEF taken, next, least
  <2> QED BY <2>1
<1>6. Table(Extend(f, b, n))
  BY ExtendTable, FiledFacts DEF Apart, Based
<1> HIDE DEF link
<1> QED
  BY <1>3, <1>4, <1>5, <1>6, FiledFacts, BlockFacts DEF Apart, Based, Unlinked

\* Writing an entry elsewhere leaves the root's as it is.
LEMMA PutClean ==
  ASSUME NEW d, Clean(d), NEW e \in Entry, RootNamed(e), NEW l, Elsewhere(l)
  PROVE  Clean(PutEntry(d, e, l)) /\ PutEntry(d, e, l)[RootLoc] = d[RootLoc]
<1>1. l # RootLoc /\ l # RootUp /\ l[1] \notin Reserved
  BY BlockFacts DEF Elsewhere
<1>2. PutEntry(d, e, l) = [k \in Loc |-> IF k = l THEN e ELSE d[k]]
  BY <1>1 DEF PutEntry
<1> QED
  BY <1>1, <1>2, FiledFacts DEF Clean

\* ... and the root's own entry is written to its first two cells.
LEMMA PutRootClean ==
  ASSUME NEW d, Clean(d), NEW e, RootForm(e)
  PROVE  Clean(PutEntry(d, e, RootLoc)) /\ PutEntry(d, e, RootLoc)[RootLoc] = e
<1> DEFINE up == [e EXCEPT !.name = ".."]
<1>1. RootNamed(e) /\ RootNamed(up) /\ StartBlock \notin Reserved
  BY BlockFacts DEF RootForm, RootNamed, Entry
<1>2. PutEntry(d, e, RootLoc) =
        [k \in Loc |-> IF k = RootLoc THEN e
                       ELSE IF k = RootUp THEN up ELSE d[k]]
  BY FiledFacts DEF PutEntry, RootUp
<1>3. PutEntry(d, e, RootLoc)[RootLoc] = e /\ PutEntry(d, e, RootLoc)[RootUp] = up
  BY <1>2, FiledFacts
<1> HIDE DEF up
<1>4. \A l \in Loc : l[1] \in Reserved => l # RootLoc /\ l # RootUp
  BY <1>1, FiledFacts
<1> QED
  BY <1>1, <1>2, <1>3, <1>4, FiledFacts DEF Clean, up

\* The copy of the root's entry follows it, and no other.
LEMMA AfterFacts ==
  ASSUME NEW r, RootForm(r), NEW e \in Entry
  PROVE  /\ e.start # StartBlock \/ e.length = r.length => RootAfter(r, e) = r
         /\ e.start = StartBlock /\ e.type = r.type /\ e.name = r.name => RootAfter(r, e) = e
<1>1. r \in Entry /\ r.start = StartBlock
  BY DEF RootForm
<1>2. [r EXCEPT !.length = r.length] = r
  BY <1>1 DEF Entry
<1>3. e.start = r.start /\ e.type = r.type /\ e.name = r.name => [r EXCEPT !.length = e.length] = e
  BY <1>1 DEF Entry
<1> QED
  BY <1>1, <1>2, <1>3 DEF RootAfter

\* The root entry, read from the disk or kept, is that of the root directory.
LEMMA RootEntryForm ==
  ASSUME MInv
  PROVE  /\ Based(fat) /\ Clean(disk) /\ RootForm(RootEntry) /\ RootEntry # NoRoot
         /\ RootEntry = disk[RootLoc] /\ (Unlinked(fat) \/ Full(RootEntry))
<1>1. /\ Based(fat) /\ Clean(disk) /\ root \in {NoRoot, disk[RootLoc]}
      /\ Unlinked(fat) \/ Full(disk[RootLoc])
      /\ RootForm(disk[RootLoc])
  BY DEF MInv, Good, Clean
<1>2. Decode(disk[RootLoc]) = disk[RootLoc]
  BY <1>1, DataAssumption DEF RootForm, Decode
<1>3. RootEntry = disk[RootLoc]
  BY <1>1, <1>2 DEF RootEntry
<1>4. \A e : RootForm(e) => e # NoRoot
  BY DecodeFacts DEF RootForm
<1> QED
  BY <1>1, <1>3, <1>4

\* A cell of a chain lies in one of its blocks.
LEMMA CellBlock ==
  ASSUME NEW f, NEW b, NEW from, NEW to, NEW l \in Cells(f, b, from, to)
  PROVE  l[1] \in Chain(f, b)
<1>1. PICK x \in {<<y, Steps(f, b, y)>> : y \in Chain(f, b) \cap Block} :
        \E j \in 0..EntriesPerBlock - 1 : l = <<x[1], j>>
  BY DEF Cells
<1>2. PICK y \in Chain(f, b) \cap Block : x = <<y, Steps(f, b, y)>>
  BY <1>1
<1> QED
  BY <1>1, <1>2

\* The root can be read only while it fits its first block.
LEMMA RootReadable ==
  ASSUME NEW f, Based(f), NEW e, RootForm(e), ReadDirStatus(f, e) = "OK"
  PROVE  e.length \in 1..EntriesPerBlock /\ ~Full(e)
<1>1. e.length \in Nat /\ e.start = StartBlock /\ EntriesPerBlock \in Nat
  BY GeometryAssumption DEF RootForm, Entry
<1>2. ChainLength(f, e.start) = 1
  <2>1. Cardinality({StartBlock}) = 1
    BY FS_Singleton
  <2> QED BY <1>1, <2>1, RootChain DEF ChainLength
<1>3. e.length # 0 /\ ~(e.length > EntriesPerBlock * ChainLength(f, e.start))
  BY DEF ReadDirStatus
<1> QED
  BY <1>1, <1>2, <1>3 DEF Full

\* What find() may return: the root, a node that a path names, or a failure.
AtRoot(h) == h = Hit(RootLoc, RootEntry)
Named(h)  == /\ h.status = "OK" /\ Unlinked(fat) /\ Elsewhere(h.loc)
             /\ h.entry \in Entry /\ h.entry.start \in Filed
Failed(h) == h.status # "OK" /\ h.entry = Zero
Found(h)  == Typed(h) /\ (AtRoot(h) \/ Named(h) \/ Failed(h))

\* A name leads to a node that is neither the root nor stored over its entry,
\* and to none at all once the root is too long to be read.
LEMMA LookupNamed ==
  ASSUME MInv, NEW h, Found(h), NEW name \in Name
  PROVE  LET m == Lookup(h, name) IN Typed(m) /\ (Named(m) \/ Failed(m))
<1> DEFINE dir == h.entry
           matches == {l \in Slots(fat, dir) :
                        /\ disk[l] \notin Data
                        /\ disk[l].name = name
                        /\ ~IsFree(fat, disk[l])}
           first == FirstSlot(fat, dir, matches)
<1>0. IInv /\ Typed(h) /\ Table(fat) /\ dir \in Entry
  BY IInvTable DEF MInv, Found, Typed
<1>1. Typed(Lookup(h, name))
  BY <1>0, LookupFacts
<1>2. \A s : s # "OK" => Failed(Miss(s))
  BY DEF Failed, Miss
<1>3. CASE h.status # "OK"
  BY <1>1, <1>2, <1>3 DEF Lookup
<1>4. CASE h.status = "OK" /\ dir.type = "File"
  BY <1>1, <1>2, <1>4 DEF Lookup
<1>5. CASE h.status = "OK" /\ dir.type # "File" /\ ReadDirStatus(fat, dir) # "OK"
  BY <1>1, <1>2, <1>5 DEF Lookup
<1>6. CASE h.status = "OK" /\ dir.type # "File" /\ ReadDirStatus(fat, dir) = "OK"
  <2>1. Lookup(h, name) = IF matches = {} THEN Miss("ENOENT") ELSE Hit(first, disk[first])
    BY <1>6 DEF Lookup
  <2>2. CASE matches = {}
    BY <1>1, <1>2, <2>1, <2>2
  <2>3. CASE matches # {}
    <3>1. dir.start \in Usable /\ Unlinked(fat)
      <4>1. CASE AtRoot(h)
        <5>1. dir = RootEntry
          BY <4>1 DEF AtRoot, Hit
        <5>2. RootForm(dir) /\ Based(fat) /\ (Unlinked(fat) \/ Full(dir))
          BY <5>1, RootEntryForm
        <5> HIDE DEF dir
        <5> QED BY <1>6, <5>2, RootReadable, FiledFacts DEF RootForm
      <4>2. CASE Named(h)
        BY <4>2, FiledFacts DEF Named
      <4> QED BY <1>6, <4>1, <4>2 DEF Found, Failed
    <3>2. first \in matches /\ first \in Loc
      <4>1. matches \subseteq Slots(fat, dir)
        OBVIOUS
      <4> HIDE DEF matches
      <4> QED BY <2>3, <4>1, <1>0, FirstSlotFacts
    <3>3. first[1] \in Usable
      <4>1. first \in Slots(fat, dir)
        BY <3>2
      <4> HIDE DEF first
      <4>2. first[1] \in Chain(fat, dir.start)
        BY <4>1, CellBlock DEF Slots
      <4> QED BY <4>2, <3>1, <1>0, ChainFacts DEF Start
    <3>4. disk[first] \notin Data /\ disk[first].name \notin {".", ".."}
      <4>1. disk[first] \notin Data /\ disk[first].name = name
        BY <3>2
      <4> QED BY <4>1, NameAssumption
    <3>5. disk[first] \in Entry /\ disk[first].start \in Usable
      BY <1>0, <2>1, <2>3, LookupFacts DEF Hit, Typed
    <3> HIDE DEF first
    <3>6. Clean(disk)
      BY RootEntryForm
    <3>7. first \notin {RootLoc, RootUp}
      <4>1. disk[RootLoc].name = "." /\ disk[RootUp].name = ".."
        BY <3>6 DEF Clean, RootForm, Entry
      <4> QED BY <3>4, <4>1
    <3>8. disk[first].start # StartBlock
      BY <3>2, <3>4, <3>6 DEF Clean, RootNamed
    <3>9. Named(Hit(first, disk[first]))
      BY <3>1, <3>3, <3>5, <3>7, <3>8 DEF Named, Hit, Elsewhere, Filed
    <3> QED BY <1>1, <2>1, <2>3, <3>9
  <2> QED BY <2>2, <2>3
<1> QED
  BY <1>3, <1>4, <1>5, <1>6

LEMMA ResolveFound ==
  ASSUME MInv, NEW p \in Seq(Name)
  PROVE  Found(Resolve(p))
<1>1. Len(p) \in Nat
  OBVIOUS
<1>2. PICK g : Reached(g, p)
  BY ResolveReached
<1> DEFINE Bad == {n \in 0..Len(p) : ~Found(g[n])}
<1>3. Bad = {}
  <2> SUFFICES ASSUME Bad # {} PROVE FALSE
    OBVIOUS
  <2>1. PICK n \in Bad : \A m \in Bad : n <= m
    <3> HIDE DEF Bad
    <3>1. Bad \subseteq Nat
      BY DEF Bad
    <3> QED BY <3>1, NatMin
  <2>2. n # 0
    <3>1. Found(g[0])
      BY <1>2, RootEntryFacts DEF Reached, Found, AtRoot, MInv
    <3> QED BY <2>1, <3>1
  <2>3. n \in 1..Len(p) /\ n - 1 \in 0..Len(p) /\ Found(g[n-1]) /\ p[n] \in Name
    BY <2>1, <2>2, <1>1
  <2>4. Found(Lookup(g[n-1], p[n]))
    BY <2>3, LookupNamed DEF Found
  <2> QED BY <2>1, <2>3, <2>4, <1>2 DEF Reached
<1> QED
  BY <1>1, <1>2, <1>3 DEF Reached

LEMMA FindFound ==
  ASSUME MInv, NEW p \in Seq(Name)
  PROVE  /\ Found(Find(p))
         /\ p = <<>> => AtRoot(Find(p))
         /\ p # <<>> => Named(Find(p)) \/ Failed(Find(p))
<1>1. CASE p = <<>>
  BY <1>1, RootEntryFacts DEF Find, Found, AtRoot, MInv
<1>2. CASE p # <<>>
  <2>1. Found(Resolve(Parent(p)))
    <3>1. Parent(p) \in Seq(Name)
      BY DEF Parent
    <3> QED BY <3>1, ResolveFound
  <2>2. LastName(p) \in Name
    BY <1>2 DEF LastName
  <2> QED BY <1>2, <2>1, <2>2, LookupNamed DEF Find, Found
<1> QED
  BY <1>1, <1>2

LEMMA FindParentFound ==
  ASSUME MInv, NEW p \in AnyPath
  PROVE  Found(FindParent(p))
<1>1. Found(Find(Parent(p)))
  BY PathFacts, FindFound
<1>2. Found(Miss("ENOTDIR"))
  BY BlockFacts, DecodeFacts DEF Found, Failed, Typed, Miss
<1> QED
  BY <1>1, <1>2 DEF FindParent, NotFile

\* A call that leaves a table, the cells and a root entry behind.
Leaves(f, d, r) ==
    /\ Based(f) /\ Clean(d) /\ r = d[RootLoc]
    /\ Unlinked(f) \/ Full(d[RootLoc])

\* What newFile() leaves: the new entry is not over the root's, and a parent
\* entry that leads to the root is as long as the root's.
LeftClean(new) ==
    /\ Leaves(new.fat, new.disk, new.root)
    /\ new.status = "OK" =>
          /\ Elsewhere(new.loc)
          /\ new.parent.start = StartBlock =>
                new.parent.type = "Directory" /\ new.parent.length = new.root.length

LEMMA UnmadeClean ==
  ASSUME MInv, NEW f, Based(f), Unlinked(fat) => Unlinked(f), NEW s, s # "OK"
  PROVE  LeftClean(Unmade(s, f))
BY RootEntryForm DEF LeftClean, Leaves, Unmade, Made

LEMMA PlacedClean ==
  ASSUME MInv, NEW f, Based(f), NEW e \in Entry, e.start # StartBlock, NEW l, Elsewhere(l),
         NEW h, Typed(h), AtRoot(h) \/ Named(h), NEW grow \in BOOLEAN,
         Unlinked(f) \/ (grow /\ AtRoot(h) /\ h.entry.length >= EntriesPerBlock)
  PROVE  LeftClean(Placed(f, e, l, h, grow))
<1> DEFINE dir == IF grow THEN [h.entry EXCEPT !.length = @ + 1] ELSE h.entry
           d   == PutEntry(disk, e, l)
           r   == RootAfter(RootEntry, e)
<1>0. h.entry \in Entry /\ h.entry.length \in Nat /\ EntriesPerBlock \in Nat
  <2>1. h.entry \in Entry
    BY DEF Typed
  <2> QED BY <2>1, GeometryAssumption DEF Entry
<1>1. dir \in Entry /\ dir.start = h.entry.start /\ dir.type = h.entry.type
      /\ dir.name = h.entry.name /\ (grow => dir.length = h.entry.length + 1)
  <2>1. h.entry.length + 1 \in Nat
    BY <1>0
  <2> QED BY <1>0, <2>1 DEF Entry
<1>2. Clean(d) /\ d[RootLoc] = disk[RootLoc] /\ r = RootEntry
      /\ RootForm(RootEntry) /\ RootEntry \in Entry /\ RootEntry = disk[RootLoc]
  <2>1. RootNamed(e)
    BY DEF RootNamed
  <2> QED BY <2>1, RootEntryForm, PutClean, AfterFacts DEF RootForm
<1>3. Placed(f, e, l, h, grow) =
        IF grow THEN Made("OK", f, PutEntry(d, dir, h.loc), RootAfter(r, dir), e, l, dir)
        ELSE Made("OK", f, d, r, e, l, dir)
  BY DEF Placed
<1>4. CASE AtRoot(h)
  <2>1. h.loc = RootLoc /\ h.entry = RootEntry
    BY <1>4 DEF AtRoot, Hit
  <2>2. RootForm(dir)
    <3>1. dir.length >= 2
      <4>1. h.entry.length >= 2
        BY <1>2, <2>1 DEF RootForm
      <4>2. CASE grow
        BY <1>0, <1>1, <4>1, <4>2
      <4>3. CASE ~grow
        BY <4>1, <4>3
      <4> QED BY <4>2, <4>3
    <3> HIDE DEF dir
    <3> QED BY <1>1, <1>2, <2>1, <3>1 DEF RootForm
  <2> HIDE DEF d, r, dir
  <2>3. CASE grow
    <3>1. Clean(PutEntry(d, dir, h.loc)) /\ PutEntry(d, dir, h.loc)[RootLoc] = dir
      BY <1>2, <2>1, <2>2, PutRootClean
    <3>2. RootAfter(r, dir) = dir /\ dir.type = "Directory"
      BY <1>1, <1>2, <2>2, AfterFacts DEF RootForm
    <3>3. Unlinked(f) \/ Full(dir)
      BY <1>0, <1>1, <2>3, <3>2 DEF Full
    <3> QED BY <1>3, <2>3, <3>1, <3>2, <3>3 DEF LeftClean, Leaves, Made
  <2>4. CASE ~grow
    BY <1>2, <1>3, <2>1, <2>2, <2>4, <1>1 DEF LeftClean, Leaves, Made, RootForm, dir
  <2> QED BY <2>3, <2>4
<1>5. CASE Named(h) /\ ~AtRoot(h)
  <2>1. Elsewhere(h.loc) /\ dir.start # StartBlock /\ Unlinked(f)
    BY <1>1, <1>5, FiledFacts DEF Named
  <2>2. RootNamed(dir)
    BY <2>1 DEF RootNamed
  <2> HIDE DEF d, r, dir
  <2>3. /\ Clean(PutEntry(d, dir, h.loc)) /\ RootAfter(r, dir) = RootEntry
        /\ PutEntry(d, dir, h.loc)[RootLoc] = d[RootLoc]
    BY <1>1, <1>2, <2>1, <2>2, PutClean, AfterFacts
  <2> QED BY <1>2, <1>3, <2>1, <2>3 DEF LeftClean, Leaves, Made
<1> QED
  BY <1>4, <1>5

\* A full block of cells takes one block.
LEMMA OneBlock == EntriesPerBlock - EntriesPerBlock * (BlocksFor(EntriesPerBlock) - 1) = EntriesPerBlock
<1>1. \A n \in Nat \ {0} : (n + n - 1) \div n = 1
  <2> SUFFICES ASSUME NEW n \in Nat \ {0} PROVE (n + n - 1) \div n = 1
    OBVIOUS
  <2>1. n + n - 1 = 1 * n + (n - 1) /\ n - 1 \in 0..n - 1
    OBVIOUS
  <2> QED BY <2>1
<1>2. EntriesPerBlock \in Nat \ {0} /\ BlocksFor(EntriesPerBlock) = 1
  BY <1>1, GeometryAssumption DEF BlocksFor
<1> QED
  BY <1>2

\* newFile() puts the new entry into a free slot, behind the last one or at the
\* start of a new block, and none of these is the root's own cell.
LEMMA NewFileClean ==
  ASSUME MInv, NEW h, Found(h), NEW p \in AnyPath, NEW length \in Nat,
         NEW type \in {"File", "Directory"}, NEW noalloc \in BOOLEAN, NEW firstIndex
  PROVE  LET new == NewFile(h, p, length, type, noalloc, firstIndex)
         IN  /\ LeftClean(new)
             /\ ~noalloc /\ new.status = "OK" => new.entry.start \in Filed
<1> DEFINE dir   == h.entry
           taken == FindFreeBlock(fat)
           f1    == IF noalloc THEN fat ELSE Mark(fat, taken, FINAL)
           need  == BlocksFor(length)
           entry(b) == [name   |-> IF noalloc THEN "" ELSE LastName(p), type |-> type,
                        length |-> length, start  |-> IF noalloc THEN 0 ELSE b]
           reusable == {l \in Slots(f1, dir) :
                        /\ Index(f1, dir.start, l) >= firstIndex
                        /\ IsFree(f1, Decode(disk[l]))}
           blocks == BlocksFor(dir.length)
           last   == Nth(f1, dir.start, blocks - 1)
           rem    == dir.length - EntriesPerBlock * (blocks - 1)
           f2     == Mark(f1, taken, last)
           start  == FindFreeBlock(f2)
           f3     == IF noalloc THEN f2 ELSE Mark(f2, start, FINAL)
           full   == CASE dir.length < EntriesPerBlock -> ~noalloc /\ ~HasFree(f1, need)
                       [] dir.length >= EntriesPerBlock ->
                             /\ rem = EntriesPerBlock
                             /\ ~HasFree(f1, IF noalloc THEN 1 ELSE 2 + need)
           found  == noalloc \/ taken # UNUSABLE
           result == NewFile(h, p, length, type, noalloc, firstIndex)
           Fine(new) == /\ LeftClean(new)
                        /\ ~noalloc /\ new.status = "OK" => new.entry.start \in Filed
<1> SUFFICES Fine(result)
  OBVIOUS
<1>1. /\ Typed(h) /\ Based(fat) /\ Table(fat) /\ dir \in Entry /\ dir.start \in Start
      /\ dir.length \in Nat /\ EntriesPerBlock \in Nat \ {0}
  <2>1. dir \in Entry
    BY DEF Found, Typed
  <2>2. Typed(h) /\ Based(fat) /\ Table(fat) /\ EntriesPerBlock \in Nat \ {0}
    BY RootEntryForm, GeometryAssumption DEF Based, Found
  <2> HIDE DEF dir
  <2>3. dir.start \in Start /\ dir.length \in Nat
    BY <2>1 DEF Entry, Start
  <2> QED BY <2>1, <2>2, <2>3
<1>2. FreeBlocks(fat) # {} => taken \in FreeBlocks(fat) /\ taken \in Filed
  BY <1>1, FreeBlockFacts, FreeFiled
<1>3. found => Based(f1) /\ (Unlinked(fat) => Unlinked(f1)) /\ (~noalloc => taken \in Filed)
  <2>1. CASE noalloc
    BY <2>1, <1>1
  <2>2. CASE ~noalloc /\ taken # UNUSABLE
    <3>1. taken \in Filed
      BY <1>1, <1>2, <2>2, FreeBlockFacts
    <3> HIDE DEF taken
    <3> QED BY <1>1, <2>2, <3>1, MarkFiled, FiledFacts
  <2> QED BY <2>1, <2>2
<1>4. ASSUME NEW b, noalloc \/ b \in Filed
      PROVE  entry(b) \in Entry /\ entry(b).start # StartBlock /\ (~noalloc => entry(b).start = b)
  <2>1. LastName(p) \in Name \cup {"", ".", ".."}
    BY PathFacts
  <2> QED BY <1>4, <2>1, FiledFacts DEF Entry
<1>5. result =
        IF h.status \notin {"OK", "ENOENT"} THEN Unmade(h.status, fat)
        ELSE IF ~noalloc /\ taken = UNUSABLE THEN Unmade("ENOSPC", fat)
        ELSE IF ReadDirStatus(f1, dir) # "OK" THEN Unmade(ReadDirStatus(f1, dir), f1)
        ELSE IF reusable # {}
             THEN Placed(f1, entry(taken), FirstSlot(f1, dir, reusable), h, FALSE)
        ELSE IF full THEN Unmade("ENOSPC", fat)
        ELSE IF dir.length < EntriesPerBlock
             THEN Placed(f1, entry(taken), <<dir.start, dir.length>>, h, TRUE)
        ELSE IF rem = EntriesPerBlock THEN Placed(f3, entry(start), <<taken, 0>>, h, TRUE)
        ELSE Placed(f1, entry(taken), <<last, rem>>, h, TRUE)
  BY DEF NewFile
<1>6. ASSUME NEW s, s # "OK", NEW f, Based(f), Unlinked(fat) => Unlinked(f)
      PROVE  Fine(Unmade(s, f))
  <2>1. Unmade(s, f).status # "OK"
    BY <1>6 DEF Unmade, Made
  <2> QED BY <1>6, <2>1, UnmadeClean
<1> HIDE DEF result
<1>7. CASE ~found \/ h.status \notin {"OK", "ENOENT"} \/ ReadDirStatus(f1, dir) # "OK"
  <2> HIDE DEF dir, taken, f1, need, entry, reusable, blocks, last, rem, f2, start, f3, full, Fine
  <2> QED BY <1>1, <1>3, <1>5, <1>6, <1>7
<1>8. CASE found /\ h.status \in {"OK", "ENOENT"} /\ ReadDirStatus(f1, dir) = "OK"
  <2>1. AtRoot(h) \/ Named(h)
    <3>1. dir.length # 0
      <4> HIDE DEF dir, f1
      <4> QED BY <1>8 DEF ReadDirStatus
    <3>2. ~Failed(h)
      <4>1. Zero.length = 0
        BY DEF Zero
      <4> QED BY <3>1, <4>1 DEF Failed
    <3> QED BY <3>2 DEF Found
  <2>2. ASSUME AtRoot(h)
        PROVE  RootForm(dir) /\ dir.length \in 1..EntriesPerBlock /\ ~Full(RootEntry)
    <3>1. dir = RootEntry
      BY <2>2 DEF AtRoot, Hit
    <3> HIDE DEF dir, f1
    <3> QED BY <3>1, <1>3, <1>8, RootEntryForm, RootReadable
  <2>3. Unlinked(fat) /\ Apart(f1) /\ dir.start \in Usable
    <3>1. Unlinked(fat)
      BY <2>1, <2>2, RootEntryForm DEF Named
    <3>2. dir.start \in Usable
      BY <2>1, <2>2, FiledFacts DEF Named, RootForm
    <3> HIDE DEF dir, f1
    <3> QED BY <1>3, <1>8, <3>1, <3>2 DEF Apart
  <2>4. ASSUME NEW f, Based(f), NEW b, noalloc \/ b \in Filed, NEW l, Elsewhere(l),
               NEW grow \in BOOLEAN,
               Unlinked(f) \/ (grow /\ AtRoot(h) /\ dir.length >= EntriesPerBlock)
        PROVE  Fine(Placed(f, entry(b), l, h, grow))
    <3>1. entry(b) \in Entry /\ entry(b).start # StartBlock /\ (~noalloc => entry(b).start = b)
      BY <1>4, <2>4
    <3>2. Placed(f, entry(b), l, h, grow).entry = entry(b)
      <4> HIDE DEF entry
      <4> QED BY DEF Placed, Made
    <3> HIDE DEF entry
    <3>3. LeftClean(Placed(f, entry(b), l, h, grow))
      BY <1>1, <2>1, <2>4, <3>1, PlacedClean
    <3> QED BY <2>4, <3>1, <3>2, <3>3
  <2>5. CASE reusable # {}
    <3> DEFINE l == FirstSlot(f1, dir, reusable)
    <3>1. l \in reusable /\ l \in Loc
      <4>1. reusable \subseteq Slots(f1, dir)
        OBVIOUS
      <4> HIDE DEF reusable, f1, dir
      <4> QED BY <2>3, <2>5, <4>1, <1>1, FirstSlotFacts DEF Apart, Based
    <3>2. l \in Slots(f1, dir) /\ IsFree(f1, Decode(disk[l]))
      BY <3>1
    <3> HIDE DEF l, f1, dir, reusable
    <3>3. l[1] \in Usable
      <4>1. l[1] \in Chain(f1, dir.start)
        BY <3>2, CellBlock DEF Slots
      <4> QED BY <4>1, <2>3, ChainFacts DEF Start, Apart, Based
    <3>4. l \notin {RootLoc, RootUp}
      <4> USE DataAssumption, FiledFacts
      <4>1. RootForm(disk[RootLoc]) /\ disk[RootUp] = [disk[RootLoc] EXCEPT !.name = ".."]
        BY RootEntryForm DEF Clean
      <4>2. disk[RootUp] \in Entry /\ disk[RootUp].start = StartBlock
        BY <4>1 DEF RootForm, Entry
      <4>3. Decode(disk[RootLoc]) = disk[RootLoc] /\ Decode(disk[RootUp]) = disk[RootUp]
        BY <4>1, <4>2 DEF Decode, RootForm
      <4>4. \A e : e.start = StartBlock => ~IsFree(f1, e)
        BY <2>3 DEF IsFree, Apart, Based, FINAL
      <4>5. ~IsFree(f1, Decode(disk[RootLoc])) /\ ~IsFree(f1, Decode(disk[RootUp]))
        BY <4>1, <4>2, <4>3, <4>4 DEF RootForm
      <4> QED BY <3>2, <4>5
    <3>5. Elsewhere(l)
      BY <3>3, <3>4 DEF Elsewhere
    <3>6. Fine(Placed(f1, entry(taken), l, h, FALSE))
      <4> HIDE DEF Fine, entry, taken
      <4> QED BY <1>3, <1>8, <2>3, <2>4, <3>5 DEF Apart
    <3>7. result = Placed(f1, entry(taken), l, h, FALSE)
      <4> HIDE DEF entry, taken, full, rem, f3, start, last
      <4> QED BY <1>5, <1>8, <2>5 DEF l
    <3> HIDE DEF Fine
    <3> QED BY <3>6, <3>7
  <2>6. CASE reusable = {} /\ full
    <3> HIDE DEF dir, taken, f1, need, entry, reusable, blocks, last, rem, f2, start, f3, full, Fine
    <3> QED BY <1>1, <1>5, <1>6, <1>8, <2>6
  <2>7. CASE reusable = {} /\ ~full /\ dir.length < EntriesPerBlock
    <3>1. Elsewhere(<<dir.start, dir.length>>)
      <4>1. dir.length # 0
        <5> HIDE DEF dir, f1
        <5> QED BY <1>8 DEF ReadDirStatus
      <4>2. dir.start = StartBlock => dir.length >= 2
        BY <2>1, <2>2, FiledFacts DEF Named, RootForm
      <4> HIDE DEF dir
      <4> QED BY <4>1, <4>2, <2>3, <1>1 DEF Elsewhere, RootLoc, RootUp
    <3> HIDE DEF dir, taken, f1, need, entry, reusable, blocks, last, rem, f2, start, f3, full, Fine
    <3>2. Fine(Placed(f1, entry(taken), <<dir.start, dir.length>>, h, TRUE))
      BY <1>3, <1>8, <2>3, <2>4, <3>1 DEF Apart
    <3> QED BY <1>5, <1>8, <2>7, <3>2
  <2>8. CASE /\ reusable = {} /\ ~full /\ ~(dir.length < EntriesPerBlock)
             /\ rem = EntriesPerBlock
    <3>1. FreeBlocks(f1) # {}
      <4>1. HasFree(f1, IF noalloc THEN 1 ELSE 2 + need)
        <5>1. dir.length >= EntriesPerBlock
          BY <1>1, <2>8
        <5> HIDE DEF dir, f1, need, rem
        <5> QED BY <5>1, <2>8
      <4> QED BY <4>1 DEF HasFree
    <3>2. taken \in Filed
      <4>1. CASE noalloc
        BY <4>1, <3>1, <1>2
      <4>2. CASE ~noalloc
        BY <4>2, <1>3, <1>8
      <4> QED BY <4>1, <4>2
    <3>3. last \in Link /\ (~AtRoot(h) => last # StartBlock)
      <4> HIDE DEF dir, f1, blocks
      <4>1. last \in Chain(f1, dir.start) /\ last \in Start
        <5>1. Chain(f1, dir.start) # {}
          BY <2>3, <1>1, ChainFacts DEF Apart, Based
        <5>2. \E x \in Chain(f1, dir.start) :
                 Steps(f1, dir.start, x) = blocks - 1
                 \/ \A y \in Chain(f1, dir.start) : Steps(f1, dir.start, y) # blocks - 1
          BY <5>1
        <5>3. last \in Chain(f1, dir.start)
          BY <5>2 DEF Nth
        <5> QED BY <5>3, <2>3, <1>1, ChainFacts DEF Apart, Based
      <4>2. ~AtRoot(h) => dir.start \in Filed
        BY <2>1 DEF Named, dir
      <4> HIDE DEF last
      <4>3. ~AtRoot(h) => last \in Filed
        BY <4>1, <4>2, <2>3, FiledChain
      <4> QED BY <4>1, <4>3, FiledFacts DEF Start, Link
    <3>4. Based(f2) /\ (Unlinked(f2) \/ AtRoot(h))
      <4> HIDE DEF f1, taken, last
      <4> QED BY <2>3, <3>2, <3>3, MarkFiled DEF Apart
    <3>5. ~noalloc => start \in Filed
      <4> SUFFICES ASSUME ~noalloc PROVE start \in Filed
        OBVIOUS
      <4>1. taken \notin FreeBlocks(f1)
        BY <3>2, FiledFacts DEF FreeBlocks, Mark, FINAL
      <4>2. FreeBlocks(f1) \subseteq FreeBlocks(f2)
        <5> HIDE DEF f1, taken, last
        <5> QED BY <4>1 DEF FreeBlocks, Mark
      <4> HIDE DEF f1, f2
      <4> QED BY <3>1, <3>4, <4>2, FreeBlockFacts, FreeFiled DEF Based
    <3>6. Based(f3) /\ (Unlinked(f3) \/ AtRoot(h))
      <4> HIDE DEF f2, start
      <4> QED BY <3>4, <3>5, MarkFiled, FiledFacts
    <3>7. Elsewhere(<<taken, 0>>)
      BY <3>2, FiledFacts DEF Elsewhere, RootLoc, RootUp, Filed
    <3>8. dir.length >= EntriesPerBlock
      BY <1>1, <2>8
    <3> HIDE DEF dir, taken, f1, need, entry, reusable, blocks, last, rem, f2, start, f3, full, Fine
    <3>9. Fine(Placed(f3, entry(start), <<taken, 0>>, h, TRUE))
      BY <2>4, <3>5, <3>6, <3>7, <3>8
    <3> QED BY <1>5, <1>8, <2>8, <3>9
  <2>9. CASE /\ reusable = {} /\ ~full /\ ~(dir.length < EntriesPerBlock)
             /\ rem # EntriesPerBlock
    <3>1. ~AtRoot(h)
      <4>1. ~(dir.length = EntriesPerBlock)
        BY <2>9, OneBlock
      <4> HIDE DEF dir
      <4> QED BY <4>1, <1>1, <2>2, <2>9
    <3>2. last \in Filed
      <4> HIDE DEF f1, blocks
      <4>1. dir.start \in Filed
        BY <2>1, <3>1 DEF Named
      <4> HIDE DEF dir
      <4>2. Chain(f1, dir.start) # {} /\ Chain(f1, dir.start) \subseteq Filed
        BY <2>3, <1>1, <4>1, ChainFacts, FiledChain DEF Apart, Based
      <4>3. \E x \in Chain(f1, dir.start) :
               Steps(f1, dir.start, x) = blocks - 1
               \/ \A y \in Chain(f1, dir.start) : Steps(f1, dir.start, y) # blocks - 1
        BY <4>2
      <4>4. last \in Chain(f1, dir.start)
        BY <4>3 DEF Nth
      <4> QED BY <4>2, <4>4
    <3>3. Elsewhere(<<last, rem>>)
      <4> HIDE DEF last, rem
      <4> QED BY <3>2, FiledFacts DEF Elsewhere, RootLoc, RootUp, Filed
    <3> HIDE DEF dir, taken, f1, need, entry, reusable, blocks, last, rem, f2, start, f3, full, Fine
    <3>4. Fine(Placed(f1, entry(taken), <<last, rem>>, h, TRUE))
      BY <1>3, <1>8, <2>3, <2>4, <3>3 DEF Apart
    <3> QED BY <1>5, <1>8, <2>9, <3>4
  <2> HIDE DEF Fine
  <2> QED BY <2>5, <2>6, <2>7, <2>8, <2>9
<1> QED
  BY <1>7, <1>8

\* zeroOutFree() clears cells behind the last block that a file keeps, which
\* may be another file's but never the root's first.
LEMMA ZeroOutClean ==
  ASSUME NEW f, Apart(f), NEW d, Clean(d), NEW e, e.start \in Filed, NEW n \in Nat
  PROVE  /\ Clean(ZeroOutFree(f, d, e, n))
         /\ ZeroOutFree(f, d, e, n)[RootLoc] = d[RootLoc]
<1> DEFINE q     == BlocksFor(n)
           block == Nth(f, e.start, q - 1)
           first == EntriesPerBlock * block + n - EntriesPerBlock * (q - 1)
           at(l) == EntriesPerBlock * l[1] + l[2]
           cleared(l) == first <= at(l) /\ at(l) < first + e.length - n
<1>1. \/ ZeroOutFree(f, d, e, n) = d
      \/ ZeroOutFree(f, d, e, n) = [l \in Loc |-> IF cleared(l) THEN Zero ELSE d[l]]
  BY DEF ZeroOutFree
<1>2. block \in Filed
  <2> HIDE DEF q
  <2>1. Chain(f, e.start) # {} /\ Chain(f, e.start) \subseteq Filed
    BY FiledFacts, ChainFacts, FiledChain DEF Apart, Based
  <2>2. \E x \in Chain(f, e.start) :
           Steps(f, e.start, x) = q - 1
           \/ \A y \in Chain(f, e.start) : Steps(f, e.start, y) # q - 1
    BY <2>1
  <2>3. block \in Chain(f, e.start)
    BY <2>2 DEF Nth
  <2> QED BY <2>1, <2>3
<1>3. n - EntriesPerBlock * (q - 1) >= 1 /\ q \in Int
  <2>1. EntriesPerBlock \in Nat \ {0} /\ n + EntriesPerBlock - 1 \in Nat
    BY GeometryAssumption
  <2>2. \A k \in Nat \ {0}, m \in Nat : m \div k \in Int /\ k * (m \div k) <= m
    OBVIOUS
  <2>3. q \in Int /\ EntriesPerBlock * q <= n + EntriesPerBlock - 1
    BY <2>1, <2>2 DEF BlocksFor
  <2> HIDE DEF q
  <2>4. EntriesPerBlock * (q - 1) = EntriesPerBlock * q - EntriesPerBlock
        /\ EntriesPerBlock * q \in Int
    BY <2>1, <2>3
  <2> QED BY <2>1, <2>3, <2>4
<1>4. first > at(RootLoc) /\ first > at(RootUp) /\ first \in Int
      /\ at(RootLoc) \in Int /\ at(RootUp) \in Int
  <2>1. /\ block \in Int /\ StartBlock \in Int /\ block >= StartBlock + 1
        /\ EntriesPerBlock \in Nat /\ EntriesPerBlock >= 2
    BY <1>2, GeometryAssumption DEF Filed, Usable, StartBlock
  <2> HIDE DEF block, q
  <2>2. /\ EntriesPerBlock * block >= EntriesPerBlock * (StartBlock + 1)
        /\ EntriesPerBlock * (StartBlock + 1) = EntriesPerBlock * StartBlock + EntriesPerBlock
        /\ EntriesPerBlock * block \in Int /\ EntriesPerBlock * StartBlock \in Int
        /\ EntriesPerBlock * (q - 1) \in Int
    BY <2>1, <1>3
  <2>3. at(RootLoc) = EntriesPerBlock * StartBlock /\ at(RootUp) = EntriesPerBlock * StartBlock + 1
    BY <2>2 DEF RootLoc, RootUp
  <2> HIDE DEF at
  <2> QED BY <2>1, <2>2, <2>3, <1>3
<1>5. ~cleared(RootLoc) /\ ~cleared(RootUp)
  <2> HIDE DEF first, at
  <2> QED BY <1>4
<1>6. RootNamed(Zero)
  BY FiledFacts DEF RootNamed, Zero
<1> HIDE DEF cleared
<1> QED
  BY <1>1, <1>5, <1>6, FiledFacts DEF Clean

LEMMA ResizedClean ==
  ASSUME MInv, Unlinked(fat), NEW e \in Entry, e.start \in Filed, NEW l, Elsewhere(l),
         NEW n \in Nat
  PROVE  /\ Apart(Resized(e, l, n).fat) /\ Clean(Resized(e, l, n).disk)
         /\ Resized(e, l, n).disk[RootLoc] = disk[RootLoc]
         /\ Resized(e, l, n).entry \in Entry /\ Resized(e, l, n).entry.start = e.start
<1> DEFINE old  == ChainLength(fat, e.start)
           new  == BlocksFor(n)
           longer == [e EXCEPT !.length = n]
           Done(f, d) == [status |-> "OK", fat |-> f, entry |-> longer,
                          disk |-> PutEntry(d, longer, l)]
           Fine(r) == /\ Apart(r.fat) /\ Clean(r.disk) /\ r.disk[RootLoc] = disk[RootLoc]
                      /\ r.entry \in Entry /\ r.entry.start = e.start
           Keep(s) == [status |-> s, fat |-> fat, entry |-> e, disk |-> disk]
<1>1. Apart(fat) /\ Clean(disk)
  BY RootEntryForm DEF Apart
<1>2. longer \in Entry /\ longer.start = e.start /\ RootNamed(longer)
  <2>1. longer \in Entry /\ longer.start = e.start
    BY DEF Entry
  <2> HIDE DEF longer
  <2> QED BY <2>1, FiledFacts DEF RootNamed
<1>3. ASSUME NEW f, Apart(f), NEW d, Clean(d), d[RootLoc] = disk[RootLoc]
      PROVE  Fine(Done(f, d))
  <2> HIDE DEF longer
  <2>1. Clean(PutEntry(d, longer, l)) /\ PutEntry(d, longer, l)[RootLoc] = disk[RootLoc]
    BY <1>2, <1>3, PutClean
  <2> QED BY <1>2, <1>3, <2>1
<1>4. \A s : Fine(Keep(s))
  BY <1>1
<1>5. /\ Apart(Mark(Forget(fat, e.start), e.start, FINAL))
      /\ Apart(Cut(fat, e.start, new))
      /\ Apart(Extend(fat, e.start, new - 1))
      /\ Clean(ZeroOutFree(fat, disk, e, n))
      /\ ZeroOutFree(fat, disk, e, n)[RootLoc] = disk[RootLoc]
  <2>1. Apart(Forget(fat, e.start))
    BY <1>1, ForgetFiled
  <2>2. Apart(Mark(Forget(fat, e.start), e.start, FINAL))
    BY <2>1, MarkFiled, FiledFacts DEF Apart
  <2> QED BY <1>1, <2>2, CutFiled, ExtendFiled, ZeroOutClean
<1>6. Resized(e, l, n) \in
        {Keep("OK"), Keep("ENOSPC"),
         Done(Mark(Forget(fat, e.start), e.start, FINAL), disk),
         Done(fat, ZeroOutFree(fat, disk, e, n)),
         Done(Cut(fat, e.start, new), ZeroOutFree(fat, disk, e, n)),
         Done(Extend(fat, e.start, new - 1), disk)}
  BY DEF Resized
<1>7. Fine(Resized(e, l, n))
  <2> HIDE DEF Fine, Done, Keep, new
  <2> QED BY <1>1, <1>3, <1>4, <1>5, <1>6
<1> QED
  BY <1>7

\* What each call leaves behind.
StaysGood == Good(fat', disk', root')

LEMMA LeavesGood == ASSUME Leaves(fat', disk', root') PROVE StaysGood
BY DEF Leaves, Good, StaysGood

LEMMA FailGood == ASSUME MInv, NEW op, NEW status, Fail(op, status) PROVE StaysGood
BY RootEntryForm DEF Fail, StaysGood, Good

LEMMA SaveGood ==
  ASSUME MInv, NEW op, NEW f, Apart(f), NEW d, Clean(d), d[RootLoc] = disk[RootLoc],
         NEW e \in Entry, e.start # StartBlock, NEW l, Elsewhere(l), Save(op, f, d, e, l)
  PROVE  StaysGood
<1>1. RootNamed(e)
  BY DEF RootNamed
<1>2. fat' = f /\ disk' = PutEntry(d, e, l) /\ root' = RootEntry
  BY RootEntryForm, AfterFacts DEF Save
<1>3. Clean(PutEntry(d, e, l)) /\ PutEntry(d, e, l)[RootLoc] = disk[RootLoc]
  BY <1>1, PutClean
<1> QED
  BY <1>2, <1>3, RootEntryForm DEF Apart, StaysGood, Good

LEMMA TookGood ==
  ASSUME NEW op, NEW new, LeftClean(new), Took(op, new)
  PROVE  StaysGood
BY LeavesGood DEF Took, LeftClean

LEMMA CreateGood == ASSUME MInv, NEW p \in AnyPath, Create(p) PROVE StaysGood
<1>1. CASE Fail("create", "EEXIST")
  BY <1>1, FailGood
<1>2. ASSUME NEW i, Took("create", NewFile(FindParent(p), p, 0, "File", FALSE, i)) PROVE StaysGood
  <2>1. LeftClean(NewFile(FindParent(p), p, 0, "File", FALSE, i))
    BY FindParentFound, NewFileClean
  <2> QED BY <1>2, <2>1, TookGood
<1> QED
  BY <1>1, <1>2 DEF Create

LEMMA MkdirGood == ASSUME MInv, NEW p \in AnyPath, Mkdir(p) PROVE StaysGood
<1>1. PICK i :
          LET new    == NewFile(FindParent(p), p, 1, "Directory", FALSE, i)
              dotdot == [new.parent EXCEPT !.name = ".."]
          IN  IF new.status # "OK" THEN Took("mkdir", new)
              ELSE /\ Answer("mkdir", "OK")
                   /\ fat' = new.fat
                   /\ disk' = PutEntry(new.disk, dotdot, <<new.entry.start, 0>>)
                   /\ root' = RootAfter(new.root, dotdot)
  BY DEF Mkdir
<1> DEFINE new    == NewFile(FindParent(p), p, 1, "Directory", FALSE, i)
           dotdot == [new.parent EXCEPT !.name = ".."]
           at     == <<new.entry.start, 0>>
<1>2. LeftClean(new) /\ (new.status = "OK" => new.entry.start \in Filed)
  BY FindParentFound, NewFileClean
<1>3. Sound(new)
  BY FindParentFacts, NewFileSound DEF MInv
<1>4. CASE new.status # "OK"
  <2>1. Took("mkdir", new)
    BY <1>1, <1>4
  <2> HIDE DEF new
  <2> QED BY <1>2, <2>1, TookGood
<1>5. CASE new.status = "OK"
  <2>1. fat' = new.fat /\ disk' = PutEntry(new.disk, dotdot, at) /\ root' = RootAfter(new.root, dotdot)
    BY <1>1, <1>5
  <2> HIDE DEF new
  <2>2. /\ dotdot \in Entry /\ dotdot.start = new.parent.start /\ dotdot.name = ".."
        /\ dotdot.type = new.parent.type /\ dotdot.length = new.parent.length
    BY <1>3 DEF Sound, Entry
  <2>3. RootNamed(dotdot)
    BY <1>2, <1>5, <2>2 DEF RootNamed, LeftClean
  <2>4. Elsewhere(at)
    BY <1>2, <1>5, FiledFacts DEF Elsewhere, RootLoc, RootUp, Filed
  <2> HIDE DEF dotdot, at
  <2>5. Clean(disk') /\ disk'[RootLoc] = new.disk[RootLoc]
    BY <1>2, <2>1, <2>2, <2>3, <2>4, PutClean DEF LeftClean, Leaves
  <2>6. root' = new.root
    BY <1>2, <1>5, <2>1, <2>2, AfterFacts DEF LeftClean, Leaves, Clean
  <2> QED BY <1>2, <2>1, <2>5, <2>6, LeavesGood DEF LeftClean, Leaves
<1> QED
  BY <1>4, <1>5

\* The entry of a node that is removed leads nowhere.
LEMMA RemovedGood ==
  ASSUME MInv, NEW h, Named(h), NEW op, NEW e \in Entry, e.start = 0,
         Save(op, Forget(fat, h.entry.start), disk, e, h.loc)
  PROVE  StaysGood
<1>1. Apart(fat) /\ Clean(disk) /\ h.entry.start \in Filed /\ Elsewhere(h.loc)
  BY RootEntryForm DEF Named, Apart
<1>2. Apart(Forget(fat, h.entry.start))
  BY <1>1, ForgetFiled
<1> QED
  BY <1>1, <1>2, FiledFacts, SaveGood

LEMMA UnlinkGood == ASSUME MInv, NEW p \in AnyPath, Unlink(p) PROVE StaysGood
<1> DEFINE h == Find(p)
           gone == [h.entry EXCEPT !.start = 0]
<1>1. Found(h)
  BY PathFacts, FindFound
<1>2. ASSUME NEW s, Fail("unlink", s) PROVE StaysGood
  BY <1>2, FailGood
<1>3. CASE /\ h.status = "OK" /\ h.entry.type = "File"
           /\ Save("unlink", Forget(fat, h.entry.start), disk, gone, h.loc)
  <2> HIDE DEF h
  <2>1. Named(h)
    <3>1. ~AtRoot(h)
      BY <1>3, RootEntryForm DEF AtRoot, Hit, RootForm
    <3> QED BY <1>1, <1>3, <3>1 DEF Found, Failed
  <2>2. gone \in Entry /\ gone.start = 0
    BY <2>1 DEF Named, Entry
  <2> HIDE DEF gone
  <2> QED BY <1>3, <2>1, <2>2, RemovedGood
<1> QED
  BY <1>2, <1>3 DEF Unlink

LEMMA RmdirGood == ASSUME MInv, NEW p \in AnyPath, Rmdir(p) PROVE StaysGood
<1> DEFINE h == Find(p)
           gone == [h.entry EXCEPT !.start = 0, !.length = 0]
<1>1. p # <<>> => Named(h) \/ Failed(h)
  BY PathFacts, FindFound
<1>2. ASSUME NEW s, Fail("rmdir", s) PROVE StaysGood
  BY <1>2, FailGood
<1>3. CASE /\ p # <<>> /\ h.status = "OK"
           /\ Save("rmdir", Forget(fat, h.entry.start), disk, gone, h.loc)
  <2> HIDE DEF h
  <2>1. Named(h)
    BY <1>1, <1>3 DEF Failed
  <2>2. gone \in Entry /\ gone.start = 0
    BY <2>1 DEF Named, Entry
  <2> HIDE DEF gone
  <2> QED BY <1>3, <2>1, <2>2, RemovedGood
<1>4. CASE UNCHANGED <<fat, disk, root>>
  BY <1>4 DEF MInv, Good, StaysGood
<1> QED
  BY <1>2, <1>3, <1>4 DEF Rmdir

\* rename() writes and clears entries of nodes that a path names.
LEMMA MovedClean ==
  ASSUME NEW d, Clean(d), NEW src, Named(src), NEW l, Elsewhere(l), NEW name
  PROVE  /\ Clean(Moved(d, src, l, name)) /\ Moved(d, src, l, name)[RootLoc] = d[RootLoc]
<1> DEFINE e == [src.entry EXCEPT !.name = name]
<1>1. e.start = src.entry.start
  BY DEF Named, Entry
<1>2. RootNamed(e) /\ RootNamed(Zero)
  BY <1>1, FiledFacts DEF Named, RootNamed, Zero
<1>3. /\ src.loc[1] \notin Reserved /\ src.loc \notin {RootLoc, RootUp}
      /\ l[1] \notin Reserved /\ l \notin {RootLoc, RootUp}
  BY BlockFacts DEF Named, Elsewhere
<1>4. Moved(d, src, l, name) =
        [k \in Loc |-> IF k = src.loc THEN Zero ELSE IF k = l THEN e ELSE d[k]]
  BY DEF Moved
<1> HIDE DEF e
<1> QED
  BY <1>2, <1>3, <1>4, FiledFacts DEF Clean

LEMMA RenameGood ==
  ASSUME MInv, Careful, NEW p \in AnyPath, NEW q \in AnyPath, Rename(p, q)
  PROVE  StaysGood
<1> DEFINE src == Find(p)
           dst == Find(q)
           gone == [dst.entry EXCEPT !.start = 0]
<1>1. Found(dst) /\ (p # <<>> => Named(src) \/ Failed(src))
  BY PathFacts, FindFound
<1>2. ASSUME NEW s, Fail("rename", s) PROVE StaysGood
  BY <1>2, FailGood
<1>3. ASSUME p # <<>>, src.status = "OK", dst.status = "OK", dst.entry.type = "File",
             fat' = Forget(fat, dst.entry.start),
             disk' = Moved(PutEntry(disk, gone, dst.loc), src, dst.loc, LastName(q)),
             root' = RootAfter(RootEntry, gone)
      PROVE  StaysGood
  <2> HIDE DEF src, dst
  <2>1. Named(src) /\ Named(dst)
    <3>1. ~AtRoot(dst)
      BY <1>3, RootEntryForm DEF AtRoot, Hit, RootForm
    <3> QED BY <1>1, <1>3, <3>1 DEF Found, Failed
  <2>2. gone \in Entry /\ gone.start = 0
    BY <2>1 DEF Named, Entry
  <2> HIDE DEF gone
  <2>3. Clean(PutEntry(disk, gone, dst.loc))
    BY <2>1, <2>2, RootEntryForm, PutClean, FiledFacts DEF Named, RootNamed
  <2>4. Clean(disk') /\ disk'[RootLoc] = disk[RootLoc]
    BY <1>3, <2>1, <2>2, <2>3, MovedClean, RootEntryForm, PutClean, FiledFacts
       DEF Named, RootNamed
  <2>5. Apart(fat')
    BY <1>3, <2>1, RootEntryForm, ForgetFiled DEF Named, Apart
  <2>6. root' = disk[RootLoc]
    BY <1>3, <2>2, RootEntryForm, AfterFacts, FiledFacts
  <2> QED BY <2>4, <2>5, <2>6, LeavesGood DEF Leaves, Apart
<1>4. ASSUME NEW i, p # <<>>, src.status = "OK",
             LET new == NewFile(FindParent(q), q, 0, src.entry.type, TRUE, i)
             IN  IF new.status # "OK" THEN Took("rename", new)
                 ELSE /\ Answer("rename", "OK")
                      /\ fat' = new.fat
                      /\ disk' = Moved(new.disk, src, new.loc, LastName(q))
                      /\ root' = new.root
      PROVE  StaysGood
  <2> DEFINE new == NewFile(FindParent(q), q, 0, src.entry.type, TRUE, i)
  <2>1. Named(src)
    <3> HIDE DEF src
    <3> QED BY <1>1, <1>4 DEF Failed
  <2>2. LeftClean(new)
    <3>1. src.entry.type \in {"File", "Directory"}
      <4> HIDE DEF src
      <4> QED BY <2>1 DEF Named, Entry
    <3> HIDE DEF src
    <3> QED BY <3>1, FindParentFound, NewFileClean
  <2>3. CASE new.status # "OK"
    <3>1. Took("rename", new)
      BY <1>4, <2>3
    <3> HIDE DEF new
    <3> QED BY <2>2, <3>1, TookGood
  <2>4. CASE new.status = "OK"
    <3>1. /\ fat' = new.fat
          /\ disk' = Moved(new.disk, src, new.loc, LastName(q))
          /\ root' = new.root
      BY <1>4, <2>4
    <3> HIDE DEF new, src
    <3>2. Clean(disk') /\ disk'[RootLoc] = new.disk[RootLoc]
      BY <2>1, <2>2, <2>4, <3>1, MovedClean DEF LeftClean, Leaves
    <3> QED BY <2>2, <3>1, <3>2, LeavesGood DEF LeftClean, Leaves
  <2> QED BY <2>3, <2>4
<1> QED
  BY <1>2, <1>3, <1>4 DEF Rename

LEMMA TruncateGood ==
  ASSUME MInv, Careful, NEW p \in AnyPath, NEW n \in Sizes, Truncate(p, n)
  PROVE  StaysGood
<1> DEFINE h == Find(p)
           r == Resized(h.entry, h.loc, n)
<1>1. CASE Fail("truncate", h.status)
  BY <1>1, FailGood
<1>2. ASSUME h.status = "OK", p # <<>>, fat' = r.fat, disk' = r.disk,
             root' = IF r.entry = h.entry THEN RootEntry ELSE RootAfter(RootEntry, r.entry)
      PROVE  StaysGood
  <2>1. Named(h) /\ n \in Nat
    <3>1. Named(h) \/ Failed(h)
      BY <1>2, PathFacts, FindFound
    <3> HIDE DEF h
    <3> QED BY <1>2, <3>1, CallsAssumption DEF Failed
  <2>2. /\ Apart(r.fat) /\ Clean(r.disk) /\ r.disk[RootLoc] = disk[RootLoc]
        /\ r.entry \in Entry /\ r.entry.start # StartBlock
    <3> HIDE DEF h
    <3> QED BY <2>1, ResizedClean, FiledFacts DEF Named
  <2>3. root' = disk[RootLoc]
    <3> HIDE DEF r
    <3> QED BY <1>2, <2>2, RootEntryForm, AfterFacts
  <2> HIDE DEF r
  <2> QED BY <1>2, <2>2, <2>3, LeavesGood DEF Leaves, Apart
<1> QED
  BY <1>1, <1>2 DEF Truncate

\* write() puts its data into the blocks of the file, as they are after the
\* file was resized.
LEMMA WriteGood ==
  ASSUME MInv, Careful, NEW p \in AnyPath, NEW x \in Extents, NEW c \in Data,
         Write(p, x[1], x[2], c)
  PROVE  StaysGood
<1> DEFINE h    == Find(p)
           len  == IF x[1] + x[2] > h.entry.length THEN x[1] + x[2] ELSE h.entry.length
           r    == Resized(h.entry, h.loc, len)
           dest == Cells(r.fat, h.entry.start, x[1], x[1] + x[2])
           data == [l \in Loc |-> IF l \in dest THEN c ELSE r.disk[l]]
<1>1. ASSUME NEW s, Fail("write", s) PROVE StaysGood
  BY <1>1, FailGood
<1>2. ASSUME h.status = "OK", p # <<>>, Save("write", r.fat, data, r.entry, h.loc)
      PROVE  StaysGood
  <2>1. Named(h)
    <3>1. Named(h) \/ Failed(h)
      BY <1>2, PathFacts, FindFound
    <3> HIDE DEF h
    <3> QED BY <1>2, <3>1 DEF Failed
  <2>2. len \in Nat
    <3>1. h.entry.length \in Nat /\ x[1] \in Nat /\ x[2] \in Nat
      <4> HIDE DEF h
      <4> QED BY <2>1, CallsAssumption DEF Named, Entry
    <3> HIDE DEF h
    <3> QED BY <3>1
  <2>3. /\ Apart(r.fat) /\ Clean(r.disk) /\ r.disk[RootLoc] = disk[RootLoc]
        /\ r.entry \in Entry /\ r.entry.start # StartBlock
        /\ h.entry.start \in Filed /\ Elsewhere(h.loc)
    <3> HIDE DEF h, len
    <3> QED BY <2>1, <2>2, ResizedClean, FiledFacts DEF Named
  <2>4. ASSUME NEW l \in dest PROVE l[1] \in Filed
    <3> HIDE DEF r, h
    <3> QED BY <2>3, <2>4, CellBlock, FiledChain
  <2>5. Clean(data) /\ data[RootLoc] = disk[RootLoc]
    <3>1. RootLoc \notin dest /\ RootUp \notin dest /\ \A l \in dest : l[1] \notin Reserved
      <4> HIDE DEF dest
      <4> QED BY <2>4, FiledFacts, BlockFacts
    <3> HIDE DEF r, dest, h
    <3> QED BY <2>3, <3>1, FiledFacts DEF Clean, RootNamed
  <2> HIDE DEF r, data, h
  <2> QED BY <1>2, <2>3, <2>5, SaveGood
<1> QED
  BY <1>1, <1>2 DEF Write

LEMMA TouchGood == ASSUME MInv, NEW p \in AnyPath, Touch(p) PROVE StaysGood
<1> DEFINE h == Find(p)
<1>1. ASSUME NEW s, Fail("touch", s) PROVE StaysGood
  BY <1>1, FailGood
<1>2. CASE h.status = "OK" /\ Save("touch", fat, disk, h.entry, h.loc)
  <2>0. Found(h)
    BY PathFacts, FindFound
  <2> HIDE DEF h
  <2>1. CASE AtRoot(h)
    <3>1. /\ fat' = fat /\ disk' = PutEntry(disk, RootEntry, RootLoc)
          /\ root' = RootAfter(RootEntry, RootEntry)
      BY <1>2, <2>1 DEF Save, AtRoot, Hit
    <3>2. Clean(disk') /\ disk'[RootLoc] = RootEntry
      BY <3>1, RootEntryForm, PutRootClean
    <3>3. root' = RootEntry
      BY <3>1, RootEntryForm, AfterFacts DEF RootForm
    <3> QED BY <3>1, <3>2, <3>3, RootEntryForm, LeavesGood DEF Leaves
  <2>2. CASE Named(h)
    BY <1>2, <2>2, RootEntryForm, FiledFacts, SaveGood DEF Named, Apart
  <2> QED BY <1>2, <2>0, <2>1, <2>2 DEF Found, Failed
<1> QED
  BY <1>1, <1>2 DEF Touch

-----------------------------------------------------------------------------
(* make() and the theorems. *)

\* make() writes a table and a root directory of the right form.
LEMMA FreshFacts ==
  Table(FreshTable) /\ FreshDisk \in [Loc -> Cell] /\ RootDir \in Entry
<1>1. RootDir \in Entry
  BY BlockFacts DEF RootDir, Entry
<1>2. FreshDisk \in [Loc -> Cell]
  BY ClearedAssumption, DecodeFacts DEF FreshDisk, Cell
<1>3. Table(FreshTable)
  <2>1. \A b \in Block : FreshTable[b] \in {UNUSABLE, FINAL, 0} \/ b \in Overwritten
    BY DEF FreshTable
  <2>2. \A b \in Overwritten : FreshTable[b] = RootWord(b - StartBlock - 1)
    BY BlockFacts DEF FreshTable
  <2>3. \A b \in Reserved : FreshTable[b] = UNUSABLE
    BY BlockFacts DEF FreshTable
  <2>4. FreshTable \in [Block -> Int]
    <3>1. \A b \in Block : FreshTable[b] \in Int
      BY <2>1, <2>2, RootWordFacts, LinkFacts
    <3> QED BY <3>1 DEF FreshTable
  <2> QED BY <2>1, <2>2, <2>3, <2>4, BlockFacts, LinkFacts DEF Table
<1> QED
  BY <1>1, <1>2, <1>3

\* The invariant holds when make() has returned and when the root's entry has
\* been stored ...
THEOREM InitInvariant == (Fresh => IInv) /\ (Init => IInv)
BY FreshFacts, PutEntryFacts, IInvTable DEF Fresh, Init

\* ... and every call preserves it, whether it succeeds or not.
THEOREM StepInvariant == Careful /\ IInv /\ [Make \/ Next]_vars => IInv'
<1> SUFFICES ASSUME Careful, IInv, [Make \/ Next]_vars PROVE Kept
  BY KeptInvariant
<1>1. CASE Make
  BY <1>1, FreshFacts DEF Make, Kept
<1>2. CASE Mount
  BY <1>2, IInvTable DEF Mount, Kept
<1>3. ASSUME NEW p \in AnyPath,
             Create(p) \/ Mkdir(p) \/ Unlink(p) \/ Rmdir(p) \/ Touch(p)
      PROVE  Kept
  BY <1>3, CreateKept, MkdirKept, UnlinkKept, RmdirKept, TouchKept
<1>4. ASSUME NEW p \in AnyPath, NEW q \in AnyPath, Rename(p, q) PROVE Kept
  BY <1>4, RenameKept
<1>5. ASSUME NEW p \in AnyPath, NEW n \in Sizes, Truncate(p, n) PROVE Kept
  BY <1>5, TruncateKept
<1>6. ASSUME NEW p \in AnyPath, NEW x \in Extents, NEW c \in Data, Write(p, x[1], x[2], c)
      PROVE  Kept
  BY <1>6, WriteKept
<1>7. CASE UNCHANGED vars
  BY <1>7, IInvTable DEF vars, Kept
<1> QED
  BY <1>1, <1>2, <1>3, <1>4, <1>5, <1>6, <1>7 DEF Next

\* Types: after make() and any sequence of careful calls, the first of which may
\* find the root's block as clear() left it, every link that can be come across
\* and every start block in a directory is that of a block files may use, so
\* that find(), writeEntry() and write() stay inside the partition.
THEOREM TypeCorrect == Careful => (FreshSpec => []TypeOK) /\ (Spec => []TypeOK)
<1> SUFFICES ASSUME Careful PROVE (FreshSpec => []TypeOK) /\ (Spec => []TypeOK)
  OBVIOUS
<1>1. IInv => TypeOK
  BY DEF IInv
<1>2. IInv /\ [Make \/ Next]_vars => IInv'
  BY StepInvariant
<1>3. FreshSpec => []TypeOK
  BY <1>1, <1>2, InitInvariant, PTL DEF FreshSpec
<1>4. Spec => []TypeOK
  BY <1>1, <1>2, InitInvariant, PTL DEF Spec
<1> QED
  BY <1>3, <1>4

\* The allocator keeps off the superblock and the table, and off the blocks whose
\* links make() has written over: no careful sequence of calls ever hands out,
\* links to or frees one of them.
THEOREM ReservedStayReserved ==
  Careful => (FreshSpec => []TableReserved) /\ (Spec => []TableReserved)
<1> SUFFICES ASSUME Careful
             PROVE  (FreshSpec => []TableReserved) /\ (Spec => []TableReserved)
  OBVIOUS
<1>1. IInv => TableReserved
  BY DEF IInv
<1>2. IInv /\ [Make \/ Next]_vars => IInv'
  BY StepInvariant
<1>3. FreshSpec => []TableReserved
  BY <1>1, <1>2, InitInvariant, PTL DEF FreshSpec
<1>4. Spec => []TableReserved
  BY <1>1, <1>2, InitInvariant, PTL DEF Spec
<1> QED
  BY <1>3, <1>4

\* The root's entry, once stored, is in its place: on the disk of Init.
StoredDisk == PutEntry(FreshDisk, RootDir, RootLoc)

LEMMA StoredCells ==
  /\ StoredDisk[RootLoc] = RootDir /\ StoredDisk[RootUp] = [RootDir EXCEPT !.name = ".."]
  /\ \A l \in Loc : l # RootLoc /\ l # RootUp => StoredDisk[l] = FreshDisk[l]
BY FiledFacts DEF StoredDisk, PutEntry, RootUp

LEMMA FreshGood == Good(FreshTable, StoredDisk, RootDir)
<1>1. /\ RootForm(RootDir) /\ RootNamed(RootDir)
      /\ RootNamed([RootDir EXCEPT !.name = ".."])
  BY BlockFacts DEF RootDir, RootForm, RootNamed, Entry
<1>2. RootNamed(Zero) /\ RootNamed(Cleared)
  <2>1. RootNamed(Zero)
    BY FiledFacts DEF RootNamed, Zero
  <2>2. Cleared \in Data => RootNamed(Cleared)
    BY DEF RootNamed
  <2> QED BY <2>1, <2>2, ClearedAssumption
<1>3. StartBlock \notin Reserved
  BY BlockFacts
<1>4. Clean(StoredDisk)
  <2>1. \A l \in Loc : l[1] \in Reserved => l # RootLoc /\ l # RootUp
    BY <1>3, FiledFacts
  <2>2. \A l \in Loc : FreshDisk[l] \in {Zero, Cleared}
    BY DEF FreshDisk
  <2>3. \A l \in Loc : l[1] \in Reserved => FreshDisk[l] = Zero
    BY DEF FreshDisk
  <2> QED BY <1>1, <1>2, <2>1, <2>2, <2>3, StoredCells DEF Clean
<1>5. Apart(FreshTable)
  <2>1. FreshTable[StartBlock] = FINAL
    BY <1>3, BlockFacts DEF FreshTable
  <2>2. \A b \in Reserved \cup Usable : FreshTable[b] \in {UNUSABLE, FINAL, 0}
    BY BlockFacts DEF FreshTable
  <2> QED BY <2>1, <2>2, FreshFacts, FiledFacts DEF Apart, Based, Unlinked
<1> QED
  BY <1>1, <1>4, <1>5, StoredCells DEF Good, Apart

\* That state is reached from the one that make() leaves, by storing the root.
THEOREM StoringRoot == Fresh /\ Touch(<<>>) => Init'
<1> SUFFICES ASSUME Fresh, Touch(<<>>) PROVE Init'
  OBVIOUS
<1>1. root = RootDir /\ RootDir # NoRoot /\ fat = FreshTable /\ disk = FreshDisk
  BY FiledFacts DEF Fresh, RootDir, NoRoot
<1>2. Find(<<>>) = Hit(RootLoc, RootDir)
  BY <1>1 DEF Find, RootEntry
<1>3. Save("touch", fat, disk, RootDir, RootLoc)
  BY <1>2 DEF Touch, Hit
<1>4. RootAfter(RootDir, RootDir) = RootDir
  BY DEF RootAfter, RootDir
<1> QED
  BY <1>1, <1>3, <1>4 DEF Save, Answer, Init, RootEntry

-----------------------------------------------------------------------------
(* The superblock and the table are never written over, whatever the root's   *)
(* block held when make() returned: what a directory's entries are written to *)
(* are the blocks of its chain, and that begins at a usable block.            *)

\* An entry that readDir() accepts, unless its chain is too short.
Readable(e) == e.type = "Directory" /\ e.length > 0

\* A directory that can be read begins at a block that files may use: rmdir()
\* clears length and start together, and rename() moves entries as they are.
Housed(c) == c \notin Data /\ Readable(c) => c.start \in Usable

HousedCells(d) ==
    /\ d \in [Loc -> Cell] /\ \A l \in Loc : Housed(d[l])
    /\ \A l \in Loc : l[1] \in Reserved => d[l] = Zero

\* The inductive invariant of MetadataUntouched.
HInv == IInv /\ HousedCells(disk) /\ Housed(root)

HousedKept == HousedCells(disk') /\ Housed(root')

\* Entries that begin nowhere, or at a usable block, are no danger.
LEMMA HousedFacts ==
  /\ Housed(Zero) /\ Housed(NoRoot)
  /\ \A e \in Entry : e.start \in Usable => Housed(e)
  /\ \A e \in Entry : Housed(e) /\ Readable(e) => e.start \in Usable
  /\ \A e \in Entry : e.type = "File" \/ e.length = 0 => Housed(e)
<1>1. \A e \in Entry : e \notin Data
  BY DataAssumption
<1> QED
  BY <1>1 DEF Housed, Readable, Zero, NoRoot

LEMMA HousedRoot == ASSUME HInv PROVE RootEntry \in Entry /\ Housed(RootEntry)
<1>1. RootLoc \in Loc
  BY BlockFacts
<1>2. Housed(Decode(disk[RootLoc]))
  BY <1>1, HousedFacts DEF HInv, HousedCells, Decode
<1> QED
  BY <1>2, RootEntryFacts DEF HInv, RootEntry

LEMMA ReadableFacts ==
  ASSUME NEW f, NEW e \in Entry, ReadDirStatus(f, e) = "OK"
  PROVE  e.type # "File" /\ Readable(e)
<1>1. ~(e.length = 0 \/ e.type = "File")
  BY DEF ReadDirStatus
<1>2. e.length \in Nat /\ e.type \in {"File", "Directory"}
  BY DEF Entry
<1> QED
  BY <1>1, <1>2 DEF Readable

\* The slots of a directory lie in the blocks of its chain.
LEMMA SlotBlock ==
  ASSUME NEW f, Table(f), NEW dir \in Entry, dir.start \in Usable, NEW l \in Slots(f, dir)
  PROVE  l[1] \in Usable
BY CellBlock, ChainFacts DEF Slots, Start

\* Where a successful lookup leads: from a directory in a usable block to a cell
\* of one.
LEMMA LookupHoused ==
  ASSUME HInv, NEW h, Typed(h), h.status = "OK" => Housed(h.entry), NEW name,
         Lookup(h, name).status = "OK"
  PROVE  /\ h.status = "OK" /\ h.entry.start \in Usable
         /\ Housed(Lookup(h, name).entry) /\ Lookup(h, name).loc[1] \in Usable
<1> DEFINE dir == h.entry
           matches == {l \in Slots(fat, dir) :
                        /\ disk[l] \notin Data
                        /\ disk[l].name = name
                        /\ ~IsFree(fat, disk[l])}
           first == FirstSlot(fat, dir, matches)
<1>1. Table(fat) /\ dir \in Entry
  BY IInvTable DEF HInv, Typed
<1>2. \A s : Miss(s).status = s
  BY DEF Miss
<1>3. h.status = "OK" /\ dir.type # "File" /\ ReadDirStatus(fat, dir) = "OK"
  BY <1>2 DEF Lookup, ReadDirStatus
<1>4. Lookup(h, name) = IF matches = {} THEN Miss("ENOENT") ELSE Hit(first, disk[first])
  BY <1>3 DEF Lookup
<1>5. matches # {} /\ matches \subseteq Slots(fat, dir)
  BY <1>2, <1>4
<1>6. dir.start \in Usable
  <2>1. Housed(dir)
    BY <1>3
  <2> HIDE DEF dir
  <2> QED BY <1>1, <1>3, <2>1, ReadableFacts, HousedFacts
<1> HIDE DEF dir, matches
<1>7. first \in Slots(fat, dir) /\ first \in Loc
  BY <1>1, <1>5, FirstSlotFacts
<1>8. first[1] \in Usable
  BY <1>1, <1>6, <1>7, SlotBlock
<1> HIDE DEF first
<1> QED
  BY <1>3, <1>4, <1>5, <1>6, <1>7, <1>8 DEF Hit, HInv, HousedCells, dir

\* A path leads to a cell of a usable block, and so does the root on the way, or
\* nothing but "/" is found.
LEMMA FoundHoused ==
  ASSUME HInv, NEW p \in Seq(Name), Find(p).status = "OK"
  PROVE  /\ Find(p).entry \in Entry /\ Find(p).loc[1] \in Usable /\ Housed(Find(p).entry)
         /\ p # <<>> => RootEntry.start \in Usable
         /\ p = <<>> => Find(p).entry = RootEntry
<1>1. Find(p).entry \in Entry
  BY FindFacts DEF HInv, Typed
<1>2. CASE p = <<>>
  <2>1. Find(p) = Hit(RootLoc, RootEntry) /\ RootLoc[1] \in Usable
    BY <1>2, BlockFacts DEF Find, RootLoc
  <2> QED BY <1>2, <2>1, HousedRoot DEF Hit
<1>3. CASE p # <<>>
  <2> DEFINE q == Parent(p)
  <2>1. q \in Seq(Name)
    BY DEF Parent
  <2>2. Find(p) = Lookup(Resolve(q), LastName(p))
    BY <1>3 DEF Find
  <2> HIDE DEF q
  <2>3. PICK g : Reached(g, q)
    BY <2>1, ResolveReached
  <2>4. Len(q) \in Nat /\ g[Len(q)] = Resolve(q) /\ g[0] = Hit(RootLoc, RootEntry)
    BY <2>1, <2>3 DEF Reached
  \* What each of the nodes on the way is, if it is found.
  <2> DEFINE Fine(n) == /\ Typed(g[n])
                        /\ g[n].status = "OK" => Housed(g[n].entry)
                        /\ n > 0 /\ g[n].status = "OK" => RootEntry.start \in Usable
             Lost == {n \in 0..Len(q) : ~Fine(n)}
  <2>5. Fine(0)
    BY <2>4, HousedRoot, RootEntryFacts DEF HInv, Hit
  <2>6. ASSUME NEW n \in 1..Len(q), Fine(n - 1) PROVE Fine(n)
    <3>1. g[n] = Lookup(g[n-1], q[n])
      BY <2>3 DEF Reached
    <3>2. Typed(g[n])
      BY <2>6, <3>1, LookupFacts DEF HInv
    <3>3. g[n].status = "OK" =>
             Housed(g[n].entry) /\ g[n-1].status = "OK" /\ g[n-1].entry.start \in Usable
      BY <2>6, <3>1, LookupHoused
    <3>4. CASE n = 1
      BY <2>4, <3>2, <3>3, <3>4 DEF Hit
    <3>5. CASE n # 1
      <4>1. n - 1 > 0
        BY <3>5
      <4> QED BY <2>6, <3>2, <3>3, <4>1
    <3> QED BY <3>4, <3>5
  <2> HIDE DEF Fine
  <2>7. Lost = {}
    <3> SUFFICES ASSUME Lost # {} PROVE FALSE
      OBVIOUS
    <3>1. PICK n \in Lost : \A m \in Lost : n <= m
      <4>1. Lost \subseteq Nat
        BY DEF Lost
      <4> HIDE DEF Lost
      <4> QED BY <4>1, NatMin
    <3>2. n # 0
      BY <2>5, <3>1
    <3>3. n \in 1..Len(q) /\ n - 1 \in 0..Len(q) /\ ~(n <= n - 1)
      BY <2>4, <3>1, <3>2
    <3> QED BY <2>6, <3>1, <3>3
  <2>8. Fine(Len(q))
    BY <2>4, <2>7
  <2>9. Typed(Resolve(q)) /\ (Resolve(q).status = "OK" => Housed(Resolve(q).entry))
    BY <2>4, <2>8 DEF Fine
  <2>10. /\ Resolve(q).status = "OK" /\ Resolve(q).entry.start \in Usable
         /\ Housed(Find(p).entry) /\ Find(p).loc[1] \in Usable
    BY <2>2, <2>9, LookupHoused
  <2>11. RootEntry.start \in Usable
    <3>1. CASE Len(q) = 0
      BY <2>4, <2>10, <3>1 DEF Hit
    <3>2. CASE Len(q) # 0
      <4>1. Len(q) > 0
        BY <2>4, <3>2
      <4> QED BY <2>4, <2>8, <2>10, <4>1 DEF Fine
    <3> QED BY <3>1, <3>2
  <2> QED BY <1>1, <1>3, <2>10, <2>11
<1> QED
  BY <1>2, <1>3

\* The parent that newFile() is given, if it can be read.
LEMMA ParentHoused ==
  ASSUME HInv, NEW p \in AnyPath, NEW f, ReadDirStatus(f, FindParent(p).entry) = "OK"
  PROVE  /\ FindParent(p).entry.start \in Usable /\ FindParent(p).loc[1] \in Usable
         /\ RootEntry.start \in Usable
<1> DEFINE q == Parent(p)
           h == FindParent(p)
<1>1. q \in Seq(Name) /\ h.entry \in Entry
  BY PathFacts, FindParentFacts DEF HInv, Typed
<1>2. h.entry.type # "File" /\ Readable(h.entry)
  <2>1. ReadDirStatus(f, h.entry) = "OK"
    OBVIOUS
  <2> HIDE DEF h
  <2> QED BY <1>1, <2>1, ReadableFacts
<1>3. h = Find(q) /\ Find(q).status = "OK"
  <2>1. \A s : Miss(s).entry = Zero /\ Miss(s).status = s
    BY DEF Miss
  <2>2. Find(q).status # "OK" => Find(q).entry = Zero
    <3>1. \A g, name : Lookup(g, name).status # "OK" => Lookup(g, name).entry = Zero
      BY <2>1 DEF Lookup, Hit
    <3> QED BY <3>1 DEF Find, Hit
  <2>3. Zero.type = "File"
    BY DEF Zero
  <2> QED BY <1>2, <2>1, <2>2, <2>3 DEF FindParent, NotFile
<1>4. Housed(h.entry) /\ h.loc[1] \in Usable /\ (q # <<>> => RootEntry.start \in Usable)
      /\ (q = <<>> => h.entry = RootEntry)
  BY <1>1, <1>3, FoundHoused
<1>5. h.entry.start \in Usable
  <2> HIDE DEF h
  <2> QED BY <1>1, <1>2, <1>4, HousedFacts
<1> QED
  BY <1>4, <1>5

\* Entries are written to usable blocks; the root's copy follows the length of
\* an entry only if that is the root's own, or there is a root to speak of.
LEMMA PutHoused ==
  ASSUME NEW d, HousedCells(d), NEW e \in Entry, Housed(e), NEW l, l[1] \in Usable
  PROVE  HousedCells(PutEntry(d, e, l))
<1> DEFINE up == [e EXCEPT !.name = ".."]
<1>1. PutEntry(d, e, l) \in [Loc -> Cell]
  BY PutEntryFacts, DecodeFacts DEF HousedCells
<1>2. up \in Entry /\ up.type = e.type /\ up.length = e.length /\ up.start = e.start
  BY DEF Entry
<1>3. Housed(up)
  <2> HIDE DEF up
  <2> QED BY <1>2, HousedFacts, DataAssumption DEF Housed, Readable
<1>4. \A k \in Loc : \/ PutEntry(d, e, l)[k] = d[k]
                     \/ PutEntry(d, e, l)[k] \in {e, up} /\ k[1] \in Usable
  BY BlockFacts DEF PutEntry
<1> HIDE DEF up
<1> QED
  BY <1>1, <1>3, <1>4, BlockFacts DEF HousedCells

LEMMA AfterHoused ==
  ASSUME NEW r \in Entry, Housed(r), NEW e \in Entry,
         r.start \in Usable \/ e.start # StartBlock \/ e = r
  PROVE  /\ RootAfter(r, e) \in Entry /\ Housed(RootAfter(r, e))
         /\ RootAfter(r, e).start = r.start
<1> DEFINE s == [r EXCEPT !.length = e.length]
<1>1. s \in Entry /\ s.start = r.start /\ (e = r => s = r)
  BY DEF Entry
<1>2. \/ RootAfter(r, e) = s /\ e.start = StartBlock
      \/ RootAfter(r, e) = r
  BY DEF RootAfter
<1> HIDE DEF s
<1> QED
  BY <1>1, <1>2, HousedFacts

LEMMA ZeroOutHoused ==
  ASSUME NEW f, NEW d, HousedCells(d), NEW e, NEW n
  PROVE  HousedCells(ZeroOutFree(f, d, e, n))
<1>1. ZeroOutFree(f, d, e, n) \in [Loc -> Cell]
  BY ZeroOutFreeCells DEF HousedCells
<1>2. \A k \in Loc : ZeroOutFree(f, d, e, n)[k] \in {d[k], Zero}
  <2>1. d \in [Loc -> Cell]
    BY DEF HousedCells
  <2> QED BY <2>1 DEF ZeroOutFree
<1> QED
  BY <1>1, <1>2, HousedFacts DEF HousedCells

LEMMA MovedHoused ==
  ASSUME NEW d, HousedCells(d), NEW src, Typed(src), Housed(src.entry),
         NEW l, l[1] \in Usable, NEW name \in Name \cup {"", ".", ".."}
  PROVE  HousedCells(Moved(d, src, l, name))
<1> DEFINE e == [src.entry EXCEPT !.name = name]
<1>1. Moved(d, src, l, name) \in [Loc -> Cell]
  BY MovedCells DEF HousedCells
<1>2. Housed(e)
  <2>1. /\ e \in Entry /\ src.entry \in Entry /\ e.type = src.entry.type
        /\ e.length = src.entry.length /\ e.start = src.entry.start
    BY DEF Typed, Entry
  <2> HIDE DEF e
  <2> QED BY <2>1, HousedFacts, DataAssumption DEF Housed, Readable
<1>3. \A k \in Loc : \/ Moved(d, src, l, name)[k] \in {d[k], Zero}
                     \/ Moved(d, src, l, name)[k] = e /\ k[1] \in Usable
  BY DEF Moved
<1> HIDE DEF e
<1> QED
  BY <1>1, <1>2, <1>3, HousedFacts, BlockFacts DEF HousedCells

\* What newFile() leaves behind.
LeftHoused(new) ==
    /\ HousedCells(new.disk) /\ new.root \in Entry /\ Housed(new.root)
    /\ new.status = "OK" =>
          new.root.start \in Usable /\ new.loc[1] \in Usable /\ new.parent.start \in Usable

LEMMA UnmadeHoused ==
  ASSUME HInv, NEW f, NEW s, s # "OK"
  PROVE  LeftHoused(Unmade(s, f))
BY HousedRoot DEF HInv, LeftHoused, Unmade, Made

LEMMA PlacedHoused ==
  ASSUME HInv, NEW f, NEW e \in Entry, Housed(e), NEW l, l[1] \in Usable,
         NEW h, Typed(h), h.entry.start \in Usable, h.loc[1] \in Usable,
         RootEntry.start \in Usable, NEW grow \in BOOLEAN
  PROVE  /\ LeftHoused(Placed(f, e, l, h, grow)) /\ Placed(f, e, l, h, grow).entry = e
         /\ Placed(f, e, l, h, grow).status = "OK"
<1> DEFINE longer == [h.entry EXCEPT !.length = @ + 1]
           dir == IF grow THEN longer ELSE h.entry
           d   == PutEntry(disk, e, l)
           r   == RootAfter(RootEntry, e)
<1>1. dir \in Entry /\ dir.start \in Usable
  <2>1. h.entry \in Entry /\ h.entry.length \in Nat
    BY DEF Typed, Entry
  <2>2. h.entry.length + 1 \in Nat
    BY <2>1
  <2>3. longer \in Entry /\ longer.start = h.entry.start
    BY <2>1, <2>2 DEF Entry
  <2> HIDE DEF longer
  <2> QED BY <2>1, <2>3
<1>2. HousedCells(d) /\ r \in Entry /\ Housed(r) /\ r.start \in Usable
  BY HousedRoot, PutHoused, AfterHoused DEF HInv
<1>3. Placed(f, e, l, h, grow) =
        IF grow THEN Made("OK", f, PutEntry(d, dir, h.loc), RootAfter(r, dir), e, l, dir)
        ELSE Made("OK", f, d, r, e, l, dir)
  BY DEF Placed
<1> HIDE DEF d, r, dir
<1>4. /\ HousedCells(PutEntry(d, dir, h.loc)) /\ RootAfter(r, dir) \in Entry
      /\ Housed(RootAfter(r, dir)) /\ RootAfter(r, dir).start \in Usable
  BY <1>1, <1>2, HousedFacts, PutHoused, AfterHoused
<1> QED
  BY <1>1, <1>2, <1>3, <1>4 DEF LeftHoused, Made

\* newFile() writes to a slot of the directory, behind its last one, or to the
\* block that it has taken, all of which are in usable blocks.
LEMMA NewFileHoused ==
  ASSUME HInv, NEW p \in AnyPath, NEW length \in Nat, NEW type \in {"File", "Directory"},
         NEW noalloc \in BOOLEAN, noalloc => length = 0, NEW firstIndex,
         NEW new, new = NewFile(FindParent(p), p, length, type, noalloc, firstIndex)
  PROVE  /\ LeftHoused(new)
         /\ ~noalloc /\ new.status = "OK" => new.entry.start \in Usable
<1> DEFINE h     == FindParent(p)
           dir   == h.entry
           taken == FindFreeBlock(fat)
           f1    == IF noalloc THEN fat ELSE Mark(fat, taken, FINAL)
           need  == BlocksFor(length)
           entry(b) == [name   |-> IF noalloc THEN "" ELSE LastName(p), type |-> type,
                        length |-> length, start  |-> IF noalloc THEN 0 ELSE b]
           reusable == {l \in Slots(f1, dir) :
                        /\ Index(f1, dir.start, l) >= firstIndex
                        /\ IsFree(f1, Decode(disk[l]))}
           blocks == BlocksFor(dir.length)
           last   == Nth(f1, dir.start, blocks - 1)
           rem    == dir.length - EntriesPerBlock * (blocks - 1)
           f2     == Mark(f1, taken, last)
           start  == FindFreeBlock(f2)
           f3     == IF noalloc THEN f2 ELSE Mark(f2, start, FINAL)
           full   == CASE dir.length < EntriesPerBlock -> ~noalloc /\ ~HasFree(f1, need)
                       [] dir.length >= EntriesPerBlock ->
                             /\ rem = EntriesPerBlock
                             /\ ~HasFree(f1, IF noalloc THEN 1 ELSE 2 + need)
           found  == noalloc \/ taken # UNUSABLE
           Fine(m) == /\ LeftHoused(m)
                      /\ ~noalloc /\ m.status = "OK" => m.entry.start \in Usable
<1>1. Table(fat) /\ Typed(h) /\ dir \in Entry
  BY IInvTable, FindParentFacts DEF HInv, Typed
<1>0. dir.length \in Nat /\ EntriesPerBlock \in Nat
  <2> HIDE DEF dir
  <2> QED BY <1>1, GeometryAssumption DEF Entry
<1>2. /\ FreeBlocks(fat) \subseteq Usable /\ FINAL \in Link /\ 0 # FINAL
      /\ taken # UNUSABLE => taken \in Usable
  BY <1>1, FreeBlockFacts DEF Link, FINAL
<1>3. found => Table(f1)
  BY <1>1, <1>2, MarkTable
<1>4. ASSUME NEW b, noalloc \/ b \in Usable
      PROVE  entry(b) \in Entry /\ Housed(entry(b)) /\ (~noalloc => entry(b).start \in Usable)
  <2>1. LastName(p) \in Name \cup {"", ".", ".."}
    BY PathFacts
  <2>2. entry(b) \in Entry /\ (noalloc => entry(b).length = 0)
        /\ (~noalloc => entry(b).start \in Usable)
    BY <1>4, <2>1 DEF Entry
  <2> HIDE DEF entry
  <2> QED BY <2>2, HousedFacts
<1>5. ASSUME NEW s, s # "OK", NEW f PROVE Fine(Unmade(s, f))
  BY <1>5, UnmadeHoused DEF Unmade, Made
<1>6. ASSUME ReadDirStatus(f1, dir) = "OK", NEW f, NEW b, noalloc \/ b \in Usable,
             NEW l, l[1] \in Usable, NEW grow \in BOOLEAN
      PROVE  Fine(Placed(f, entry(b), l, h, grow))
  <2>1. dir.start \in Usable /\ h.loc[1] \in Usable /\ RootEntry.start \in Usable
    BY <1>6, ParentHoused
  <2>2. entry(b) \in Entry /\ Housed(entry(b)) /\ (~noalloc => entry(b).start \in Usable)
    BY <1>4, <1>6
  <2> HIDE DEF entry, h
  <2> QED BY <1>1, <1>6, <2>1, <2>2, PlacedHoused DEF h
<1>7. NewFile(h, p, length, type, noalloc, firstIndex) =
        IF h.status \notin {"OK", "ENOENT"} THEN Unmade(h.status, fat)
        ELSE IF ~noalloc /\ taken = UNUSABLE THEN Unmade("ENOSPC", fat)
        ELSE IF ReadDirStatus(f1, dir) # "OK" THEN Unmade(ReadDirStatus(f1, dir), f1)
        ELSE IF reusable # {}
             THEN Placed(f1, entry(taken), FirstSlot(f1, dir, reusable), h, FALSE)
        ELSE IF full THEN Unmade("ENOSPC", fat)
        ELSE IF dir.length < EntriesPerBlock
             THEN Placed(f1, entry(taken), <<dir.start, dir.length>>, h, TRUE)
        ELSE IF rem = EntriesPerBlock THEN Placed(f3, entry(start), <<taken, 0>>, h, TRUE)
        ELSE Placed(f1, entry(taken), <<last, rem>>, h, TRUE)
  BY DEF NewFile
<1>8. found => noalloc \/ taken \in Usable
  BY <1>2
<1>9. ReadDirStatus(f1, dir) = "OK" => dir.start \in Usable
  BY ParentHoused
<1>10. ASSUME found, ReadDirStatus(f1, dir) = "OK", reusable # {}
       PROVE  FirstSlot(f1, dir, reusable)[1] \in Usable
  <2>1. reusable \subseteq Slots(f1, dir)
    OBVIOUS
  <2> HIDE DEF dir, f1, reusable
  <2> QED BY <1>1, <1>3, <1>9, <1>10, <2>1, FirstSlotFacts, SlotBlock DEF found
<1>11. ASSUME found, ReadDirStatus(f1, dir) = "OK" PROVE last \in Usable
  <2>1. last \in Chain(f1, dir.start) /\ Chain(f1, dir.start) \subseteq Usable
    <3> HIDE DEF dir, f1
    <3>1. Table(f1) /\ dir.start \in Usable
      BY <1>3, <1>9, <1>11
    <3> QED BY <3>1, NthFacts, ChainFacts DEF Start
  <2> QED BY <2>1
<1>12. ASSUME found, ReadDirStatus(f1, dir) = "OK", rem = EntriesPerBlock,
              dir.length >= EntriesPerBlock, ~full
       PROVE  taken \in Usable /\ (noalloc \/ start \in Usable)
  <2>1. FreeBlocks(f1) # {}
    <3>1. HasFree(f1, IF noalloc THEN 1 ELSE 2 + need)
      <4>1. ~(dir.length < EntriesPerBlock)
        BY <1>0, <1>12
      <4> HIDE DEF dir, f1, need, rem
      <4> QED BY <1>12, <4>1
    <3> QED BY <3>1 DEF HasFree
  <2>2. taken \in Usable
    <3>1. CASE noalloc
      <4>1. FreeBlocks(fat) # {}
        BY <2>1, <3>1
      <4> QED BY <4>1, <1>1, FreeBlockFacts
    <3>2. CASE ~noalloc
      BY <3>2, <1>2, <1>12
    <3> QED BY <3>1, <3>2
  <2>3. Table(f2)
    <3>1. last \in Link /\ Table(f1)
      BY <1>3, <1>11, <1>12 DEF Link
    <3> HIDE DEF f1, last, taken
    <3> QED BY <2>2, <3>1, MarkTable
  <2>4. ASSUME ~noalloc PROVE start \in Usable
    <3>1. taken \notin FreeBlocks(f1)
      BY <2>2, <2>4, <1>2 DEF FreeBlocks, Mark
    <3>2. FreeBlocks(f1) \subseteq FreeBlocks(f2)
      <4> HIDE DEF f1, taken, last
      <4> QED BY <3>1 DEF FreeBlocks, Mark
    <3> HIDE DEF f1, f2
    <3> QED BY <2>1, <2>3, <3>2, FreeBlockFacts
  <2> QED BY <2>2, <2>4
<1>13. ~(dir.length < EntriesPerBlock) => dir.length >= EntriesPerBlock
  BY <1>0
<1> HIDE DEF h, dir, taken, f1, need, entry, reusable, blocks, last, rem, f2, start, f3, full, Fine
<1>14. new = NewFile(h, p, length, type, noalloc, firstIndex)
  BY DEF h
<1>15. CASE ~found \/ h.status \notin {"OK", "ENOENT"}
  BY <1>5, <1>7, <1>14, <1>15 DEF Fine
<1>16. CASE found /\ h.status \in {"OK", "ENOENT"}
  <2>1. CASE ReadDirStatus(f1, dir) # "OK"
    BY <1>5, <1>7, <1>14, <1>16, <2>1 DEF Fine
  <2>2. CASE ReadDirStatus(f1, dir) = "OK" /\ reusable # {}
    <3>1. Fine(Placed(f1, entry(taken), FirstSlot(f1, dir, reusable), h, FALSE))
      BY <1>6, <1>8, <1>10, <1>16, <2>2
    <3> QED BY <1>7, <1>14, <1>16, <2>2, <3>1 DEF Fine
  <2>3. CASE ReadDirStatus(f1, dir) = "OK" /\ reusable = {} /\ full
    BY <1>5, <1>7, <1>14, <1>16, <2>3 DEF Fine
  <2>4. CASE /\ ReadDirStatus(f1, dir) = "OK" /\ reusable = {} /\ ~full
             /\ dir.length < EntriesPerBlock
    <3>1. Fine(Placed(f1, entry(taken), <<dir.start, dir.length>>, h, TRUE))
      BY <1>6, <1>8, <1>9, <1>16, <2>4
    <3> QED BY <1>7, <1>14, <1>16, <2>4, <3>1 DEF Fine
  <2>5. CASE /\ ReadDirStatus(f1, dir) = "OK" /\ reusable = {} /\ ~full
             /\ ~(dir.length < EntriesPerBlock) /\ rem = EntriesPerBlock
    <3>1. taken \in Usable /\ (noalloc \/ start \in Usable)
      BY <1>12, <1>13, <1>16, <2>5
    <3>2. Fine(Placed(f3, entry(start), <<taken, 0>>, h, TRUE))
      BY <1>6, <2>5, <3>1
    <3> QED BY <1>7, <1>14, <1>16, <2>5, <3>2 DEF Fine
  <2>6. CASE /\ ReadDirStatus(f1, dir) = "OK" /\ reusable = {} /\ ~full
             /\ ~(dir.length < EntriesPerBlock) /\ rem # EntriesPerBlock
    <3>1. Fine(Placed(f1, entry(taken), <<last, rem>>, h, TRUE))
      BY <1>6, <1>8, <1>11, <1>16, <2>6
    <3> QED BY <1>7, <1>14, <1>16, <2>6, <3>1 DEF Fine
  <2> QED BY <2>1, <2>2, <2>3, <2>4, <2>5, <2>6
<1> QED
  BY <1>15, <1>16

LEMMA ResizedHoused ==
  ASSUME HInv, NEW e \in Entry, e.type = "File", NEW l, l[1] \in Usable, NEW n \in Nat
  PROVE  HousedCells(Resized(e, l, n).disk) /\ Resized(e, l, n).entry.type = "File"
<1> DEFINE new  == BlocksFor(n)
           longer == [e EXCEPT !.length = n]
           Done(f, d) == [status |-> "OK", fat |-> f, entry |-> longer,
                          disk |-> PutEntry(d, longer, l)]
           Fine(r) == HousedCells(r.disk) /\ r.entry.type = "File"
           Keep(s) == [status |-> s, fat |-> fat, entry |-> e, disk |-> disk]
<1>1. HousedCells(disk) /\ HousedCells(ZeroOutFree(fat, disk, e, n))
  BY ZeroOutHoused DEF HInv
<1>2. longer \in Entry /\ longer.type = "File" /\ Housed(longer)
  <2>1. longer \in Entry /\ longer.type = "File"
    BY DEF Entry
  <2> HIDE DEF longer
  <2> QED BY <2>1, HousedFacts
<1>3. ASSUME NEW f, NEW d, HousedCells(d) PROVE Fine(Done(f, d))
  <2> HIDE DEF longer
  <2>1. HousedCells(PutEntry(d, longer, l))
    BY <1>2, <1>3, PutHoused
  <2> QED BY <1>2, <2>1
<1>4. \A s : Fine(Keep(s))
  BY <1>1
<1>5. Resized(e, l, n) \in
        {Keep("OK"), Keep("ENOSPC"),
         Done(Mark(Forget(fat, e.start), e.start, FINAL), disk),
         Done(fat, ZeroOutFree(fat, disk, e, n)),
         Done(Cut(fat, e.start, new), ZeroOutFree(fat, disk, e, n)),
         Done(Extend(fat, e.start, new - 1), disk)}
  BY DEF Resized
<1>6. Fine(Resized(e, l, n))
  <2> HIDE DEF Fine, Done, Keep, new
  <2> QED BY <1>1, <1>3, <1>4, <1>5
<1> QED
  BY <1>6

LEMMA FailHoused == ASSUME HInv, NEW op, NEW status, Fail(op, status) PROVE HousedKept
BY HousedRoot DEF Fail, HousedKept, HInv

LEMMA SaveHoused ==
  ASSUME HInv, NEW op, NEW f, NEW d, HousedCells(d), NEW e \in Entry, Housed(e),
         NEW l, l[1] \in Usable, Save(op, f, d, e, l),
         RootEntry.start \in Usable \/ e.start # StartBlock \/ e = RootEntry
  PROVE  HousedKept
BY HousedRoot, PutHoused, AfterHoused DEF Save, HousedKept

LEMMA TookHoused ==
  ASSUME NEW op, NEW new, LeftHoused(new), Took(op, new)
  PROVE  HousedKept
BY DEF Took, LeftHoused, HousedKept

LEMMA CreateHoused == ASSUME HInv, NEW p \in AnyPath, Create(p) PROVE HousedKept
<1>1. CASE Fail("create", "EEXIST")
  BY <1>1, FailHoused
<1>2. ASSUME NEW i, Took("create", NewFile(FindParent(p), p, 0, "File", FALSE, i))
      PROVE  HousedKept
  BY <1>2, NewFileHoused, TookHoused
<1> QED
  BY <1>1, <1>2 DEF Create

LEMMA MkdirHoused == ASSUME HInv, NEW p \in AnyPath, Mkdir(p) PROVE HousedKept
<1>1. PICK i :
          LET new    == NewFile(FindParent(p), p, 1, "Directory", FALSE, i)
              dotdot == [new.parent EXCEPT !.name = ".."]
          IN  IF new.status # "OK" THEN Took("mkdir", new)
              ELSE /\ Answer("mkdir", "OK")
                   /\ fat' = new.fat
                   /\ disk' = PutEntry(new.disk, dotdot, <<new.entry.start, 0>>)
                   /\ root' = RootAfter(new.root, dotdot)
  BY DEF Mkdir
<1> DEFINE new    == NewFile(FindParent(p), p, 1, "Directory", FALSE, i)
           dotdot == [new.parent EXCEPT !.name = ".."]
<1>2. LeftHoused(new) /\ (new.status = "OK" => new.entry.start \in Usable)
  BY NewFileHoused
<1>3. new.parent \in Entry
  BY FindParentFacts, NewFileSound DEF Sound, HInv
<1>4. CASE new.status # "OK"
  <2>1. Took("mkdir", new)
    BY <1>1, <1>4
  <2> HIDE DEF new
  <2> QED BY <1>2, <2>1, TookHoused
<1>5. CASE new.status = "OK"
  <2>1. /\ disk' = PutEntry(new.disk, dotdot, <<new.entry.start, 0>>)
        /\ root' = RootAfter(new.root, dotdot)
    BY <1>1, <1>5
  <2> HIDE DEF new
  <2>2. dotdot \in Entry /\ dotdot.start \in Usable
    BY <1>2, <1>3, <1>5 DEF LeftHoused, Entry
  <2> HIDE DEF dotdot
  <2> QED BY <1>2, <1>5, <2>1, <2>2, HousedFacts, PutHoused, AfterHoused
             DEF LeftHoused, HousedKept
<1> QED
  BY <1>4, <1>5

\* unlink() and rmdir() leave entries that begin nowhere.
LEMMA UnlinkHoused == ASSUME HInv, NEW p \in AnyPath, Unlink(p) PROVE HousedKept
<1> DEFINE h == Find(p)
           gone == [h.entry EXCEPT !.start = 0]
<1>1. ASSUME NEW s, Fail("unlink", s) PROVE HousedKept
  BY <1>1, FailHoused
<1>2. CASE /\ h.status = "OK" /\ h.entry.type = "File"
           /\ Save("unlink", Forget(fat, h.entry.start), disk, gone, h.loc)
  <2>1. h.entry \in Entry /\ h.loc[1] \in Usable
    BY <1>2, PathFacts, FoundHoused
  <2> HIDE DEF h
  <2>2. gone \in Entry /\ gone.type = "File" /\ gone.start # StartBlock
    BY <1>2, <2>1, BlockFacts DEF Entry
  <2> HIDE DEF gone
  <2> QED BY <1>2, <2>1, <2>2, HousedFacts, SaveHoused DEF HInv
<1> QED
  BY <1>1, <1>2 DEF Unlink

LEMMA RmdirHoused == ASSUME HInv, NEW p \in AnyPath, Rmdir(p) PROVE HousedKept
<1> DEFINE h == Find(p)
           gone == [h.entry EXCEPT !.start = 0, !.length = 0]
<1>1. ASSUME NEW s, Fail("rmdir", s) PROVE HousedKept
  BY <1>1, FailHoused
<1>2. CASE /\ h.status = "OK"
           /\ Save("rmdir", Forget(fat, h.entry.start), disk, gone, h.loc)
  <2>1. h.entry \in Entry /\ h.loc[1] \in Usable
    BY <1>2, PathFacts, FoundHoused
  <2> HIDE DEF h
  <2>2. gone \in Entry /\ gone.length = 0 /\ gone.start # StartBlock
    BY <1>2, <2>1, BlockFacts DEF Entry
  <2> HIDE DEF gone
  <2> QED BY <1>2, <2>1, <2>2, HousedFacts, SaveHoused DEF HInv
<1>3. CASE UNCHANGED <<fat, disk, root>>
  BY <1>3 DEF HInv, HousedKept
<1> QED
  BY <1>1, <1>2, <1>3 DEF Rmdir

LEMMA RenameHoused ==
  ASSUME HInv, NEW p \in AnyPath, NEW q \in AnyPath, Rename(p, q)
  PROVE  HousedKept
<1> DEFINE src == Find(p)
           dst == Find(q)
           gone == [dst.entry EXCEPT !.start = 0]
<1>1. ASSUME NEW s, Fail("rename", s) PROVE HousedKept
  BY <1>1, FailHoused
<1>2. src.status = "OK" => Typed(src) /\ Housed(src.entry)
  BY PathFacts, FindFacts, FoundHoused DEF HInv
<1>3. LastName(q) \in Name \cup {"", ".", ".."}
  BY PathFacts
<1>4. ASSUME src.status = "OK", dst.status = "OK", dst.entry.type = "File",
             disk' = Moved(PutEntry(disk, gone, dst.loc), src, dst.loc, LastName(q)),
             root' = RootAfter(RootEntry, gone)
      PROVE  HousedKept
  <2>1. dst.entry \in Entry /\ dst.loc[1] \in Usable
    BY <1>4, PathFacts, FoundHoused
  <2> HIDE DEF dst, src
  <2>2. gone \in Entry /\ gone.type = "File" /\ gone.start # StartBlock
    BY <1>4, <2>1, BlockFacts DEF Entry
  <2> HIDE DEF gone
  <2>3. HousedCells(PutEntry(disk, gone, dst.loc))
    BY <2>1, <2>2, HousedFacts, PutHoused DEF HInv
  <2>4. HousedCells(disk')
    BY <1>2, <1>3, <1>4, <2>1, <2>3, MovedHoused
  <2> QED BY <1>4, <2>2, <2>4, HousedRoot, AfterHoused DEF HousedKept
<1>5. ASSUME NEW i, src.status = "OK",
             LET new == NewFile(FindParent(q), q, 0, src.entry.type, TRUE, i)
             IN  IF new.status # "OK" THEN Took("rename", new)
                 ELSE /\ Answer("rename", "OK")
                      /\ fat' = new.fat
                      /\ disk' = Moved(new.disk, src, new.loc, LastName(q))
                      /\ root' = new.root
      PROVE  HousedKept
  <2> DEFINE new == NewFile(FindParent(q), q, 0, src.entry.type, TRUE, i)
  <2>1. LeftHoused(new)
    <3>1. src.entry.type \in {"File", "Directory"}
      <4> HIDE DEF src
      <4> QED BY <1>2, <1>5 DEF Typed, Entry
    <3> HIDE DEF src
    <3> QED BY <3>1, NewFileHoused
  <2>2. CASE new.status # "OK"
    <3>1. Took("rename", new)
      BY <1>5, <2>2
    <3> HIDE DEF new
    <3> QED BY <2>1, <3>1, TookHoused
  <2>3. CASE new.status = "OK"
    <3>1. /\ disk' = Moved(new.disk, src, new.loc, LastName(q))
          /\ root' = new.root
      BY <1>5, <2>3
    <3> HIDE DEF new, src
    <3> QED BY <1>2, <1>3, <1>5, <2>1, <2>3, <3>1, MovedHoused DEF LeftHoused, HousedKept
  <2> QED BY <2>2, <2>3
<1> QED
  BY <1>1, <1>4, <1>5 DEF Rename

LEMMA TruncateHoused ==
  ASSUME HInv, Careful, NEW p \in AnyPath, NEW n \in Sizes, Truncate(p, n)
  PROVE  HousedKept
<1> DEFINE h == Find(p)
           r == Resized(h.entry, h.loc, n)
<1>1. CASE Fail("truncate", h.status)
  BY <1>1, FailHoused
<1>2. ASSUME h.status = "OK", p # <<>>, h.entry.type = "File", disk' = r.disk,
             root' = IF r.entry = h.entry THEN RootEntry ELSE RootAfter(RootEntry, r.entry)
      PROVE  HousedKept
  <2>1. /\ h.entry \in Entry /\ h.loc[1] \in Usable /\ RootEntry.start \in Usable
        /\ h.entry.start \in Usable /\ n \in Nat
    BY <1>2, PathFacts, FindFacts, FoundHoused, CallsAssumption DEF HInv
  <2>2. HousedCells(r.disk) /\ r.entry \in Entry
    <3> HIDE DEF h
    <3> QED BY <1>2, <2>1, ResizedHoused, ResizedSound DEF HInv
  <2> HIDE DEF r, h
  <2> QED BY <1>2, <2>1, <2>2, HousedRoot, AfterHoused DEF HousedKept
<1> QED
  BY <1>1, <1>2 DEF Truncate

LEMMA WriteHoused ==
  ASSUME HInv, Careful, NEW p \in AnyPath, NEW x \in Extents, NEW c \in Data,
         Write(p, x[1], x[2], c)
  PROVE  HousedKept
<1> DEFINE h    == Find(p)
           len  == IF x[1] + x[2] > h.entry.length THEN x[1] + x[2] ELSE h.entry.length
           r    == Resized(h.entry, h.loc, len)
           dest == Cells(r.fat, h.entry.start, x[1], x[1] + x[2])
           data == [l \in Loc |-> IF l \in dest THEN c ELSE r.disk[l]]
<1>1. ASSUME NEW s, Fail("write", s) PROVE HousedKept
  BY <1>1, FailHoused
<1>2. ASSUME h.status = "OK", p # <<>>, h.entry.type = "File",
             Save("write", r.fat, data, r.entry, h.loc)
      PROVE  HousedKept
  <2>1. /\ h.entry \in Entry /\ h.loc[1] \in Usable /\ RootEntry.start \in Usable
        /\ h.entry.start \in Usable
    BY <1>2, PathFacts, FindFacts, FoundHoused DEF HInv
  <2>2. len \in Nat
    <3>1. h.entry.length \in Nat /\ x[1] \in Nat /\ x[2] \in Nat
      <4> HIDE DEF h
      <4> QED BY <2>1, CallsAssumption DEF Entry
    <3> HIDE DEF h
    <3> QED BY <3>1
  <2>3. /\ HousedCells(r.disk) /\ r.entry \in Entry /\ r.entry.type = "File"
        /\ Table(r.fat)
    <3> HIDE DEF h, len
    <3> QED BY <1>2, <2>1, <2>2, ResizedHoused, ResizedSound DEF HInv
  <2>4. ASSUME NEW l \in dest PROVE l[1] \in Usable
    <3>1. l[1] \in Chain(r.fat, h.entry.start)
      BY <2>4, CellBlock
    <3> HIDE DEF r, h
    <3> QED BY <2>1, <2>3, <3>1, ChainFacts DEF Start
  <2> HIDE DEF r, h, dest
  <2>5. HousedCells(data)
    <3>1. data \in [Loc -> Cell]
      BY <2>3 DEF HousedCells, Cell
    <3>2. Housed(c)
      BY DEF Housed
    <3>3. \A l \in Loc : \/ data[l] = r.disk[l]
                         \/ data[l] = c /\ l[1] \notin Reserved
      <4> SUFFICES ASSUME NEW l \in Loc
                   PROVE  \/ data[l] = r.disk[l]
                          \/ data[l] = c /\ l[1] \notin Reserved
        OBVIOUS
      <4>1. data[l] = IF l \in dest THEN c ELSE r.disk[l]
        OBVIOUS
      <4> HIDE DEF data
      <4>2. CASE l \in dest
        <5>1. l[1] \in Usable
          BY <2>4, <4>2
        <5> QED BY <4>1, <4>2, <5>1, BlockFacts
      <4>3. CASE l \notin dest
        <5>1. data[l] = r.disk[l]
          BY <4>1, <4>3, Zenon
        <5> QED BY <5>1, Zenon
      <4> QED BY <4>2, <4>3, Zenon
    <3> HIDE DEF data
    <3> QED BY <2>3, <3>1, <3>2, <3>3 DEF HousedCells
  <2> HIDE DEF data
  <2> QED BY <1>2, <2>1, <2>3, <2>5, HousedFacts, SaveHoused
<1> QED
  BY <1>1, <1>2 DEF Write

LEMMA TouchHoused == ASSUME HInv, NEW p \in AnyPath, Touch(p) PROVE HousedKept
<1> DEFINE h == Find(p)
<1>1. ASSUME NEW s, Fail("touch", s) PROVE HousedKept
  BY <1>1, FailHoused
<1>2. CASE h.status = "OK" /\ Save("touch", fat, disk, h.entry, h.loc)
  <2>1. /\ h.entry \in Entry /\ h.loc[1] \in Usable /\ Housed(h.entry)
        /\ RootEntry.start \in Usable \/ h.entry = RootEntry
    BY <1>2, PathFacts, FoundHoused
  <2> HIDE DEF h
  <2> QED BY <1>2, <2>1, SaveHoused DEF HInv
<1> QED
  BY <1>1, <1>2 DEF Touch

\* make() leaves a root entry in memory, and in its block what was cleared ...
LEMMA FreshHoused == HousedCells(FreshDisk) /\ HousedCells(StoredDisk) /\ Housed(RootDir)
<1>1. Housed(Cleared)
  BY ClearedAssumption, HousedFacts DEF Housed
<1>2. HousedCells(FreshDisk)
  BY <1>1, FreshFacts, HousedFacts DEF HousedCells, FreshDisk
<1>3. RootDir \in Entry /\ RootDir.start \in Usable
  BY FreshFacts, BlockFacts DEF RootDir
<1>4. Housed(RootDir)
  BY <1>3, HousedFacts
<1>5. RootLoc[1] \in Usable
  BY BlockFacts DEF RootLoc
<1> QED
  BY <1>2, <1>3, <1>4, <1>5, PutHoused DEF StoredDisk

\* ... and every call keeps the directories that can be read in usable blocks.
THEOREM StepHoused == Careful /\ HInv /\ [Make \/ Next]_vars => HInv'
<1> SUFFICES ASSUME Careful, HInv, [Make \/ Next]_vars PROVE HousedKept
  BY StepInvariant DEF HInv, HousedKept
<1>1. CASE Make
  BY <1>1, FreshHoused DEF Make, HousedKept
<1>2. CASE Mount
  BY <1>2, HousedFacts DEF Mount, HInv, HousedKept
<1>3. ASSUME NEW p \in AnyPath,
             Create(p) \/ Mkdir(p) \/ Unlink(p) \/ Rmdir(p) \/ Touch(p)
      PROVE  HousedKept
  BY <1>3, CreateHoused, MkdirHoused, UnlinkHoused, RmdirHoused, TouchHoused
<1>4. ASSUME NEW p \in AnyPath, NEW q \in AnyPath, Rename(p, q) PROVE HousedKept
  BY <1>4, RenameHoused
<1>5. ASSUME NEW p \in AnyPath, NEW n \in Sizes, Truncate(p, n) PROVE HousedKept
  BY <1>5, TruncateHoused
<1>6. ASSUME NEW p \in AnyPath, NEW x \in Extents, NEW c \in Data, Write(p, x[1], x[2], c)
      PROVE  HousedKept
  BY <1>6, WriteHoused
<1>7. CASE UNCHANGED vars
  BY <1>7 DEF vars, HInv, HousedKept
<1> QED
  BY <1>1, <1>2, <1>3, <1>4, <1>5, <1>6, <1>7 DEF Next

\* Once make() has returned, nothing is ever written over the superblock or the
\* table: every place that writeEntry(), write() and zeroOutFree() reach lies
\* behind them, or holds zeroes already.
THEOREM MetadataStays ==
  Careful => (FreshSpec => []MetadataUntouched) /\ (Spec => []MetadataUntouched)
<1> SUFFICES ASSUME Careful
             PROVE  (FreshSpec => []MetadataUntouched) /\ (Spec => []MetadataUntouched)
  OBVIOUS
<1>1. (Fresh => HInv) /\ (Init => HInv)
  BY InitInvariant, FreshHoused DEF Fresh, Init, HInv, StoredDisk
<1>2. HInv /\ [Make \/ Next]_vars => HInv'
  BY StepHoused
<1>3. HInv => MetadataUntouched
  <2> SUFFICES ASSUME HInv, NEW b \in Reserved, NEW i \in 0..EntriesPerBlock - 1
               PROVE  disk[<<b, i>>] = Zero
    BY DEF MetadataUntouched
  <2>1. <<b, i>> \in Loc
    BY BlockFacts DEF Loc
  <2> QED BY <2>1 DEF HInv, HousedCells
<1>4. FreshSpec => []MetadataUntouched
  BY <1>1, <1>2, <1>3, PTL DEF FreshSpec
<1>5. Spec => []MetadataUntouched
  BY <1>1, <1>2, <1>3, PTL DEF Spec
<1> QED
  BY <1>4, <1>5

-----------------------------------------------------------------------------
(* The root directory, once stored. *)

\* The root directory stays in its place whatever careful callers do ...
THEOREM StepClean == Careful /\ MInv /\ [Next]_vars => MInv'
<1> SUFFICES ASSUME Careful, MInv, [Next]_vars PROVE StaysGood
  BY StepInvariant DEF MInv, StaysGood
<1>2. CASE Mount
  BY <1>2 DEF Mount, MInv, Good, StaysGood
<1>3. ASSUME NEW p \in AnyPath,
             Create(p) \/ Mkdir(p) \/ Unlink(p) \/ Rmdir(p) \/ Touch(p)
      PROVE  StaysGood
  BY <1>3, CreateGood, MkdirGood, UnlinkGood, RmdirGood, TouchGood
<1>4. ASSUME NEW p \in AnyPath, NEW q \in AnyPath, Rename(p, q) PROVE StaysGood
  BY <1>4, RenameGood
<1>5. ASSUME NEW p \in AnyPath, NEW n \in Sizes, Truncate(p, n) PROVE StaysGood
  BY <1>5, TruncateGood
<1>6. ASSUME NEW p \in AnyPath, NEW x \in Extents, NEW c \in Data, Write(p, x[1], x[2], c)
      PROVE  StaysGood
  BY <1>6, WriteGood
<1>7. CASE UNCHANGED vars
  BY <1>7 DEF vars, MInv, Good, StaysGood
<1> QED
  BY <1>2, <1>3, <1>4, <1>5, <1>6, <1>7 DEF Next

\* Whatever is written past writeEntry() by mkdir() and rename(), the driver's
\* copy of the root entry, the "." on the disk and the ".." beside it agree.
THEOREM RootStaysCoherent == Careful => (Spec => []RootCoherent)
<1> SUFFICES ASSUME Careful PROVE Spec => []RootCoherent
  OBVIOUS
<1>1. Init => MInv
  BY InitInvariant, FreshGood DEF Init, MInv, StoredDisk
<1>2. MInv /\ [Next]_vars => MInv'
  BY StepClean
<1>3. MInv => RootCoherent
  BY DEF MInv, Good, Clean, RootCoherent, RootUp
<1> QED
  BY <1>1, <1>2, <1>3, PTL DEF Spec
=============================================================================
