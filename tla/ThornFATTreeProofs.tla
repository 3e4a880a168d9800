------------------------- MODULE ThornFATTreeProofs -------------------------
(***************************************************************************)
(* The tree that a ThornFAT partition stands for stays sound, for every    *)
(* partition, every set of paths and every sequence of calls that respects *)
(* Careful, as long as no directory outgrows its block and no truncation   *)
(* ends inside one.  No call that succeeds loses a block, and every call   *)
(* does to the tree what FS.h promises of it and nothing else.             *)
(***************************************************************************)
EXTENDS MCThornFAT, ThornFATProofs

-----------------------------------------------------------------------------
(* Chains. *)

\* A set that holds the first block and the block after each of its blocks
\* holds the chain.
LEMMA ChainWithin ==
  ASSUME NEW f, Table(f), NEW b \in Start, NEW S, b \in S,
         \A x \in Chain(f, b) : x \in S /\ f[x] > 0 => f[x] \in S
  PROVE  Chain(f, b) \subseteq S
<1> DEFINE R == S \cap Chain(f, b)
<1>1. b \in R /\ R \in SUBSET Chain(f, b)
  BY ChainLeast
<1>2. Closed(f, R)
  BY ChainLeast DEF Closed
<1>3. R = Chain(f, b)
  <2> HIDE DEF R
  <2> QED BY <1>1, <1>2, ChainLeast
<1> QED
  BY <1>3

\* Two tables that agree on a chain have it in common.
LEMMA ChainSame ==
  ASSUME NEW f, Table(f), NEW g, Table(g), NEW b \in Start,
         \A x \in Chain(f, b) : g[x] = f[x]
  PROVE  Chain(g, b) = Chain(f, b)
<1>1. Chain(g, b) \subseteq Chain(f, b)
  <2>1. b \in Chain(f, b) /\ Closed(f, Chain(f, b))
    BY ChainLeast
  <2> QED BY <2>1, ChainWithin DEF Closed
<1>2. Chain(f, b) \subseteq Chain(g, b)
  <2>1. b \in Chain(g, b) /\ Closed(g, Chain(g, b))
    BY ChainLeast
  <2> QED BY <2>1, ChainWithin DEF Closed
<1> QED
  BY <1>1, <1>2

\* A block that is followed by another is followed by that one's chain.
LEMMA ChainStep ==
  ASSUME NEW f, Table(f), NEW b \in Start, f[b] > 0
  PROVE  f[b] \in Usable /\ Chain(f, b) = {b} \cup Chain(f, f[b])
<1>1. b \in Block /\ f[b] \in Usable /\ f[b] \in Start
  BY BlockFacts DEF Table, Start, Link, UNUSABLE, FINAL
<1>2. Chain(f, b) \subseteq {b} \cup Chain(f, f[b])
  <2>1. f[b] \in Chain(f, f[b]) /\ Closed(f, Chain(f, f[b]))
    BY <1>1, ChainLeast
  <2> DEFINE S == {b} \cup Chain(f, f[b])
  <2>2. b \in S /\ \A x \in Chain(f, b) : x \in S /\ f[x] > 0 => f[x] \in S
    BY <2>1 DEF Closed
  <2> HIDE DEF S
  <2>3. Chain(f, b) \subseteq S
    BY <2>2, ChainWithin
  <2> QED BY <2>3 DEF S
<1>3. Chain(f, f[b]) \subseteq Chain(f, b)
  <2>1. b \in Chain(f, b) /\ Closed(f, Chain(f, b))
    BY ChainLeast
  <2> QED BY <1>1, <2>1, ChainWithin DEF Closed
<1> QED
  BY <1>1, <1>2, <1>3, ChainLeast

\* A block that nothing follows is a chain of its own.
LEMMA ChainLast == ASSUME NEW f, NEW b, f[b] \in {FINAL, UNUSABLE, 0} PROVE Chain(f, b) = {b}
BY DEF Chain, FINAL, UNUSABLE

\* The chain from a block of a chain is part of it.
LEMMA ChainPart ==
  ASSUME NEW f, Table(f), NEW b \in Start, NEW x \in Chain(f, b)
  PROVE  x \in Start /\ Chain(f, x) \subseteq Chain(f, b)
<1>1. x \in Start /\ Closed(f, Chain(f, b))
  BY ChainLeast
<1> QED
  BY <1>1, ChainWithin DEF Closed

LEMMA ChainCount ==
  ASSUME NEW f, Table(f), NEW b \in Start
  PROVE  IsFiniteSet(Chain(f, b)) /\ ChainLength(f, b) \in Nat /\ ChainLength(f, b) >= 1
<1>1. Chain(f, b) \in SUBSET Block /\ b \in Chain(f, b)
  BY ChainFacts, BlockFacts DEF Start
<1>2. IsFiniteSet(Chain(f, b))
  BY <1>1, BlockFacts, FS_Subset
<1>3. Cardinality(Chain(f, b)) \in Nat /\ Cardinality(Chain(f, b)) # 0
  BY <1>1, <1>2, FS_CardinalityType, FS_EmptySet
<1> QED
  BY <1>2, <1>3 DEF ChainLength

\* A chain that ends: the walk along it meets FINAL.
Ends(f, b) == \E z \in Chain(f, b) : f[z] = FINAL

\* It ends whichever of its blocks one starts at ...
LEMMA EndsFromAll ==
  ASSUME NEW f, Table(f), NEW b \in Start, Ends(f, b), NEW x \in Chain(f, b)
  PROVE  Ends(f, x)
<1>1. PICK z \in Chain(f, b) : f[z] = FINAL
  BY DEF Ends
<1> DEFINE S == {y \in Chain(f, b) : z \in Chain(f, y)}
<1>2. ASSUME NEW y \in Chain(f, b), y \in S, f[y] > 0 PROVE f[y] \in S
  <2>1. z \in Chain(f, y) /\ y \in Start /\ f[y] \in Chain(f, b)
    BY <1>2, ChainPart, ChainLeast DEF Closed
  <2>2. z # y
    BY <1>1, <1>2 DEF FINAL
  <2> QED BY <1>2, <2>1, <2>2, ChainStep
<1>3. Chain(f, b) \subseteq S
  <2>1. b \in S
    BY <1>1, ChainLeast
  <2> HIDE DEF S
  <2> QED BY <2>1, <1>2, ChainWithin
<1> QED
  BY <1>1, <1>3 DEF Ends

\* ... and does not come back, so that each step shortens it by one.
LEMMA EndsShorter ==
  ASSUME NEW f, Table(f), NEW b \in Start, Ends(f, b), f[b] > 0
  PROVE  b \notin Chain(f, f[b]) /\ ChainLength(f, b) = ChainLength(f, f[b]) + 1
<1>1. f[b] \in Usable /\ f[b] \in Start /\ Chain(f, b) = {b} \cup Chain(f, f[b])
  BY ChainStep DEF Start
<1> DEFINE S == {y \in Chain(f, f[b]) : b \in Chain(f, y)}
<1>2. ASSUME b \in Chain(f, f[b]) PROVE FALSE
  <2>1. ASSUME NEW y \in Chain(f, f[b]), y \in S, f[y] > 0 PROVE f[y] \in S
    <3>1. b \in Chain(f, y) /\ y \in Start /\ f[y] \in Chain(f, f[b])
      BY <1>1, <2>1, ChainPart, ChainLeast DEF Closed
    <3>2. Chain(f, y) = {y} \cup Chain(f, f[y])
      BY <2>1, <3>1, ChainStep
    <3> QED BY <1>2, <3>1, <3>2
  <2>2. Chain(f, f[b]) \subseteq S
    <3>1. f[b] \in S
      BY <1>1, <1>2, ChainLeast
    <3> HIDE DEF S
    <3> QED BY <1>1, <2>1, <3>1, ChainWithin
  <2>3. PICK z \in Chain(f, b) : f[z] = FINAL
    BY DEF Ends
  <2>4. z \in Chain(f, f[b]) /\ z # b
    BY <1>1, <2>3 DEF FINAL
  <2>5. Chain(f, z) = {z}
    BY <2>3, ChainLast
  <2> QED BY <2>2, <2>4, <2>5
<1>3. ChainLength(f, b) = ChainLength(f, f[b]) + 1
  <2>1. IsFiniteSet(Chain(f, f[b])) /\ b \notin Chain(f, f[b])
    BY <1>1, <1>2, ChainCount
  <2>2. Cardinality(Chain(f, f[b]) \cup {b}) = Cardinality(Chain(f, f[b])) + 1
    BY <2>1, FS_AddElement
  <2>3. Chain(f, b) = Chain(f, f[b]) \cup {b}
    BY <1>1
  <2> QED BY <2>2, <2>3 DEF ChainLength
<1> QED
  BY <1>2, <1>3

-----------------------------------------------------------------------------
(* Resizing a chain. *)

\* A set whose members take all of n values has at least n members.
LEMMA AtLeast ==
  ASSUME NEW S, IsFiniteSet(S), NEW n \in Nat, NEW h,
         \A k \in 0..n - 1 : \E x \in S : h[x] = k
  PROVE  Cardinality(S) >= n
<1> DEFINE P == {x \in S : h[x] \in 0..n - 1}
           g == [x \in P |-> h[x]]
<1>1. g \in Surjection(P, 0..n - 1)
  <2>1. g \in [P -> 0..n - 1]
    OBVIOUS
  <2>2. \A k \in 0..n - 1 : \E x \in P : g[x] = k
    OBVIOUS
  <2> HIDE DEF g, P
  <2> QED BY <2>1, <2>2 DEF Surjection
<1>2. P \in SUBSET S
  OBVIOUS
<1> HIDE DEF g, P
<1>3. IsFiniteSet(P) /\ Cardinality(P) <= Cardinality(S)
  BY <1>2, FS_Subset
<1>4. Cardinality(0..n - 1) <= Cardinality(P)
  BY <1>1, <1>3, FS_Surjection
<1>5. Cardinality(0..n - 1) = n
  <2>1. 0 \in Int /\ n - 1 \in Int
    OBVIOUS
  <2>2. Cardinality(0..n - 1) = IF 0 > n - 1 THEN 0 ELSE n - 1 - 0 + 1
    BY <2>1, FS_Interval
  <2> QED BY <2>2
<1>6. Cardinality(P) \in Nat /\ Cardinality(S) \in Nat
  BY <1>3, FS_CardinalityType
<1> QED
  BY <1>3, <1>4, <1>5, <1>6

\* The number of links from the first block counts up along the chain.
LEMMA StepsNext ==
  ASSUME NEW f, Table(f), NEW b \in Start, Ends(f, b), NEW x \in Chain(f, b)
  PROVE  /\ Steps(f, b, x) \in Nat /\ Steps(f, b, b) = 0
         /\ f[x] > 0 => f[x] \in Chain(f, b) /\ Steps(f, b, f[x]) = Steps(f, b, x) + 1
         /\ f[x] = FINAL => Steps(f, b, x) = ChainLength(f, b) - 1
<1>1. x \in Start /\ Chain(f, x) \subseteq Chain(f, b) /\ Ends(f, x)
  BY ChainPart, EndsFromAll
<1>2. /\ ChainLength(f, b) \in Nat /\ ChainLength(f, x) \in Nat
      /\ ChainLength(f, x) <= ChainLength(f, b)
  BY <1>1, ChainCount, FS_Subset DEF ChainLength
<1>3. ASSUME f[x] > 0
      PROVE  f[x] \in Chain(f, b) /\ Steps(f, b, f[x]) = Steps(f, b, x) + 1
  <2>1. f[x] \in Chain(f, b) /\ f[x] \in Start
    BY <1>1, <1>3, ChainLeast, ChainStep DEF Closed, Start
  <2>2. ChainLength(f, x) = ChainLength(f, f[x]) + 1 /\ ChainLength(f, f[x]) \in Nat
    BY <1>1, <1>3, <2>1, EndsShorter, ChainCount
  <2> QED BY <1>2, <2>1, <2>2 DEF Steps
<1>4. f[x] = FINAL => ChainLength(f, x) = 1
  BY ChainLast, FS_Singleton DEF ChainLength
<1> QED
  BY <1>2, <1>3, <1>4 DEF Steps

\* Every block but the first has one before it, and the blocks are as many steps
\* away as there are numbers below the chain's length.
LEMMA StepsUnique ==
  ASSUME NEW f, Table(f), NEW b \in Start, Ends(f, b)
  PROVE  \A x, y \in Chain(f, b) : Steps(f, b, x) = Steps(f, b, y) => x = y
<1> DEFINE C == Chain(f, b)
           st == [x \in C |-> Steps(f, b, x)]
<1>1. b \in C /\ \A x \in C : x \in Start
  BY ChainLeast, ChainPart
<1>2. \A x \in C : /\ st[x] \in Nat /\ st[b] = 0
                   /\ f[x] > 0 => f[x] \in C /\ st[f[x]] = st[x] + 1
  BY <1>1, StepsNext
<1> DEFINE S == {y \in C : y = b \/ (st[y] >= 1 /\ \E z \in C : f[z] > 0 /\ f[z] = y)}
<1>3. C \subseteq S
  <2>1. b \in S
    BY <1>1
  <2>2. ASSUME NEW x \in C, x \in S, f[x] > 0 PROVE f[x] \in S
    BY <1>2, <2>2
  <2> HIDE DEF S
  <2> QED BY <2>1, <2>2, ChainWithin
<1> DEFINE R == {x \in C : \A y \in C : st[y] = st[x] => y = x}
<1> HIDE DEF C, st
<1>4. C \subseteq R
  <2>1. b \in R
    BY <1>1, <1>2, <1>3
  <2>2. ASSUME NEW x \in C, x \in R, f[x] > 0 PROVE f[x] \in R
    <3> SUFFICES ASSUME NEW y \in C, st[y] = st[f[x]] PROVE y = f[x]
      BY <1>2, <2>2
    <3>1. st[y] = st[x] + 1 /\ st[x] \in Nat
      BY <1>2, <2>2
    <3>2. y # b
      BY <1>2, <3>1
    <3>3. PICK z \in C : f[z] > 0 /\ f[z] = y
      BY <1>3, <3>2
    <3>4. st[z] + 1 = st[x] + 1 /\ st[z] \in Nat
      BY <1>2, <3>1, <3>3
    <3>5. z = x
      BY <2>2, <3>1, <3>4
    <3> QED BY <3>3, <3>5
  <2> HIDE DEF R
  <2> QED BY <2>1, <2>2, ChainWithin DEF C
<1> QED
  BY <1>4 DEF C, st

LEMMA StepsAll ==
  ASSUME NEW f, Table(f), NEW b \in Start, Ends(f, b),
         \A x \in Chain(f, b) : f[x] = FINAL \/ f[x] > 0
  PROVE  \A k \in 0..ChainLength(f, b) - 1 : \E x \in Chain(f, b) : Steps(f, b, x) = k
<1> DEFINE C == Chain(f, b)
           st == [x \in C |-> Steps(f, b, x)]
           n == ChainLength(f, b)
           Missed == {k \in 0..n - 1 : ~ \E x \in C : st[x] = k}
<1>1. b \in C /\ n \in Nat
  BY ChainLeast, ChainCount
<1>2. \A x \in C : /\ st[x] \in Nat /\ st[b] = 0
                   /\ f[x] > 0 => f[x] \in C /\ st[f[x]] = st[x] + 1
                   /\ f[x] = FINAL => st[x] = n - 1
  BY <1>1, StepsNext
<1>3. \A x \in C : f[x] = FINAL \/ f[x] > 0
  OBVIOUS
<1> HIDE DEF C, st, n
<1>4. Missed = {}
  <2> SUFFICES ASSUME Missed # {} PROVE FALSE
    OBVIOUS
  <2>1. PICK k \in Missed : \A j \in Missed : k <= j
    <3>1. Missed \subseteq Nat
      OBVIOUS
    <3> HIDE DEF Missed
    <3> QED BY <3>1, NatMin
  <2>2. k # 0 /\ k \in 0..n - 1
    BY <1>1, <1>2, <2>1
  <2>3. k - 1 \in 0..n - 1 /\ k - 1 \notin Missed
    <3> HIDE DEF Missed
    <3> QED BY <1>1, <2>1, <2>2
  <2>4. PICK x \in C : st[x] = k - 1
    BY <2>3
  <2>5. f[x] > 0
    <3>1. st[x] # n - 1
      BY <1>1, <2>2, <2>4
    <3> QED BY <1>2, <1>3, <3>1
  <2>6. f[x] \in C /\ st[f[x]] = k
    BY <1>1, <1>2, <2>2, <2>4, <2>5
  <2> QED BY <2>1, <2>6
<1> QED
  BY <1>4 DEF C, st, n

\* The first m blocks stay where they are when their links do.
LEMMA StepsSame ==
  ASSUME NEW f, Table(f), NEW g, Table(g), NEW b \in Start, Ends(f, b), Ends(g, b), NEW m \in Nat,
         \A x \in Chain(f, b) : Steps(f, b, x) + 1 < m => g[x] = f[x]
  PROVE  \A x \in Chain(f, b) :
            Steps(f, b, x) < m => x \in Chain(g, b) /\ Steps(g, b, x) = Steps(f, b, x)
<1> DEFINE C == Chain(f, b)
           st == [x \in C |-> Steps(f, b, x)]
           S == {x \in C : st[x] < m => x \in Chain(g, b) /\ Steps(g, b, x) = st[x]}
<1>1. b \in C /\ b \in Chain(g, b)
  BY ChainLeast
<1>2. \A x \in C : /\ st[x] \in Nat /\ st[b] = 0
                   /\ f[x] > 0 => f[x] \in C /\ st[f[x]] = st[x] + 1
  BY <1>1, StepsNext
<1>3. \A x \in Chain(g, b) : /\ Steps(g, b, b) = 0
                             /\ g[x] > 0 => /\ g[x] \in Chain(g, b)
                                            /\ Steps(g, b, g[x]) = Steps(g, b, x) + 1
  BY StepsNext
<1>4. \A x \in C : st[x] + 1 < m => g[x] = f[x]
  OBVIOUS
<1> HIDE DEF C, st
<1>5. C \subseteq S
  <2>1. b \in S
    BY <1>1, <1>2, <1>3
  <2>2. ASSUME NEW x \in C, x \in S, f[x] > 0 PROVE f[x] \in S
    <3>1. f[x] \in C /\ st[f[x]] = st[x] + 1 /\ st[x] \in Nat
      BY <1>2, <2>2
    <3>2. ASSUME st[f[x]] < m PROVE f[x] \in Chain(g, b) /\ Steps(g, b, f[x]) = st[f[x]]
      <4>1. g[x] = f[x] /\ st[x] < m
        BY <1>4, <3>1, <3>2
      <4>2. x \in Chain(g, b) /\ Steps(g, b, x) = st[x]
        BY <2>2, <4>1
      <4> QED BY <1>3, <2>2, <3>1, <4>1, <4>2
    <3> QED BY <3>1, <3>2
  <2> HIDE DEF S
  <2> QED BY <2>1, <2>2, ChainWithin DEF C
<1> QED
  BY <1>5 DEF C, st

\* Shrinking a chain that ends to n blocks leaves one that ends and has n.
LEMMA CutChain ==
  ASSUME NEW f, Table(f), NEW b \in Usable, Ends(f, b),
         \A x \in Chain(f, b) : f[x] = FINAL \/ f[x] > 0,
         NEW n \in Nat \ {0}, ChainLength(f, b) > n
  PROVE  LET g == Cut(f, b, n)
         IN  /\ Chain(g, b) \subseteq Chain(f, b) /\ Ends(g, b)
             /\ \A x \in Chain(g, b) : g[x] = FINAL \/ g[x] > 0
             /\ ChainLength(g, b) >= n
             /\ \A x \in Block : x \notin Chain(f, b) => g[x] = f[x]
             /\ \A x \in Chain(f, b) :
                   IF Steps(f, b, x) < n THEN x \in Chain(g, b) /\ Steps(g, b, x) = Steps(f, b, x)
                   ELSE g[x] = 0
<1> DEFINE g == Cut(f, b, n)
           st == [x \in Chain(f, b) |-> Steps(f, b, x)]
           K == {x \in Chain(f, b) : st[x] < n}
<1>1. Table(g) /\ b \in Start /\ ChainLength(f, b) \in Nat
  BY CutTable, ChainCount DEF Start
<1>2. Chain(f, b) \subseteq Usable /\ b \in Chain(f, b) /\ Usable \subseteq Block
  BY <1>1, ChainLeast, BlockFacts
<1>3. \A x \in Block : x \notin Chain(f, b) => g[x] = f[x]
  BY DEF Cut
<1>4. \A x \in Chain(f, b) : st[x] \in Nat /\ st[b] = 0
  BY <1>1, <1>2, StepsNext
<1>5. ASSUME NEW x \in K
      PROVE  /\ x \in Chain(f, b) /\ st[x] \in 0..n - 1
             /\ st[x] = n - 1 => g[x] = FINAL
             /\ st[x] < n - 1 => g[x] = f[x] /\ f[x] > 0 /\ f[x] \in K /\ st[f[x]] = st[x] + 1
  <2>1. x \in Chain(f, b) /\ x \in Block /\ st[x] \in 0..n - 1 /\ st[x] = Steps(f, b, x)
    BY <1>2, <1>4
  <2>2. st[x] = n - 1 => g[x] = FINAL
    BY <2>1 DEF Cut
  <2>3. ASSUME st[x] < n - 1 PROVE g[x] = f[x] /\ f[x] > 0 /\ f[x] \in K /\ st[f[x]] = st[x] + 1
    <3>1. g[x] = f[x]
      BY <2>1, <2>3 DEF Cut
    <3>2. f[x] > 0
      BY <1>1, <2>1, <2>3, StepsNext
    <3>3. f[x] \in Chain(f, b) /\ st[f[x]] = st[x] + 1
      BY <1>1, <2>1, <3>2, StepsNext
    <3> QED BY <2>1, <2>3, <3>1, <3>2, <3>3
  <2> QED BY <2>1, <2>2, <2>3
<1>13. \A x \in Chain(f, b) : /\ Steps(f, b, x) + 1 < n => g[x] = f[x]
                              /\ ~(Steps(f, b, x) < n) => g[x] = 0
  <2> SUFFICES ASSUME NEW x \in Chain(f, b)
               PROVE  /\ Steps(f, b, x) + 1 < n => g[x] = f[x]
                      /\ ~(Steps(f, b, x) < n) => g[x] = 0
    OBVIOUS
  <2>1. x \in Block /\ st[x] \in Nat /\ st[x] = Steps(f, b, x)
    BY <1>2, <1>4
  <2> QED BY <2>1 DEF Cut
<1> HIDE DEF g, K, st
<1>6. Chain(g, b) \subseteq K
  <2>1. b \in K
    BY <1>2, <1>4 DEF K
  <2>2. ASSUME NEW x \in K, g[x] > 0 PROVE g[x] \in K
    BY <1>5, <2>2 DEF FINAL
  <2> QED BY <1>1, <2>1, <2>2, ChainWithin
<1>7. \A x \in Chain(g, b) : g[x] = FINAL \/ g[x] > 0
  BY <1>5, <1>6
<1>8. \A k \in 0..n - 1 : \E x \in Chain(g, b) : st[x] = k
  <2> DEFINE Missed == {k \in 0..n - 1 : ~ \E x \in Chain(g, b) : st[x] = k}
  <2> SUFFICES ASSUME Missed # {} PROVE FALSE
    OBVIOUS
  <2>1. PICK k \in Missed : \A j \in Missed : k <= j
    <3>1. Missed \subseteq Nat
      OBVIOUS
    <3> HIDE DEF Missed
    <3> QED BY <3>1, NatMin
  <2>2. k # 0
    BY <1>1, <1>2, <1>4, <2>1, ChainLeast
  <2>3. k - 1 \in 0..n - 1 /\ k - 1 \notin Missed /\ k - 1 < n - 1
    <3>1. k \in 0..n - 1
      BY <2>1
    <3> HIDE DEF Missed
    <3> QED BY <2>1, <2>2, <3>1
  <2>4. PICK x \in Chain(g, b) : st[x] = k - 1
    BY <2>3
  <2>5. g[x] = f[x] /\ f[x] > 0 /\ st[f[x]] = k
    BY <1>5, <1>6, <2>3, <2>4
  <2>6. f[x] \in Chain(g, b)
    BY <1>1, <2>4, <2>5, ChainLeast DEF Closed
  <2> QED BY <2>1, <2>5, <2>6
<1>9. Ends(g, b)
  <2>1. PICK x \in Chain(g, b) : st[x] = n - 1
    BY <1>8
  <2> QED BY <1>5, <1>6, <2>1 DEF Ends
<1>10. ChainLength(g, b) >= n
  BY <1>1, <1>8, ChainCount, AtLeast DEF ChainLength
<1>11. Chain(g, b) \subseteq Chain(f, b)
  BY <1>6 DEF K
<1>12. \A x \in Chain(f, b) :
           Steps(f, b, x) < n => x \in Chain(g, b) /\ Steps(g, b, x) = Steps(f, b, x)
  BY <1>1, <1>9, <1>13, StepsSame
<1> QED
  BY <1>3, <1>7, <1>9, <1>10, <1>11, <1>12, <1>13 DEF g

\* A set of naturals with c members or more has c lowest ones.
Lowest(S, c) == {x \in S : Cardinality({y \in S : y < x}) < c}

LEMMA LowestCount ==
  ASSUME NEW S, S \subseteq Nat, IsFiniteSet(S), NEW c \in Nat, Cardinality(S) >= c
  PROVE  Cardinality(Lowest(S, c)) >= c
<1> DEFINE below(x) == {y \in S : y < x}
           Bad == {k \in 0..c : ~(Cardinality(Lowest(S, k)) >= k)}
<1>1. \A k : IsFiniteSet(Lowest(S, k)) /\ Cardinality(Lowest(S, k)) \in Nat
  BY FS_Subset, FS_CardinalityType DEF Lowest
<1>2. \A x : below(x) \in SUBSET S /\ IsFiniteSet(below(x)) /\ Cardinality(below(x)) \in Nat
  BY FS_Subset, FS_CardinalityType
<1>3. Cardinality(S) \in Nat
  BY FS_CardinalityType
<1>4. Bad = {}
  <2> SUFFICES ASSUME Bad # {} PROVE FALSE
    OBVIOUS
  <2>1. PICK k \in Bad : \A j \in Bad : k <= j
    <3>1. Bad \subseteq Nat
      OBVIOUS
    <3> HIDE DEF Bad
    <3> QED BY <3>1, NatMin
  <2>2. k \in 0..c /\ ~(Cardinality(Lowest(S, k)) >= k) /\ k # 0
    BY <1>1, <2>1
  <2>3. k - 1 \in 0..c /\ k - 1 \notin Bad
    <3> HIDE DEF Bad
    <3> QED BY <2>1, <2>2
  <2>4. Cardinality(Lowest(S, k - 1)) >= k - 1
    BY <2>3
  <2>5. Lowest(S, k - 1) \subseteq Lowest(S, k)
    <3> HIDE DEF Bad
    <3> QED BY <1>2, <2>2, SMTT(60) DEF Lowest
  <2>6. Cardinality(Lowest(S, k - 1)) = k - 1
    <3>1. Cardinality(Lowest(S, k - 1)) <= Cardinality(Lowest(S, k))
      BY <1>1, <2>5, FS_Subset
    <3> HIDE DEF Bad
    <3> QED BY <1>1, <2>2, <2>4, <3>1
  <2>7. S \ Lowest(S, k - 1) # {}
    <3>1. Lowest(S, k - 1) \subseteq S
      BY DEF Lowest
    <3>2. Cardinality(S) # k - 1
      BY <1>3, <2>2
    <3> QED BY <2>6, <3>1, <3>2
  <2>8. PICK m \in S \ Lowest(S, k - 1) : \A y \in S \ Lowest(S, k - 1) : m <= y
    <3>1. S \ Lowest(S, k - 1) \subseteq Nat
      OBVIOUS
    <3> QED BY <2>7, <3>1, NatMin
  <2>9. below(m) \subseteq Lowest(S, k - 1)
    <3> SUFFICES ASSUME NEW y \in S, y < m, y \notin Lowest(S, k - 1) PROVE FALSE
      OBVIOUS
    <3>1. m <= y /\ m \in Nat /\ y \in Nat
      BY <2>8
    <3> QED BY <3>1
  <2>10. Cardinality(below(m)) <= k - 1
    BY <1>1, <2>6, <2>9, FS_Subset
  <2>11. m \in Lowest(S, k)
    <3>1. Cardinality(below(m)) < k
      BY <1>2, <2>2, <2>10
    <3> QED BY <2>8, <3>1 DEF Lowest
  <2>12. Cardinality(Lowest(S, k - 1) \cup {m}) = k
    <3>1. Cardinality(Lowest(S, k - 1) \cup {m}) = Cardinality(Lowest(S, k - 1)) + 1
      BY <1>1, <2>8, FS_AddElement
    <3> QED BY <2>2, <2>6, <3>1
  <2>13. Cardinality(Lowest(S, k - 1) \cup {m}) <= Cardinality(Lowest(S, k))
    <3>1. Lowest(S, k - 1) \cup {m} \in SUBSET Lowest(S, k)
      BY <2>5, <2>11
    <3> QED BY <1>1, <3>1, FS_Subset
  <2> QED BY <1>1, <2>2, <2>12, <2>13
<1> QED
  BY <1>4

\* Growing a chain that ends by c free blocks leaves one that ends and is c
\* longer at least; only free blocks and the chain's own change.
LEMMA ExtendChain ==
  ASSUME NEW f, Table(f), NEW b \in Usable, Ends(f, b),
         \A x \in Chain(f, b) : f[x] = FINAL \/ f[x] > 0,
         NEW c \in Nat \ {0}, HasFree(f, c)
  PROVE  LET g == Extend(f, b, c)
         IN  /\ Chain(g, b) \subseteq Chain(f, b) \cup FreeBlocks(f) /\ Ends(g, b)
             /\ \A x \in Chain(g, b) : g[x] = FINAL \/ g[x] > 0
             /\ ChainLength(g, b) >= c + 1
             /\ \A x \in Block : x \notin Chain(f, b) /\ f[x] # 0 => g[x] = f[x]
             /\ \A x \in Block : x \notin Chain(g, b) => g[x] = f[x]
             /\ \A x \in Chain(f, b) : x \in Chain(g, b) /\ Steps(g, b, x) = Steps(f, b, x)
<1> DEFINE g == Extend(f, b, c)
           taken == Lowest(FreeBlocks(f), c)
           next(x) == {y \in taken : y > x}
           least(S) == CHOOSE y \in S : \A z \in S : y <= z
<1>1. Table(g) /\ b \in Start
  BY ExtendTable DEF Start
<1>2. /\ Chain(f, b) \subseteq Usable /\ b \in Chain(f, b) /\ Usable \subseteq Block
      /\ Closed(f, Chain(f, b))
  BY <1>1, ChainLeast, BlockFacts
<1>3. /\ FreeBlocks(f) \subseteq Usable /\ FreeBlocks(f) \subseteq Nat /\ IsFiniteSet(FreeBlocks(f))
      /\ taken \subseteq FreeBlocks(f) /\ IsFiniteSet(taken)
  BY FreeBlockFacts, BlockFacts, FS_Subset, ZenonT(60) DEF Lowest
<1>4. Cardinality(taken) >= c /\ Cardinality(taken) \in Nat
  BY <1>3, LowestCount, FS_CardinalityType DEF HasFree
<1>5. taken # {} /\ taken \cap Chain(f, b) = {}
  <2>1. taken # {}
    BY <1>4, FS_EmptySet
  <2>2. \A x \in taken : f[x] = 0
    BY <1>3 DEF FreeBlocks
  <2> QED BY <2>1, <2>2 DEF FINAL
<1>6. \A S : S \subseteq taken /\ S # {} => least(S) \in S /\ \A z \in S : least(S) <= z
  <2> SUFFICES ASSUME NEW S, S \subseteq taken, S # {}
               PROVE  \E y \in S : \A z \in S : y <= z
    OBVIOUS
  <2> QED BY <1>3, NatMin
<1>7. g = [x \in Block |->
             CASE x \in taken -> IF next(x) = {} THEN FINAL ELSE least(next(x))
               [] x \in Chain(f, b) /\ f[x] <= 0 /\ taken # {} -> least(taken)
               [] OTHER -> f[x]]
  BY DEF Extend, Lowest
<1> DEFINE first == least(taken)
<1>8. first \in taken /\ \A z \in taken : first <= z
  BY <1>5, <1>6
<1> HIDE DEF g, taken, least, first
<1>9. ASSUME NEW x \in taken
      PROVE  /\ next(x) = {} => g[x] = FINAL
             /\ next(x) # {} => g[x] \in next(x) /\ \A z \in next(x) : g[x] <= z
  <2>1. x \in Block /\ x \in taken
    BY <1>2, <1>3
  <2>2. next(x) \subseteq taken
    OBVIOUS
  <2> HIDE DEF next
  <2> DEFINE link(y) == CASE y \in taken -> IF next(y) = {} THEN FINAL ELSE least(next(y))
                         [] y \in Chain(f, b) /\ f[y] <= 0 /\ taken # {} -> least(taken)
                         [] OTHER -> f[y]
  <2>3. g[x] = IF next(x) = {} THEN FINAL ELSE least(next(x))
    <3>1. link(x) = IF next(x) = {} THEN FINAL ELSE least(next(x))
      BY <1>5, <2>1
    <3>2. g = [y \in Block |-> link(y)]
      BY <1>7
    <3> HIDE DEF link
    <3>3. g[x] = link(x)
      BY <2>1, <3>2
    <3> QED BY <3>1, <3>3
  <2> QED BY <1>6, <2>2, <2>3
<1>10. \A x \in Chain(f, b) : g[x] = IF f[x] = FINAL THEN first ELSE f[x]
  <2> SUFFICES ASSUME NEW x \in Chain(f, b) PROVE g[x] = IF f[x] = FINAL THEN first ELSE f[x]
    OBVIOUS
  <2>1. x \in Block /\ x \notin taken /\ f[x] \in Link
    BY <1>2, <1>5 DEF Table
  <2>2. f[x] = FINAL => f[x] <= 0
    BY DEF FINAL
  <2>3. f[x] > 0 => ~(f[x] <= 0) /\ f[x] # FINAL
    BY <2>1, BlockFacts DEF Link, FINAL, UNUSABLE
  <2> QED BY <1>5, <1>7, <2>1, <2>2, <2>3 DEF first
<1>11. \A x \in Block : x \notin Chain(f, b) /\ f[x] # 0 => g[x] = f[x]
  <2> SUFFICES ASSUME NEW x \in Block, x \notin Chain(f, b), f[x] # 0 PROVE g[x] = f[x]
    OBVIOUS
  <2>1. x \notin taken
    BY <1>3 DEF FreeBlocks
  <2> QED BY <1>7, <2>1
<1>12. Chain(g, b) \subseteq Chain(f, b) \cup taken
  <2> DEFINE S == Chain(f, b) \cup taken
  <2>1. ASSUME NEW x \in S, g[x] > 0 PROVE g[x] \in S
    <3>1. CASE x \in Chain(f, b)
      BY <1>2, <1>8, <1>10, <2>1, <3>1 DEF Closed
    <3>2. CASE x \in taken
      BY <1>9, <2>1, <3>2 DEF FINAL
    <3> QED BY <3>1, <3>2
  <2>2. b \in S
    BY <1>2
  <2> HIDE DEF S
  <2>3. Chain(g, b) \subseteq S
    BY <1>1, <2>1, <2>2, ChainWithin
  <2> QED BY <2>3 DEF S
<1>13. /\ b \in Chain(g, b) /\ Closed(g, Chain(g, b)) /\ IsFiniteSet(Chain(g, b))
       /\ \A x \in taken : x \in Nat /\ x > 0
  <2>1. 0 \notin taken
    BY <1>3, BlockFacts
  <2> QED BY <1>1, <1>3, <2>1, ChainLeast, ChainCount
<1>14. Chain(f, b) \subseteq Chain(g, b)
  <2>1. \A x \in Chain(f, b) : x \in Chain(g, b) /\ f[x] > 0 => f[x] \in Chain(g, b)
    BY <1>10, <1>13 DEF Closed, FINAL
  <2> QED BY <1>1, <1>13, <2>1, ChainWithin
<1>15. taken \subseteq Chain(g, b)
  <2> DEFINE Missed == taken \ Chain(g, b)
  <2> SUFFICES ASSUME Missed # {} PROVE FALSE
    OBVIOUS
  <2>1. PICK m \in Missed : \A y \in Missed : m <= y
    BY <1>13, NatMin
  <2>2. first \in Chain(g, b)
    <3>1. PICK z \in Chain(f, b) : f[z] = FINAL
      BY DEF Ends
    <3>2. g[z] = first /\ first > 0
      BY <1>8, <1>10, <1>13, <3>1
    <3> QED BY <1>13, <1>14, <3>1, <3>2 DEF Closed
  <2> DEFINE before == {y \in taken : y < m}
  <2>3. before \in SUBSET Nat /\ before # {} /\ \A y \in before : y <= m
    <3>1. first < m
      BY <1>8, <1>13, <2>1, <2>2
    <3> QED BY <1>8, <1>13, <3>1
  <2>4. PICK p \in before : \A y \in before : p >= y
    <3>1. before \subseteq 0..m /\ m \in Nat
      BY <1>13, <2>3
    <3>2. Max(before) \in before /\ \A y \in before : Max(before) >= y
      <4> HIDE DEF before
      <4> QED BY ONLY <2>3, <3>1, MaxFact
    <3> QED BY <3>2
  <2>5. p \in taken /\ p \in Chain(g, b) /\ p \in Nat /\ m \in Nat
    <3>1. p \in taken /\ p < m /\ p \in Nat /\ m \in Nat
      BY <1>13, <2>4
    <3> QED BY <2>1, <3>1
  <2>6. m \in next(p) /\ \A y \in next(p) : y >= m
    BY <1>13, <2>1, <2>4, <2>5
  <2>7. g[p] = m
    <3>1. g[p] \in next(p) /\ g[p] <= m
      BY <1>9, <2>5, <2>6
    <3>2. g[p] >= m /\ g[p] \in Nat
      BY <1>13, <2>6, <3>1
    <3> QED BY <2>5, <3>1, <3>2
  <2>8. m > 0
    BY <1>13
  <2> QED BY <1>13, <2>5, <2>7, <2>8 DEF Closed
<1>16. \A x \in Chain(g, b) : g[x] = FINAL \/ g[x] > 0
  <2>1. ASSUME NEW x \in taken PROVE g[x] = FINAL \/ g[x] > 0
    BY <1>9, <1>13
  <2>2. ASSUME NEW x \in Chain(f, b) PROVE g[x] = FINAL \/ g[x] > 0
    BY <1>8, <1>10, <1>13
  <2> QED BY <1>12, <2>1, <2>2
<1>17. Ends(g, b)
  <2>1. PICK m \in taken : \A y \in taken : m >= y
    <3>1. taken \subseteq 0..BlockCount /\ BlockCount \in Nat
      BY <1>3, GeometryAssumption DEF Usable
    <3>2. Max(taken) \in taken /\ \A y \in taken : Max(taken) >= y
      BY ONLY <1>5, <3>1, MaxFact
    <3> QED BY <3>2
  <2>2. next(m) = {}
    BY <1>13, <2>1
  <2> QED BY <1>9, <1>15, <2>1, <2>2 DEF Ends
<1>18. ChainLength(g, b) >= c + 1
  <2>1. b \notin taken
    BY <1>2, <1>5
  <2>2. Cardinality(taken \cup {b}) = Cardinality(taken) + 1
    BY <1>3, <2>1, FS_AddElement
  <2>3. taken \cup {b} \in SUBSET Chain(g, b)
    BY <1>13, <1>15
  <2>4. Cardinality(taken \cup {b}) <= Cardinality(Chain(g, b)) /\ Cardinality(Chain(g, b)) \in Nat
    BY <1>13, <2>3, FS_Subset, FS_CardinalityType
  <2> QED BY <1>4, <2>2, <2>4 DEF ChainLength
<1>19. \A x \in Block : x \notin Chain(g, b) => g[x] = f[x]
  BY <1>7, <1>14, <1>15
<1>20. \A x \in Chain(f, b) : Steps(g, b, x) = Steps(f, b, x)
  <2> DEFINE n == ChainLength(f, b)
  <2>1. n \in Nat
    BY <1>1, ChainCount
  <2>2. \A x \in Chain(f, b) : Steps(f, b, x) \in Nat /\ (f[x] = FINAL => Steps(f, b, x) = n - 1)
    BY <1>1, StepsNext
  <2>3. \A x \in Chain(f, b) : Steps(f, b, x) + 1 < n => g[x] = f[x]
    <3> HIDE DEF n
    <3> SUFFICES ASSUME NEW x \in Chain(f, b), Steps(f, b, x) + 1 < n PROVE g[x] = f[x]
      OBVIOUS
    <3>1. f[x] # FINAL
      BY <2>1, <2>2
    <3> QED BY <1>10, <3>1
  <2>4. \A x \in Chain(f, b) : Steps(f, b, x) < n
    <3> SUFFICES ASSUME NEW x \in Chain(f, b) PROVE Steps(f, b, x) < n
      OBVIOUS
    <3>1. x \in Start
      BY <1>1, ChainPart
    <3>2. ChainLength(f, x) \in Nat /\ ChainLength(f, x) >= 1
      BY <3>1, ChainCount
    <3> QED BY <2>1, <3>2 DEF Steps
  <2> HIDE DEF n
  <2>5. \A x \in Chain(f, b) : Steps(f, b, x) < n => Steps(g, b, x) = Steps(f, b, x)
    BY <1>1, <1>17, <2>1, <2>3, StepsSame
  <2> QED BY <2>4, <2>5
<1> QED
  BY <1>3, <1>11, <1>12, <1>14, <1>16, <1>17, <1>18, <1>19, <1>20 DEF g

-----------------------------------------------------------------------------
(* The invariant of the whole disk.  It speaks of every entry in use, whether *)
(* or not a path leads to it, so that no step has to say what paths lead where. *)

\* The cells whose entry is that of a node, and the root's.
Used(d)    == {l \in Loc : d[l] \notin Data /\ d[l].name \in Name /\ d[l].start # 0}
Holders(d) == {RootLoc} \cup Used(d)
Dirs(d)    == {l \in Holders(d) : d[l].type = "Directory"}

Rooted(d) ==
    /\ d[RootLoc] \in Entry /\ d[RootLoc] \notin Data
    /\ d[RootLoc].start = StartBlock /\ d[RootLoc].type = "Directory"

\* Every chain consists of blocks in use and ends.
Sealed(f, d) ==
    \A l \in Holders(d) :
        /\ \A b \in Chain(f, d[l].start) : f[b] = FINAL \/ f[b] > 0
        /\ Ends(f, d[l].start)

\* No block is in two chains, and every chain is long enough.
Separate(f, d) ==
    \A l, m \in Holders(d), b \in Block :
        b \in Chain(f, d[l].start) /\ b \in Chain(f, d[m].start) => l = m
Long(f, d) ==
    \A l \in Holders(d) : d[l].length <= EntriesPerBlock * ChainLength(f, d[l].start)

\* A directory is one block, with a header that is no data.
Compact(f, d) == \A o \in Dirs(d) : f[d[o].start] = FINAL /\ d[o].length >= 1
Headed(d) ==
    \A o \in Dirs(d) :
        /\ \A i \in 0..d[o].length - 1 : d[<<d[o].start, i>>] \notin Data
        /\ o # RootLoc => d[<<d[o].start, 0>>].name = ".."

\* Every node is in a directory, behind the header, where no other has its name.
Owned(d) ==
    \A l \in Used(d) : \E o \in Dirs(d) : l[1] = d[o].start /\ l[2] \in 1..d[o].length - 1
Unique(d) ==
    \A l, m \in Used(d) : l[1] = m[1] /\ d[l].name = d[m].name => l = m

\* The other slots of a directory are free, but for the root's copy of its entry.
Filled(d) ==
    \A o \in Dirs(d) : \A i \in 1..d[o].length - 1 :
        LET k == <<d[o].start, i>> IN k \in Used(d) \/ d[k].start = 0 \/ k = RootUp

Tree(f, d) ==
    /\ Table(f) /\ d \in [Loc -> Cell] /\ Rooted(d)
    /\ Sealed(f, d) /\ Separate(f, d) /\ Long(f, d)
    /\ Compact(f, d) /\ Headed(d) /\ Owned(d) /\ Unique(d) /\ Filled(d)

\* What an entry in use is.
LEMMA HolderFacts ==
  ASSUME NEW f, NEW d, Tree(f, d), NEW l \in Holders(d)
  PROVE  /\ l \in Loc /\ d[l] \in Entry /\ d[l] \notin Data
         /\ d[l].start \in Usable /\ d[l].start \in Start /\ d[l].start \in Block
         /\ d[l].start \in Chain(f, d[l].start) /\ Chain(f, d[l].start) \subseteq Usable
         /\ Chain(f, d[l].start) \subseteq Block
         /\ d[l].length \in Nat
         /\ l # RootLoc => l \in Used(d) /\ d[l].start # StartBlock
<1>1. l \in Loc /\ d[l] \in Entry /\ d[l] \notin Data
  BY BlockFacts DEF Tree, Rooted, Holders, Used, Cell
<1>2. d[l].start \in Usable /\ d[l].length \in Nat
  BY <1>1, BlockFacts DEF Tree, Rooted, Holders, Used, Entry
<1>3. d[l].start \in Start /\ d[l].start \in Block
  BY <1>2, BlockFacts DEF Start
<1>4. d[l].start \in Chain(f, d[l].start) /\ Chain(f, d[l].start) \subseteq Usable
  BY <1>2, <1>3, ChainLeast DEF Tree
<1>5. ASSUME l # RootLoc, d[l].start = StartBlock PROVE FALSE
  <2>1. d[RootLoc].start = StartBlock /\ RootLoc \in Holders(d)
    BY DEF Tree, Rooted, Holders
  <2> QED BY <1>3, <1>4, <1>5, <2>1 DEF Tree, Separate
<1> QED
  BY <1>1, <1>2, <1>3, <1>4, <1>5, BlockFacts DEF Holders

\* A directory is as long as its one block at most.
LEMMA DirFacts ==
  ASSUME NEW f, NEW d, Tree(f, d), NEW o \in Dirs(d)
  PROVE  /\ o \in Holders(d) /\ d[o].type = "Directory"
         /\ Chain(f, d[o].start) = {d[o].start} /\ ChainLength(f, d[o].start) = 1
         /\ d[o].length \in 1..EntriesPerBlock
         /\ f[d[o].start] = FINAL
<1>1. o \in Holders(d) /\ f[d[o].start] = FINAL /\ d[o].length >= 1 /\ d[o].type = "Directory"
  BY DEF Tree, Compact, Dirs
<1>2. Chain(f, d[o].start) = {d[o].start} /\ ChainLength(f, d[o].start) = 1
  <2>1. f[d[o].start] \in {FINAL, UNUSABLE, 0}
    BY <1>1
  <2>2. Chain(f, d[o].start) = {d[o].start}
    BY <2>1, ChainLast
  <2> QED BY <2>2, FS_Singleton DEF ChainLength
<1>3. d[o].length <= EntriesPerBlock /\ d[o].length \in Nat
  <2>1. d[o].length <= EntriesPerBlock * 1
    BY <1>1, <1>2 DEF Tree, Long
  <2> QED BY <1>1, <2>1, HolderFacts, GeometryAssumption
<1> QED
  BY <1>1, <1>2, <1>3, GeometryAssumption

\* Blocks that no chain has may get any link.
LEMMA TableElsewhere ==
  ASSUME NEW f, NEW d, Tree(f, d), NEW g, Table(g),
         \A l \in Holders(d) : \A x \in Chain(f, d[l].start) : g[x] = f[x]
  PROVE  Tree(g, d)
<1>1. Table(f) /\ \A l \in Holders(d) : d[l].start \in Start /\ d[l].start \in Chain(f, d[l].start)
  BY HolderFacts DEF Tree
<1>2. \A l \in Holders(d) : Chain(g, d[l].start) = Chain(f, d[l].start)
  BY <1>1, ChainSame
<1>3. Sealed(g, d)
  BY <1>2 DEF Tree, Sealed, Ends
<1>4. Separate(g, d)
  BY <1>2 DEF Tree, Separate
<1>5. Long(g, d)
  BY <1>2 DEF Tree, Long, ChainLength
<1>6. Compact(g, d)
  BY <1>1 DEF Tree, Compact, Dirs
<1> QED
  BY <1>3, <1>4, <1>5, <1>6 DEF Tree

\* A cell in a slot of a directory.
Within(d, o, x) == x[1] = d[o].start /\ x[2] < d[o].length

\* Cells that hold no node may be written, if a directory's slots get no data
\* and its header stays one.
LEMMA Scribble ==
  ASSUME NEW f, NEW d, Tree(f, d), NEW d2 \in [Loc -> Cell],
         \A x \in Loc : d2[x] # d[x] =>
            /\ x \notin Holders(d) /\ x \notin Used(d2)
            /\ \A o \in Dirs(d) : Within(d, o, x) =>
                  /\ d2[x] \notin Data /\ (d2[x].start = 0 \/ x = RootUp)
                  /\ x[2] = 0 /\ o # RootLoc => d2[x].name = ".."
  PROVE  Tree(f, d2) /\ Holders(d2) = Holders(d) /\ \A l \in Holders(d) : d2[l] = d[l]
<1>1. Used(d2) = Used(d)
  BY DEF Used, Holders
<1>2. Holders(d2) = Holders(d)
  BY <1>1 DEF Holders
<1>3. \A l \in Holders(d) : l \in Loc /\ d2[l] = d[l]
  BY HolderFacts
<1>4. Dirs(d2) = Dirs(d)
  BY <1>2, <1>3 DEF Dirs
<1>5. Rooted(d2)
  BY <1>3 DEF Tree, Rooted, Holders
<1>6. Sealed(f, d2)
  BY <1>2, <1>3 DEF Tree, Sealed
<1>7. Separate(f, d2)
  BY <1>2, <1>3 DEF Tree, Separate
<1>8. Long(f, d2)
  BY <1>2, <1>3 DEF Tree, Long
<1>9. Compact(f, d2)
  BY <1>2, <1>3, <1>4 DEF Tree, Compact, Dirs
<1>10. Headed(d2)
  <2> SUFFICES ASSUME NEW o \in Dirs(d)
               PROVE  /\ \A i \in 0..d[o].length - 1 : d2[<<d[o].start, i>>] \notin Data
                      /\ o # RootLoc => d2[<<d[o].start, 0>>].name = ".."
    BY <1>3, <1>4, ZenonT(90) DEF Headed, Dirs
  <2>1. d[o].start \in Block /\ d[o].length \in 1..EntriesPerBlock
    BY DirFacts, HolderFacts
  <2>2. /\ \A i \in 0..d[o].length - 1 : d[<<d[o].start, i>>] \notin Data
        /\ o # RootLoc => d[<<d[o].start, 0>>].name = ".."
    BY DEF Tree, Headed
  <2>3. ASSUME NEW i \in 0..d[o].length - 1
        PROVE  /\ d2[<<d[o].start, i>>] \notin Data
               /\ i = 0 /\ o # RootLoc => d2[<<d[o].start, i>>].name = ".."
    <3> DEFINE x == <<d[o].start, i>>
    <3>1. x \in Loc /\ x[1] = d[o].start /\ x[2] = i /\ i < d[o].length
      BY <2>1, GeometryAssumption DEF Loc
    <3>2. d[x] \notin Data /\ (i = 0 /\ o # RootLoc => d[x].name = "..")
      BY <2>2
    <3> HIDE DEF x
    <3>3. CASE d2[x] = d[x]
      BY <3>2, <3>3 DEF x
    <3>4. CASE d2[x] # d[x]
      BY <3>1, <3>4 DEF Within, x
    <3> QED BY <3>3, <3>4
  <2>4. 0 \in 0..d[o].length - 1
    BY <2>1, GeometryAssumption
  <2> QED BY <2>3, <2>4
<1>11. Owned(d2)
  BY <1>1, <1>3, <1>4 DEF Tree, Owned, Dirs
<1>12. Unique(d2)
  BY <1>1, <1>3 DEF Tree, Unique, Holders
<1>13. Filled(d2)
  <2> SUFFICES ASSUME NEW o \in Dirs(d), NEW i \in 1..d[o].length - 1
               PROVE  LET k == <<d[o].start, i>>
                      IN  k \in Used(d2) \/ d2[k].start = 0 \/ k = RootUp
    BY <1>3, <1>4 DEF Filled, Dirs
  <2>1. d[o].start \in Block /\ d[o].length \in 1..EntriesPerBlock
    BY DirFacts, HolderFacts
  <2> DEFINE k == <<d[o].start, i>>
  <2>2. k \in Loc /\ k[1] = d[o].start /\ k[2] = i /\ i < d[o].length
    BY <2>1, GeometryAssumption DEF Loc
  <2>3. k \in Used(d) \/ d[k].start = 0 \/ k = RootUp
    BY DEF Tree, Filled
  <2> HIDE DEF k
  <2>4. k \in Used(d2) \/ d2[k].start = 0 \/ k = RootUp
    <3>1. CASE d2[k] = d[k]
      BY <1>1, <2>3, <3>1
    <3>2. CASE d2[k] # d[k]
      BY <2>2, <3>2 DEF Within
    <3> QED BY <3>1, <3>2
  <2> QED BY <2>4 DEF k
<1> QED
  BY <1>2, <1>3, <1>5, <1>6, <1>7, <1>8, <1>9, <1>10, <1>11, <1>12, <1>13 DEF Tree

\* Where a node is: behind the header of a directory, so that it is not the root.
LEMMA OwnerFacts ==
  ASSUME NEW f, NEW d, Tree(f, d), NEW l \in Used(d)
  PROVE  /\ l \in Holders(d) /\ l # RootLoc /\ l \in Loc /\ l[2] >= 1 /\ l[2] \in Nat
         /\ d[l].name \in Name
         /\ \E o \in Dirs(d) : Within(d, o, l)
<1>1. PICK o \in Dirs(d) : l[1] = d[o].start /\ l[2] \in 1..d[o].length - 1
  BY DEF Tree, Owned
<1>2. d[o].length \in 1..EntriesPerBlock
  BY DirFacts
<1>3. l[2] >= 1 /\ l[2] < d[o].length /\ l[2] \in Nat
  BY <1>1, <1>2, GeometryAssumption
<1>4. RootLoc[2] = 0
  BY DEF RootLoc
<1> QED
  BY <1>1, <1>3, <1>4 DEF Within, Holders, Used

\* A slot of a directory is a cell.
LEMMA SlotLoc ==
  ASSUME NEW f, NEW d, Tree(f, d), NEW o \in Dirs(d), NEW i \in 0..d[o].length - 1
  PROVE  <<d[o].start, i>> \in Loc /\ i \in 0..EntriesPerBlock - 1
<1>1. d[o].start \in Block /\ d[o].length \in 1..EntriesPerBlock
  BY DirFacts, HolderFacts
<1> QED
  BY <1>1, GeometryAssumption DEF Loc

\* A node is taken out: a file, or a directory that no node is in.
LEMMA Remove ==
  ASSUME NEW f, NEW d, Tree(f, d), NEW l \in Used(d), NEW d2 \in [Loc -> Cell],
         d[l].type = "Directory" => \A m \in Used(d) : m[1] # d[l].start,
         \A x \in Loc : x # l => d2[x] = d[x],
         d2[l] \notin Data, d2[l].start = 0
  PROVE  Tree(f, d2) /\ Used(d2) = Used(d) \ {l} /\ Holders(d2) = Holders(d) \ {l}
<1>1. l \in Loc /\ l # RootLoc /\ l \in Holders(d) /\ l[2] >= 1
  BY OwnerFacts
<1>2. Used(d2) = Used(d) \ {l}
  BY DEF Used
<1>3. Holders(d2) = Holders(d) \ {l}
  BY <1>1, <1>2 DEF Holders
<1>4. \A m \in Holders(d2) : m \in Holders(d) /\ m \in Loc /\ d2[m] = d[m]
  BY <1>3, HolderFacts
<1>5. Dirs(d2) = Dirs(d) \ {l}
  BY <1>3, <1>4 DEF Dirs
<1>6. Rooted(d2)
  BY <1>3, <1>4, <1>1 DEF Tree, Rooted, Holders
<1>7. Sealed(f, d2) /\ Separate(f, d2) /\ Long(f, d2) /\ Compact(f, d2)
  BY <1>4, <1>5 DEF Tree, Sealed, Separate, Long, Compact, Dirs
<1>8. Headed(d2)
  <2> SUFFICES ASSUME NEW o \in Dirs(d), o # l
               PROVE  /\ \A i \in 0..d[o].length - 1 : d2[<<d[o].start, i>>] \notin Data
                      /\ o # RootLoc => d2[<<d[o].start, 0>>].name = ".."
    BY <1>4, <1>5 DEF Headed, Dirs
  <2>1. /\ \A i \in 0..d[o].length - 1 : d[<<d[o].start, i>>] \notin Data
        /\ o # RootLoc => d[<<d[o].start, 0>>].name = ".."
    BY DEF Tree, Headed
  <2>2. \A i \in 0..d[o].length - 1 : <<d[o].start, i>> \in Loc
    BY SlotLoc
  <2>3. 0 \in 0..d[o].length - 1
    BY DirFacts, GeometryAssumption
  <2>4. l # <<d[o].start, 0>>
    BY <1>1
  <2> QED BY <2>1, <2>2, <2>3, <2>4
<1>9. Owned(d2)
  <2> SUFFICES ASSUME NEW m \in Used(d2)
               PROVE  \E o \in Dirs(d2) : m[1] = d2[o].start /\ m[2] \in 1..d2[o].length - 1
    BY DEF Owned
  <2>1. PICK o \in Dirs(d) : m[1] = d[o].start /\ m[2] \in 1..d[o].length - 1
    BY <1>2 DEF Tree, Owned
  <2>2. o # l
    BY <1>2, <2>1 DEF Dirs
  <2> QED BY <1>4, <1>5, <2>1, <2>2 DEF Dirs
<1>10. Unique(d2)
  BY <1>2, <1>4 DEF Tree, Unique, Holders
<1>11. Filled(d2)
  <2> SUFFICES ASSUME NEW o \in Dirs(d), o # l, NEW i \in 1..d[o].length - 1
               PROVE  LET k == <<d[o].start, i>>
                      IN  k \in Used(d2) \/ d2[k].start = 0 \/ k = RootUp
    BY <1>4, <1>5 DEF Filled, Dirs
  <2> DEFINE k == <<d[o].start, i>>
  <2>1. k \in Loc
    <3>1. d[o].length \in Nat
      BY HolderFacts DEF Dirs
    <3>2. i \in 0..d[o].length - 1
      BY <3>1
    <3> QED BY <3>2, SlotLoc
  <2>2. k \in Used(d) \/ d[k].start = 0 \/ k = RootUp
    BY DEF Tree, Filled
  <2> HIDE DEF k
  <2>3. k \in Used(d2) \/ d2[k].start = 0 \/ k = RootUp
    BY <1>2, <2>1, <2>2
  <2> QED BY <2>3 DEF k
<1> QED
  BY <1>2, <1>3, <1>6, <1>7, <1>8, <1>9, <1>10, <1>11 DEF Tree

\* A node or a directory gets another length.
LEMMA SetLength ==
  ASSUME NEW f, NEW d, Tree(f, d), NEW l \in Holders(d), NEW d2 \in [Loc -> Cell],
         NEW n \in Nat, n <= EntriesPerBlock * ChainLength(f, d[l].start),
         d[l].type = "Directory" =>
            /\ n >= d[l].length
            /\ \A i \in d[l].length..n - 1 :
                  d[<<d[l].start, i>>] \notin Data /\ d[<<d[l].start, i>>].start = 0,
         \A x \in Loc : x # l => d2[x] = d[x],
         d2[l] = [d[l] EXCEPT !.length = n]
  PROVE  Tree(f, d2) /\ Used(d2) = Used(d) /\ Holders(d2) = Holders(d) /\ Dirs(d2) = Dirs(d)
<1>1. l \in Loc /\ d[l] \in Entry /\ d[l] \notin Data
  BY HolderFacts
<1>2. /\ d2[l].name = d[l].name /\ d2[l].type = d[l].type /\ d2[l].start = d[l].start
      /\ d2[l].length = n /\ d2[l] \in Entry /\ d2[l] \notin Data
  <2>1. d2[l] \in Entry
    BY <1>1 DEF Entry
  <2> QED BY <1>1, <2>1, DataAssumption DEF Entry
<1>3. \A x \in Loc : /\ d2[x] \in Data <=> d[x] \in Data
                     /\ d[x] \notin Data => d2[x].name = d[x].name /\ d2[x].start = d[x].start
                     /\ d[x] \notin Data => d2[x].type = d[x].type
  BY <1>1, <1>2
<1>4. Used(d2) = Used(d)
  BY <1>3 DEF Used
<1>5. Holders(d2) = Holders(d)
  BY <1>4 DEF Holders
<1>6. \A m \in Holders(d) : m \in Loc /\ d[m] \notin Data
  BY HolderFacts
<1>7. Dirs(d2) = Dirs(d)
  BY <1>3, <1>5, <1>6 DEF Dirs
<1>8. Rooted(d2)
  <2>1. RootLoc \in Loc /\ d[RootLoc] \in Entry /\ d[RootLoc] \notin Data
        /\ d[RootLoc].start = StartBlock /\ d[RootLoc].type = "Directory"
    BY BlockFacts DEF Tree, Rooted
  <2>2. CASE RootLoc = l
    BY <1>2, <2>1, <2>2 DEF Rooted
  <2>3. CASE RootLoc # l
    BY <2>1, <2>3 DEF Rooted
  <2> QED BY <2>2, <2>3
<1>9. Sealed(f, d2) /\ Separate(f, d2)
  BY <1>3, <1>5, <1>6 DEF Tree, Sealed, Separate
<1>10. Long(f, d2)
  BY <1>2, <1>5, <1>6 DEF Tree, Long
<1>11. Compact(f, d2)
  <2> SUFFICES ASSUME NEW o \in Dirs(d) PROVE f[d2[o].start] = FINAL /\ d2[o].length >= 1
    BY <1>7 DEF Compact
  <2>1. o \in Loc /\ f[d[o].start] = FINAL /\ d[o].length \in 1..EntriesPerBlock
    BY DirFacts, HolderFacts
  <2>2. d2[o].start = d[o].start
    BY <1>2, <2>1
  <2>3. CASE o = l
    <3>1. n >= d[o].length
      BY <2>3 DEF Dirs
    <3>2. d2[o].length = n
      BY <1>2, <2>3
    <3>3. d[o].length >= 1 /\ d[o].length \in Int
      BY <2>1, GeometryAssumption
    <3>4. n >= 1
      BY <3>1, <3>3
    <3> QED BY <2>1, <2>2, <3>2, <3>4
  <2>4. CASE o # l
    BY <2>1, <2>4, GeometryAssumption
  <2> QED BY <2>3, <2>4
<1>12. Headed(d2)
  <2> SUFFICES ASSUME NEW o \in Dirs(d)
               PROVE  /\ \A i \in 0..d2[o].length - 1 : d2[<<d2[o].start, i>>] \notin Data
                      /\ o # RootLoc => d2[<<d2[o].start, 0>>].name = ".."
    BY <1>7 DEF Headed
  <2>0. o \in Loc /\ d[o].start \in Block /\ d[o].length \in 1..EntriesPerBlock
        /\ d[o].length \in Nat /\ d[o] \notin Data
    BY DirFacts, HolderFacts
  <2>1. d2[o].start = d[o].start /\ d2[o].length \in Nat
    <3>1. CASE o = l
      BY <1>2, <3>1
    <3>2. CASE o # l
      BY <2>0, <3>2
    <3> QED BY <3>1, <3>2
  <2>2. \A i \in 0..d2[o].length - 1 : d[<<d[o].start, i>>] \notin Data
    <3>1. CASE o = l
      <4>1. \A i \in d[l].length..n - 1 : d[<<d[l].start, i>>] \notin Data
        BY <3>1 DEF Dirs
      <4>2. \A i \in 0..d[l].length - 1 : d[<<d[l].start, i>>] \notin Data
        BY <3>1 DEF Tree, Headed
      <4>3. \A i \in 0..n - 1 : i \in 0..d[l].length - 1 \/ i \in d[l].length..n - 1
        BY <2>0, <3>1
      <4>4. d2[o].length = n
        BY <1>2, <3>1
      <4> QED BY <3>1, <4>1, <4>2, <4>3, <4>4
    <3>2. CASE o # l
      BY <2>0, <3>2 DEF Tree, Headed
    <3> QED BY <3>1, <3>2
  <2>3. d2[o].length <= EntriesPerBlock
    <3>1. CASE o = l
      <4>1. ChainLength(f, d[l].start) = 1
        BY <3>1, DirFacts
      <4>2. n <= EntriesPerBlock * 1
        BY <4>1
      <4>3. d2[o].length = n
        BY <1>2, <3>1
      <4> QED BY <4>2, <4>3, GeometryAssumption
    <3>2. CASE o # l
      BY <2>0, <3>2, GeometryAssumption
    <3> QED BY <3>1, <3>2
  <2>4. \A i \in 0..d2[o].length - 1 : <<d[o].start, i>> \in Loc
    BY <2>0, <2>1, <2>3, GeometryAssumption DEF Loc
  <2>5. <<d[o].start, 0>> \in Loc
    BY <2>0, GeometryAssumption DEF Loc
  <2>6. d[<<d[o].start, 0>>] \notin Data /\ (o # RootLoc => d[<<d[o].start, 0>>].name = "..")
    <3>1. 0 \in 0..d[o].length - 1
      BY <2>0, GeometryAssumption
    <3> QED BY <3>1 DEF Tree, Headed
  <2> QED BY <1>3, <2>1, <2>2, <2>4, <2>5, <2>6
<1>13. Owned(d2)
  <2> SUFFICES ASSUME NEW m \in Used(d)
               PROVE  \E o \in Dirs(d) : m[1] = d2[o].start /\ m[2] \in 1..d2[o].length - 1
    BY <1>4, <1>7 DEF Owned
  <2>1. PICK o \in Dirs(d) : m[1] = d[o].start /\ m[2] \in 1..d[o].length - 1
    BY DEF Tree, Owned
  <2>2. o \in Loc /\ d2[o].start = d[o].start /\ d[o].length \in Nat
    BY <1>3, <2>1, HolderFacts DEF Dirs
  <2>3. d2[o].length >= d[o].length /\ d2[o].length \in Nat
    <3>1. CASE o = l
      BY <1>2, <2>1, <3>1 DEF Dirs
    <3>2. CASE o # l
      BY <2>2, <3>2
    <3> QED BY <3>1, <3>2
  <2> QED BY <2>1, <2>2, <2>3
<1>14. Unique(d2)
  BY <1>3, <1>4, <1>6 DEF Tree, Unique, Holders
<1>15. Filled(d2)
  <2> SUFFICES ASSUME NEW o \in Dirs(d), NEW i \in 1..d2[o].length - 1
               PROVE  LET k == <<d2[o].start, i>>
                      IN  k \in Used(d2) \/ d2[k].start = 0 \/ k = RootUp
    BY <1>7 DEF Filled
  <2> DEFINE k == <<d2[o].start, i>>
  <2>1. o \in Loc /\ d[o] \notin Data /\ d[o].length \in Nat
    BY HolderFacts DEF Dirs
  <2>2. k = <<d[o].start, i>> /\ d2[o].length \in Nat
    BY <1>2, <2>1
  <2>3. k \in Used(d) \/ d[k].start = 0 \/ k = RootUp
    <3>1. CASE i \in 1..d[o].length - 1
      BY <2>2, <3>1 DEF Tree, Filled
    <3>2. CASE ~(i \in 1..d[o].length - 1)
      <4>1. o = l
        BY <2>1, <3>2
      <4>2. d2[o].length = n /\ d[l].type = "Directory"
        BY <1>2, <4>1 DEF Dirs
      <4>3. i \in d[l].length..n - 1
        BY <2>1, <3>2, <4>1, <4>2
      <4> QED BY <2>2, <4>1, <4>2, <4>3
    <3> QED BY <3>1, <3>2
  <2>4. k \in Loc
    <3>1. d[o].start \in Block /\ ChainLength(f, d[o].start) = 1
      BY HolderFacts, DirFacts DEF Dirs
    <3>2. d2[o].start = d[o].start
      BY <1>2, <2>1
    <3>3. d2[o].length <= EntriesPerBlock * 1
      BY <1>5, <1>10, <3>1, <3>2 DEF Long, Dirs
    <3> QED BY <2>2, <3>1, <3>3, GeometryAssumption DEF Loc
  <2> HIDE DEF k
  <2>5. k \in Used(d2) \/ d2[k].start = 0 \/ k = RootUp
    BY <1>2, <1>4, <2>3, <2>4
  <2> QED BY <2>5 DEF k
<1> QED
  BY <1>4, <1>5, <1>7, <1>8, <1>9, <1>10, <1>11, <1>12, <1>13, <1>14, <1>15 DEF Tree

\* A new node is put in a free slot of a directory.
LEMMA AddNode ==
  ASSUME NEW f, NEW d, Tree(f, d), NEW k \in Loc, k \notin Holders(d),
         NEW o \in Dirs(d), k[1] = d[o].start, k[2] \in 1..d[o].length - 1,
         NEW e \in Entry, e.name \in Name, e.start \in Usable,
         \A m \in Used(d) : m[1] = k[1] => d[m].name # e.name,
         \A b \in Chain(f, e.start) : /\ f[b] = FINAL \/ f[b] > 0
                                      /\ \A m \in Holders(d) : b \notin Chain(f, d[m].start),
         Ends(f, e.start), e.length <= EntriesPerBlock * ChainLength(f, e.start),
         e.type = "Directory" =>
            /\ f[e.start] = FINAL /\ e.length = 1
            /\ d[<<e.start, 0>>] \notin Data /\ d[<<e.start, 0>>].name = "..",
         NEW d2 \in [Loc -> Cell], \A x \in Loc : x # k => d2[x] = d[x], d2[k] = e
  PROVE  Tree(f, d2) /\ Used(d2) = Used(d) \cup {k} /\ Holders(d2) = Holders(d) \cup {k}
<1>1. k # RootLoc /\ k \notin Used(d) /\ e \notin Data /\ e.start # 0
  BY BlockFacts, DataAssumption DEF Holders
<1>2. Used(d2) = Used(d) \cup {k}
  BY <1>1 DEF Used
<1>3. Holders(d2) = Holders(d) \cup {k}
  BY <1>2 DEF Holders
<1>4. \A m \in Holders(d) : m \in Loc /\ m # k /\ d2[m] = d[m]
  BY HolderFacts
<1>5. Dirs(d) \subseteq Dirs(d2) /\ \A p \in Dirs(d2) : p # k => p \in Dirs(d)
  BY <1>3, <1>4 DEF Dirs
<1>6. Table(f) /\ e.start \in Start /\ e.start \in Chain(f, e.start)
  BY ChainLeast DEF Tree, Start
<1>7. Rooted(d2)
  BY <1>4 DEF Tree, Rooted, Holders
<1>8. Sealed(f, d2)
  BY <1>3, <1>4 DEF Tree, Sealed
<1>9. Separate(f, d2)
  <2> SUFFICES ASSUME NEW p \in Holders(d2), NEW m \in Holders(d2), NEW b \in Block,
                      b \in Chain(f, d2[p].start), b \in Chain(f, d2[m].start), p # m
               PROVE  FALSE
    BY DEF Separate
  <2>1. CASE p = k
    BY <1>3, <1>4, <2>1
  <2>2. CASE m = k
    BY <1>3, <1>4, <2>2
  <2>3. CASE p # k /\ m # k
    BY <1>3, <1>4, <2>3 DEF Tree, Separate
  <2> QED BY <2>1, <2>2, <2>3
<1>10. Long(f, d2)
  BY <1>3, <1>4 DEF Tree, Long
<1>11. Compact(f, d2)
  <2> SUFFICES ASSUME NEW p \in Dirs(d2) PROVE f[d2[p].start] = FINAL /\ d2[p].length >= 1
    BY DEF Compact
  <2>1. CASE p = k
    BY <2>1 DEF Dirs
  <2>2. CASE p # k
    BY <1>4, <1>5, <2>2 DEF Tree, Compact, Dirs
  <2> QED BY <2>1, <2>2
<1>12. k[1] # e.start /\ k[2] # 0
  <2>1. d[o].start \in Chain(f, d[o].start) /\ o \in Holders(d)
    BY HolderFacts DEF Dirs
  <2>2. d[o].length \in Nat
    BY HolderFacts DEF Dirs
  <2> QED BY <1>6, <2>1, <2>2
<1>13. Headed(d2)
  <2> SUFFICES ASSUME NEW p \in Dirs(d2)
               PROVE  /\ \A i \in 0..d2[p].length - 1 : d2[<<d2[p].start, i>>] \notin Data
                      /\ p # RootLoc => d2[<<d2[p].start, 0>>].name = ".."
    BY DEF Headed
  <2>1. CASE p = k
    <3>1. e.type = "Directory" /\ d2[p] = e
      BY <2>1 DEF Dirs
    <3>3. e.start \in Block
      BY BlockFacts
    <3>4. <<e.start, 0>> \in Loc
      BY <3>3, GeometryAssumption DEF Loc
    <3>5. \A i \in 0..e.length - 1 : i = 0
      BY <3>1
    <3>6. d2[<<e.start, 0>>] = d[<<e.start, 0>>]
      BY <1>12, <3>4
    <3> QED BY <3>1, <3>5, <3>6
  <2>2. CASE p # k
    <3>1. p \in Dirs(d) /\ d2[p] = d[p]
      BY <1>4, <1>5, <2>2 DEF Dirs
    <3>2. \A i \in 0..d[p].length - 1 : <<d[p].start, i>> \in Loc
      BY <3>1, SlotLoc
    <3>3. 0 \in 0..d[p].length - 1
      BY <3>1, DirFacts, GeometryAssumption
    <3>4. /\ \A i \in 0..d[p].length - 1 : d[<<d[p].start, i>>] \notin Data
          /\ p # RootLoc => d[<<d[p].start, 0>>].name = ".."
      BY <3>1 DEF Tree, Headed
    <3>5. k # <<d[p].start, 0>>
      BY <1>12
    <3> QED BY <1>1, <3>1, <3>2, <3>3, <3>4, <3>5
  <2> QED BY <2>1, <2>2
<1>14. Owned(d2)
  <2> SUFFICES ASSUME NEW m \in Used(d2)
               PROVE  \E p \in Dirs(d2) : m[1] = d2[p].start /\ m[2] \in 1..d2[p].length - 1
    BY DEF Owned
  <2>1. PICK p \in Dirs(d) : m[1] = d[p].start /\ m[2] \in 1..d[p].length - 1
    BY <1>2 DEF Tree, Owned
  <2>2. p \in Dirs(d2) /\ d2[p] = d[p]
    BY <1>4, <1>5 DEF Dirs
  <2> QED BY <2>1, <2>2
<1>15. Unique(d2)
  <2>1. \A m \in Used(d) : m # k /\ d2[m] = d[m]
    BY <1>4 DEF Holders
  <2> QED BY <1>2, <2>1 DEF Tree, Unique
<1>16. Filled(d2)
  <2> SUFFICES ASSUME NEW p \in Dirs(d2), NEW i \in 1..d2[p].length - 1
               PROVE  LET x == <<d2[p].start, i>>
                      IN  x \in Used(d2) \/ d2[x].start = 0 \/ x = RootUp
    BY DEF Filled
  <2>1. p # k
    BY DEF Dirs
  <2>2. p \in Dirs(d) /\ d2[p] = d[p]
    BY <1>4, <1>5, <2>1 DEF Dirs
  <2> DEFINE x == <<d[p].start, i>>
  <2>3. x \in Loc
    <3>1. d[p].length \in Nat
      BY <2>2, HolderFacts DEF Dirs
    <3>2. i \in 0..d[p].length - 1
      BY <2>2, <3>1
    <3> QED BY <2>2, <3>2, SlotLoc
  <2>4. x \in Used(d) \/ d[x].start = 0 \/ x = RootUp
    BY <2>2 DEF Tree, Filled
  <2> HIDE DEF x
  <2>5. x \in Used(d2) \/ d2[x].start = 0 \/ x = RootUp
    BY <1>2, <2>3, <2>4
  <2> QED BY <2>2, <2>5 DEF x
<1> QED
  BY <1>2, <1>3, <1>7, <1>8, <1>9, <1>10, <1>11, <1>13, <1>14, <1>15, <1>16 DEF Tree

\* A node is moved to a free slot of a directory, under another name.
LEMMA MoveNode ==
  ASSUME NEW f, NEW d, Tree(f, d), NEW src \in Used(d), NEW l \in Loc, l \notin Holders(d),
         NEW o \in Dirs(d), l[1] = d[o].start, l[2] \in 1..d[o].length - 1, NEW nm \in Name,
         \A m \in Used(d) : m # src /\ m[1] = l[1] => d[m].name # nm,
         NEW d2 \in [Loc -> Cell], \A x \in Loc : x # src /\ x # l => d2[x] = d[x],
         d2[src] \notin Data, d2[src].start = 0, d2[l] = [d[src] EXCEPT !.name = nm]
  PROVE  Tree(f, d2) /\ Used(d2) = (Used(d) \ {src}) \cup {l}
<1> DEFINE back(h) == IF h = l THEN src ELSE h
<1>1. /\ src \in Loc /\ src # RootLoc /\ src \in Holders(d) /\ src[2] >= 1
      /\ src # l /\ l # RootLoc /\ l \notin Used(d)
  BY OwnerFacts DEF Holders
<1>2. /\ d[src] \in Entry /\ d[src].start \in Usable
      /\ d2[l].name = nm /\ d2[l].type = d[src].type /\ d2[l].start = d[src].start
      /\ d2[l].length = d[src].length /\ d2[l] \in Entry /\ d2[l] \notin Data
  <2>1. d[src] \in Entry /\ d[src].start \in Usable
    BY <1>1, HolderFacts
  <2>2. d2[l] \in Entry
    BY <2>1 DEF Entry
  <2> QED BY <2>1, <2>2, DataAssumption DEF Entry
<1>3. Used(d2) = (Used(d) \ {src}) \cup {l}
  <2>1. l \in Used(d2)
    BY <1>2, BlockFacts DEF Used
  <2>2. \A x \in Loc : x # src /\ x # l => (x \in Used(d2) <=> x \in Used(d))
    BY DEF Used
  <2>3. Used(d) \subseteq Loc /\ Used(d2) \subseteq Loc /\ src \notin Used(d2)
    BY DEF Used
  <2> QED BY <1>1, <2>1, <2>2, <2>3
<1>4. Holders(d2) = (Holders(d) \ {src}) \cup {l}
  BY <1>1, <1>3 DEF Holders
<1>5. \A h \in Holders(d2) : h # l => h \in Holders(d) /\ h \in Loc /\ h # src /\ d2[h] = d[h]
  BY <1>4, HolderFacts
<1>6. ASSUME NEW h \in Holders(d2)
      PROVE  /\ back(h) \in Holders(d) /\ d2[h].start = d[back(h)].start
             /\ d2[h].type = d[back(h)].type /\ d2[h].length = d[back(h)].length
  <2>1. CASE h = l
    BY <1>1, <1>2, <2>1
  <2>2. CASE h # l
    BY <1>5, <2>2
  <2> QED BY <2>1, <2>2
<1>7. \A h, m \in Holders(d2) : back(h) = back(m) => h = m
  BY <1>5
<1>8. ASSUME NEW p \in Dirs(d2)
      PROVE  back(p) \in Dirs(d)
  BY <1>6 DEF Dirs
<1>9. ASSUME NEW p \in Dirs(d)
      PROVE  \E q \in Dirs(d2) : d2[q].start = d[p].start /\ d2[q].length = d[p].length
  <2>1. CASE p = src
    BY <1>2, <1>4, <2>1 DEF Dirs
  <2>2. CASE p # src
    <3>1. p \in Holders(d2) /\ p # l
      BY <1>4, <2>2 DEF Dirs
    <3> QED BY <1>5, <3>1 DEF Dirs
  <2> QED BY <2>1, <2>2
<1> HIDE DEF back
<1>10. Rooted(d2)
  BY <1>1, <1>4, <1>5 DEF Tree, Rooted, Holders
<1>11. Sealed(f, d2)
  BY <1>6 DEF Tree, Sealed
<1>12. Separate(f, d2)
  <2> SUFFICES ASSUME NEW p \in Holders(d2), NEW m \in Holders(d2), NEW b \in Block,
                      b \in Chain(f, d2[p].start), b \in Chain(f, d2[m].start)
               PROVE  p = m
    BY DEF Separate
  <2>1. back(p) = back(m)
    BY <1>6 DEF Tree, Separate
  <2> QED BY <1>7, <2>1
<1>13. Long(f, d2)
  <2> SUFFICES ASSUME NEW h \in Holders(d2)
               PROVE  d2[h].length <= EntriesPerBlock * ChainLength(f, d2[h].start)
    BY DEF Long
  <2>1. d[back(h)].length <= EntriesPerBlock * ChainLength(f, d[back(h)].start)
    BY <1>6 DEF Tree, Long
  <2> QED BY <1>6, <2>1
<1>14. Compact(f, d2)
  <2> SUFFICES ASSUME NEW p \in Dirs(d2) PROVE f[d2[p].start] = FINAL /\ d2[p].length >= 1
    BY DEF Compact
  <2>1. f[d[back(p)].start] = FINAL /\ d[back(p)].length >= 1
    BY <1>8 DEF Tree, Compact
  <2> QED BY <1>6, <2>1 DEF Dirs
<1>15. Headed(d2)
  <2> SUFFICES ASSUME NEW p \in Dirs(d2)
               PROVE  /\ \A i \in 0..d2[p].length - 1 : d2[<<d2[p].start, i>>] \notin Data
                      /\ p # RootLoc => d2[<<d2[p].start, 0>>].name = ".."
    BY DEF Headed
  <2>1. back(p) \in Dirs(d) /\ d2[p].start = d[back(p)].start /\ d2[p].length = d[back(p)].length
    BY <1>6, <1>8 DEF Dirs
  <2>2. p # RootLoc => back(p) # RootLoc
    BY <1>1 DEF back
  <2>3. /\ \A i \in 0..d2[p].length - 1 : d[<<d2[p].start, i>>] \notin Data
        /\ p # RootLoc => d[<<d2[p].start, 0>>].name = ".."
    BY <2>1, <2>2 DEF Tree, Headed
  <2>4. \A i \in 0..d2[p].length - 1 : <<d2[p].start, i>> \in Loc
    BY <2>1, SlotLoc
  <2>5. 0 \in 0..d2[p].length - 1
    BY <2>1, DirFacts, GeometryAssumption
  <2>6. l[2] >= 1
    <3>1. d[o].length \in Nat
      BY HolderFacts DEF Dirs
    <3> QED BY <3>1
  <2>7. \A x \in Loc : d[x] \notin Data => d2[x] \notin Data
    BY <1>2
  <2>8. d2[<<d2[p].start, 0>>] = d[<<d2[p].start, 0>>]
    BY <1>1, <2>4, <2>5, <2>6
  <2> QED BY <2>3, <2>4, <2>7, <2>8
<1>16. Owned(d2)
  <2> SUFFICES ASSUME NEW m \in Used(d2)
               PROVE  \E p \in Dirs(d2) : m[1] = d2[p].start /\ m[2] \in 1..d2[p].length - 1
    BY DEF Owned
  <2>1. PICK p \in Dirs(d) : m[1] = d[p].start /\ m[2] \in 1..d[p].length - 1
    BY <1>3 DEF Tree, Owned
  <2>2. PICK q \in Dirs(d2) : d2[q].start = d[p].start /\ d2[q].length = d[p].length
    BY <1>9
  <2> QED BY <2>1, <2>2
<1>17. Unique(d2)
  <2>1. \A m \in Used(d2) : m # l => m \in Used(d) /\ m # src /\ d2[m] = d[m]
    BY <1>3, <1>5 DEF Holders
  <2>2. ASSUME NEW m \in Used(d2), m[1] = l[1], d2[m].name = nm PROVE m = l
    BY <2>1, <2>2
  <2>3. ASSUME NEW m \in Used(d2), NEW p \in Used(d2), m # l, p # l,
               m[1] = p[1], d2[m].name = d2[p].name
        PROVE  m = p
    BY <2>1, <2>3 DEF Tree, Unique
  <2> QED BY <1>2, <2>2, <2>3, ZenonT(90) DEF Unique
<1>18. Filled(d2)
  <2> SUFFICES ASSUME NEW p \in Dirs(d2), NEW i \in 1..d2[p].length - 1
               PROVE  LET x == <<d2[p].start, i>>
                      IN  x \in Used(d2) \/ d2[x].start = 0 \/ x = RootUp
    BY DEF Filled
  <2>1. back(p) \in Dirs(d) /\ d2[p].start = d[back(p)].start /\ d2[p].length = d[back(p)].length
    BY <1>6, <1>8 DEF Dirs
  <2> DEFINE x == <<d2[p].start, i>>
  <2>2. x \in Loc
    <3>1. d2[p].length \in Nat
      BY <2>1, HolderFacts DEF Dirs
    <3>2. i \in 0..d2[p].length - 1
      BY <3>1
    <3> QED BY <2>1, <3>2, SlotLoc
  <2>3. x \in Used(d) \/ d[x].start = 0 \/ x = RootUp
    BY <2>1 DEF Tree, Filled
  <2> HIDE DEF x
  <2>4. x \in Used(d2) \/ d2[x].start = 0 \/ x = RootUp
    BY <1>3, <2>2, <2>3
  <2> QED BY <2>4 DEF x
<1> QED
  BY <1>3, <1>10, <1>11, <1>12, <1>13, <1>14, <1>15, <1>16, <1>17, <1>18 DEF Tree

\* A file gets another chain from its first block on.
LEMMA Refile ==
  ASSUME NEW f, NEW d, Tree(f, d), NEW l \in Used(d), d[l].type = "File", NEW g, Table(g),
         \A m \in Holders(d) : m # l => \A x \in Chain(f, d[m].start) : g[x] = f[x],
         \A x \in Chain(g, d[l].start) :
            /\ g[x] = FINAL \/ g[x] > 0
            /\ \A m \in Holders(d) : m # l => x \notin Chain(f, d[m].start),
         Ends(g, d[l].start),
         d[l].length <= EntriesPerBlock * ChainLength(g, d[l].start)
  PROVE  Tree(g, d)
<1>1. Table(f) /\ \A m \in Holders(d) : d[m].start \in Start /\ d[m].start \in Chain(f, d[m].start)
  BY HolderFacts DEF Tree
<1>2. \A m \in Holders(d) : m # l => Chain(g, d[m].start) = Chain(f, d[m].start)
  BY <1>1, ChainSame
<1>3. Sealed(g, d)
  BY <1>2 DEF Tree, Sealed, Ends
<1>4. Separate(g, d)
  BY <1>2 DEF Tree, Separate
<1>5. Long(g, d)
  BY <1>2 DEF Tree, Long, ChainLength
<1>6. Compact(g, d)
  BY <1>1 DEF Tree, Compact, Dirs
<1> QED
  BY <1>3, <1>4, <1>5, <1>6 DEF Tree

\* A free block is in no chain, and no node and no directory's slot is in it.
LEMMA FreeElsewhere ==
  ASSUME NEW f, NEW d, Tree(f, d), NEW b \in FreeBlocks(f)
  PROVE  /\ b \in Usable /\ \A m \in Holders(d) : b \notin Chain(f, d[m].start) /\ m[1] # b
         /\ \A o \in Dirs(d) : d[o].start # b
<1>1. f[b] = 0 /\ b \in Usable
  BY FreeBlockFacts DEF Tree, FreeBlocks
<1>2. \A m \in Holders(d) : b \notin Chain(f, d[m].start)
  BY <1>1 DEF Tree, Sealed, FINAL
<1>3. \A o \in Dirs(d) : d[o].start # b
  BY <1>2, HolderFacts DEF Dirs
<1>4. ASSUME NEW m \in Holders(d) PROVE m[1] # b
  <2>1. CASE m = RootLoc
    <3>1. d[RootLoc].start = StartBlock /\ RootLoc \in Dirs(d) /\ RootLoc[1] = StartBlock
      BY FiledFacts DEF Tree, Rooted, Dirs, Holders
    <3> QED BY <1>3, <2>1, <3>1
  <2>2. CASE m # RootLoc
    BY <1>3, <2>2 DEF Tree, Owned, Holders
  <2> QED BY <2>1, <2>2
<1> QED
  BY <1>1, <1>2, <1>3, <1>4

\* The slots of a directory are those of one block.
LEMMA DirSlots ==
  ASSUME NEW f, Table(f), NEW dir \in Entry, dir.start \in Usable, f[dir.start] = FINAL,
         dir.type = "Directory", dir.length \in 1..EntriesPerBlock
  PROVE  /\ \A l : l \in Slots(f, dir) <=>
                      \E j \in 0..dir.length - 1 : l = <<dir.start, j>>
         /\ \A j \in 0..dir.length - 1 : /\ <<dir.start, j>> \in Loc
                                         /\ Index(f, dir.start, <<dir.start, j>>) = j
         /\ ReadDirStatus(f, dir) = "OK"
<1> DEFINE s == dir.start
           n == dir.length
<1>1. Chain(f, s) = {s} /\ s \in Block /\ n \in Nat
  <2>1. f[s] \in {FINAL, UNUSABLE, 0}
    OBVIOUS
  <2>2. Chain(f, s) = {s}
    BY <2>1, ChainLast
  <2> QED BY <2>2, BlockFacts DEF Entry
<1>2. ChainLength(f, s) = 1
  BY <1>1, FS_Singleton DEF ChainLength
<1>3. Steps(f, s, s) = 0
  BY <1>2 DEF Steps
<1>4. {<<y, Steps(f, s, y)>> : y \in Chain(f, s) \cap Block} = {<<s, 0>>}
  <2>1. Chain(f, s) \cap Block = {s}
    BY <1>1
  <2> QED BY <1>3, <2>1
<1>5. \A j \in 0..EntriesPerBlock - 1 : EntriesPerBlock * 0 + j = j
  BY GeometryAssumption
<1>6. Slots(f, dir) = {<<s, i>> : i \in {j \in 0..EntriesPerBlock - 1 : 0 <= j /\ j < n}}
  <2>1. Slots(f, dir) = {<<s, i>> : i \in {j \in 0..EntriesPerBlock - 1 :
                            0 <= EntriesPerBlock * 0 + j /\ EntriesPerBlock * 0 + j < n}}
    <3> DEFINE at(x) == {<<x[1], i>> : i \in {j \in 0..EntriesPerBlock - 1 :
                            0 <= EntriesPerBlock * x[2] + j /\ EntriesPerBlock * x[2] + j < n}}
               S == {<<y, Steps(f, s, y)>> : y \in Chain(f, s) \cap Block}
    <3>1. Slots(f, dir) = UNION {at(x) : x \in S}
      BY DEF Slots, Cells
    <3>2. at(<<s, 0>>) = {<<s, i>> : i \in {j \in 0..EntriesPerBlock - 1 :
                            0 <= EntriesPerBlock * 0 + j /\ EntriesPerBlock * 0 + j < n}}
      OBVIOUS
    <3>3. S = {<<s, 0>>}
      BY <1>4
    <3> HIDE DEF at, S
    <3>4. UNION {at(x) : x \in S} = at(<<s, 0>>)
      BY <3>3
    <3> QED BY <3>1, <3>2, <3>4
  <2>2. {j \in 0..EntriesPerBlock - 1 : 0 <= EntriesPerBlock * 0 + j /\ EntriesPerBlock * 0 + j < n}
          = {j \in 0..EntriesPerBlock - 1 : 0 <= j /\ j < n}
    BY <1>5
  <2> QED BY <2>1, <2>2
<1>7. \A j : j \in 0..n - 1 <=> j \in 0..EntriesPerBlock - 1 /\ 0 <= j /\ j < n
  BY <1>1, GeometryAssumption
<1>8. \A j \in 0..n - 1 : <<s, j>> \in Loc /\ Index(f, s, <<s, j>>) = j
  <2> TAKE j \in 0..n - 1
  <2>1. j \in 0..EntriesPerBlock - 1
    BY <1>7
  <2> QED BY <1>1, <1>3, <1>5, <2>1 DEF Loc, Index
<1>9. ReadDirStatus(f, dir) = "OK"
  <2>1. ~(n = 0) /\ n <= EntriesPerBlock * 1
    BY <1>1, GeometryAssumption
  <2>2. ~(n > EntriesPerBlock * ChainLength(f, s))
    BY <1>1, <1>2, <2>1, GeometryAssumption
  <2> QED BY <2>1, <2>2 DEF ReadDirStatus
<1> QED
  BY <1>6, <1>7, <1>8, <1>9

\* A place in a directory is got ready: the cell is cleared and, where it lies
\* behind the last slot, the directory gets longer.
LEMMA Room ==
  ASSUME NEW f, NEW d, Tree(f, d), NEW o \in Dirs(d), NEW k \in Loc, k \notin Holders(d),
         RootUp \notin Holders(d), k # RootUp, k[1] = d[o].start, k[2] >= 1,
         NEW n \in Nat, n <= EntriesPerBlock, k[2] < n,
         n = d[o].length \/ (n = d[o].length + 1 /\ k[2] = d[o].length),
         NEW up \in Entry, up.name = "..", NEW d1 \in [Loc -> Cell],
         d1[o] = [d[o] EXCEPT !.length = n], d1[k] = Zero, d1[RootUp] = up,
         \A x \in Loc \ {k, o, RootUp} : d1[x] = d[x]
  PROVE  /\ Tree(f, d1) /\ Used(d1) = Used(d) /\ Holders(d1) = Holders(d) /\ Dirs(d1) = Dirs(d)
         /\ \A x \in Holders(d) : x # o => d1[x] = d[x]
<1> DEFINE d0 == [x \in Loc |-> IF x = o THEN d[o] ELSE d1[x]]
<1>1. /\ o \in Loc /\ d[o] \in Entry /\ o # k /\ o \in Holders(d)
      /\ d[o].type = "Directory" /\ f[d[o].start] = FINAL
      /\ d[o].length \in Nat /\ ChainLength(f, d[o].start) = 1
  BY HolderFacts, DirFacts DEF Dirs
<1>2. RootUp \in Loc /\ RootUp # RootLoc /\ o # RootUp /\ RootUp[2] = 1
  BY <1>1, FiledFacts DEF RootUp
<1>3. d0 \in [Loc -> Cell] /\ d0[o] = d[o] /\ \A x \in Loc : x # o => d0[x] = d1[x]
  BY <1>1 DEF Tree
<1> HIDE DEF d0
<1>4. /\ d0[k] = Zero /\ d0[RootUp] = up
      /\ \A x \in Loc : x # k /\ x # RootUp => d0[x] = d[x]
  BY <1>1, <1>2, <1>3
<1>5. Zero \notin Data /\ Zero.start = 0 /\ Zero.name \notin Name /\ up \notin Data /\ up.name \notin Name
  BY DecodeFacts, NameAssumption, DataAssumption DEF Zero
<1>6. k \notin Used(d0) /\ RootUp \notin Used(d0) /\ k[2] # 0
  BY <1>4, <1>5 DEF Used
<1>7. Tree(f, d0) /\ Holders(d0) = Holders(d) /\ \A x \in Holders(d) : d0[x] = d[x]
  <2> SUFFICES ASSUME NEW x \in Loc, d0[x] # d[x]
               PROVE  /\ x \notin Holders(d) /\ x \notin Used(d0) /\ x[2] # 0
                      /\ d0[x] \notin Data /\ (d0[x].start = 0 \/ x = RootUp)
    BY <1>3, Scribble
  <2>1. x = k \/ x = RootUp
    BY <1>4
  <2> QED BY <1>2, <1>4, <1>5, <1>6, <2>1
<1>8. Used(d0) = Used(d) /\ Dirs(d0) = Dirs(d)
  <2>1. \A x \in Used(d) \cup Used(d0) : x # RootLoc
    BY <1>7, OwnerFacts
  <2> QED BY <1>7, <2>1, ZenonT(60) DEF Holders, Dirs
<1>9. \A i \in d[o].length..n - 1 : <<d[o].start, i>> = k
  <2> TAKE i \in d[o].length..n - 1
  <2>1. i = k[2]
    BY <1>1
  <2>2. k = <<k[1], k[2]>>
    BY DEF Loc
  <2> QED BY <2>1, <2>2
<1>10. n <= EntriesPerBlock * ChainLength(f, d0[o].start)
  <2>1. n <= EntriesPerBlock * 1
    BY GeometryAssumption
  <2> QED BY <1>1, <1>3, <2>1
<1>11. n >= d0[o].length
  BY <1>1, <1>3
<1>12. /\ Tree(f, d1) /\ Used(d1) = Used(d0) /\ Holders(d1) = Holders(d0) /\ Dirs(d1) = Dirs(d0)
  <2>1. d1[o] = [d0[o] EXCEPT !.length = n] /\ o \in Holders(d0)
    BY <1>1, <1>3, <1>7
  <2>2. \A i \in d0[o].length..n - 1 :
           d0[<<d0[o].start, i>>] \notin Data /\ d0[<<d0[o].start, i>>].start = 0
    BY <1>3, <1>4, <1>5, <1>9
  <2> QED BY <1>3, <1>7, <1>10, <1>11, <2>1, <2>2, SetLength
<1> QED
  BY <1>1, <1>3, <1>7, <1>8, <1>12, HolderFacts

-----------------------------------------------------------------------------
(* Looking paths up in a sound tree. *)

TInv == MInv /\ Tree(fat, disk)

\* An answer of find() is what is on the disk, in an entry in use.
Held(h) == h.status = "OK" => h.loc \in Holders(disk) /\ h.entry = disk[h.loc]

LEMMA LookupTree ==
  ASSUME TInv, NEW h, Held(h), NEW name \in Name
  PROVE  LET m == Lookup(h, name)
         IN  /\ m.status = "OK" =>
                  /\ h.status = "OK" /\ h.loc \in Dirs(disk)
                  /\ m.loc \in Used(disk) /\ m.entry = disk[m.loc]
                  /\ disk[m.loc].name = name /\ m.loc[1] = disk[h.loc].start
             /\ m.status # "OK" /\ h.status = "OK" /\ h.loc \in Dirs(disk) =>
                  /\ m.status = "ENOENT"
                  /\ \A u \in Used(disk) : u[1] = disk[h.loc].start => disk[u].name # name
<1> DEFINE dir == h.entry
           m == Lookup(h, name)
           matches == {l \in Slots(fat, dir) :
                        /\ disk[l] \notin Data
                        /\ disk[l].name = name
                        /\ ~IsFree(fat, disk[l])}
           first == FirstSlot(fat, dir, matches)
<1>0. Tree(fat, disk) /\ Table(fat)
  BY DEF TInv, Tree
<1>1. \A s : Miss(s).status = s
  BY DEF Miss
<1>2. CASE h.status # "OK"
  BY <1>1, <1>2, SMTT(60) DEF Lookup
<1>3. CASE h.status = "OK" /\ h.loc \notin Dirs(disk)
  <2>1. dir = disk[h.loc] /\ h.loc \in Holders(disk)
    BY <1>3 DEF Held
  <2>2. dir.type \in {"File", "Directory"} /\ dir.type # "Directory"
    <3>1. disk[h.loc] \in Entry
      BY <1>0, <2>1, HolderFacts
    <3>2. disk[h.loc].type # "Directory"
      BY <1>3, <2>1 DEF Dirs
    <3> QED BY <2>1, <3>1, <3>2 DEF Entry
  <2> QED BY <1>1, <1>3, <2>2 DEF Lookup
<1>4. CASE h.status = "OK" /\ h.loc \in Dirs(disk)
  <2> DEFINE s == dir.start
             n == dir.length
  <2>1. /\ dir = disk[h.loc] /\ h.loc \in Holders(disk) /\ dir \in Entry /\ s \in Usable
        /\ dir.type = "Directory" /\ fat[s] = FINAL /\ n \in 1..EntriesPerBlock
    BY <1>0, <1>4, HolderFacts, DirFacts DEF Held
  <2>2. /\ \A l : l \in Slots(fat, dir) <=> \E j \in 0..n - 1 : l = <<s, j>>
        /\ \A j \in 0..n - 1 : <<s, j>> \in Loc /\ Index(fat, s, <<s, j>>) = j
        /\ ReadDirStatus(fat, dir) = "OK"
    BY <1>0, <2>1, DirSlots
  <2>3. m = IF matches = {} THEN Miss("ENOENT") ELSE Hit(first, disk[first])
    BY <1>4, <2>1, <2>2 DEF Lookup
  <2>4. CASE matches = {}
    <3>1. m = Miss("ENOENT")
      BY <2>3, <2>4
    <3>2. ASSUME NEW u \in Used(disk), u[1] = s, disk[u].name = name PROVE FALSE
      <4>1. PICK o \in Dirs(disk) : u[1] = disk[o].start /\ u[2] \in 1..disk[o].length - 1
        BY <1>0 DEF Tree, Owned
      <4>2. o = h.loc
        <5>1. o \in Holders(disk) /\ s \in Block /\ s \in Chain(fat, disk[o].start)
              /\ s \in Chain(fat, disk[h.loc].start)
          BY <1>0, <2>1, <3>2, <4>1, HolderFacts DEF Dirs
        <5> QED BY <1>0, <2>1, <5>1 DEF Tree, Separate
      <4>3. u = <<s, u[2]>> /\ u[2] \in 0..n - 1
        <5>1. u \in Loc
          BY DEF Used
        <5>2. u = <<u[1], u[2]>>
          BY <5>1 DEF Loc
        <5>3. n \in Nat
          BY <2>1 DEF Entry
        <5> QED BY <2>1, <3>2, <4>1, <4>2, <5>2, <5>3
      <4>4. u \in Slots(fat, dir)
        BY <2>2, <4>3
      <4>5. ~IsFree(fat, disk[u])
        <5>1. u \in Holders(disk) /\ disk[u].start # 0
          BY DEF Holders, Used
        <5>2. disk[u].start \in Chain(fat, disk[u].start)
          BY <1>0, <5>1, HolderFacts
        <5>3. fat[disk[u].start] # 0
          BY <1>0, <5>1, <5>2 DEF Tree, Sealed, FINAL
        <5> QED BY <5>1, <5>3 DEF IsFree
      <4>6. u \in matches
        BY <3>2, <4>4, <4>5 DEF Used
      <4> QED BY <2>4, <4>6
    <3> QED BY <1>1, <1>4, <2>1, <3>1, <3>2
  <2>5. CASE matches # {}
    <3>1. m = Hit(first, disk[first])
      BY <2>3, <2>5
    <3>2. first \in matches
      <4>1. matches \subseteq Slots(fat, dir)
        OBVIOUS
      <4> HIDE DEF matches
      <4> QED BY <1>0, <2>1, <2>5, <4>1, FirstSlotFacts
    <3>3. PICK j \in 0..n - 1 : first = <<s, j>>
      BY <2>2, <3>2, Zenon
    <3>4. first \in Loc /\ first[1] = s
      BY <2>2, <3>3
    <3>5. disk[first] \notin Data /\ disk[first].name = name /\ disk[first].start # 0
      BY <3>2, Zenon DEF IsFree
    <3> HIDE DEF first
    <3>6. first \in Used(disk)
      BY <3>4, <3>5 DEF Used
    <3> QED BY <1>4, <2>1, <3>1, <3>4, <3>5, <3>6 DEF Hit
  <2> QED BY <2>4, <2>5
<1> QED
  BY <1>2, <1>3, <1>4

LEMMA RootHeld == ASSUME TInv PROVE Held(Hit(RootLoc, RootEntry)) /\ RootLoc \in Dirs(disk)
<1>1. RootEntry = disk[RootLoc]
  BY RootEntryForm DEF TInv
<1>2. RootLoc \in Dirs(disk)
  BY DEF TInv, Tree, Rooted, Dirs, Holders
<1> QED
  BY <1>1, <1>2 DEF Held, Hit, Dirs

\* Two walks along the same names reach the same nodes.
LEMMA ReachedSame ==
  ASSUME NEW p \in Seq(Name), NEW q \in Seq(Name), NEW g, Reached(g, p), NEW h, Reached(h, q),
         NEW n \in Nat, n <= Len(p), n <= Len(q), \A i \in 1..n : p[i] = q[i]
  PROVE  g[n] = h[n]
<1> DEFINE Bad == {k \in 0..n : g[k] # h[k]}
<1> SUFFICES ASSUME Bad # {} PROVE FALSE
  OBVIOUS
<1>0. Len(p) \in Nat /\ Len(q) \in Nat
  OBVIOUS
<1>1. PICK k \in Bad : \A j \in Bad : k <= j
  <2>1. Bad \subseteq Nat
    OBVIOUS
  <2> HIDE DEF Bad
  <2> QED BY <2>1, NatMin
<1>2. k # 0
  BY <1>1 DEF Reached
<1>3. k \in 1..n /\ k - 1 \in 0..n /\ k - 1 \notin Bad
  <2>1. k \in 0..n
    BY <1>1
  <2> HIDE DEF Bad
  <2> QED BY <1>1, <1>2, <2>1
<1>4. g[k - 1] = h[k - 1] /\ p[k] = q[k]
  BY <1>3
<1>5. k \in 1..Len(p) /\ k \in 1..Len(q)
  BY <1>0, <1>3
<1>6. g[k] = h[k]
  BY <1>4, <1>5 DEF Reached
<1> QED
  BY <1>1, <1>6

\* find() goes one directory down from where find() of the parent ends.
LEMMA FindStep ==
  ASSUME NEW p \in Seq(Name), p # <<>>
  PROVE  /\ Parent(p) \in Seq(Name) /\ Len(Parent(p)) = Len(p) - 1 /\ LastName(p) \in Name
         /\ Find(p) = Lookup(Find(Parent(p)), LastName(p))
<1> DEFINE q == Parent(p)
<1>0. \A t \in Seq(Name) : t # <<>> => Len(t) \in Nat \ {0} /\ t[Len(t)] \in Name
  OBVIOUS
<1>1. q \in Seq(Name) /\ Len(q) = Len(p) - 1 /\ Len(p) \in Nat \ {0} /\ LastName(p) \in Name
  <2>1. Len(p) \in Nat \ {0} /\ LastName(p) \in Name
    BY <1>0 DEF LastName
  <2>2. q \in Seq(Name)
    BY DEF Parent
  <2>3. Len(q) = Len(p) - 1
    <3>1. p \in Seq(Name) /\ Len(p) - 1 >= 0 /\ Len(p) - 1 \in Int
      BY <2>1
    <3>2. Len(SubSeq(p, 1, Len(p) - 1)) = Len(p) - 1
      BY <3>1, SMTT(60)
    <3> QED BY <3>2 DEF Parent
  <2> QED BY <2>1, <2>2, <2>3
<1>2. Resolve(q) = Find(q)
  <2>1. PICK g : Reached(g, q)
    BY <1>1, ResolveReached
  <2>2. CASE q = <<>>
    BY <2>1, <2>2 DEF Reached, Find
  <2>3. CASE q # <<>>
    <3> DEFINE r == Parent(q)
    <3>1. r \in Seq(Name) /\ Len(r) = Len(q) - 1 /\ \A i \in 1..Len(q) - 1 : r[i] = q[i]
      BY <1>1, <2>3 DEF Parent
    <3>2. PICK h : Reached(h, r)
      BY <3>1, ResolveReached
    <3> HIDE DEF q, r
    <3>3. Len(q) \in Nat \ {0} /\ Len(r) \in Nat
      <4>1. Len(q) \in Nat \ {0}
        BY <1>0, <1>1, <2>3
      <4>2. Len(r) \in Nat
        BY <3>1
      <4> QED BY <4>1, <4>2
    <3>4. g[Len(q) - 1] = h[Len(q) - 1]
      BY <1>1, <2>1, <3>1, <3>2, <3>3, ReachedSame
    <3>5. Resolve(q) = Lookup(g[Len(q) - 1], q[Len(q)])
      BY <2>1, <3>3 DEF Reached
    <3>6. Resolve(r) = h[Len(q) - 1]
      BY <3>1, <3>2 DEF Reached
    <3> QED BY <2>3, <3>4, <3>5, <3>6 DEF Find, LastName, r
  <2> QED BY <2>2, <2>3
<1> QED
  BY <1>1, <1>2 DEF Find

\* What find() returns is on the disk.
LEMMA FindHeld == ASSUME TInv, NEW p \in Seq(Name) PROVE Held(Find(p))
<1> DEFINE Bad == {n \in Nat : \E q \in Seq(Name) : Len(q) = n /\ ~Held(Find(q))}
<1> SUFFICES ASSUME Bad # {} PROVE FALSE
  OBVIOUS
<1>1. PICK n \in Bad : \A m \in Bad : n <= m
  <2>1. Bad \subseteq Nat
    OBVIOUS
  <2> HIDE DEF Bad
  <2> QED BY <2>1, NatMin
<1>2. PICK q \in Seq(Name) : Len(q) = n /\ ~Held(Find(q))
  BY <1>1
<1>3. q # <<>>
  BY <1>2, RootHeld DEF Find
<1>4. Parent(q) \in Seq(Name) /\ Len(Parent(q)) = n - 1 /\ n \in Nat /\ Len(Parent(q)) \in Nat
  BY <1>2, <1>3, FindStep
<1>5. Held(Find(Parent(q)))
  <2>1. n - 1 \notin Bad /\ n - 1 \in Nat
    <3> HIDE DEF Bad
    <3> QED BY <1>1, <1>4
  <2> QED BY <1>4, <2>1
<1>6. Held(Find(q))
  <2> DEFINE up == Find(Parent(q))
  <2>1. Find(q) = Lookup(up, LastName(q)) /\ LastName(q) \in Name /\ Held(up)
    BY <1>2, <1>3, <1>5, FindStep
  <2> HIDE DEF up
  <2>2. Held(Lookup(up, LastName(q)))
    BY <2>1, LookupTree DEF Held, Holders
  <2> QED BY <2>1, <2>2
<1> QED
  BY <1>2, <1>6

\* Where a path other than "/" leads.
LEMMA FindTree ==
  ASSUME TInv, NEW p \in Seq(Name), p # <<>>
  PROVE  LET h == Find(p)
             up == Find(Parent(p))
         IN  /\ h.status = "OK" =>
                  /\ h.loc \in Used(disk) /\ h.entry = disk[h.loc] /\ disk[h.loc].name = LastName(p)
                  /\ up.status = "OK" /\ up.loc \in Dirs(disk) /\ h.loc[1] = disk[up.loc].start
             /\ h.status # "OK" /\ up.status = "OK" /\ up.loc \in Dirs(disk) =>
                  /\ h.status = "ENOENT"
                  /\ \A u \in Used(disk) : u[1] = disk[up.loc].start => disk[u].name # LastName(p)
BY FindStep, FindHeld, LookupTree

\* Different paths lead to different nodes (by the shortest that do not).
LEMMA PathOfNode ==
  ASSUME TInv, NEW p \in Seq(Name), NEW q \in Seq(Name), Find(p).status = "OK",
         Find(q).status = "OK", Find(p).loc = Find(q).loc
  PROVE  p = q
<1> DEFINE Twice(a, b) == /\ Find(a).status = "OK" /\ Find(b).status = "OK"
                          /\ Find(a).loc = Find(b).loc /\ a # b
           Bad == {n \in Nat : \E a, b \in Seq(Name) : Len(a) = n /\ Twice(a, b)}
<1> SUFFICES ASSUME Bad # {} PROVE FALSE
  OBVIOUS
<1>1. PICK n \in Bad : \A m \in Bad : n <= m
  <2>1. Bad \subseteq Nat
    OBVIOUS
  <2> HIDE DEF Bad
  <2> QED BY <2>1, NatMin
<1>2. PICK a \in Seq(Name), b \in Seq(Name) : Len(a) = n /\ Twice(a, b)
  BY <1>1
<1>3. \A c \in Seq(Name) : c # <<>> /\ Find(c).status = "OK" => Find(c).loc # RootLoc
  BY FindTree, OwnerFacts, SMTT(60) DEF TInv
<1>4. Find(<<>>).loc = RootLoc
  BY DEF Find, Hit
<1>5. a # <<>> /\ b # <<>>
  BY <1>2, <1>3, <1>4
<1>6. Parent(a) \in Seq(Name) /\ Len(Parent(a)) = n - 1 /\ Parent(b) \in Seq(Name)
      /\ n \in Nat /\ Len(Parent(a)) \in Nat
  BY <1>2, <1>5, FindStep
<1>7. /\ Find(Parent(a)).status = "OK" /\ Find(Parent(b)).status = "OK"
      /\ Find(Parent(a)).loc = Find(Parent(b)).loc /\ LastName(a) = LastName(b)
  <2>1. /\ Find(Parent(a)).status = "OK" /\ Find(Parent(b)).status = "OK" /\ LastName(a) = LastName(b)
        /\ Find(Parent(a)).loc \in Dirs(disk) /\ Find(Parent(b)).loc \in Dirs(disk)
        /\ disk[Find(Parent(a)).loc].start = disk[Find(Parent(b)).loc].start
    <3>1. ASSUME NEW c \in Seq(Name), c # <<>>, Find(c).status = "OK"
          PROVE  /\ disk[Find(c).loc].name = LastName(c) /\ Find(Parent(c)).status = "OK"
                 /\ Find(Parent(c)).loc \in Dirs(disk)
                 /\ Find(c).loc[1] = disk[Find(Parent(c)).loc].start
      BY <3>1, FindTree
    <3> QED BY <1>2, <1>5, <3>1
  <2> DEFINE x == Find(Parent(a)).loc
             y == Find(Parent(b)).loc
  <2>2. x \in Holders(disk) /\ y \in Holders(disk) /\ disk[x].start = disk[y].start
    BY <2>1 DEF Dirs
  <2> HIDE DEF x, y
  <2>3. Tree(fat, disk)
    BY DEF TInv
  <2>4. disk[x].start \in Block /\ disk[x].start \in Chain(fat, disk[x].start)
    BY <2>2, <2>3, HolderFacts
  <2>5. x = y
    BY <2>2, <2>3, <2>4 DEF Tree, Separate
  <2> QED BY <2>1, <2>5 DEF x, y
<1>8. Parent(a) = Parent(b)
  <2>1. n - 1 \notin Bad /\ n - 1 \in Nat
    <3> HIDE DEF Bad
    <3> QED BY <1>1, <1>6
  <2> QED BY <1>6, <1>7, <2>1
<1>9. a = b
  <2>1. \A c \in Seq(Name) : c # <<>> => c = Append(Parent(c), LastName(c))
    BY SMTT(60) DEF Parent, LastName
  <2> QED BY <1>5, <1>7, <1>8, <2>1
<1> QED
  BY <1>2, <1>9

-----------------------------------------------------------------------------
(* newFile() in a sound tree. *)

\* There is a slot for every name and for the two entries of the root itself.
Roomy == IsFiniteSet(Name) /\ Cardinality(Name) + 2 <= EntriesPerBlock

\* A directory without a free slot has a node for every name but the new one.
LEMMA Crowded ==
  ASSUME NEW f, NEW d, Tree(f, d), NEW o \in Dirs(d), d[o].length = EntriesPerBlock,
         \A i \in 2..EntriesPerBlock - 1 : <<d[o].start, i>> \in Used(d),
         NEW name \in Name, \A u \in Used(d) : u[1] = d[o].start => d[u].name # name
  PROVE  ~Roomy
<1> SUFFICES ASSUME Roomy PROVE FALSE
  OBVIOUS
<1> DEFINE s == d[o].start
           I == 2..EntriesPerBlock - 1
           Others == Name \ {name}
           g == [i \in I |-> d[<<s, i>>].name]
<1>1. \A i \in I : d[<<s, i>>].name \in Others
  BY DEF Used
<1>2. g \in [I -> Others]
  BY <1>1
<1>3. \A i, j \in I : g[i] = g[j] => i = j
  <2> TAKE i, j \in I
  <2>1. <<s, i>> \in Used(d) /\ <<s, j>> \in Used(d) /\ <<s, i>>[1] = s /\ <<s, j>>[1] = s
    OBVIOUS
  <2>2. g[i] = d[<<s, i>>].name /\ g[j] = d[<<s, j>>].name
    OBVIOUS
  <2> HIDE DEF g, s
  <2>3. g[i] = g[j] => <<s, i>> = <<s, j>>
    BY <2>1, <2>2 DEF Tree, Unique
  <2> QED BY <2>3
<1>4. IsFiniteSet(Others) /\ Cardinality(Others) = Cardinality(Name) - 1
  BY FS_RemoveElement DEF Roomy
<1>5. Cardinality(I) = EntriesPerBlock - 2
  <2>1. Cardinality(I) = IF 2 > EntriesPerBlock - 1 THEN 0 ELSE EntriesPerBlock - 1 - 2 + 1
    BY FS_Interval, GeometryAssumption
  <2> QED BY <2>1, GeometryAssumption
<1>6. Cardinality(I) <= Cardinality(Others)
  <2> HIDE DEF g, I, Others
  <2>1. g \in Injection(I, Others)
    BY <1>2, <1>3 DEF Injection, IsInjective
  <2> QED BY <1>4, <2>1, FS_Injection
<1>7. Cardinality(Name) \in Nat
  BY FS_CardinalityType DEF Roomy
<1> HIDE DEF I, Others
<1> QED
  BY <1>4, <1>5, <1>6, <1>7, GeometryAssumption DEF Roomy

\* In d the directory o is as on the disk, or one slot longer to make k its last.
Reaches(d, o, k) ==
    \E n \in Nat :
        /\ n <= EntriesPerBlock /\ k[2] < n
        /\ n = disk[o].length \/ (n = disk[o].length + 1 /\ k[2] = disk[o].length)
        /\ d[o] = [disk[o] EXCEPT !.length = n]

\* What newFile() has done when it returns 0: the entry e is in a free place of
\* the directory that h has reached, one slot longer if need be ...
Settled(new, h, e) ==
    LET o == h.loc
        k == new.loc
    IN  /\ new.entry = e /\ new.disk \in [Loc -> Cell] /\ new.parent \in Entry
        /\ k \in Loc /\ k \notin Holders(disk) /\ k # RootUp
        /\ k[1] = disk[o].start /\ k[2] >= 1
        /\ Reaches(new.disk, o, k)
        /\ new.disk[k] = e
        /\ new.disk[RootUp] \in Entry /\ new.disk[RootUp].name = ".."
        /\ \A x \in Loc \ {k, o, RootUp} : new.disk[x] = disk[x]

\* ... or the directory has outgrown its block.
Overgrown(new, h) ==
    /\ new.disk[h.loc] \notin Data /\ new.disk[h.loc].type = "Directory"
    /\ ~(new.disk[h.loc].length <= EntriesPerBlock)
    /\ new.loc # h.loc /\ new.entry.start # h.loc[1]

\* The cells of the root that are not nodes.
LEMMA RootCells ==
  ASSUME TInv
  PROVE  /\ RootUp \in Loc /\ RootUp \notin Holders(disk) /\ RootUp # RootLoc
         /\ disk[RootUp] \in Entry /\ disk[RootUp].name = ".." /\ disk[RootLoc].name = "."
         /\ disk[RootUp] = [disk[RootLoc] EXCEPT !.name = ".."] /\ disk[RootLoc].length >= 2
         /\ disk \in [Loc -> Cell]
<1>1. Clean(disk) /\ disk \in [Loc -> Cell]
  BY RootEntryForm DEF TInv, Tree
<1>2. /\ disk[RootUp] = [disk[RootLoc] EXCEPT !.name = ".."] /\ disk[RootLoc] \in Entry
      /\ disk[RootLoc].name = "." /\ disk[RootLoc].length >= 2
  BY <1>1 DEF Clean, RootForm
<1>3. disk[RootUp] \in Entry /\ disk[RootUp].name = ".."
  BY <1>2 DEF Entry
<1>4. RootUp \notin Used(disk)
  BY <1>3, NameAssumption DEF Used
<1> QED
  BY <1>1, <1>2, <1>3, <1>4, FiledFacts DEF Holders

\* An entry with another length.
LEMMA Lengthened ==
  ASSUME NEW c \in Entry, NEW n \in Nat
  PROVE  LET e == [c EXCEPT !.length = n]
         IN  /\ e \in Entry /\ e.length = n /\ e.name = c.name /\ e.type = c.type
             /\ e.start = c.start /\ (n = c.length => e = c) /\ e \notin Data
<1>1. [c EXCEPT !.length = n] \in Entry
  BY DEF Entry
<1> QED
  BY <1>1, DataAssumption DEF Entry

LEMMA PlacedTree ==
  ASSUME TInv, NEW f, NEW h, h.loc \in Dirs(disk), h.entry = disk[h.loc],
         NEW e \in Entry, NEW l \in Loc, l \notin Holders(disk), l # RootUp,
         l[1] = disk[h.loc].start, l[2] >= 1, NEW grow \in BOOLEAN,
         ~grow => l[2] < disk[h.loc].length,
         grow => l[2] = disk[h.loc].length /\ disk[h.loc].length < EntriesPerBlock
  PROVE  LET new == Placed(f, e, l, h, grow)
         IN  new.status = "OK" /\ new.fat = f /\ Settled(new, h, e)
<1> DEFINE o == h.loc
           len == disk[o].length
           n == IF grow THEN len + 1 ELSE len
           dir == IF grow THEN [h.entry EXCEPT !.length = @ + 1] ELSE h.entry
           d == PutEntry(disk, e, l)
           new == Placed(f, e, l, h, grow)
<1>1. /\ o \in Loc /\ disk[o] \in Entry /\ len \in 1..EntriesPerBlock /\ len \in Nat
      /\ o # l /\ o # RootUp /\ o \in Holders(disk)
  BY HolderFacts, DirFacts, RootCells DEF TInv, Dirs
<1>2. n \in Nat /\ n <= EntriesPerBlock /\ l[2] < n /\ (n = len \/ (n = len + 1 /\ l[2] = len))
  BY <1>1, GeometryAssumption DEF Loc
<1>3. dir = [disk[o] EXCEPT !.length = n] /\ dir \in Entry
  <2>1. n = len => [disk[o] EXCEPT !.length = n] = disk[o]
    BY <1>1, Lengthened
  <2>2. [disk[o] EXCEPT !.length = n] \in Entry
    BY <1>1, <1>2, Lengthened
  <2>3. dir = [disk[o] EXCEPT !.length = n]
    <3>1. CASE grow
      BY <3>1
    <3>2. CASE ~grow
      BY <2>1, <3>2
    <3> QED BY <3>1, <3>2
  <2> QED BY <2>2, <2>3
<1>4. disk \in [Loc -> Cell] /\ l # RootLoc /\ RootUp \in Loc /\ RootUp # RootLoc
  BY RootCells DEF Holders
<1>5. d \in [Loc -> Cell] /\ d[l] = e /\ \A x \in Loc : x # l => d[x] = disk[x]
  <2>1. \A x \in Loc : d[x] = IF x = l THEN e ELSE disk[x]
    BY <1>4 DEF PutEntry
  <2>2. d \in [Loc -> Cell]
    BY <1>4, PutEntryFacts
  <2> HIDE DEF d
  <2> QED BY <2>1, <2>2
<1>6. new.status = "OK" /\ new.fat = f /\ new.entry = e /\ new.loc = l /\ new.parent = dir
      /\ new.disk = IF grow THEN PutEntry(d, dir, o) ELSE d
  BY DEF Placed, Made
<1> HIDE DEF new, d, dir, n
<1>10. ASSUME NEW x, x[o] = [disk[o] EXCEPT !.length = n] PROVE Reaches(x, o, l)
  BY <1>2, <1>10 DEF Reaches
<1>9. ASSUME /\ new.disk \in [Loc -> Cell] /\ new.disk[l] = e
             /\ new.disk[RootUp] \in Entry /\ new.disk[RootUp].name = "..",
             \A x \in Loc \ {l, o, RootUp} : new.disk[x] = disk[x],
             Reaches(new.disk, o, l)
      PROVE  Settled(new, h, e)
  <2>1. new.entry = e /\ new.loc = l /\ new.parent \in Entry
    BY <1>3, <1>6
  <2> QED BY <1>9, <2>1 DEF Settled
<1>7. ASSUME grow PROVE Settled(new, h, e)
  <2> DEFINE d2 == PutEntry(d, dir, o)
  <2>1. d2 \in [Loc -> Cell] /\ d2[o] = dir
    <3>1. d2 \in [Loc -> Cell]
      BY <1>3, <1>5, PutEntryFacts
    <3> QED BY <1>1, <3>1 DEF PutEntry
  <2>2. \A x \in Loc \ {o, RootUp} : d2[x] = d[x]
    BY DEF PutEntry, RootUp
  <2>3. d2[RootUp] = [dir EXCEPT !.name = ".."] \/ d2[RootUp] = d[RootUp]
    BY <1>1, <1>4 DEF PutEntry, RootUp
  <2>4. d2[RootUp] \in Entry /\ d2[RootUp].name = ".."
    <3>1. [dir EXCEPT !.name = ".."] \in Entry /\ [dir EXCEPT !.name = ".."].name = ".."
      BY <1>3 DEF Entry
    <3>2. d[RootUp] \in Entry /\ d[RootUp].name = ".."
      BY <1>4, <1>5, RootCells
    <3> HIDE DEF d2
    <3> QED BY <2>3, <3>1, <3>2
  <2>5. new.disk = d2
    BY <1>6, <1>7
  <2> HIDE DEF d2
  <2>6. new.disk[l] = e
    BY <1>1, <1>4, <1>5, <2>2, <2>5
  <2>7. \A x \in Loc \ {l, o, RootUp} : new.disk[x] = disk[x]
    BY <1>5, <2>2, <2>5
  <2>8. Reaches(new.disk, o, l)
    BY <1>2, <1>3, <1>10, <2>1, <2>5
  <2>9. new.disk \in [Loc -> Cell] /\ new.disk[RootUp] \in Entry /\ new.disk[RootUp].name = ".."
    BY <2>1, <2>4, <2>5
  <2> QED BY <1>9, <2>6, <2>7, <2>8, <2>9
<1>8. ASSUME ~grow PROVE Settled(new, h, e)
  <2>1. d[o] = dir
    BY <1>1, <1>5, <1>8 DEF dir
  <2>2. d[RootUp] \in Entry /\ d[RootUp].name = ".."
    BY <1>4, <1>5, RootCells
  <2>3. new.disk = d
    BY <1>6, <1>8
  <2>4. Reaches(new.disk, o, l)
    BY <1>2, <1>3, <1>10, <2>1, <2>3
  <2>5. \A x \in Loc \ {l, o, RootUp} : new.disk[x] = disk[x]
    BY <1>5, <2>3
  <2>6. /\ new.disk \in [Loc -> Cell] /\ new.disk[RootUp] \in Entry /\ new.disk[RootUp].name = ".."
        /\ new.disk[l] = e
    BY <1>5, <2>2, <2>3
  <2> QED BY <1>9, <2>4, <2>5, <2>6
<1> QED
  BY <1>6, <1>7, <1>8 DEF new

LEMMA PlacedOver ==
  ASSUME TInv, NEW f, NEW h, h.loc \in Dirs(disk), h.entry = disk[h.loc],
         NEW e, NEW l, l # h.loc, e.start # h.loc[1],
         disk[h.loc].length >= EntriesPerBlock
  PROVE  LET new == Placed(f, e, l, h, TRUE)
         IN  new.status = "OK" /\ Overgrown(new, h)
<1> DEFINE dir == [h.entry EXCEPT !.length = @ + 1]
           d == PutEntry(disk, e, l)
           new == Placed(f, e, l, h, TRUE)
<1>1. h.loc \in Loc /\ disk[h.loc] \in Entry /\ disk[h.loc].type = "Directory"
  BY HolderFacts DEF TInv, Dirs
<1>2. dir \in Entry /\ dir.type = "Directory" /\ ~(dir.length <= EntriesPerBlock) /\ dir \notin Data
  <2> DEFINE m == disk[h.loc].length + 1
  <2>1. disk[h.loc].length \in Nat /\ m \in Nat
    <3>1. disk[h.loc].length \in Nat
      BY HolderFacts DEF TInv, Dirs
    <3> QED BY <3>1
  <2>2. dir = [disk[h.loc] EXCEPT !.length = m]
    OBVIOUS
  <2>4. ~(m <= EntriesPerBlock)
    BY <2>1, GeometryAssumption
  <2> HIDE DEF dir, m
  <2>3. dir \in Entry /\ dir.type = "Directory" /\ dir.length = m
        /\ dir \notin Data
    BY <1>1, <2>1, <2>2, Lengthened
  <2> QED BY <2>3, <2>4
<1>3. new.status = "OK" /\ new.entry = e /\ new.loc = l /\ new.disk = PutEntry(d, dir, h.loc)
  BY DEF Placed, Made
<1> HIDE DEF d, dir, new
<1>4. new.disk[h.loc] = dir
  BY <1>1, <1>3 DEF PutEntry
<1>5. Overgrown(new, h)
  BY <1>2, <1>3, <1>4 DEF Overgrown
<1> QED
  BY <1>3, <1>5 DEF new

\* readDir() always finds the header, so that first_index is never left unset.
LEMMA FirstIndexTree ==
  ASSUME TInv, NEW o \in Dirs(disk), NEW i \in FirstIndices(disk[o])
  PROVE  i \in {1, 2} /\ (disk[o].start = StartBlock => i = 2)
<1> DEFINE x == <<disk[o].start, 0>>
<1>1. disk[o].start # 0 /\ disk[o].length \in 1..EntriesPerBlock /\ o \in Holders(disk)
      /\ disk[o].start \in Block
  BY HolderFacts, DirFacts, BlockFacts DEF TInv, Dirs
<1>2. disk[x] \notin Data
  <2>1. 0 \in 0..disk[o].length - 1
    BY <1>1, GeometryAssumption
  <2> QED BY <2>1 DEF TInv, Tree, Headed
<1>3. Decode(disk[x]) = disk[x]
  BY <1>2 DEF Decode
<1>4. CASE o = RootLoc
  <2>1. x = RootLoc /\ disk[RootLoc].name = "."
    BY <1>4, RootCells DEF TInv, Tree, Rooted, RootLoc
  <2>2. FirstIndices(disk[o]) = {2}
    BY <1>1, <1>3, <2>1 DEF FirstIndices
  <2> QED BY <2>2
<1>5. CASE o # RootLoc
  <2>1. disk[x].name = ".." /\ disk[o].start # StartBlock
    BY <1>1, <1>5, HolderFacts DEF TInv, Tree, Headed
  <2>2. FirstIndices(disk[o]) = {1}
    BY <1>1, <1>3, <2>1 DEF FirstIndices
  <2> QED BY <2>1, <2>2
<1> QED
  BY <1>4, <1>5

LEMMA FindFreeBlockFacts == \A f : FindFreeBlock(f) = UNUSABLE \/ FindFreeBlock(f) \in FreeBlocks(f)
<1> TAKE f
<1>1. CASE FreeBlocks(f) = {}
  BY <1>1 DEF FindFreeBlock
<1>2. CASE FreeBlocks(f) # {}
  <2>1. FreeBlocks(f) \subseteq Nat
    BY BlockFacts DEF FreeBlocks
  <2>2. \E b \in FreeBlocks(f) : \A c \in FreeBlocks(f) : b <= c
    BY <1>2, <2>1, NatMin
  <2> QED BY <1>2, <2>2 DEF FindFreeBlock
<1> QED
  BY <1>1, <1>2

\* What a call of newFile() comes to in a sound tree: no change but for a block
\* it may have taken, the entry in place, or a directory that has no slot left.
NewEntry(p, length, type, noalloc) ==
    [name   |-> IF noalloc THEN "" ELSE LastName(p), type |-> type,
     length |-> length, start  |-> IF noalloc THEN 0 ELSE FindFreeBlock(fat)]

NewTable(noalloc) == IF noalloc THEN fat ELSE Mark(fat, FindFreeBlock(fat), FINAL)

NotMade(new, noalloc) ==
    new.status # "OK" /\ new.disk = disk /\ new.fat \in {fat, NewTable(noalloc)}

IsMade(new, h, p, length, type, noalloc) ==
    /\ new.status = "OK" /\ h.status = "OK" /\ new.fat = NewTable(noalloc)
    /\ Settled(new, h, NewEntry(p, length, type, noalloc))

NoSlotLeft(new, h) ==
    /\ new.status = "OK" /\ h.status = "OK" /\ Overgrown(new, h)
    /\ disk[h.loc].length = EntriesPerBlock
    /\ \A i \in 2..EntriesPerBlock - 1 : <<disk[h.loc].start, i>> \in Used(disk)

LEMMA NewFileTree ==
  ASSUME TInv, NEW h, Found(h), Held(h), h.status = "OK" => h.loc \in Dirs(disk),
         NEW p \in AnyPath, NEW length \in Nat, NEW type \in {"File", "Directory"},
         NEW noalloc \in BOOLEAN, NEW firstIndex \in FirstIndices(h.entry)
  PROVE  LET new == NewFile(h, p, length, type, noalloc, firstIndex)
         IN  \/ NotMade(new, noalloc) /\ (noalloc \/ new.fat = fat \/ FindFreeBlock(fat) \in FreeBlocks(fat))
             \/ /\ IsMade(new, h, p, length, type, noalloc)
                /\ noalloc \/ FindFreeBlock(fat) \in FreeBlocks(fat)
             \/ NoSlotLeft(new, h)
<1> DEFINE dir   == h.entry
           taken == FindFreeBlock(fat)
           f1    == IF noalloc THEN fat ELSE Mark(fat, taken, FINAL)
           need  == BlocksFor(length)
           entry(b) == [name   |-> IF noalloc THEN "" ELSE LastName(p), type |-> type,
                        length |-> length, start  |-> IF noalloc THEN 0 ELSE b]
           reusable == {l \in Slots(f1, dir) :
                        /\ Index(f1, dir.start, l) >= firstIndex
                        /\ IsFree(f1, Decode(disk[l]))}
           blocks == BlocksFor(dir.length)
           last   == Nth(f1, dir.start, blocks - 1)
           rem    == dir.length - EntriesPerBlock * (blocks - 1)
           f2     == Mark(f1, taken, last)
           start  == FindFreeBlock(f2)
           f3     == IF noalloc THEN f2 ELSE Mark(f2, start, FINAL)
           full   == CASE dir.length < EntriesPerBlock -> ~noalloc /\ ~HasFree(f1, need)
                       [] dir.length >= EntriesPerBlock ->
                             /\ rem = EntriesPerBlock
                             /\ ~HasFree(f1, IF noalloc THEN 1 ELSE 2 + need)
           new    == NewFile(h, p, length, type, noalloc, firstIndex)
           Taken  == taken \in FreeBlocks(fat)
           Left   == NotMade(new, noalloc) /\ (noalloc \/ new.fat = fat \/ Taken)
           Put    == IsMade(new, h, p, length, type, noalloc) /\ (noalloc \/ Taken)
<1> SUFFICES Left \/ Put \/ NoSlotLeft(new, h)
  OBVIOUS
<1>1. new =
        IF h.status \notin {"OK", "ENOENT"} THEN Unmade(h.status, fat)
        ELSE IF ~noalloc /\ taken = UNUSABLE THEN Unmade("ENOSPC", fat)
        ELSE IF ReadDirStatus(f1, dir) # "OK" THEN Unmade(ReadDirStatus(f1, dir), f1)
        ELSE IF reusable # {}
             THEN Placed(f1, entry(taken), FirstSlot(f1, dir, reusable), h, FALSE)
        ELSE IF full THEN Unmade("ENOSPC", fat)
        ELSE IF dir.length < EntriesPerBlock
             THEN Placed(f1, entry(taken), <<dir.start, dir.length>>, h, TRUE)
        ELSE IF rem = EntriesPerBlock THEN Placed(f3, entry(start), <<taken, 0>>, h, TRUE)
        ELSE Placed(f1, entry(taken), <<last, rem>>, h, TRUE)
  BY DEF NewFile
<1>2. taken = UNUSABLE \/ Taken
  BY FindFreeBlockFacts
<1>3. f1 = NewTable(noalloc) /\ entry(taken) = NewEntry(p, length, type, noalloc)
  BY DEF NewTable, NewEntry
<1>4. ASSUME NEW s, s # "OK", NEW f, f = fat \/ (f = f1 /\ (noalloc \/ Taken)),
             new = Unmade(s, f)
      PROVE  Left
  <2>1. new.status = s /\ new.fat = f /\ new.disk = disk
    BY <1>4 DEF Unmade, Made
  <2> HIDE DEF new, f1
  <2> QED BY <1>3, <1>4, <2>1 DEF NotMade
<1> HIDE DEF new, Left, Put
<1>5. CASE h.status \notin {"OK", "ENOENT"} \/ (~noalloc /\ taken = UNUSABLE)
  <2> HIDE DEF taken, f1, entry, reusable, full, f3, start, last, rem, dir
  <2>2. CASE h.status \notin {"OK", "ENOENT"}
    <3>1. new = Unmade(h.status, fat)
      BY <1>1, <2>2
    <3>2. h.status # "OK"
      BY <2>2
    <3> QED BY <1>4, <3>1, <3>2
  <2>3. CASE h.status \in {"OK", "ENOENT"}
    <3>1. new = Unmade("ENOSPC", fat)
      BY <1>1, <1>5, <2>3
    <3> QED BY <1>4, <3>1
  <2> QED BY <2>2, <2>3
<1>6. CASE h.status = "ENOENT" /\ ~(~noalloc /\ taken = UNUSABLE)
  <2>1. dir.length = 0 /\ dir.type = "File"
    <3>1. h.entry = Zero
      BY <1>6 DEF Found, AtRoot, Hit, Named, Failed
    <3>2. Zero.length = 0 /\ Zero.type = "File"
      BY DEF Zero
    <3> QED BY <3>1, <3>2
  <2> DEFINE r == ReadDirStatus(f1, dir)
  <2>2. r # "OK"
    <3> HIDE DEF dir, f1
    <3> QED BY <2>1 DEF ReadDirStatus
  <2>3. new = Unmade(r, f1)
    <3> HIDE DEF taken, f1, entry, reusable, full, f3, start, last, rem, dir
    <3> QED BY <1>1, <1>6, <2>2
  <2>4. noalloc \/ Taken
    BY <1>2, <1>6
  <2> HIDE DEF r, f1, Taken
  <2> QED BY <1>4, <2>2, <2>3, <2>4
<1>7. CASE h.status = "OK" /\ ~(~noalloc /\ taken = UNUSABLE)
  <2> DEFINE o == h.loc
             s == dir.start
             n == dir.length
  <2>1. /\ o \in Dirs(disk) /\ o \in Holders(disk) /\ dir = disk[o] /\ dir \in Entry
        /\ s \in Usable /\ s \in Block /\ fat[s] = FINAL /\ n \in 1..EntriesPerBlock /\ n \in Nat
        /\ dir.type = "Directory" /\ Table(fat) /\ (noalloc \/ Taken)
        /\ firstIndex \in {1, 2} /\ (s = StartBlock => firstIndex = 2)
    <3>1. o \in Dirs(disk) /\ dir = disk[o] /\ Tree(fat, disk)
      BY <1>7 DEF Held, TInv
    <3>2. firstIndex \in {1, 2} /\ (s = StartBlock => firstIndex = 2)
      BY <3>1, FirstIndexTree
    <3>3. noalloc \/ Taken
      BY <1>2, <1>7
    <3> HIDE DEF dir, o, Taken
    <3> QED BY <3>1, <3>2, <3>3, HolderFacts, DirFacts DEF Tree, Dirs
  <2>2. Table(f1) /\ f1[s] = FINAL /\ (\A x \in Block : fat[x] # 0 => f1[x] = fat[x])
    <3>1. CASE noalloc
      BY <2>1, <3>1
    <3>2. CASE ~noalloc
      <4>1. taken \in Usable /\ fat[taken] = 0 /\ FINAL \in Link
        BY <2>1, <3>2, FreeBlockFacts, FiledFacts DEF FreeBlocks
      <4> HIDE DEF taken, dir
      <4>2. Table(Mark(fat, taken, FINAL))
        BY <2>1, <4>1, MarkTable
      <4> QED BY <2>1, <3>2, <4>1, <4>2 DEF Mark, FINAL
    <3> QED BY <3>1, <3>2
  <2>3. /\ \A l : l \in Slots(f1, dir) <=> \E j \in 0..n - 1 : l = <<s, j>>
        /\ \A j \in 0..n - 1 : <<s, j>> \in Loc /\ Index(f1, s, <<s, j>>) = j
        /\ ReadDirStatus(f1, dir) = "OK"
    <3> HIDE DEF dir, f1
    <3> QED BY <2>1, <2>2, DirSlots
  <2>4. \A x \in Loc : x[1] = s /\ x[2] >= n => x \notin Holders(disk)
    <3> SUFFICES ASSUME NEW x \in Holders(disk), x[1] = s, x[2] >= n PROVE FALSE
      OBVIOUS
    <3>1. Tree(fat, disk)
      BY DEF TInv
    <3>2. CASE x = RootLoc
      BY <2>1, <3>2 DEF RootLoc
    <3>3. CASE x # RootLoc
      <4>1. x \in Used(disk)
        BY <3>3 DEF Holders
      <4>2. PICK q \in Dirs(disk) : x[1] = disk[q].start /\ x[2] \in 1..disk[q].length - 1
        BY <3>1, <4>1 DEF Tree, Owned
      <4>3. q \in Holders(disk) /\ s \in Chain(fat, disk[q].start) /\ s \in Chain(fat, disk[o].start)
        BY <2>1, <3>1, <4>2, HolderFacts DEF Dirs
      <4>4. q = o
        BY <2>1, <3>1, <4>3 DEF Tree, Separate
      <4>5. x[2] \in 1..n - 1
        BY <2>1, <4>2, <4>4
      <4> QED BY <2>1, <4>5
    <3> QED BY <3>2, <3>3
  <2>5. entry(taken) \in Entry
    <3>1. LastName(p) \in Name \cup {"", ".", ".."}
      BY PathFacts
    <3>2. noalloc \/ taken \in Usable
      BY <2>1, FreeBlockFacts
    <3> HIDE DEF taken
    <3> QED BY <3>1, <3>2 DEF Entry
  <2>6. ASSUME NEW l \in Loc, l \notin Holders(disk), l # RootUp, l[1] = s, l[2] >= 1,
               NEW grow \in BOOLEAN, ~grow => l[2] < n,
               grow => l[2] = n /\ n < EntriesPerBlock,
               new = Placed(f1, entry(taken), l, h, grow)
        PROVE  Put
    <3>1. new.status = "OK" /\ new.fat = f1 /\ Settled(new, h, entry(taken))
      <4> HIDE DEF f1, entry, taken
      <4> QED BY <2>1, <2>5, <2>6, PlacedTree
    <3> HIDE DEF f1, entry, taken, dir, Taken
    <3> QED BY <1>3, <1>7, <2>1, <3>1 DEF IsMade, Put
  <2>7. new = IF reusable # {}
             THEN Placed(f1, entry(taken), FirstSlot(f1, dir, reusable), h, FALSE)
        ELSE IF full THEN Unmade("ENOSPC", fat)
        ELSE IF dir.length < EntriesPerBlock
             THEN Placed(f1, entry(taken), <<dir.start, dir.length>>, h, TRUE)
        ELSE IF rem = EntriesPerBlock THEN Placed(f3, entry(start), <<taken, 0>>, h, TRUE)
        ELSE Placed(f1, entry(taken), <<last, rem>>, h, TRUE)
    <3> HIDE DEF taken, f1, entry, reusable, full, f3, start, last, rem, dir
    <3> QED BY <1>1, <1>7, <2>3
  <2>8. CASE reusable # {}
    <3> DEFINE l == FirstSlot(f1, dir, reusable)
    <3>1. l \in reusable
      <4>1. reusable \subseteq Slots(f1, dir)
        OBVIOUS
      <4> HIDE DEF reusable, f1, dir
      <4> QED BY <2>1, <2>2, <2>8, <4>1, FirstSlotFacts
    <3>2. l \in Slots(f1, dir) /\ IsFree(f1, Decode(disk[l])) /\ Index(f1, s, l) >= firstIndex
      BY <3>1
    <3>3. new = Placed(f1, entry(taken), l, h, FALSE)
      <4> HIDE DEF taken, f1, entry, full, f3, start, last, rem, dir, reusable
      <4> QED BY <2>7, <2>8
    <3> HIDE DEF l, f1, dir, reusable, entry, taken
    <3>4. PICK j \in 0..n - 1 : l = <<s, j>>
      BY <2>3, <3>2
    <3>5. l \in Loc /\ l[1] = s /\ l[2] = j /\ j >= firstIndex /\ j < n
      BY <2>1, <2>3, <3>2, <3>4
    <3>6. l # RootUp
      BY <2>1, <3>5 DEF RootUp
    <3>7. l \notin Holders(disk)
      <4> SUFFICES ASSUME l \in Holders(disk) PROVE FALSE
        OBVIOUS
      <4>1. Tree(fat, disk)
        BY DEF TInv
      <4>2. /\ disk[l] \notin Data /\ disk[l].start \in Block
            /\ disk[l].start \in Usable /\ disk[l].start \in Chain(fat, disk[l].start)
        BY <4>1, HolderFacts
      <4>3. fat[disk[l].start] # 0
        BY <4>1, <4>2 DEF Tree, Sealed, FINAL
      <4>4. f1[disk[l].start] # 0 /\ disk[l].start # 0
        BY <2>2, <4>2, <4>3, BlockFacts
      <4> QED BY <3>2, <4>2, <4>4 DEF Decode, IsFree
    <3>8. l[2] >= 1 /\ l[2] < n
      BY <2>1, <3>5
    <3>9. Put
      BY <2>6, <3>3, <3>5, <3>6, <3>7, <3>8
    <3> QED BY <3>9
  <2>9. CASE reusable = {} /\ full
    <3>1. new = Unmade("ENOSPC", fat)
      <4> HIDE DEF taken, f1, entry, full, f3, start, last, rem, dir, reusable
      <4> QED BY <2>7, <2>9
    <3> HIDE DEF full, reusable
    <3>2. Left
      BY <1>4, <3>1
    <3> QED BY <3>2
  <2>10. CASE reusable = {} /\ ~full /\ n < EntriesPerBlock
    <3>1. new = Placed(f1, entry(taken), <<s, n>>, h, TRUE)
      <4> HIDE DEF taken, f1, entry, full, f3, start, last, rem, dir, reusable
      <4> QED BY <2>7, <2>10
    <3> HIDE DEF full, reusable, dir, f1, entry, taken
    <3> DEFINE l == <<s, n>>
    <3>2. l \in Loc /\ l[1] = s /\ l[2] = n /\ n >= 1 /\ l[2] >= 1
      BY <2>1, <2>10, GeometryAssumption DEF Loc
    <3>3. l \notin Holders(disk)
      BY <2>1, <2>4, <3>2
    <3>4. l # RootUp
      <4>1. s = StartBlock => n >= 2
        <5> SUFFICES ASSUME s = StartBlock PROVE n >= 2
          OBVIOUS
        <5>1. o = RootLoc
          BY <2>1, HolderFacts DEF TInv
        <5> QED BY <2>1, <5>1, RootCells
      <4> QED BY <2>1, <4>1 DEF RootUp
    <3> HIDE DEF l
    <3>5. Put
      BY <2>6, <2>10, <3>1, <3>2, <3>3, <3>4 DEF l
    <3> QED BY <3>5
  <2>11. CASE reusable = {} /\ ~full /\ ~(n < EntriesPerBlock)
    <3>1. n = EntriesPerBlock
      BY <2>1, <2>11, GeometryAssumption
    <3>2. rem = EntriesPerBlock
      BY <3>1, OneBlock
    <3>3. new = Placed(f3, entry(start), <<taken, 0>>, h, TRUE)
      <4> HIDE DEF taken, f1, entry, full, f3, start, last, rem, dir, reusable
      <4> QED BY <2>7, <2>11, <3>2
    <3>4. fat[o[1]] = FINAL /\ o[1] \in Block
      <4>1. Tree(fat, disk)
        BY DEF TInv
      <4>2. \E q \in Dirs(disk) : o[1] = disk[q].start
        <5>1. CASE o = RootLoc
          BY <2>1, <4>1, <5>1, FiledFacts DEF Tree, Rooted
        <5>2. CASE o # RootLoc
          BY <2>1, <4>1, <5>2 DEF Tree, Owned, Holders
        <5> QED BY <5>1, <5>2
      <4> QED BY <4>1, <4>2, DirFacts, HolderFacts DEF Dirs
    <3>5. taken # o[1] /\ f1[o[1]] = FINAL
      <4>1. taken # o[1]
        BY <1>2, <3>4, BlockFacts DEF FreeBlocks, FINAL
      <4> QED BY <2>2, <3>4 , <4>1 DEF FINAL
    <3>6. start # o[1]
      <4>1. f2[o[1]] = FINAL
        <5> HIDE DEF f1, taken, last
        <5> QED BY <3>4, <3>5 DEF Mark
      <4>2. start = UNUSABLE \/ start \in FreeBlocks(f2)
        BY FindFreeBlockFacts
      <4> HIDE DEF f2, start
      <4> QED BY <3>4, <4>1, <4>2, BlockFacts DEF FreeBlocks, FINAL
    <3>7. entry(start).start # o[1]
      <4>1. o[1] # 0
        BY <2>1, <3>4, BlockFacts DEF Table, FINAL, UNUSABLE
      <4> HIDE DEF start
      <4> QED BY <3>6, <4>1
    <3>8. new.status = "OK" /\ Overgrown(new, h)
      <4>1. <<taken, 0>> # o
        BY <3>5
      <4>2. disk[h.loc].length >= EntriesPerBlock
        BY <2>1, <3>1, GeometryAssumption
      <4>3. h.loc \in Dirs(disk) /\ h.entry = disk[h.loc]
        BY <2>1
      <4> HIDE DEF taken, entry, start, f3, dir
      <4> QED BY <3>3, <3>7, <4>1, <4>2, <4>3, PlacedOver
    <3>9. ASSUME NEW i \in 2..EntriesPerBlock - 1 PROVE <<s, i>> \in Used(disk)
      <4> DEFINE x == <<s, i>>
      <4>1. i \in 1..n - 1 /\ i \in 0..n - 1 /\ i >= firstIndex
        BY <2>1, <3>1, GeometryAssumption
      <4>2. x \in Slots(f1, dir) /\ Index(f1, s, x) >= firstIndex
        <5> HIDE DEF f1, dir
        <5> QED BY <2>3, <4>1
      <4>3. ~IsFree(f1, Decode(disk[x]))
        BY <2>11, <4>2
      <4>4. disk[x] \notin Data
        <5> HIDE DEF f1, dir
        <5> QED BY <2>1, <4>1 DEF TInv, Tree, Headed
      <4>5. x \in Used(disk) \/ disk[x].start = 0 \/ x = RootUp
        <5> HIDE DEF f1, dir
        <5> QED BY <2>1, <4>1 DEF TInv, Tree, Filled
      <4>6. x # RootUp
        BY DEF RootUp
      <4>7. disk[x].start # 0
        <5> HIDE DEF x
        <5> QED BY <4>3, <4>4 DEF Decode, IsFree
      <4> QED BY <4>5, <4>6, <4>7
    <3>10. NoSlotLeft(new, h)
      <4>1. disk[h.loc].length = EntriesPerBlock /\ s = disk[h.loc].start
        BY <2>1, <3>1
      <4> HIDE DEF f1, taken, entry, start, full, reusable, dir
      <4> QED BY <1>7, <3>8, <3>9, <4>1 DEF NoSlotLeft
    <3> QED BY <3>10
  <2> HIDE DEF full, reusable, f1, taken, entry, start
  <2> QED BY <2>8, <2>9, <2>10, <2>11
<1> QED
  BY <1>5, <1>6, <1>7

-----------------------------------------------------------------------------
(* The calls.  A directory outgrows its block in none of them, because either *)
(* the names do not suffice (Roomy) or it is not seen to (Fits).              *)

\* No directory's entry is longer than a block.
Fits ==
    \A l \in Loc : disk[l] \notin Data /\ disk[l].type = "Directory" =>
        disk[l].length <= EntriesPerBlock

LEMMA ParentTree ==
  ASSUME TInv, NEW p \in AnyPath
  PROVE  LET h == FindParent(p)
         IN  /\ Found(h) /\ Held(h)
             /\ h.status = "OK" => /\ h.loc \in Dirs(disk) /\ h.entry = disk[h.loc]
                                   /\ h = Find(Parent(p))
             /\ h.status = "OK" /\ Find(p).status # "OK" =>
                  /\ LastName(p) \in Name
                  /\ \A u \in Used(disk) : u[1] = disk[h.loc].start => disk[u].name # LastName(p)
<1> DEFINE h == FindParent(p)
           up == Find(Parent(p))
<1>1. p \in Seq(Name) /\ Parent(p) \in Seq(Name)
  BY PathFacts
<1>2. Found(h) /\ Held(up)
  BY <1>1, FindParentFound, FindHeld DEF TInv
<1>3. h = IF up.status = "OK" /\ up.entry.type = "File" THEN Miss("ENOTDIR") ELSE up
  BY DEF FindParent, NotFile
<1>4. Miss("ENOTDIR").status # "OK"
  BY DEF Miss
<1> HIDE DEF h, up
<1>5. Held(h)
  BY <1>2, <1>3, <1>4 DEF Held
<1>6. ASSUME h.status = "OK"
      PROVE  h = up /\ up.loc \in Dirs(disk) /\ up.entry = disk[up.loc]
  <2>1. h = up /\ up.status = "OK" /\ up.entry.type # "File"
    BY <1>3, <1>4, <1>6
  <2>2. up.loc \in Holders(disk) /\ up.entry = disk[up.loc]
    BY <1>2, <2>1 DEF Held
  <2>3. disk[up.loc] \in Entry
    BY <2>2, HolderFacts DEF TInv
  <2>4. disk[up.loc].type \in {"File", "Directory"}
    BY <2>3 DEF Entry
  <2> QED BY <2>1, <2>2, <2>4 DEF Dirs
<1>7. ASSUME h.status = "OK", Find(p).status # "OK"
      PROVE  /\ LastName(p) \in Name
             /\ \A u \in Used(disk) : u[1] = disk[h.loc].start => disk[u].name # LastName(p)
  <2>1. p # <<>>
    BY <1>7 DEF Find, Hit
  <2>2. up.status = "OK" /\ up.loc \in Dirs(disk) /\ h = up
    BY <1>6, <1>7
  <2> QED BY <1>1, <1>7, <2>1, <2>2, FindStep, FindTree DEF up
<1> QED
  BY <1>2, <1>5, <1>6, <1>7 DEF h, up

\* A call that would make a directory outgrow its block has no place here.
LEMMA Uncrowded ==
  ASSUME TInv, NEW p \in AnyPath, Find(p).status # "OK", NEW new, NoSlotLeft(new, FindParent(p)),
         Roomy \/ Fits', disk'[FindParent(p).loc] = new.disk[FindParent(p).loc]
  PROVE  FALSE
<1> DEFINE h == FindParent(p)
<1>1. /\ h.status = "OK" /\ Overgrown(new, h) /\ disk[h.loc].length = EntriesPerBlock
      /\ \A i \in 2..EntriesPerBlock - 1 : <<disk[h.loc].start, i>> \in Used(disk)
  BY DEF NoSlotLeft
<1>2. /\ h.loc \in Dirs(disk) /\ LastName(p) \in Name
      /\ \A u \in Used(disk) : u[1] = disk[h.loc].start => disk[u].name # LastName(p)
  BY <1>1, ParentTree
<1>3. h.loc \in Loc /\ Tree(fat, disk)
  BY <1>2, HolderFacts DEF TInv, Dirs
<1> HIDE DEF h
<1>4. ~Roomy
  BY <1>1, <1>2, <1>3, Crowded
<1>5. ~Fits'
  <2>1. /\ disk'[h.loc] \notin Data /\ disk'[h.loc].type = "Directory"
        /\ ~(disk'[h.loc].length <= EntriesPerBlock)
    BY <1>1 DEF Overgrown, h
  <2> QED BY <1>3, <2>1 DEF Fits
<1> QED
  BY <1>4, <1>5

\* The tree when the place for an entry is ready and the entry not yet there.
LEMMA SettledTree ==
  ASSUME TInv, NEW h, h.loc \in Dirs(disk), NEW e \in Entry, NEW new, Settled(new, h, e),
         NEW d1, d1 = [x \in Loc |-> IF x = new.loc THEN Zero ELSE new.disk[x]]
  PROVE  /\ Tree(fat, d1) /\ Used(d1) = Used(disk) /\ Holders(d1) = Holders(disk)
         /\ Dirs(d1) = Dirs(disk) /\ \A x \in Holders(disk) : x # h.loc => d1[x] = disk[x]
         /\ d1[h.loc].start = disk[h.loc].start /\ d1[h.loc].type = "Directory"
         /\ d1[h.loc].name = disk[h.loc].name
         /\ new.loc[2] \in 1..d1[h.loc].length - 1
<1> DEFINE o == h.loc
           k == new.loc
<1>1. /\ new.disk \in [Loc -> Cell] /\ k \in Loc /\ k \notin Holders(disk) /\ k # RootUp
      /\ k[1] = disk[o].start /\ k[2] >= 1 /\ Reaches(new.disk, o, k)
      /\ new.disk[RootUp] \in Entry /\ new.disk[RootUp].name = ".."
      /\ \A x \in Loc \ {k, o, RootUp} : new.disk[x] = disk[x]
  BY DEF Settled
<1> HIDE DEF o, k
<1>2. PICK n \in Nat :
         /\ n <= EntriesPerBlock /\ k[2] < n
         /\ n = disk[o].length \/ (n = disk[o].length + 1 /\ k[2] = disk[o].length)
         /\ new.disk[o] = [disk[o] EXCEPT !.length = n]
  BY <1>1 DEF Reaches
<1> USE DEF o, k
<1>3. o \in Loc /\ o # k /\ disk[o] \in Entry /\ disk[o].type = "Directory" /\ o \in Dirs(disk)
      /\ Tree(fat, disk) /\ RootUp \in Loc /\ RootUp \notin Holders(disk)
  BY <1>1, HolderFacts, RootCells DEF TInv, Dirs
<1>4. d1 \in [Loc -> Cell] /\ d1[k] = Zero /\ \A x \in Loc : x # k => d1[x] = new.disk[x]
  BY <1>1, DecodeFacts DEF Cell
<1> DEFINE up == new.disk[RootUp]
<1>5. /\ d1[o] = [disk[o] EXCEPT !.length = n] /\ d1[RootUp] = up
      /\ \A x \in Loc \ {k, o, RootUp} : d1[x] = disk[x]
  BY <1>1, <1>2, <1>3, <1>4
<1>6. /\ d1[o].start = disk[o].start /\ d1[o].type = "Directory" /\ d1[o].length = n
      /\ d1[o].name = disk[o].name
  <2>1. LET e2 == [disk[o] EXCEPT !.length = n]
        IN  e2.start = disk[o].start /\ e2.name = disk[o].name /\ e2.type = disk[o].type /\ e2.length = n
    BY <1>3, Lengthened
  <2> QED BY <1>3, <1>5, <2>1
<1>7. k[2] \in 1..n - 1
  BY <1>1, <1>2 DEF Loc
<1>8. up \in Entry /\ up.name = ".."
  BY <1>1
<1> HIDE DEF up, k, o
<1>9. /\ Tree(fat, d1) /\ Used(d1) = Used(disk) /\ Holders(d1) = Holders(disk) /\ Dirs(d1) = Dirs(disk)
      /\ \A x \in Holders(disk) : x # o => d1[x] = disk[x]
  BY <1>1, <1>2, <1>3, <1>4, <1>5, <1>8, Room
<1> QED
  BY <1>6, <1>7, <1>9 DEF k, o

-----------------------------------------------------------------------------
(* What a call does to the nodes, and to the blocks that no node has.        *)

\* The blocks that are not free and that no entry in use leads to.
Spare(f, d) == {b \in Usable : f[b] # 0} \ UNION {Chain(f, d[l].start) : l \in Holders(d)}

\* The nodes of a set keep their names, their types and their chains, and the files
\* among them their contents.
Stays(f, d, f2, d2, S) ==
    \A l \in S :
        /\ d2[l].name = d[l].name /\ d2[l].type = d[l].type /\ d2[l].start = d[l].start
        /\ \A b \in Chain(f, d[l].start) : f2[b] = f[b]
        /\ d[l].type = "File" =>
              /\ d2[l].length = d[l].length
              /\ \A b \in Chain(f, d[l].start), i \in 0..EntriesPerBlock - 1 :
                    d2[<<b, i>>] = d[<<b, i>>]

\* A step that takes and frees blocks at most, one that only file l may notice, ...
Undisturbed(f, d, f2, d2) == Used(d2) = Used(d) /\ Stays(f, d, f2, d2, Holders(d))

Altered(f, d, f2, d2, l) ==
    /\ l \in Used(d) /\ Used(d2) = Used(d) /\ Stays(f, d, f2, d2, Holders(d) \ {l})
    /\ d2[l].name = d[l].name /\ d2[l].type = d[l].type /\ d2[l].start = d[l].start

\* ... one that puts e in the directory o, ...
Joined(f, d, f2, d2, k, o, e) ==
    /\ k \in Loc /\ k \notin Holders(d) /\ o \in Dirs(d) /\ k[1] = d[o].start /\ d2[k] = e
    /\ Used(d2) = Used(d) \cup {k} /\ Stays(f, d, f2, d2, Holders(d))

\* ... one that takes away l, which has nothing in it, ...
Removed(f, d, f2, d2, l) ==
    /\ l \in Used(d) /\ (d[l].type = "Directory" => \A m \in Used(d) : m[1] # d[l].start)
    /\ Used(d2) = Used(d) \ {l} /\ Stays(f, d, f2, d2, Holders(d) \ {l})

\* ... and one that moves src to l in the directory o, where a file may have been.
Shifted(f, d, f2, d2, src, l, o, name) ==
    /\ src \in Used(d) /\ l \in Loc /\ l # src /\ o \in Dirs(d) /\ l[1] = d[o].start
    /\ l \in Used(d) => d[l].type = "File" /\ d[l].name = name
    /\ Used(d2) = (Used(d) \ {src}) \cup {l} /\ d2[l] = [d[src] EXCEPT !.name = name]
    /\ Stays(f, d, f2, d2, Holders(d) \ {src, l})
    /\ \A b \in Chain(f, d[src].start) : f2[b] = f[b]
    /\ d[src].type = "File" =>
          \A b \in Chain(f, d[src].start), i \in 0..EntriesPerBlock - 1 :
             d2[<<b, i>>] = d[<<b, i>>]

\* File l gets the length n, c is written in the cells W, and nothing else happens.
Resizes(f, d, f2, d2, l, n, W, c) ==
    /\ Altered(f, d, f2, d2, l) /\ d[l].type = "File" /\ d2[l] = [d[l] EXCEPT !.length = n]
    /\ \A x \in Chain(f, d[l].start) : EntriesPerBlock * Steps(f, d[l].start, x) < n =>
          /\ x \in Chain(f2, d[l].start)
          /\ Steps(f2, d[l].start, x) = Steps(f, d[l].start, x)
    /\ \A x \in Loc \ {l} : d2[x] = IF x \in W THEN c ELSE d[x]

\* No entry and no directory's slot is in a file's chain.
LEMMA FileCells ==
  ASSUME NEW f, NEW d, Tree(f, d), NEW l \in Used(d), d[l].type = "File",
         NEW y \in Chain(f, d[l].start)
  PROVE  /\ y \in Block /\ y # StartBlock /\ \A o \in Dirs(d) : d[o].start # y
         /\ \A m \in Holders(d) : m[1] # y
<1>1. y \in Block /\ l \in Holders(d)
  BY OwnerFacts, HolderFacts
<1>2. ASSUME NEW o \in Dirs(d), d[o].start = y PROVE FALSE
  <2>1. o \in Holders(d) /\ o # l
    BY DEF Dirs
  <2>2. y \in Chain(f, d[o].start)
    BY <1>2, <2>1, HolderFacts
  <2> QED BY <1>1, <2>1, <2>2 DEF Tree, Separate
<1>3. y # StartBlock
  <2>1. RootLoc \in Dirs(d) /\ d[RootLoc].start = StartBlock
    BY DEF Tree, Rooted, Dirs, Holders
  <2> QED BY <1>2, <2>1
<1>4. ASSUME NEW m \in Holders(d) PROVE m[1] # y
  <2>1. CASE m = RootLoc
    BY <1>3, <2>1, FiledFacts
  <2>2. CASE m # RootLoc
    <3>1. PICK o \in Dirs(d) : Within(d, o, m)
      BY <2>2, OwnerFacts DEF Holders
    <3> QED BY <1>2, <3>1 DEF Within
  <2> QED BY <2>1, <2>2
<1> QED
  BY <1>1, <1>2, <1>3, <1>4

\* A chain that stays is the same in the new table.
LEMMA StaysChain ==
  ASSUME NEW f, NEW d, Tree(f, d), NEW f2, Table(f2), NEW m \in Holders(d),
         \A b \in Chain(f, d[m].start) : f2[b] = f[b]
  PROVE  Chain(f2, d[m].start) = Chain(f, d[m].start)
<1>1. d[m].start \in Start /\ Table(f)
  BY HolderFacts DEF Tree
<1> QED
  BY <1>1, ChainSame

LEMMA NoMoreSpare ==
  ASSUME NEW f, NEW d, Tree(f, d), NEW f2, Table(f2), NEW d2, NEW S \in SUBSET Holders(d),
         S \subseteq Holders(d2),
         \A m \in S : d2[m].start = d[m].start /\ \A b \in Chain(f, d[m].start) : f2[b] = f[b],
         \A b \in Usable : f2[b] # 0 /\ (\A m \in Holders(d2) : b \notin Chain(f2, d2[m].start)) =>
                              f[b] # 0 /\ \A m \in Holders(d) \ S : b \notin Chain(f, d[m].start)
  PROVE  Spare(f2, d2) \subseteq Spare(f, d)
<1>1. \A m \in S : Chain(f2, d2[m].start) = Chain(f, d[m].start)
  BY StaysChain
<1>2. \A b \in Usable : f2[b] # 0 /\ (\A m \in Holders(d2) : b \notin Chain(f2, d2[m].start)) =>
                              f[b] # 0 /\ \A m \in Holders(d) : b \notin Chain(f, d[m].start)
  BY <1>1
<1> QED
  BY <1>2 DEF Spare

LEMMA StaysOn ==
  ASSUME NEW f, NEW d, Tree(f, d), NEW f2, Table(f2), NEW d2, NEW f3, NEW d3,
         NEW S \in SUBSET Holders(d), Stays(f, d, f2, d2, S), Stays(f2, d2, f3, d3, S)
  PROVE  Stays(f, d, f3, d3, S)
<1> SUFFICES ASSUME NEW l \in S
             PROVE  /\ d3[l].name = d[l].name /\ d3[l].type = d[l].type /\ d3[l].start = d[l].start
                    /\ \A b \in Chain(f, d[l].start) : f3[b] = f[b]
                    /\ d[l].type = "File" =>
                          /\ d3[l].length = d[l].length
                          /\ \A b \in Chain(f, d[l].start), i \in 0..EntriesPerBlock - 1 :
                                d3[<<b, i>>] = d[<<b, i>>]
  BY DEF Stays
<1>1. /\ d2[l].name = d[l].name /\ d2[l].type = d[l].type /\ d2[l].start = d[l].start
      /\ \A b \in Chain(f, d[l].start) : f2[b] = f[b]
  BY DEF Stays
<1>2. Chain(f2, d2[l].start) = Chain(f, d[l].start)
  BY <1>1, StaysChain
<1> QED
  BY <1>1, <1>2 DEF Stays

\* The cells of files that a write to slots of directories leaves alone.
LEMMA FilesApart ==
  ASSUME NEW f, NEW d, Tree(f, d), NEW B,
         \A x \in B : x \in {m[1] : m \in Holders(d)} \cup {d[o].start : o \in Dirs(d)},
         NEW l \in Holders(d), d[l].type = "File"
  PROVE  \A b \in Chain(f, d[l].start) :
            b \notin B /\ \A i \in 0..EntriesPerBlock - 1 : <<b, i>> \in Loc
<1> SUFFICES ASSUME NEW b \in Chain(f, d[l].start)
             PROVE  b \notin B /\ \A i \in 0..EntriesPerBlock - 1 : <<b, i>> \in Loc
  OBVIOUS
<1>1. l \in Used(d)
  BY DEF Tree, Rooted, Holders
<1>2. /\ b \in Block /\ \A o \in Dirs(d) : d[o].start # b
      /\ \A m \in Holders(d) : m[1] # b
  BY <1>1, FileCells
<1>3. b \notin B
  BY <1>2
<1> QED
  BY <1>2, <1>3 DEF Loc

\* A node is moved, and nothing else.
MovesOne(f, d, d2, src, l, o, nm) ==
    /\ Tree(f, d) /\ Tree(f, d2) /\ src \in Used(d) /\ l \in Loc /\ l \notin Holders(d)
    /\ o \in Dirs(d) /\ l[1] = d[o].start /\ Used(d2) = (Used(d) \ {src}) \cup {l}
    /\ \A x \in Loc : x # src /\ x # l => d2[x] = d[x]
    /\ d2[l] = [d[src] EXCEPT !.name = nm]

LEMMA MoveEffect ==
  ASSUME NEW f, NEW d, NEW d2, NEW src, NEW l, NEW o, NEW nm, MovesOne(f, d, d2, src, l, o, nm)
  PROVE  Shifted(f, d, f, d2, src, l, o, nm) /\ Spare(f, d2) \subseteq Spare(f, d)
<1> USE DEF MovesOne
<1>1. /\ src \in Holders(d) /\ src # RootLoc /\ l # src /\ l \notin Used(d) /\ l # RootLoc
  BY OwnerFacts DEF Holders
<1>2. \A m \in Holders(d) \ {src, l} : d2[m] = d[m] /\ m \in Holders(d2)
  BY HolderFacts DEF Holders
<1>3. \A m \in Holders(d) : d[m].type = "File" =>
         \A b \in Chain(f, d[m].start), i \in 0..EntriesPerBlock - 1 : d2[<<b, i>>] = d[<<b, i>>]
  <2> DEFINE B == {src[1], l[1]}
  <2>1. \A x \in B : x \in {m[1] : m \in Holders(d)} \cup {d[q].start : q \in Dirs(d)}
    BY <1>1
  <2>2. \A x \in Loc : x[1] \notin B => d2[x] = d[x]
    OBVIOUS
  <2> HIDE DEF B
  <2>3. ASSUME NEW m \in Holders(d), d[m].type = "File"
        PROVE  \A b \in Chain(f, d[m].start) :
                  b \notin B /\ \A i \in 0..EntriesPerBlock - 1 : <<b, i>> \in Loc
    BY <2>1, <2>3, FilesApart, ZenonT(90)
  <2> QED BY <2>2, <2>3
<1>4. Shifted(f, d, f, d2, src, l, o, nm)
  <2>1. Stays(f, d, f, d2, Holders(d) \ {src, l})
    BY <1>2, <1>3 DEF Stays
  <2> QED BY <1>1, <1>3, <2>1 DEF Shifted
<1>5. d2[l].start = d[src].start /\ l \in Holders(d2)
  <2>1. d[src] \in Entry
    BY <1>1, HolderFacts
  <2> QED BY <2>1 DEF Entry, Holders
<1>6. \A m \in Holders(d) : \E n \in Holders(d2) : d2[n].start = d[m].start
  <2> TAKE m \in Holders(d)
  <2>1. CASE m = src
    BY <1>5, <2>1
  <2>2. CASE m # src
    BY <1>2, <2>2
  <2> QED BY <2>1, <2>2
<1> QED
  BY <1>4, <1>6 DEF Spare

\* The slot that newFile() has chosen, as long as nothing is in it.
LEMMA SettledStays ==
  ASSUME TInv, NEW h, h.loc \in Dirs(disk), NEW e \in Entry, NEW new, Settled(new, h, e),
         NEW d1, d1 = [x \in Loc |-> IF x = new.loc THEN Zero ELSE new.disk[x]]
  PROVE  Stays(fat, disk, fat, d1, Holders(disk)) /\ Spare(fat, d1) \subseteq Spare(fat, disk)
<1> DEFINE o == h.loc
           k == new.loc
           B == {StartBlock, disk[o].start, o[1]}
<1>1. /\ Tree(fat, d1) /\ Used(d1) = Used(disk) /\ Holders(d1) = Holders(disk)
      /\ \A x \in Holders(disk) : x # o => d1[x] = disk[x]
      /\ d1[o].start = disk[o].start /\ d1[o].type = "Directory" /\ d1[o].name = disk[o].name
  BY SettledTree
<1>2. o \in Holders(disk) /\ disk[o].type = "Directory" /\ RootLoc \in Holders(disk)
  BY DEF Dirs, Holders
<1>3. \A x \in Loc : x[1] \notin B => d1[x] = disk[x]
  <2> SUFFICES ASSUME NEW x \in Loc, x[1] \notin B PROVE d1[x] = disk[x]
    OBVIOUS
  <2>1. x \notin {k, o, RootUp}
    BY DEF Settled, RootUp
  <2> QED BY <2>1 DEF Settled
<1>4. \A x \in B : x \in {m[1] : m \in Holders(disk)} \cup {disk[q].start : q \in Dirs(disk)}
  <2>1. RootLoc[1] = StartBlock
    BY DEF RootLoc
  <2> QED BY <1>2, <2>1
<1>5. Tree(fat, disk)
  BY DEF TInv
<1> HIDE DEF B
<1>6. ASSUME NEW m \in Holders(disk), disk[m].type = "File"
      PROVE  \A b \in Chain(fat, disk[m].start) :
                b \notin B /\ \A i \in 0..EntriesPerBlock - 1 : <<b, i>> \in Loc
  BY <1>4, <1>5, <1>6, FilesApart
<1>7. Stays(fat, disk, fat, d1, Holders(disk))
  <2> HIDE DEF o
  <2> SUFFICES ASSUME NEW m \in Holders(disk)
               PROVE  /\ d1[m].name = disk[m].name /\ d1[m].type = disk[m].type
                      /\ d1[m].start = disk[m].start
                      /\ disk[m].type = "File" =>
                            /\ d1[m].length = disk[m].length
                            /\ \A b \in Chain(fat, disk[m].start), i \in 0..EntriesPerBlock - 1 :
                                  d1[<<b, i>>] = disk[<<b, i>>]
    BY DEF Stays
  <2>1. disk[m].type = "File" =>
           \A b \in Chain(fat, disk[m].start), i \in 0..EntriesPerBlock - 1 :
              d1[<<b, i>>] = disk[<<b, i>>]
    BY <1>3, <1>6
  <2>2. CASE m = o
    BY <1>1, <1>2, <2>1, <2>2
  <2>3. CASE m # o
    <3>1. d1[m] = disk[m]
      BY <1>1, <2>3, Zenon
    <3>2. /\ d1[m].name = disk[m].name /\ d1[m].type = disk[m].type
          /\ d1[m].start = disk[m].start /\ d1[m].length = disk[m].length
      BY ONLY <3>1
    <3> QED BY ONLY <2>1, <3>2, Zenon
  <2> QED BY <2>2, <2>3
<1>8. /\ \A m \in Holders(disk) : d1[m].start = disk[m].start
      /\ Holders(disk) \in SUBSET Holders(disk) /\ Holders(disk) \subseteq Holders(d1) /\ Table(fat)
  BY <1>1, <1>5, <1>7 DEF Stays, Tree
<1>9. Spare(fat, d1) \subseteq Spare(fat, disk)
  BY <1>5, <1>8, NoMoreSpare
<1> QED
  BY <1>7, <1>9

\* A new file or directory, with its first block and its header in place.
LEMMA AddSettled ==
  ASSUME TInv, NEW p \in AnyPath, Find(p).status # "OK", NEW new,
         NEW type \in {"File", "Directory"}, NEW length \in {0, 1}, type = "Directory" => length = 1,
         IsMade(new, FindParent(p), p, length, type, FALSE),
         FindFreeBlock(fat) \in FreeBlocks(fat), NEW d2 \in [Loc -> Cell],
         LET x == <<FindFreeBlock(fat), 0>>
         IN  /\ \A l \in Loc : l # x => d2[l] = new.disk[l]
             /\ \/ d2[x] = new.disk[x] /\ type = "File"
                \/ d2[x] \in Entry /\ d2[x].name = ".."
  PROVE  /\ Tree(new.fat, d2)
         /\ Joined(fat, disk, new.fat, d2, new.loc, FindParent(p).loc, NewEntry(p, length, type, FALSE))
         /\ Spare(new.fat, d2) \subseteq Spare(fat, disk)
<1> DEFINE h == FindParent(p)
           o == h.loc
           k == new.loc
           b == FindFreeBlock(fat)
           x == <<b, 0>>
           e == NewEntry(p, length, type, FALSE)
           d1 == [l \in Loc |-> IF l = k THEN Zero ELSE new.disk[l]]
           d0 == [l \in Loc |-> IF l = k THEN Zero ELSE d2[l]]
           g == Mark(fat, b, FINAL)
<1>1. h.status = "OK" /\ new.fat = g /\ Settled(new, h, e)
  BY DEF IsMade, NewTable
<1>2. /\ o \in Dirs(disk) /\ LastName(p) \in Name
      /\ \A u \in Used(disk) : u[1] = disk[o].start => disk[u].name # LastName(p)
  BY <1>1, ParentTree
<1>3. /\ Tree(fat, disk) /\ Table(fat) /\ b \in Usable /\ fat[b] = 0
      /\ \A m \in Holders(disk) : b \notin Chain(fat, disk[m].start) /\ m[1] # b
      /\ \A q \in Dirs(disk) : disk[q].start # b
  BY FreeElsewhere DEF TInv, Tree, FreeBlocks
<1>4. /\ e \in Entry /\ e.name = LastName(p) /\ e.type = type /\ e.length = length
      /\ e.start = b
  <2>1. e = [name |-> LastName(p), type |-> type, length |-> length, start |-> b]
    BY DEF NewEntry
  <2>2. length \in Nat /\ LastName(p) \in Name /\ b \in Usable
    BY <1>2, <1>3
  <2> HIDE DEF e, b
  <2> QED BY <2>1, <2>2 DEF Entry
<1>5. /\ k \in Loc /\ k \notin Holders(disk) /\ k[1] = disk[o].start
      /\ new.disk[k] = e /\ new.disk \in [Loc -> Cell]
  BY <1>1 DEF Settled
<1>6. x \in Loc /\ x # k /\ x[1] = b
  BY <1>2, <1>3, <1>5, BlockFacts, GeometryAssumption DEF Loc
<1> HIDE DEF h, k, b, x, e, d1, d0, g
<1>7. /\ Tree(fat, d1) /\ Used(d1) = Used(disk) /\ Holders(d1) = Holders(disk) /\ Dirs(d1) = Dirs(disk)
      /\ \A m \in Holders(disk) : m # o => d1[m] = disk[m]
      /\ d1[o].start = disk[o].start /\ d1[o].name = disk[o].name /\ d1[o].type = "Directory"
      /\ k[2] \in 1..d1[o].length - 1
  <2>1. d1 = [l \in Loc |-> IF l = new.loc THEN Zero ELSE new.disk[l]]
    BY DEF d1, k
  <2> QED BY <1>1, <1>2, <1>4, <2>1, SettledTree DEF k
<1>8. \A m \in Holders(disk) : d1[m].start = disk[m].start
  BY <1>7
<1>9. /\ d0 \in [Loc -> Cell] /\ d0[x] = d2[x] /\ d0[k] = Zero /\ d1[k] = Zero
      /\ \A l \in Loc : l # x => d0[l] = d1[l]
      /\ d2[k] = e /\ \A l \in Loc : l # k => d2[l] = d0[l]
  BY <1>5, <1>6, DecodeFacts DEF d0, d1, x, b, k, Cell
<1>10. \/ d2[x] = d1[x] /\ type = "File"
       \/ d2[x] \in Entry /\ d2[x].name = ".."
  BY <1>6 DEF d1, x, b
<1>11. \A q \in Dirs(d1) : ~Within(d1, q, x)
  BY <1>3, <1>6, <1>7, <1>8 DEF Within, Dirs
<1>12. Tree(fat, d0) /\ Holders(d0) = Holders(d1) /\ \A m \in Holders(d1) : d0[m] = d1[m]
  <2> SUFFICES ASSUME NEW l \in Loc, d0[l] # d1[l]
               PROVE  /\ l \notin Holders(d1) /\ l \notin Used(d0)
                      /\ \A q \in Dirs(d1) : ~Within(d1, q, l)
    BY <1>7, <1>9, Scribble
  <2>1. l = x /\ d2[x].name = ".."
    BY <1>9, <1>10
  <2>2. x \notin Holders(d1)
    BY <1>3, <1>6, <1>7
  <2>3. x \notin Used(d0)
    BY <1>9, <2>1, NameAssumption DEF Used
  <2> QED BY <1>11, <2>1, <2>2, <2>3
<1>13. Table(g) /\ g[b] = FINAL /\ \A y \in Block : y # b => g[y] = fat[y]
  <2>1. Table(g)
    BY <1>3, MarkTable, FiledFacts DEF g
  <2> QED BY <1>3, <2>1, BlockFacts DEF g, Mark
<1>14. \A m \in Holders(disk) : d0[m].start = disk[m].start
  BY <1>7, <1>8, <1>12
<1>15. Tree(g, d0)
  <2> SUFFICES ASSUME NEW m \in Holders(d0), NEW y \in Chain(fat, d0[m].start)
               PROVE  g[y] = fat[y]
    BY <1>12, <1>13, TableElsewhere
  <2>1. y \in Chain(fat, disk[m].start) /\ m \in Holders(disk)
    BY <1>7, <1>12, <1>14
  <2>2. y \in Block /\ y # b
    BY <1>3, <2>1, HolderFacts
  <2> QED BY <1>13, <2>2
<1>16. Used(d0) = Used(disk) /\ o \in Dirs(d0) /\ d0[o] = d1[o] /\ Holders(d0) = Holders(disk)
  <2>1. Used(d0) = Used(d1)
    <3>1. \A l \in Used(d0) \cup Used(d1) : l # RootLoc
      BY <1>7, <1>12, OwnerFacts
    <3> QED BY <1>12, <3>1 DEF Holders
  <2> QED BY <1>2, <1>7, <1>12, <2>1 DEF Dirs
<1>17. \A u \in Used(d0) : u[1] = k[1] => d0[u].name # e.name
  <2> SUFFICES ASSUME NEW u \in Used(d0), u[1] = k[1], d0[u].name = e.name PROVE FALSE
    OBVIOUS
  <2>1. u \in Used(disk) /\ u \in Holders(disk) /\ d0[u] = d1[u]
    BY <1>7, <1>12, <1>16 DEF Holders
  <2>2. d1[u].name = disk[u].name
    BY <1>7, <2>1
  <2> QED BY <1>2, <1>4, <1>5, <2>1, <2>2
<1>18. Chain(g, b) = {b} /\ ChainLength(g, b) = 1 /\ Ends(g, b)
  <2>1. g[b] \in {FINAL, UNUSABLE, 0}
    BY <1>13
  <2>2. Chain(g, b) = {b}
    BY <2>1, ChainLast
  <2> QED BY <1>13, <2>2, FS_Singleton DEF ChainLength, Ends
<1>19. \A m \in Holders(d0) : b \notin Chain(g, d0[m].start)
  <2> TAKE m \in Holders(d0)
  <2>1. Chain(g, d0[m].start) = Chain(fat, disk[m].start)
    <3>1. d0[m].start = disk[m].start /\ m \in Holders(disk)
      BY <1>14, <1>16
    <3>2. \A y \in Chain(fat, disk[m].start) : y \in Block /\ y # b
      BY <1>3, <3>1, HolderFacts
    <3>3. disk[m].start \in Start
      BY <1>3, <3>1, HolderFacts
    <3> QED BY <1>3, <1>13, <3>1, <3>2, <3>3, ChainSame
  <2> QED BY <1>3, <1>16, <2>1
<1>20. type = "Directory" => d0[x] \notin Data /\ d0[x].name = ".."
  BY <1>9, <1>10, DataAssumption
<1>21. Tree(g, d2) /\ Used(d2) = Used(disk) \cup {k} /\ Holders(d2) = Holders(disk) \cup {k}
  <2>1. k \notin Holders(d0) /\ k[1] = d0[o].start /\ k[2] \in 1..d0[o].length - 1
    BY <1>5, <1>7, <1>16
  <2>2. e.length <= EntriesPerBlock * ChainLength(g, b)
    <3>1. e.length <= EntriesPerBlock * 1
      BY <1>4, GeometryAssumption
    <3> QED BY <1>18, <3>1
  <2>3. \A y \in Chain(g, b) : /\ g[y] = FINAL \/ g[y] > 0
                               /\ \A m \in Holders(d0) : y \notin Chain(g, d0[m].start)
    BY <1>13, <1>18, <1>19
  <2>4. e.type = "Directory" =>
          /\ g[e.start] = FINAL /\ e.length = 1
          /\ d0[<<e.start, 0>>] \notin Data /\ d0[<<e.start, 0>>].name = ".."
    BY <1>4, <1>13, <1>20 DEF x
  <2>5. /\ e \in Entry /\ e.name \in Name /\ e.start \in Usable /\ Ends(g, e.start)
        /\ e.length <= EntriesPerBlock * ChainLength(g, e.start) /\ k \in Loc
        /\ \A y \in Chain(g, e.start) : /\ g[y] = FINAL \/ g[y] > 0
                                        /\ \A m \in Holders(d0) : y \notin Chain(g, d0[m].start)
    BY <1>2, <1>3, <1>4, <1>5, <1>18, <2>2, <2>3
  <2>6. o \in Dirs(d0) /\ d2[k] = e /\ \A l \in Loc : l # k => d2[l] = d0[l]
    BY <1>9, <1>16
  <2> QED BY <1>15, <1>16, <1>17, <2>1, <2>4, <2>5, <2>6, AddNode
<1>22. \A m \in Holders(disk) : \A y \in Chain(fat, disk[m].start) : g[y] = fat[y]
  <2> SUFFICES ASSUME NEW m \in Holders(disk), NEW y \in Chain(fat, disk[m].start)
               PROVE  g[y] = fat[y]
    OBVIOUS
  <2>1. y \in Block /\ y # b
    BY <1>3, HolderFacts
  <2> QED BY <1>13, <2>1
<1>23. \A m \in Holders(disk) :
          /\ d2[m].start = disk[m].start /\ d2[m].name = disk[m].name /\ d2[m].type = disk[m].type
          /\ disk[m].type = "File" => d2[m].length = disk[m].length
  <2> TAKE m \in Holders(disk)
  <2>1. d2[m] = d1[m]
    <3>1. m # k /\ m \in Loc
      BY <1>3, <1>5, HolderFacts
    <3> QED BY <1>7, <1>9, <1>12, <3>1
  <2>2. CASE m = o
    BY <1>2, <1>7, <2>1, <2>2 DEF Dirs
  <2>3. CASE m # o
    BY <1>7, <2>1, <2>3
  <2> QED BY <2>2, <2>3
<1>24. ASSUME NEW m \in Holders(disk), disk[m].type = "File",
              NEW y \in Chain(fat, disk[m].start), NEW i \in 0..EntriesPerBlock - 1
       PROVE  d2[<<y, i>>] = disk[<<y, i>>]
  <2>1. m \in Used(disk)
    BY <1>3, <1>24 DEF Tree, Rooted, Holders
  <2>2. /\ y \in Block /\ y # StartBlock /\ y # disk[o].start
        /\ \A l \in Holders(disk) : l[1] # y
    <3>1. /\ y \in Block /\ y # StartBlock /\ \A q \in Dirs(disk) : disk[q].start # y
          /\ \A l \in Holders(disk) : l[1] # y
      <4>1. /\ Tree(fat, disk) /\ m \in Used(disk) /\ disk[m].type = "File"
            /\ y \in Chain(fat, disk[m].start)
        BY <1>3, <1>24, <2>1
      <4> QED BY <4>1, FileCells, SMTT(60)
    <3> QED BY <1>2, <3>1
  <2>3. y # b
    BY <1>3, <1>24
  <2>4. <<y, i>> \in Loc
    BY <2>2 DEF Loc
  <2>5. <<y, i>> \notin {k, o, RootUp, x}
    <3>1. o \in Holders(disk)
      BY <1>2 DEF Dirs
    <3> QED BY <1>5, <1>6, <2>2, <2>3, <3>1 DEF RootUp
  <2>6. new.disk[<<y, i>>] = disk[<<y, i>>]
    BY <1>1, <2>4, <2>5 DEF Settled, k, o
  <2>7. d2[<<y, i>>] = new.disk[<<y, i>>]
    BY <2>4, <2>5 DEF x, b
  <2> QED BY <2>6, <2>7
<1>25. Joined(fat, disk, g, d2, k, o, e)
  <2>1. Stays(fat, disk, g, d2, Holders(disk))
    BY <1>22, <1>23, <1>24 DEF Stays
  <2> QED BY <1>2, <1>5, <1>9, <1>21, <2>1 DEF Joined
<1>26. Spare(g, d2) \subseteq Spare(fat, disk)
  <2> SUFFICES ASSUME NEW y \in Usable, g[y] # 0,
                      \A m \in Holders(d2) : y \notin Chain(g, d2[m].start)
               PROVE  fat[y] # 0
    BY <1>3, <1>13, <1>21, <1>22, <1>23, NoMoreSpare, ZenonT(90)
  <2>1. y # b
    BY <1>4, <1>9, <1>18, <1>21
  <2> QED BY <1>13, <2>1, BlockFacts
<1> QED
  BY <1>1, <1>21, <1>25, <1>26 DEF e, k, o, h

\* What the next state has to be.
Grown == Tree(fat', disk')

\* A call that fails disturbs nothing, and one that succeeds wastes no block and has
\* the effect E.
Outcome(op, E) ==
    \/ reply'.status # "OK" /\ Undisturbed(fat, disk, fat', disk')
    \/ /\ reply' = [op |-> op, status |-> "OK"]
       /\ Spare(fat', disk') \subseteq Spare(fat, disk)
       /\ E

Added(p, type) ==
    /\ p # <<>> /\ Find(p).status # "OK" /\ FindParent(p).status = "OK"
    /\ \E k, e : /\ Joined(fat, disk, fat', disk', k, FindParent(p).loc, e)
                 /\ e.name = LastName(p) /\ e.type = type /\ (type = "File" => e.length = 0)

Taken(p, type) ==
    /\ p # <<>> /\ Find(p).status = "OK" /\ Find(p).entry.type = type
    /\ Removed(fat, disk, fat', disk', Find(p).loc)

Relocated(p, q) ==
    /\ p # <<>> /\ q # <<>> /\ p # q /\ ~Below(p, q)
    /\ Find(p).status = "OK" /\ Find(Parent(q)).status = "OK"
    /\ \E l : /\ Find(q).status = "OK" => l = Find(q).loc
              /\ Shifted(fat, disk, fat', disk', Find(p).loc, l, Find(Parent(q)).loc, LastName(q))

\* The file p gets the length n, and c in the cells W.
Edited(p, n, W, c) ==
    /\ p # <<>> /\ Find(p).status = "OK"
    /\ Resizes(fat, disk, fat', disk', Find(p).loc, n, W, c)

Written(p, off, n, c) ==
    LET e == Find(p).entry
    IN  Edited(p, IF off + n > e.length THEN off + n ELSE e.length,
               Cells(fat', e.start, off, off + n), c)

LEMMA StaysSame == \A f, d, S : Stays(f, d, f, d, S)
BY DEF Stays

LEMMA TreeKept ==
  ASSUME TInv, UNCHANGED <<fat, disk>>
  PROVE  /\ Grown /\ Undisturbed(fat, disk, fat', disk')
         /\ Spare(fat', disk') \subseteq Spare(fat, disk)
BY StaysSame DEF TInv, Grown, Undisturbed, Spare, Used, Holders

LEMMA FailTree ==
  ASSUME TInv, NEW op, NEW s, s # "OK", Fail(op, s)
  PROVE  Grown /\ reply'.status # "OK" /\ Undisturbed(fat, disk, fat', disk')
<1>1. reply'.status = s /\ UNCHANGED <<fat, disk>>
  BY DEF Fail, Answer
<1> QED
  BY <1>1, TreeKept

\* Between the table and a free block that newFile() took for nothing.
LEMMA TakenTree ==
  ASSUME TInv, NEW noalloc \in BOOLEAN, NEW g \in {fat, NewTable(noalloc)},
         noalloc \/ g = fat \/ FindFreeBlock(fat) \in FreeBlocks(fat)
  PROVE  Tree(g, disk) /\ Undisturbed(fat, disk, g, disk)
<1>1. CASE g = fat
  BY <1>1, StaysSame DEF TInv, Undisturbed
<1>2. CASE g # fat
  <2> DEFINE b == FindFreeBlock(fat)
  <2>1. g = Mark(fat, b, FINAL) /\ b \in FreeBlocks(fat)
    BY <1>2 DEF NewTable
  <2>2. Tree(fat, disk) /\ Table(fat)
    BY DEF TInv, Tree
  <2> HIDE DEF b
  <2>3. b \in Usable /\ \A m \in Holders(disk) : b \notin Chain(fat, disk[m].start)
    BY <2>1, <2>2, FreeElsewhere
  <2>4. Table(g)
    BY <2>1, <2>2, <2>3, MarkTable, FiledFacts
  <2>5. ASSUME NEW m \in Holders(disk), NEW x \in Chain(fat, disk[m].start)
        PROVE  g[x] = fat[x]
    <3>1. x \in Block /\ x # b
      BY <2>2, <2>3, HolderFacts
    <3> QED BY <2>1, <3>1 DEF Mark
  <2> QED BY <2>2, <2>4, <2>5, TableElsewhere DEF Undisturbed, Stays
<1> QED
  BY <1>1, <1>2

\* A call of newFile() for a path that find() did not reach.
LEMMA NewFileCases ==
  ASSUME TInv, NEW p \in AnyPath, NEW length \in Nat, NEW type \in {"File", "Directory"},
         NEW noalloc \in BOOLEAN, NEW i \in FirstIndices(FindParent(p).entry),
         NEW new, new = NewFile(FindParent(p), p, length, type, noalloc, i)
  PROVE  \/ /\ new.status # "OK" /\ new.disk = disk /\ Tree(new.fat, disk)
            /\ Undisturbed(fat, disk, new.fat, disk)
         \/ /\ new.status = "OK" /\ IsMade(new, FindParent(p), p, length, type, noalloc)
            /\ noalloc \/ FindFreeBlock(fat) \in FreeBlocks(fat)
         \/ new.status = "OK" /\ NoSlotLeft(new, FindParent(p))
<1> DEFINE h == FindParent(p)
<1>1. Found(h) /\ Held(h) /\ (h.status = "OK" => h.loc \in Dirs(disk))
  BY ParentTree
<1> HIDE DEF h
<1>2. \/ NotMade(new, noalloc) /\ (noalloc \/ new.fat = fat \/ FindFreeBlock(fat) \in FreeBlocks(fat))
      \/ /\ IsMade(new, h, p, length, type, noalloc)
         /\ noalloc \/ FindFreeBlock(fat) \in FreeBlocks(fat)
      \/ NoSlotLeft(new, h)
  BY <1>1, NewFileTree DEF h
<1>3. ASSUME NotMade(new, noalloc), noalloc \/ new.fat = fat \/ FindFreeBlock(fat) \in FreeBlocks(fat)
      PROVE  /\ new.status # "OK" /\ new.disk = disk /\ Tree(new.fat, disk)
             /\ Undisturbed(fat, disk, new.fat, disk)
  BY <1>3, TakenTree DEF NotMade
<1> QED
  BY <1>2, <1>3 DEF IsMade, NoSlotLeft, h

LEMMA CreateTree ==
  ASSUME TInv, Roomy \/ Fits', NEW p \in AnyPath, Create(p)
  PROVE  Grown /\ Outcome("create", Added(p, "File"))
<1>1. CASE Find(p).status = "OK" /\ Fail("create", "EEXIST")
  BY <1>1, FailTree DEF Outcome
<1>2. ASSUME Find(p).status # "OK", NEW i \in FirstIndices(FindParent(p).entry),
             Took("create", NewFile(FindParent(p), p, 0, "File", FALSE, i))
      PROVE  Grown /\ Outcome("create", Added(p, "File"))
  <2> DEFINE new == NewFile(FindParent(p), p, 0, "File", FALSE, i)
             e   == NewEntry(p, 0, "File", FALSE)
  <2>1. fat' = new.fat /\ disk' = new.disk /\ reply' = [op |-> "create", status |-> new.status]
    BY <1>2 DEF Took, Answer
  <2>2. \/ /\ new.status # "OK" /\ new.disk = disk /\ Tree(new.fat, disk)
           /\ Undisturbed(fat, disk, new.fat, disk)
        \/ /\ new.status = "OK" /\ IsMade(new, FindParent(p), p, 0, "File", FALSE)
           /\ FALSE \/ FindFreeBlock(fat) \in FreeBlocks(fat)
        \/ new.status = "OK" /\ NoSlotLeft(new, FindParent(p))
    BY NewFileCases
  <2> HIDE DEF new
  <2>3. CASE /\ new.status # "OK" /\ new.disk = disk /\ Tree(new.fat, disk)
             /\ Undisturbed(fat, disk, new.fat, disk)
    BY <2>1, <2>3 DEF Grown, Outcome
  <2>4. CASE /\ new.status = "OK" /\ IsMade(new, FindParent(p), p, 0, "File", FALSE)
             /\ FindFreeBlock(fat) \in FreeBlocks(fat)
    <3>1. new.disk \in [Loc -> Cell] /\ FindParent(p).status = "OK"
      BY <2>4 DEF IsMade, Settled
    <3>2. /\ Tree(new.fat, new.disk) /\ Spare(new.fat, new.disk) \subseteq Spare(fat, disk)
          /\ Joined(fat, disk, new.fat, new.disk, new.loc, FindParent(p).loc, e)
      BY <1>2, <2>4, <3>1, AddSettled
    <3>3. e.name = LastName(p) /\ e.type = "File" /\ e.length = 0
      BY DEF NewEntry
    <3> HIDE DEF e
    <3>4. p # <<>>
      BY <1>2 DEF Find, Hit
    <3>5. Added(p, "File")
      BY <1>2, <2>1, <3>1, <3>2, <3>3, <3>4 DEF Added
    <3> QED BY <2>1, <2>4, <3>2, <3>5 DEF Grown, Outcome
  <2>5. CASE NoSlotLeft(new, FindParent(p))
    BY <1>2, <2>1, <2>5, Uncrowded
  <2> QED BY <2>2, <2>3, <2>4, <2>5
<1> QED
  BY <1>1, <1>2 DEF Create

\* The new directory's header is the parent's entry, renamed.
LEMMA MkdirTree ==
  ASSUME TInv, Careful, Roomy \/ Fits', NEW p \in AnyPath, Mkdir(p)
  PROVE  Grown /\ Outcome("mkdir", Added(p, "Directory"))
<1>1. PICK i \in FirstIndices(FindParent(p).entry) :
          LET new    == NewFile(FindParent(p), p, 1, "Directory", FALSE, i)
              dotdot == [new.parent EXCEPT !.name = ".."]
          IN  IF new.status # "OK" THEN Took("mkdir", new)
              ELSE /\ Answer("mkdir", "OK")
                   /\ fat' = new.fat
                   /\ disk' = PutEntry(new.disk, dotdot, <<new.entry.start, 0>>)
                   /\ root' = RootAfter(new.root, dotdot)
  BY DEF Mkdir
<1>2. Find(p).status # "OK"
  BY DEF Mkdir
<1> DEFINE h == FindParent(p)
           new == NewFile(FindParent(p), p, 1, "Directory", FALSE, i)
           dotdot == [new.parent EXCEPT !.name = ".."]
           x == <<new.entry.start, 0>>
<1>3. /\ reply' = [op |-> "mkdir", status |-> new.status]
      /\ IF new.status # "OK" THEN fat' = new.fat /\ disk' = new.disk
         ELSE fat' = new.fat /\ disk' = PutEntry(new.disk, dotdot, x)
  BY <1>1 DEF Took, Answer
<1>4. \/ /\ new.status # "OK" /\ new.disk = disk /\ Tree(new.fat, disk)
         /\ Undisturbed(fat, disk, new.fat, disk)
      \/ /\ new.status = "OK" /\ IsMade(new, FindParent(p), p, 1, "Directory", FALSE)
         /\ FALSE \/ FindFreeBlock(fat) \in FreeBlocks(fat)
      \/ new.status = "OK" /\ NoSlotLeft(new, FindParent(p))
  BY NewFileCases
<1> HIDE DEF new
<1>5. CASE /\ new.status # "OK" /\ new.disk = disk /\ Tree(new.fat, disk)
           /\ Undisturbed(fat, disk, new.fat, disk)
  BY <1>3, <1>5 DEF Grown, Outcome
<1>6. CASE /\ new.status = "OK" /\ IsMade(new, h, p, 1, "Directory", FALSE)
           /\ FindFreeBlock(fat) \in FreeBlocks(fat)
  <2> DEFINE b == FindFreeBlock(fat)
             e == NewEntry(p, 1, "Directory", FALSE)
  <2>1. new.entry.start = b /\ new.disk \in [Loc -> Cell] /\ new.parent \in Entry
    BY <1>6 DEF IsMade, Settled, NewEntry
  <2>2. dotdot \in Entry /\ dotdot.name = ".."
    BY <2>1 DEF Entry
  <2>3. b \in Usable /\ b # StartBlock
    <3>1. Tree(fat, disk)
      BY DEF TInv
    <3>2. b \in Usable /\ \A o \in Dirs(disk) : disk[o].start # b
      BY <1>6, <3>1, FreeElsewhere
    <3>3. RootLoc \in Dirs(disk) /\ disk[RootLoc].start = StartBlock
      BY <3>1, RootHeld DEF Tree, Rooted
    <3> QED BY <3>2, <3>3
  <2>4. x = <<b, 0>> /\ x # RootLoc /\ x \in Loc
    BY <2>1, <2>3, BlockFacts, GeometryAssumption DEF Loc, RootLoc
  <2> HIDE DEF dotdot, x, b, h
  <2>5. /\ disk' \in [Loc -> Cell] /\ disk'[x] = dotdot
        /\ \A l \in Loc : l # x => disk'[l] = new.disk[l]
    BY <1>3, <1>6, <2>1, <2>2, <2>4, PutEntryFacts DEF PutEntry, Cell
  <2>6. /\ Tree(new.fat, disk') /\ Spare(new.fat, disk') \subseteq Spare(fat, disk)
        /\ Joined(fat, disk, new.fat, disk', new.loc, FindParent(p).loc, e)
    <3>1. /\ \A l \in Loc : l # <<b, 0>> => disk'[l] = new.disk[l]
          /\ disk'[<<b, 0>>] \in Entry /\ disk'[<<b, 0>>].name = ".."
      BY <2>2, <2>4, <2>5
    <3>2. IsMade(new, FindParent(p), p, 1, "Directory", FALSE) /\ FindFreeBlock(fat) \in FreeBlocks(fat)
      BY <1>6 DEF h
    <3>3. 1 \in {0, 1}
      OBVIOUS
    <3> QED BY <1>2, <2>5, <3>1, <3>2, <3>3, AddSettled DEF b
  <2>7. e.name = LastName(p) /\ e.type = "Directory"
    BY DEF NewEntry
  <2> HIDE DEF e
  <2>8. p # <<>>
    BY <1>2 DEF Find, Hit
  <2>9. FindParent(p).status = "OK"
    BY <1>6 DEF IsMade, h
  <2>10. Added(p, "Directory")
    BY <1>2, <1>3, <1>6, <2>6, <2>7, <2>8, <2>9 DEF Added
  <2> QED BY <1>3, <1>6, <2>6, <2>10 DEF Grown, Outcome
<1>7. CASE new.status = "OK" /\ NoSlotLeft(new, h)
  <2>1. h.loc \in Loc /\ new.entry.start # h.loc[1]
    <3>1. h.status = "OK" /\ new.entry.start # h.loc[1]
      BY <1>7 DEF NoSlotLeft, Overgrown
    <3>2. h.loc \in Dirs(disk)
      BY <3>1, ParentTree
    <3> QED BY <3>1, <3>2, HolderFacts DEF TInv, Dirs
  <2>2. disk'[h.loc] = new.disk[h.loc]
    <3>1. disk' = PutEntry(new.disk, dotdot, x)
      BY <1>3, <1>7
    <3>2. h.loc # x
      BY <2>1
    <3>3. ~(x = RootLoc /\ h.loc = RootUp)
      <4>1. x[1] # h.loc[1]
        BY <2>1
      <4> QED BY <4>1, FiledFacts
    <3> HIDE DEF x, h, dotdot
    <3> QED BY <2>1, <3>1, <3>2, <3>3 DEF PutEntry, RootUp
  <2> QED BY <1>2, <1>7, <2>2, Uncrowded
<1> QED
  BY <1>4, <1>5, <1>6, <1>7

\* A node is written over as free and its chain given back.
LEMMA Forgotten ==
  ASSUME TInv, NEW l \in Used(disk), NEW e \in Entry, e.start = 0,
         disk[l].type = "Directory" => \A m \in Used(disk) : m[1] # disk[l].start,
         NEW d, d = PutEntry(disk, e, l)
  PROVE  /\ Tree(Forget(fat, disk[l].start), d) /\ d \in [Loc -> Cell]
         /\ Used(d) = Used(disk) \ {l} /\ Holders(d) = Holders(disk) \ {l}
         /\ \A x \in Loc : x # l => d[x] = disk[x]
         /\ Removed(fat, disk, Forget(fat, disk[l].start), d, l)
         /\ Spare(Forget(fat, disk[l].start), d) \subseteq Spare(fat, disk)
<1>1. Tree(fat, disk) /\ Table(fat) /\ disk \in [Loc -> Cell]
  BY DEF TInv, Tree
<1>2. l \in Loc /\ l # RootLoc /\ l \in Holders(disk)
  BY <1>1, OwnerFacts
<1>3. /\ d \in [Loc -> Cell] /\ d[l] = e /\ e \notin Data
      /\ \A x \in Loc : x # l => d[x] = disk[x]
  BY <1>1, <1>2, DataAssumption DEF PutEntry, Cell
<1>4. Tree(fat, d) /\ Used(d) = Used(disk) \ {l} /\ Holders(d) = Holders(disk) \ {l}
  BY <1>1, <1>3, Remove
<1> DEFINE b == disk[l].start
           g == Forget(fat, b)
<1>5. Table(g) /\ \A x \in Block : x \notin Chain(fat, b) => g[x] = fat[x]
  <2>1. b \in Start
    BY <1>1, <1>2, HolderFacts
  <2> HIDE DEF b
  <2> QED BY <1>1, <2>1, ForgetTable DEF Forget
<1>6. /\ \A x \in Usable : g[x] # 0 => fat[x] # 0 /\ x \notin Chain(fat, b)
  <2>1. \A x \in Chain(fat, b) : fat[x] = FINAL \/ fat[x] > 0
    BY <1>1, <1>2 DEF Tree, Sealed
  <2> QED BY <2>1, BlockFacts DEF g, Forget
<1> HIDE DEF g
<1>7. \A m \in Holders(disk) \ {l} :
         d[m] = disk[m] /\ \A x \in Chain(fat, disk[m].start) : g[x] = fat[x]
  <2> SUFFICES ASSUME NEW m \in Holders(disk) \ {l}
               PROVE  d[m] = disk[m] /\ \A x \in Chain(fat, disk[m].start) : g[x] = fat[x]
    OBVIOUS
  <2>1. m \in Loc /\ d[m] = disk[m] /\ Chain(fat, disk[m].start) \subseteq Block
    BY <1>1, <1>3, HolderFacts
  <2>2. \A x \in Chain(fat, disk[m].start) : x \in Block /\ x \notin Chain(fat, b)
    BY <1>1, <1>2, <2>1 DEF Tree, Separate
  <2> QED BY <1>5, <2>1, <2>2
<1>8. Tree(g, d)
  BY <1>4, <1>5, <1>7, TableElsewhere
<1>9. ASSUME NEW m \in Holders(disk) \ {l}, disk[m].type = "File",
             NEW y \in Chain(fat, disk[m].start), NEW i \in 0..EntriesPerBlock - 1
      PROVE  d[<<y, i>>] = disk[<<y, i>>]
  <2>1. m \in Used(disk)
    BY <1>1, <1>9 DEF Tree, Rooted, Holders
  <2>2. y \in Block /\ l[1] # y
    BY <1>1, <1>2, <1>9, <2>1, FileCells
  <2> QED BY <1>3, <2>2 DEF Loc
<1>10. Removed(fat, disk, g, d, l)
  <2>1. Stays(fat, disk, g, d, Holders(disk) \ {l})
    BY <1>7, <1>9 DEF Stays
  <2> QED BY <1>4, <2>1 DEF Removed
<1>11. Spare(g, d) \subseteq Spare(fat, disk)
  BY <1>1, <1>4, <1>5, <1>6, <1>7, NoMoreSpare
<1> QED
  BY <1>3, <1>4, <1>8, <1>10, <1>11 DEF g, b

\* What find() returns for a path other than "/".
LEMMA FoundNode ==
  ASSUME TInv, NEW p \in AnyPath, Find(p).status = "OK", p # <<>> \/ Find(p).entry.type = "File"
  PROVE  /\ p # <<>> /\ Find(p).loc \in Used(disk) /\ Find(p).entry = disk[Find(p).loc]
         /\ Find(p).entry \in Entry /\ Find(p).loc \in Loc
<1>1. p # <<>>
  <2>1. RootEntry.type = "Directory"
    BY RootEntryForm DEF TInv, RootForm
  <2> QED BY <2>1 DEF Find, Hit
<1>2. p \in Seq(Name)
  BY PathFacts
<1>3. Find(p).loc \in Used(disk) /\ Find(p).entry = disk[Find(p).loc]
  BY <1>1, <1>2, FindTree
<1> QED
  BY <1>1, <1>3, OwnerFacts, HolderFacts DEF TInv

LEMMA UnlinkTree ==
  ASSUME TInv, NEW p \in AnyPath, Unlink(p)
  PROVE  Grown /\ Outcome("unlink", Taken(p, "File"))
<1>1. ASSUME NEW s, s # "OK", Fail("unlink", s)
      PROVE  Grown /\ Outcome("unlink", Taken(p, "File"))
  BY <1>1, FailTree DEF Outcome
<1> DEFINE h == Find(p)
           e == [h.entry EXCEPT !.start = 0]
<1>2. CASE /\ h.status = "OK" /\ h.entry.type = "File"
           /\ Save("unlink", Forget(fat, h.entry.start), disk, e, h.loc)
  <2>1. p # <<>> /\ h.loc \in Used(disk) /\ h.entry = disk[h.loc] /\ h.entry \in Entry
    BY <1>2, FoundNode
  <2>2. e \in Entry /\ e.start = 0
    BY <2>1 DEF Entry
  <2>3. fat' = Forget(fat, disk[h.loc].start) /\ disk' = PutEntry(disk, e, h.loc)
    BY <1>2, <2>1 DEF Save
  <2>4. disk[h.loc].type # "Directory" /\ reply' = [op |-> "unlink", status |-> "OK"]
    BY <1>2, <2>1 DEF Save, Answer
  <2> HIDE DEF e
  <2>5. /\ Grown /\ Spare(fat', disk') \subseteq Spare(fat, disk)
        /\ Removed(fat, disk, fat', disk', h.loc)
    <3> HIDE DEF h
    <3> QED BY <2>1, <2>2, <2>3, <2>4, Forgotten DEF Grown
  <2> QED BY <1>2, <2>1, <2>4, <2>5 DEF Outcome, Taken
<1> QED
  BY <1>1, <1>2 DEF Unlink

\* rmdir() takes a directory for empty only when no node is in it.
LEMMA EmptyDir ==
  ASSUME TInv, NEW l \in Used(disk), disk[l].type = "Directory", ~NotEmpty(fat, disk, disk[l]),
         NEW u \in Used(disk), u[1] = disk[l].start
  PROVE  FALSE
<1> DEFINE dir == disk[l]
<1>1. Tree(fat, disk) /\ Table(fat) /\ l \in Dirs(disk)
  BY DEF TInv, Tree, Dirs, Holders
<1>2. PICK o \in Dirs(disk) : u[1] = disk[o].start /\ u[2] \in 1..disk[o].length - 1
  BY <1>1 DEF Tree, Owned
<1>3. o = l
  <2>1. o \in Holders(disk) /\ l \in Holders(disk) /\ disk[o].start = dir.start
    BY <1>1, <1>2 DEF Dirs
  <2>2. dir.start \in Block /\ dir.start \in Chain(fat, dir.start)
    BY <1>1, <2>1, HolderFacts
  <2> QED BY <1>1, <2>1, <2>2 DEF Tree, Separate
<1>4. /\ dir \in Entry /\ dir.start \in Usable /\ fat[dir.start] = FINAL
      /\ dir.length \in 1..EntriesPerBlock
  BY <1>1, HolderFacts, DirFacts
<1>5. u[2] \in 0..dir.length - 1 /\ dir.length > 1
  BY <1>2, <1>3, <1>4, GeometryAssumption
<1>6. ReadDirStatus(fat, dir) = "OK" /\ \A k : k \in Slots(fat, dir) <=> \E j \in 0..dir.length - 1 : k = <<dir.start, j>>
  BY <1>1, <1>4, DirSlots
<1>7. u = <<dir.start, u[2]>>
  <2>1. u \in Loc
    BY DEF Used
  <2> QED BY <2>1 DEF Loc
<1>8. u \in Slots(fat, dir)
  BY <1>5, <1>6, <1>7
<1>9. Decode(disk[u]) = disk[u] /\ disk[u].name \in Name /\ u \in Holders(disk)
  BY DEF Used, Decode, Holders
<1>10. HasStuff(fat, disk[u])
  <2>1. disk[u].name # ".."
    BY <1>9, NameAssumption
  <2>2. disk[u].start \in Chain(fat, disk[u].start) /\ disk[u].start # 0
    BY <1>1, <1>9, HolderFacts, BlockFacts
  <2>3. fat[disk[u].start] = FINAL \/ fat[disk[u].start] > 0
    BY <1>1, <1>9, <2>2 DEF Tree, Sealed
  <2>4. fat[disk[u].start] # 0
    BY <2>3 DEF FINAL
  <2>5. disk[u].type # "File" => disk[u].length > 0
    <3>1. disk[u] \in Entry
      BY <1>1, <1>9, HolderFacts
    <3>2. CASE disk[u].type = "Directory"
      <4>1. disk[u].length \in 1..EntriesPerBlock
        BY <1>1, <1>9, <3>2, DirFacts DEF Dirs
      <4> QED BY <4>1, GeometryAssumption
    <3> QED BY <3>1, <3>2 DEF Entry
  <2> QED BY <2>1, <2>2, <2>4, <2>5 DEF HasStuff, IsFree
<1> QED
  BY <1>5, <1>6, <1>8, <1>9, <1>10 DEF NotEmpty

LEMMA RmdirTree ==
  ASSUME TInv, NEW p \in AnyPath, Rmdir(p)
  PROVE  Grown /\ Outcome("rmdir", Taken(p, "Directory"))
<1>1. ASSUME NEW s, s # "OK", Fail("rmdir", s)
      PROVE  Grown /\ Outcome("rmdir", Taken(p, "Directory"))
  BY <1>1, FailTree DEF Outcome
<1>2. CASE p = <<>> /\ Answer("rmdir", "EINVAL") /\ UNCHANGED <<fat, disk, root>>
  BY <1>2, TreeKept DEF Outcome, Answer
<1> DEFINE h == Find(p)
           e == [h.entry EXCEPT !.start = 0, !.length = 0]
<1>3. CASE /\ p # <<>> /\ h.status = "OK" /\ h.entry.type = "Directory"
           /\ ~NotEmpty(fat, disk, h.entry)
           /\ Save("rmdir", Forget(fat, h.entry.start), disk, e, h.loc)
  <2>1. h.loc \in Used(disk) /\ h.entry = disk[h.loc] /\ h.entry \in Entry
    BY <1>3, FoundNode
  <2>2. e \in Entry /\ e.start = 0
    BY <2>1 DEF Entry
  <2>3. fat' = Forget(fat, disk[h.loc].start) /\ disk' = PutEntry(disk, e, h.loc)
    BY <1>3, <2>1 DEF Save
  <2>4. \A m \in Used(disk) : m[1] # disk[h.loc].start
    BY <1>3, <2>1, EmptyDir
  <2>5. reply' = [op |-> "rmdir", status |-> "OK"]
    BY <1>3 DEF Save, Answer
  <2> HIDE DEF e
  <2>6. /\ Grown /\ Spare(fat', disk') \subseteq Spare(fat, disk)
        /\ Removed(fat, disk, fat', disk', h.loc)
    <3> HIDE DEF h
    <3> QED BY <2>1, <2>2, <2>3, <2>4, Forgotten DEF Grown
  <2> QED BY <1>3, <2>5, <2>6 DEF Outcome, Taken
<1> QED
  BY <1>1, <1>2, <1>3 DEF Rmdir

\* rename() onto a file: the file goes, and the node takes its slot.
LEMMA RenameOver ==
  ASSUME TInv, NEW p \in AnyPath, NEW q \in AnyPath, p # <<>>, p # q, ~Below(p, q),
         Find(p).status = "OK", Find(q).status = "OK", Find(q).entry.type = "File",
         fat' = Forget(fat, Find(q).entry.start),
         disk' = Moved(PutEntry(disk, [Find(q).entry EXCEPT !.start = 0], Find(q).loc),
                       Find(p), Find(q).loc, LastName(q))
  PROVE  Grown /\ Relocated(p, q) /\ Spare(fat', disk') \subseteq Spare(fat, disk)
<1> DEFINE src == Find(p)
           l == Find(q).loc
           gone == [Find(q).entry EXCEPT !.start = 0]
           d == PutEntry(disk, gone, l)
           nm == LastName(q)
<1>1. /\ src.loc \in Used(disk) /\ src.entry = disk[src.loc] /\ src.entry \in Entry
      /\ src.loc \in Loc /\ src.loc \in Holders(disk)
  BY FoundNode DEF Holders
<1>2. /\ q # <<>> /\ l \in Used(disk) /\ Find(q).entry = disk[l] /\ Find(q).entry \in Entry
      /\ l \in Loc /\ disk[l].type = "File"
  BY FoundNode
<1>3. p \in Seq(Name) /\ q \in Seq(Name)
  BY PathFacts
<1>4. src.loc # l
  BY <1>3, PathOfNode
<1>5. nm \in Name /\ disk[l].name = nm
  BY <1>2, <1>3, FindStep, FindTree
<1>6. gone \in Entry /\ gone.start = 0
  BY <1>2 DEF Entry
<1>7. fat' = Forget(fat, disk[l].start)
  BY <1>2
<1>8. \A x \in Loc : disk'[x] = CASE x = src.loc -> Zero
                                  [] x # src.loc /\ x = l -> [src.entry EXCEPT !.name = nm]
                                  [] OTHER -> d[x]
  BY DEF Moved
<1>9. Typed(src)
  BY <1>1 DEF Typed
<1>10. disk' = Moved(d, src, l, nm)
  OBVIOUS
<1> HIDE DEF src, l, gone, nm
<1>11. /\ Tree(fat', d) /\ d \in [Loc -> Cell]
       /\ Used(d) = Used(disk) \ {l} /\ Holders(d) = Holders(disk) \ {l}
       /\ \A x \in Loc : x # l => d[x] = disk[x]
       /\ Stays(fat, disk, fat', d, Holders(disk) \ {l}) /\ Spare(fat', d) \subseteq Spare(fat, disk)
  <2>1. disk[l].type # "Directory" /\ d = PutEntry(disk, gone, l)
    BY <1>2
  <2> HIDE DEF d
  <2>2. /\ Tree(fat', d) /\ d \in [Loc -> Cell]
        /\ Used(d) = Used(disk) \ {l} /\ Holders(d) = Holders(disk) \ {l}
        /\ \A x \in Loc : x # l => d[x] = disk[x]
        /\ Removed(fat, disk, fat', d, l) /\ Spare(fat', d) \subseteq Spare(fat, disk)
    BY <1>2, <1>6, <1>7, <2>1, Forgotten
  <2> QED BY <2>2 DEF Removed
<1> HIDE DEF d
<1>12. disk' \in [Loc -> Cell]
  <2>1. nm \in Name \cup {"", ".", ".."}
    BY <1>5
  <2>2. Moved(d, src, l, nm) \in [Loc -> Cell]
    BY <1>9, <1>11, <2>1, MovedCells
  <2> QED BY <1>10, <2>2
<1>13. Tree(fat, disk)
  BY DEF TInv
<1> DEFINE o == Find(Parent(q)).loc
<1>14. /\ Find(Parent(q)).status = "OK" /\ o \in Dirs(disk) /\ l[1] = disk[o].start
       /\ l[2] \in 1..disk[o].length - 1
  <2>1. Find(Parent(q)).status = "OK" /\ o \in Dirs(disk) /\ l[1] = disk[o].start
    BY <1>2, <1>3, FindTree DEF l
  <2>2. PICK v \in Dirs(disk) : l[1] = disk[v].start /\ l[2] \in 1..disk[v].length - 1
    BY <1>2, <1>13 DEF Tree, Owned
  <2>3. v = o
    <3>1. v \in Holders(disk) /\ o \in Holders(disk) /\ disk[v].start = disk[o].start
      BY <2>1, <2>2 DEF Dirs
    <3>2. disk[o].start \in Block /\ disk[o].start \in Chain(fat, disk[o].start)
      BY <1>13, <3>1, HolderFacts
    <3> QED BY <1>13, <3>1, <3>2 DEF Tree, Separate
  <2> QED BY <2>1, <2>2, <2>3
<1> HIDE DEF o
<1>15. o \in Dirs(d) /\ d[o] = disk[o]
  <2>1. o \in Holders(disk) /\ o # l /\ o \in Loc
    BY <1>2, <1>13, <1>14, HolderFacts DEF Dirs
  <2> QED BY <1>11, <1>14, <2>1 DEF Dirs
<1>16. \A m \in Used(d) : m # src.loc /\ m[1] = l[1] => d[m].name # nm
  <2> SUFFICES ASSUME NEW m \in Used(d), m[1] = l[1], d[m].name = nm PROVE FALSE
    OBVIOUS
  <2>1. m \in Used(disk) /\ m # l /\ d[m] = disk[m]
    BY <1>11 DEF Used
  <2> QED BY <1>2, <1>5, <1>13, <2>1 DEF Tree, Unique
<1>17. src.loc \in Used(d) /\ d[src.loc] = src.entry /\ l \notin Holders(d)
  BY <1>1, <1>4, <1>11
<1>18. /\ disk'[src.loc] = Zero /\ Zero \notin Data /\ Zero.start = 0
       /\ disk'[l] = [d[src.loc] EXCEPT !.name = nm]
       /\ \A x \in Loc : x # src.loc /\ x # l => disk'[x] = d[x]
  BY <1>1, <1>2, <1>4, <1>8, <1>17, DecodeFacts, DataAssumption DEF Zero
<1>19. Tree(fat', disk') /\ Used(disk') = (Used(d) \ {src.loc}) \cup {l}
  BY <1>2, <1>5, <1>11, <1>12, <1>14, <1>15, <1>16, <1>17, <1>18, MoveNode, SMTT(60)
<1>20. Shifted(fat', d, fat', disk', src.loc, l, o, nm) /\ Spare(fat', disk') \subseteq Spare(fat', d)
  <2>1. l[1] = d[o].start /\ o \in Dirs(d)
    BY <1>14, <1>15
  <2>2. disk'[l] = [d[src.loc] EXCEPT !.name = nm] /\ src.loc \in Used(d) /\ l \notin Holders(d)
    BY <1>17, <1>18
  <2>3. \A x \in Loc : x # src.loc /\ x # l => disk'[x] = d[x]
    BY <1>18
  <2>4. Tree(fat', d) /\ Tree(fat', disk') /\ Used(disk') = (Used(d) \ {src.loc}) \cup {l}
    BY <1>11, <1>19
  <2>5. MovesOne(fat', d, disk', src.loc, l, o, nm)
    BY <1>2, <2>1, <2>2, <2>3, <2>4 DEF MovesOne
  <2> QED BY <2>5, MoveEffect
<1> DEFINE S == Holders(disk) \ {src.loc, l}
<1>21. Stays(fat, disk, fat', disk', S)
  <2>1. Stays(fat, disk, fat', d, S)
    BY <1>11 DEF Stays
  <2>2. Stays(fat', d, fat', disk', S)
    BY <1>11, <1>20 DEF Shifted, Stays
  <2>3. Table(fat') /\ S \subseteq Holders(disk)
    BY <1>19 DEF Tree
  <2> HIDE DEF S
  <2> QED BY <1>13, <2>1, <2>2, <2>3, StaysOn
<1> HIDE DEF S
<1>22. /\ \A x \in Chain(fat, disk[src.loc].start) : fat'[x] = fat[x]
       /\ disk[src.loc].type = "File" =>
             \A x \in Chain(fat, disk[src.loc].start), i \in 0..EntriesPerBlock - 1 :
                disk'[<<x, i>>] = disk[<<x, i>>]
  <2>1. /\ \A x \in Chain(fat, disk[src.loc].start) : fat'[x] = fat[x]
        /\ disk[src.loc].type = "File" =>
             \A x \in Chain(fat, disk[src.loc].start), i \in 0..EntriesPerBlock - 1 :
                d[<<x, i>>] = disk[<<x, i>>]
    BY <1>1, <1>4, <1>11 DEF Stays
  <2>2. Chain(fat', d[src.loc].start) = Chain(fat, disk[src.loc].start)
    <3>1. Table(fat') /\ d[src.loc] = disk[src.loc]
      BY <1>1, <1>17, <1>19 DEF Tree
    <3> QED BY <1>1, <1>13, <2>1, <3>1, StaysChain
  <2>3. d[src.loc].type = "File" =>
             \A x \in Chain(fat', d[src.loc].start), i \in 0..EntriesPerBlock - 1 :
                disk'[<<x, i>>] = d[<<x, i>>]
    BY <1>20 DEF Shifted
  <2> QED BY <1>1, <1>17, <2>1, <2>2, <2>3
<1>23. Shifted(fat, disk, fat', disk', src.loc, l, o, nm)
  <2>1. Used(disk') = (Used(disk) \ {src.loc}) \cup {l}
    BY <1>2, <1>11, <1>19
  <2>2. disk'[l] = [disk[src.loc] EXCEPT !.name = nm]
    BY <1>1, <1>17, <1>18
  <2> QED BY <1>1, <1>2, <1>4, <1>5, <1>14, <1>21, <1>22, <2>1, <2>2 DEF Shifted, S
<1>24. Relocated(p, q)
  BY <1>2, <1>14, <1>23 DEF Relocated, src, l, o, nm
<1> QED
  BY <1>11, <1>19, <1>20, <1>24 DEF Grown

\* Nothing is moved into itself.
LEMMA NotInside ==
  ASSUME TInv, NEW p \in AnyPath, NEW q \in AnyPath, ~Below(p, q), Find(p).status = "OK",
         Find(q).status # "OK", FindParent(q).status = "OK"
  PROVE  Find(p).loc # FindParent(q).loc
<1> SUFFICES ASSUME Find(p).loc = FindParent(q).loc PROVE FALSE
  OBVIOUS
<1>1. p \in Seq(Name) /\ q \in Seq(Name) /\ Parent(q) \in Seq(Name)
  BY PathFacts
<1>2. FindParent(q) = Find(Parent(q))
  BY ParentTree
<1>3. p = Parent(q)
  BY <1>1, <1>2, PathOfNode
<1>4. q # <<>>
  BY DEF Find, Hit
<1>5. Len(p) = Len(q) - 1 /\ Len(q) \in Nat
  BY <1>1, <1>3, <1>4, FindStep
<1>6. SubSeq(q, 1, Len(p)) = p
  BY <1>3, <1>5 DEF Parent
<1> QED
  BY <1>5, <1>6 DEF Below

LEMMA RenameInto ==
  ASSUME TInv, Roomy \/ Fits', NEW p \in AnyPath, NEW q \in AnyPath, p # <<>>, p # q, ~Below(p, q),
         Find(p).status = "OK", Find(q).status # "OK", NEW new,
         IsMade(new, FindParent(q), q, 0, Find(p).entry.type, TRUE) \/ NoSlotLeft(new, FindParent(q)),
         fat' = new.fat, disk' = Moved(new.disk, Find(p), new.loc, LastName(q))
  PROVE  Grown /\ Relocated(p, q) /\ Spare(fat', disk') \subseteq Spare(fat, disk)
<1> DEFINE src == Find(p)
           h == FindParent(q)
           l == new.loc
           nm == LastName(q)
<1>1. /\ src.loc \in Used(disk) /\ src.entry = disk[src.loc] /\ src.entry \in Entry
      /\ src.loc \in Loc /\ src.loc \in Holders(disk) /\ Typed(src)
  BY FoundNode DEF Holders, Typed
<1>2. h.status = "OK"
  BY DEF IsMade, NoSlotLeft
<1>3. /\ h.loc \in Dirs(disk) /\ nm \in Name
      /\ \A u \in Used(disk) : u[1] = disk[h.loc].start => disk[u].name # nm
  BY <1>2, ParentTree
<1>4. src.loc # h.loc
  BY <1>2, NotInside
<1>5. \A x \in Loc : disk'[x] = CASE x = src.loc -> Zero
                                  [] x # src.loc /\ x = l -> [src.entry EXCEPT !.name = nm]
                                  [] OTHER -> new.disk[x]
  BY DEF Moved
<1>6. disk' = Moved(new.disk, src, l, nm)
  OBVIOUS
<1>7. h.loc \in Loc
  BY <1>3, HolderFacts DEF TInv, Dirs
<1>8. CASE NoSlotLeft(new, h)
  <2>1. l # h.loc
    BY <1>8 DEF NoSlotLeft, Overgrown
  <2>2. disk'[h.loc] = new.disk[h.loc]
    BY <1>4, <1>5, <1>7, <2>1
  <2> QED BY <1>8, <2>2, Uncrowded
<1>9. CASE IsMade(new, h, q, 0, src.entry.type, TRUE)
  <2> DEFINE e == NewEntry(q, 0, src.entry.type, TRUE)
             d1 == [x \in Loc |-> IF x = l THEN Zero ELSE new.disk[x]]
  <2>1. e \in Entry
    <3>1. e = [name |-> "", type |-> src.entry.type, length |-> 0, start |-> 0]
      BY DEF NewEntry
    <3>2. src.entry.type \in {"File", "Directory"}
      BY <1>1 DEF Entry
    <3> HIDE DEF e, src
    <3> QED BY <3>1, <3>2 DEF Entry
  <2>2. fat' = fat /\ Settled(new, h, e)
    BY <1>9 DEF IsMade, NewTable
  <2>3. /\ l \in Loc /\ l \notin Holders(disk) /\ l[1] = disk[h.loc].start
        /\ new.disk \in [Loc -> Cell]
    BY <2>2 DEF Settled
  <2> HIDE DEF src, h, nm, e
  <2>4. /\ Tree(fat, d1) /\ Used(d1) = Used(disk) /\ Holders(d1) = Holders(disk)
        /\ Dirs(d1) = Dirs(disk) /\ \A x \in Holders(disk) : x # h.loc => d1[x] = disk[x]
        /\ d1[h.loc].start = disk[h.loc].start /\ d1[h.loc].name = disk[h.loc].name
        /\ l[2] \in 1..d1[h.loc].length - 1
        /\ Stays(fat, disk, fat, d1, Holders(disk)) /\ Spare(fat, d1) \subseteq Spare(fat, disk)
    <3>1. d1 = [x \in Loc |-> IF x = new.loc THEN Zero ELSE new.disk[x]]
      OBVIOUS
    <3> HIDE DEF d1
    <3> QED BY <1>3, <2>1, <2>2, <3>1, SettledTree, SettledStays
  <2>5. \A x \in Loc : x # l => d1[x] = new.disk[x]
    OBVIOUS
  <2> HIDE DEF d1, l
  <2>6. src.loc # l /\ d1[src.loc] = src.entry
    BY <1>1, <1>4, <2>3, <2>4
  <2>7. /\ disk'[src.loc] = Zero /\ Zero \notin Data /\ Zero.start = 0
        /\ disk'[l] = [d1[src.loc] EXCEPT !.name = nm]
        /\ \A x \in Loc : x # src.loc /\ x # l => disk'[x] = d1[x]
    BY <1>1, <1>5, <2>3, <2>5, <2>6, DecodeFacts, DataAssumption DEF Zero
  <2>8. disk' \in [Loc -> Cell]
    <3>1. nm \in Name \cup {"", ".", ".."}
      BY <1>3
    <3>2. Moved(new.disk, src, l, nm) \in [Loc -> Cell]
      BY <1>1, <2>3, <3>1, MovedCells
    <3> QED BY <1>6, <3>2
  <2>9. \A m \in Used(d1) : m # src.loc /\ m[1] = l[1] => d1[m].name # nm
    <3> SUFFICES ASSUME NEW m \in Used(disk), m[1] = disk[h.loc].start, d1[m].name = nm PROVE FALSE
      BY <2>3, <2>4
    <3>1. d1[m].name = disk[m].name
      BY <2>4 DEF Holders
    <3> QED BY <1>3, <3>1
  <2>10. l[1] = d1[h.loc].start /\ h.loc \in Dirs(d1) /\ src.loc \in Used(d1) /\ l \notin Holders(d1)
    BY <1>1, <1>3, <2>3, <2>4
  <2>11. Tree(fat, disk') /\ Used(disk') = (Used(d1) \ {src.loc}) \cup {l}
    BY <1>3, <2>3, <2>4, <2>7, <2>8, <2>9, <2>10, MoveNode
  <2>12. /\ Shifted(fat, d1, fat, disk', src.loc, l, h.loc, nm)
         /\ Spare(fat, disk') \subseteq Spare(fat, d1)
    <3>1. MovesOne(fat, d1, disk', src.loc, l, h.loc, nm)
      BY <2>3, <2>4, <2>7, <2>10, <2>11 DEF MovesOne
    <3> QED BY <3>1, MoveEffect
  <2> DEFINE S == Holders(disk) \ {src.loc, l}
  <2>13. Stays(fat, disk, fat, disk', S)
    <3>1. Stays(fat, disk, fat, d1, S)
      BY <2>4 DEF Stays
    <3>2. Stays(fat, d1, fat, disk', S)
      BY <2>4, <2>12 DEF Shifted
    <3>3. Tree(fat, disk) /\ Table(fat) /\ S \subseteq Holders(disk)
      BY DEF TInv, Tree
    <3> HIDE DEF S
    <3> QED BY <3>1, <3>2, <3>3, StaysOn
  <2> HIDE DEF S
  <2>14. disk[src.loc].type = "File" =>
            \A x \in Chain(fat, disk[src.loc].start), i \in 0..EntriesPerBlock - 1 :
               disk'[<<x, i>>] = disk[<<x, i>>]
    <3>1. disk[src.loc].type = "File" =>
            \A x \in Chain(fat, disk[src.loc].start), i \in 0..EntriesPerBlock - 1 :
               d1[<<x, i>>] = disk[<<x, i>>]
      BY <1>1, <2>4 DEF Stays
    <3>2. disk[src.loc].type = "File" =>
            \A x \in Chain(fat, disk[src.loc].start), i \in 0..EntriesPerBlock - 1 :
               disk'[<<x, i>>] = d1[<<x, i>>]
      BY <1>1, <2>6, <2>12, ZenonT(90) DEF Shifted
    <3> QED BY <3>1, <3>2
  <2>15. Shifted(fat, disk, fat, disk', src.loc, l, h.loc, nm)
    <3>1. Used(disk') = (Used(disk) \ {src.loc}) \cup {l} /\ l \notin Used(disk)
      BY <2>3, <2>4, <2>11 DEF Holders
    <3>2. disk'[l] = [disk[src.loc] EXCEPT !.name = nm]
      BY <1>1, <2>6, <2>7
    <3> QED BY <1>1, <1>3, <2>3, <2>6, <2>13, <2>14, <3>1, <3>2 DEF Shifted, S
  <2>16. q # <<>> /\ h = Find(Parent(q))
    BY <1>2, ParentTree DEF Find, Hit, h
  <2>17. Relocated(p, q)
    BY <1>2, <2>2, <2>15, <2>16 DEF Relocated, src, nm
  <2> QED BY <2>2, <2>4, <2>11, <2>12, <2>17 DEF Grown
<1> QED
  BY <1>8, <1>9

LEMMA RenameTree ==
  ASSUME TInv, Careful, Roomy \/ Fits', NEW p \in AnyPath, NEW q \in AnyPath, Rename(p, q)
  PROVE  Grown /\ Outcome("rename", Relocated(p, q))
<1>1. ASSUME NEW s, s # "OK", Fail("rename", s)
      PROVE  Grown /\ Outcome("rename", Relocated(p, q))
  BY <1>1, FailTree DEF Outcome
<1>2. p # <<>> /\ p # q /\ ~Below(p, q)
  BY DEF Rename
<1>3. CASE /\ Find(p).status = "OK" /\ Find(q).status = "OK" /\ Find(q).entry.type = "File"
           /\ Answer("rename", "OK") /\ fat' = Forget(fat, Find(q).entry.start)
           /\ disk' = Moved(PutEntry(disk, [Find(q).entry EXCEPT !.start = 0], Find(q).loc),
                            Find(p), Find(q).loc, LastName(q))
  BY <1>2, <1>3, RenameOver DEF Outcome, Answer
<1>4. ASSUME Find(p).status = "OK", Find(q).status = "ENOENT",
             NEW i \in FirstIndices(FindParent(q).entry),
             LET new == NewFile(FindParent(q), q, 0, Find(p).entry.type, TRUE, i)
             IN  IF new.status # "OK" THEN Took("rename", new)
                 ELSE /\ Answer("rename", "OK") /\ fat' = new.fat
                      /\ disk' = Moved(new.disk, Find(p), new.loc, LastName(q))
      PROVE  Grown /\ Outcome("rename", Relocated(p, q))
  <2> DEFINE type == Find(p).entry.type
             new == NewFile(FindParent(q), q, 0, type, TRUE, i)
  <2>1. type \in {"File", "Directory"}
    <3>1. Find(p).entry \in Entry
      BY <1>2, <1>4, FoundNode
    <3> QED BY <3>1 DEF Entry
  <2>2. Find(q).status # "OK"
    BY <1>4
  <2>3. IF new.status # "OK" THEN Took("rename", new)
        ELSE /\ Answer("rename", "OK") /\ fat' = new.fat
             /\ disk' = Moved(new.disk, Find(p), new.loc, LastName(q))
    BY <1>4
  <2> HIDE DEF type
  <2>4. \/ /\ new.status # "OK" /\ new.disk = disk /\ Tree(new.fat, disk)
           /\ Undisturbed(fat, disk, new.fat, disk)
        \/ /\ new.status = "OK" /\ IsMade(new, FindParent(q), q, 0, type, TRUE)
           /\ TRUE \/ FindFreeBlock(fat) \in FreeBlocks(fat)
        \/ new.status = "OK" /\ NoSlotLeft(new, FindParent(q))
    BY <2>1, NewFileCases
  <2> HIDE DEF new
  <2>5. CASE /\ new.status # "OK" /\ new.disk = disk /\ Tree(new.fat, disk)
             /\ Undisturbed(fat, disk, new.fat, disk)
    BY <2>3, <2>5 DEF Took, Grown, Answer, Outcome
  <2>6. CASE /\ new.status = "OK"
             /\ IsMade(new, FindParent(q), q, 0, type, TRUE) \/ NoSlotLeft(new, FindParent(q))
    BY <1>2, <1>4, <2>2, <2>3, <2>6, RenameInto DEF type, Outcome, Answer
  <2> QED BY <2>4, <2>5, <2>6
<1> QED
  BY <1>1, <1>3, <1>4 DEF Rename, Answer

-----------------------------------------------------------------------------
(* resize(), truncate() and write(). *)

\* updiv().
LEMMA BlocksForFacts ==
  ASSUME NEW n \in Nat
  PROVE  BlocksFor(n) \in Nat /\ n <= EntriesPerBlock * BlocksFor(n) /\ (n > 0 => BlocksFor(n) >= 1)
<1>1. EntriesPerBlock \in Nat \ {0} /\ n + EntriesPerBlock - 1 \in Nat
  BY GeometryAssumption
<1>2. \A k \in Nat \ {0}, m \in Nat : m \div k \in Nat /\ k * (m \div k) + (m % k) = m /\ m % k \in 0..k - 1
  OBVIOUS
<1> DEFINE q == BlocksFor(n)
           rest == (n + EntriesPerBlock - 1) % EntriesPerBlock
<1>3. /\ q \in Nat /\ EntriesPerBlock * q + rest = n + EntriesPerBlock - 1
      /\ rest \in 0..EntriesPerBlock - 1
  BY <1>1, <1>2 DEF BlocksFor
<1> HIDE DEF q, rest
<1>4. EntriesPerBlock * q \in Nat
  BY <1>1, <1>3
<1>5. n <= EntriesPerBlock * q
  BY <1>1, <1>3, <1>4
<1>6. n > 0 => q >= 1
  <2> SUFFICES ASSUME n > 0, q = 0 PROVE FALSE
    BY <1>3
  <2>1. EntriesPerBlock * q = 0
    BY <1>1
  <2> QED BY <1>5, <2>1
<1> QED
  BY <1>3, <1>5, <1>6 DEF q

LEMMA MoreBlocks ==
  ASSUME NEW n \in Nat, NEW a \in Nat, NEW c \in Nat, n <= EntriesPerBlock * a, a <= c
  PROVE  n <= EntriesPerBlock * c
<1>1. EntriesPerBlock \in Nat
  BY GeometryAssumption
<1>2. EntriesPerBlock * a <= EntriesPerBlock * c /\ EntriesPerBlock * a \in Nat /\ EntriesPerBlock * c \in Nat
  BY <1>1
<1> QED
  BY <1>2

\* A file's entry gets another length, within its chain.
LEMMA NewLength ==
  ASSUME NEW f, NEW d, Tree(f, d), NEW l \in Used(d), d[l].type = "File",
         NEW n \in Nat, n <= EntriesPerBlock * ChainLength(f, d[l].start),
         NEW e, e = [d[l] EXCEPT !.length = n], NEW d2, d2 = PutEntry(d, e, l)
  PROVE  /\ Tree(f, d2) /\ Used(d2) = Used(d) /\ d2[l] = e
         /\ e \in Entry /\ e.start = d[l].start /\ e.type = "File" /\ e.length = n
         /\ \A x \in Loc : x # l => d2[x] = d[x]
<1>1. l \in Loc /\ l # RootLoc /\ l \in Holders(d) /\ d[l] \in Entry /\ d \in [Loc -> Cell]
  BY OwnerFacts, HolderFacts DEF Tree
<1>2. e \in Entry /\ e.start = d[l].start /\ e.type = "File" /\ e.length = n
  BY <1>1, Lengthened
<1>3. d2 \in [Loc -> Cell] /\ d2[l] = e /\ \A x \in Loc : x # l => d2[x] = d[x]
  BY <1>1, <1>2 DEF PutEntry, Cell
<1>4. Tree(f, d2) /\ Used(d2) = Used(d)
  BY <1>1, <1>3, SetLength
<1> QED
  BY <1>2, <1>3, <1>4

\* A file's chain changes, at the cost of free blocks only.
LEMMA NewChain ==
  ASSUME NEW f, NEW d, Tree(f, d), NEW l \in Used(d), d[l].type = "File", NEW g, Table(g),
         NEW b, b = d[l].start,
         \A x \in Block : x \notin Chain(f, b) /\ f[x] # 0 => g[x] = f[x],
         Chain(g, b) \subseteq Chain(f, b) \cup FreeBlocks(f),
         \A x \in Chain(g, b) : g[x] = FINAL \/ g[x] > 0,
         Ends(g, b), d[l].length <= EntriesPerBlock * ChainLength(g, b)
  PROVE  Tree(g, d)
<1>1. l \in Holders(d)
  BY OwnerFacts
<1>2. \A m \in Holders(d) : m # l =>
         \A x \in Chain(f, d[m].start) : x \in Block /\ f[x] # 0 /\ x \notin Chain(f, b)
  <2> SUFFICES ASSUME NEW m \in Holders(d), m # l, NEW x \in Chain(f, d[m].start)
               PROVE  x \in Block /\ f[x] # 0 /\ x \notin Chain(f, b)
    OBVIOUS
  <2>1. x \in Block
    BY HolderFacts
  <2>2. f[x] = FINAL \/ f[x] > 0
    BY DEF Tree, Sealed
  <2>3. x \notin Chain(f, b)
    BY <1>1, <2>1 DEF Tree, Separate
  <2> QED BY <2>1, <2>2, <2>3 DEF FINAL
<1>3. \A m \in Holders(d) : m # l => \A x \in Chain(f, d[m].start) : g[x] = f[x]
  BY <1>2
<1>4. \A x \in Chain(g, b) : \A m \in Holders(d) : m # l => x \notin Chain(f, d[m].start)
  BY <1>2 DEF FreeBlocks
<1> QED
  BY <1>3, <1>4, Refile

\* The table g gives the file that starts at b another chain: no other block in use
\* changes, none is lost, and the blocks of the first n cells stay where they are.
Rechained(f, g, b, n) ==
    /\ \A x \in Block : x \notin Chain(f, b) /\ f[x] # 0 => g[x] = f[x]
    /\ \A x \in Block : g[x] # 0 /\ x \notin Chain(g, b) => f[x] # 0 /\ x \notin Chain(f, b)
    /\ \A x \in Chain(f, b) : EntriesPerBlock * Steps(f, b, x) < n =>
          x \in Chain(g, b) /\ Steps(g, b, x) = Steps(f, b, x)

LEMMA ResizedEffect ==
  ASSUME NEW f, NEW d, Tree(f, d), NEW l \in Used(d), d[l].type = "File", NEW n,
         NEW g, Rechained(f, g, d[l].start, n), NEW d2, Tree(g, d2), Used(d2) = Used(d),
         d2[l] = [d[l] EXCEPT !.length = n], \A x \in Loc : x # l => d2[x] = d[x], NEW c
  PROVE  Resizes(f, d, g, d2, l, n, {}, c) /\ Spare(g, d2) \subseteq Spare(f, d)
<1> DEFINE b == d[l].start
           S == Holders(d) \ {l}
<1>1. /\ l \in Holders(d) /\ l \in Loc /\ l # RootLoc /\ d[l] \in Entry
      /\ Holders(d2) = Holders(d) /\ Table(g)
  BY OwnerFacts, HolderFacts DEF Holders, Tree
<1>2. /\ d2[l].start = b /\ d2[l].name = d[l].name /\ d2[l].type = d[l].type
  BY <1>1 DEF Entry
<1>3. \A m \in S : /\ d2[m] = d[m]
                   /\ \A x \in Chain(f, d[m].start) : g[x] = f[x] /\ x \notin Chain(f, b)
  <2> SUFFICES ASSUME NEW m \in S
               PROVE  /\ d2[m] = d[m]
                      /\ \A x \in Chain(f, d[m].start) : g[x] = f[x] /\ x \notin Chain(f, b)
    OBVIOUS
  <2>1. m \in Loc /\ Chain(f, d[m].start) \subseteq Block
    BY HolderFacts
  <2>2. \A x \in Chain(f, d[m].start) : x \in Block /\ f[x] # 0 /\ x \notin Chain(f, b)
    BY <1>1, <2>1 DEF Tree, Separate, Sealed, FINAL
  <2> QED BY <2>1, <2>2 DEF Rechained
<1>4. ASSUME NEW m \in S, d[m].type = "File",
             NEW y \in Chain(f, d[m].start), NEW i \in 0..EntriesPerBlock - 1
      PROVE  d2[<<y, i>>] = d[<<y, i>>]
  <2> DEFINE B == {l[1]}
  <2>1. \A x \in B : x \in {k[1] : k \in Holders(d)} \cup {d[o].start : o \in Dirs(d)}
    BY <1>1
  <2>2. m \in Holders(d)
    OBVIOUS
  <2> HIDE DEF B, S
  <2>3. \A z \in Chain(f, d[m].start) :
            z \notin B /\ \A j \in 0..EntriesPerBlock - 1 : <<z, j>> \in Loc
    BY <1>4, <2>1, <2>2, FilesApart
  <2>4. <<y, i>> \in Loc /\ y # l[1]
    BY <1>4, <2>3 DEF B
  <2> QED BY <2>4
<1>5. Altered(f, d, g, d2, l)
  <2>1. Stays(f, d, g, d2, S)
    BY <1>3, <1>4 DEF Stays
  <2> QED BY <1>2, <2>1 DEF Altered
<1>6. Resizes(f, d, g, d2, l, n, {}, c)
  BY <1>5 DEF Resizes, Rechained
<1>7. Spare(g, d2) \subseteq Spare(f, d)
  <2>1. \A m \in S : /\ d2[m].start = d[m].start
                     /\ \A x \in Chain(f, d[m].start) : g[x] = f[x]
    BY <1>3
  <2>2. \A x \in Usable : g[x] # 0 /\ (\A m \in Holders(d2) : x \notin Chain(g, d2[m].start)) =>
                            f[x] # 0 /\ \A m \in Holders(d) \ S : x \notin Chain(f, d[m].start)
    BY <1>1, <1>2, BlockFacts DEF Rechained
  <2>3. S \in SUBSET Holders(d) /\ S \subseteq Holders(d2)
    BY <1>1
  <2> HIDE DEF S
  <2> QED BY <1>1, <2>1, <2>2, <2>3, NoMoreSpare, ZenonT(90)
<1> QED
  BY <1>6, <1>7

\* The other factor decides.
LEMMA FewerBlocks ==
  ASSUME NEW a \in Nat, NEW c \in Nat, NEW n \in Nat, EntriesPerBlock * a < n, n <= EntriesPerBlock * c
  PROVE  a < c
<1> SUFFICES ASSUME c <= a PROVE FALSE
  OBVIOUS
<1>1. n <= EntriesPerBlock * a
  BY MoreBlocks
<1>2. EntriesPerBlock * a \in Nat
  BY GeometryAssumption
<1> QED
  BY <1>1, <1>2

\* What resize() leaves is a sound tree, if the bytes it clears are none.
LEMMA ResizedTree ==
  ASSUME TInv, NEW l \in Used(disk), disk[l].type = "File", NEW n \in Nat,
         n % EntriesPerBlock = 0 \/ disk[l].length <= n,
         NEW r, r = Resized(disk[l], l, n)
  PROVE  /\ Tree(r.fat, r.disk) /\ l \in Used(r.disk) /\ r.disk[l] = r.entry
         /\ r.entry \in Entry /\ r.entry.type = "File"
         /\ \/ r.status # "OK" /\ r.fat = fat /\ r.disk = disk
            \/ /\ r.status = "OK" /\ Spare(r.fat, r.disk) \subseteq Spare(fat, disk)
               /\ \A c : Resizes(fat, disk, r.fat, r.disk, l, n, {}, c)
<1> DEFINE e == disk[l]
           b == e.start
           e2 == [e EXCEPT !.length = n]
           d2 == PutEntry(disk, e2, l)
           old == ChainLength(fat, b)
           count == BlocksFor(n)
           IsDone(f, d) == r = [status |-> "OK", fat |-> f, entry |-> e2, disk |-> PutEntry(d, e2, l)]
           IsKept == r.fat = fat /\ r.entry = e /\ r.disk = disk
           IsSame == IsKept /\ r.status = "OK" /\ e.length = n
           IsRefused == IsKept /\ r.status # "OK"
<1>1. /\ Tree(fat, disk) /\ Table(fat) /\ l \in Holders(disk) /\ e \in Entry
      /\ b \in Usable /\ b \in Start /\ b \in Block /\ e.length \in Nat
      /\ e.length <= EntriesPerBlock * old
  <2>1. Tree(fat, disk) /\ l \in Holders(disk)
    BY OwnerFacts DEF TInv
  <2> QED BY <2>1, HolderFacts DEF Tree, Long
<1>2. \A x \in Chain(fat, b) : fat[x] = FINAL \/ fat[x] > 0
  BY <1>1 DEF Tree, Sealed
<1>3. Ends(fat, b)
  BY <1>1 DEF Tree, Sealed
<1>4. old \in Nat /\ old >= 1
  BY <1>1, ChainCount
<1>5. count \in Nat /\ n <= EntriesPerBlock * count /\ (n > 0 => count >= 1)
  BY BlocksForFacts
<1>6. \A f : ZeroOutFree(f, disk, e, n) = disk
  BY DEF ZeroOutFree
<1>7. \/ IsSame
      \/ IsRefused
      \/ n = 0 /\ IsDone(Mark(Forget(fat, b), b, FINAL), disk)
      \/ n > 0 /\ old = count /\ IsDone(fat, disk)
      \/ n > 0 /\ old > count /\ IsDone(Cut(fat, b, count), disk)
      \/ n > 0 /\ old < count /\ HasFree(fat, count - 1) /\ IsDone(Extend(fat, b, count - 1), disk)
  <2> DEFINE Done(f, d) == [status |-> "OK", fat |-> f, entry |-> [e EXCEPT !.length = n],
                            disk |-> PutEntry(d, [e EXCEPT !.length = n], l)]
             Kept1 == [status |-> "OK", fat |-> fat, entry |-> e, disk |-> disk]
             Kept2 == [status |-> "ENOSPC", fat |-> fat, entry |-> e, disk |-> disk]
  <2>1. r = CASE e.length = n -> Kept1
          [] e.length # n /\ n = 0 -> Done(Mark(Forget(fat, b), b, FINAL), disk)
          [] e.length # n /\ n > 0 /\ old = count -> Done(fat, ZeroOutFree(fat, disk, e, n))
          [] e.length # n /\ n > 0 /\ old > count ->
                Done(Cut(fat, b, count), ZeroOutFree(fat, disk, e, n))
          [] OTHER ->
                IF HasFree(fat, count - 1) THEN Done(Extend(fat, b, count - 1), disk)
                ELSE Kept2
    BY DEF Resized
  <2>2. (r = Kept1 /\ e.length = n => IsSame) /\ (r = Kept2 => IsRefused)
    OBVIOUS
  <2>3. \A f : r = Done(f, disk) => IsDone(f, disk)
    OBVIOUS
  <2>4. ZeroOutFree(fat, disk, e, n) = disk
    BY <1>6
  <2> HIDE DEF Done, Kept1, Kept2, IsDone, IsKept, IsSame, IsRefused, old, count, b, e
  <2>5. e.length = n => r = Kept1
    BY <2>1
  <2>6. e.length # n /\ n = 0 => r = Done(Mark(Forget(fat, b), b, FINAL), disk)
    BY <2>1
  <2>7. e.length # n /\ n > 0 /\ old = count => r = Done(fat, disk)
    BY <1>4, <1>5, <2>1, <2>4
  <2>8. e.length # n /\ n > 0 /\ old > count => r = Done(Cut(fat, b, count), disk)
    BY <1>4, <1>5, <2>1, <2>4
  <2>9. e.length # n /\ n > 0 /\ old < count =>
          r = IF HasFree(fat, count - 1) THEN Done(Extend(fat, b, count - 1), disk) ELSE Kept2
    BY <1>4, <1>5, <2>1
  <2>10. n = 0 \/ (n > 0 /\ (old = count \/ old > count \/ old < count))
    BY <1>4, <1>5
  <2> QED BY <2>2, <2>3, <2>5, <2>6, <2>7, <2>8, <2>9, <2>10
<1>8. ASSUME NEW f, IsDone(f, disk)
      PROVE  r.fat = f /\ r.entry = e2 /\ r.disk = d2 /\ r.status = "OK"
  BY <1>8
<1> DEFINE Result == /\ Tree(r.fat, r.disk) /\ l \in Used(r.disk) /\ r.disk[l] = r.entry
                     /\ r.entry \in Entry /\ r.entry.type = "File"
                     /\ \/ r.status # "OK" /\ r.fat = fat /\ r.disk = disk
                        \/ /\ r.status = "OK" /\ Spare(r.fat, r.disk) \subseteq Spare(fat, disk)
                           /\ \A c : Resizes(fat, disk, r.fat, r.disk, l, n, {}, c)
<1>9. \A x \in Chain(fat, b) : x \in Block /\ Steps(fat, b, x) \in Nat
  BY <1>1, <1>3, HolderFacts, StepsNext
<1>10. \A x \in Chain(fat, b) : EntriesPerBlock * Steps(fat, b, x) < n => Steps(fat, b, x) < count
  BY <1>5, <1>9, FewerBlocks
<1>11. Rechained(fat, fat, b, n)
  BY DEF Rechained
<1>12. CASE IsRefused
  BY <1>1, <1>12
<1>13. CASE IsSame
  <2>1. e = [e EXCEPT !.length = n]
    BY <1>1, <1>13 DEF Entry
  <2>2. /\ Spare(fat, disk) \subseteq Spare(fat, disk)
        /\ \A c : Resizes(fat, disk, fat, disk, l, n, {}, c)
    BY <1>1, <1>11, <2>1, ResizedEffect
  <2> QED BY <1>1, <1>13, <2>2
<1> HIDE DEF IsDone, IsKept, IsSame, IsRefused
<1>14. ASSUME NEW f, Tree(f, disk), n <= EntriesPerBlock * ChainLength(f, b)
       PROVE  /\ Tree(f, d2) /\ l \in Used(d2) /\ d2[l] = e2 /\ e2 \in Entry /\ e2.type = "File"
              /\ e2.start = b /\ e2.length = n /\ d2[l].type = "File" /\ Used(d2) = Used(disk)
              /\ \A x \in Loc : x # l => d2[x] = disk[x]
  BY <1>14, NewLength
<1>15. ASSUME NEW f, NEW g, Tree(f, d2), IsDone(g, disk), Tree(g, d2), Rechained(fat, g, b, n),
              /\ l \in Used(d2) /\ d2[l] = e2 /\ e2 \in Entry /\ e2.type = "File"
              /\ Used(d2) = Used(disk) /\ \A x \in Loc : x # l => d2[x] = disk[x]
       PROVE  Result
  <2>1. r.fat = g /\ r.entry = e2 /\ r.disk = d2 /\ r.status = "OK"
    BY <1>8, <1>15
  <2>2. d2[l] = [disk[l] EXCEPT !.length = n]
    BY <1>15
  <2> HIDE DEF e2, d2
  <2>3. \A c : Resizes(fat, disk, g, d2, l, n, {}, c) /\ Spare(g, d2) \subseteq Spare(fat, disk)
    BY <1>1, <1>15, <2>2, ResizedEffect
  <2> QED BY <1>15, <2>1, <2>3
<1> HIDE DEF e2, d2, old, count
<1>16. CASE n = 0 /\ IsDone(Mark(Forget(fat, b), b, FINAL), disk)
  <2> DEFINE g == Mark(Forget(fat, b), b, FINAL)
  <2>1. Table(g)
    BY <1>1, ForgetTable, MarkTable, FiledFacts
  <2>2. /\ g[b] = FINAL /\ \A x \in Block : x \notin Chain(fat, b) /\ fat[x] # 0 => g[x] = fat[x]
        /\ \A x \in Block : g[x] # 0 /\ x # b => fat[x] # 0 /\ x \notin Chain(fat, b)
    <3>1. b \in Chain(fat, b)
      BY <1>1, HolderFacts
    <3> QED BY <1>1, <1>2, <3>1 DEF Mark, Forget
  <2> HIDE DEF g
  <2>3. Chain(g, b) = {b}
    BY <2>2, ChainLast
  <2>4. Chain(g, b) \subseteq Chain(fat, b) \cup FreeBlocks(fat) /\ Ends(g, b)
    BY <1>1, <2>2, <2>3, HolderFacts DEF Ends
  <2>5. n <= EntriesPerBlock * old /\ n <= EntriesPerBlock * ChainLength(g, b)
    <3>1. ChainLength(g, b) \in Nat
      BY <1>1, <2>1, ChainCount
    <3>2. n <= EntriesPerBlock * 0
      BY <1>16, GeometryAssumption
    <3> QED BY <1>4, <3>1, <3>2, MoreBlocks
  <2>6. /\ Tree(fat, d2) /\ l \in Used(d2) /\ d2[l] = e2 /\ e2 \in Entry /\ e2.type = "File"
        /\ e2.start = b /\ e2.length = n /\ d2[l].type = "File" /\ Used(d2) = Used(disk)
        /\ \A x \in Loc : x # l => d2[x] = disk[x]
    BY <1>1, <1>14, <2>5 DEF old
  <2>7. Tree(g, d2)
    BY <2>1, <2>2, <2>3, <2>4, <2>5, <2>6, NewChain
  <2>8. Rechained(fat, g, b, n)
    <3>1. \A x \in Chain(fat, b) : ~(EntriesPerBlock * Steps(fat, b, x) < n)
      <4>1. \A x \in Chain(fat, b) : EntriesPerBlock * Steps(fat, b, x) \in Nat
        BY <1>9, GeometryAssumption
      <4> QED BY <1>16, <4>1
    <3> QED BY <2>2, <2>3, <3>1 DEF Rechained
  <2>9. IsDone(g, disk)
    BY <1>16 DEF g
  <2> QED BY <1>15, <2>6, <2>7, <2>8, <2>9
<1>17. CASE n > 0 /\ old = count /\ IsDone(fat, disk)
  <2>1. n <= EntriesPerBlock * ChainLength(fat, b)
    BY <1>5, <1>17 DEF old
  <2>2. /\ Tree(fat, d2) /\ l \in Used(d2) /\ d2[l] = e2 /\ e2 \in Entry /\ e2.type = "File"
        /\ Used(d2) = Used(disk) /\ \A x \in Loc : x # l => d2[x] = disk[x]
    BY <1>1, <1>14, <2>1
  <2> QED BY <1>11, <1>15, <1>17, <2>2
<1>18. CASE n > 0 /\ old > count /\ IsDone(Cut(fat, b, count), disk)
  <2> DEFINE g == Cut(fat, b, count)
  <2>1. Table(g)
    BY <1>1, CutTable
  <2>2. count \in Nat \ {0} /\ ChainLength(fat, b) > count
    BY <1>5, <1>18 DEF old
  <2>3. /\ Chain(g, b) \subseteq Chain(fat, b) /\ Ends(g, b)
        /\ \A x \in Chain(g, b) : g[x] = FINAL \/ g[x] > 0
        /\ ChainLength(g, b) >= count
        /\ \A x \in Block : x \notin Chain(fat, b) => g[x] = fat[x]
        /\ \A x \in Chain(fat, b) :
              IF Steps(fat, b, x) < count
              THEN x \in Chain(g, b) /\ Steps(g, b, x) = Steps(fat, b, x)
              ELSE g[x] = 0
    BY <1>1, <1>2, <1>3, <2>2, CutChain
  <2> HIDE DEF g
  <2>4. n <= EntriesPerBlock * old /\ n <= EntriesPerBlock * ChainLength(g, b)
    <3>1. ChainLength(g, b) \in Nat
      BY <1>1, <2>1, ChainCount
    <3>2. count <= old /\ count <= ChainLength(g, b)
      BY <1>4, <1>5, <1>18, <2>3, <3>1
    <3> QED BY <1>4, <1>5, <3>1, <3>2, MoreBlocks
  <2>5. /\ Tree(fat, d2) /\ l \in Used(d2) /\ d2[l] = e2 /\ e2 \in Entry /\ e2.type = "File"
        /\ e2.start = b /\ e2.length = n /\ d2[l].type = "File" /\ Used(d2) = Used(disk)
        /\ \A x \in Loc : x # l => d2[x] = disk[x]
    BY <1>1, <1>14, <2>4 DEF old
  <2>6. Tree(g, d2)
    BY <2>1, <2>3, <2>4, <2>5, NewChain
  <2>7. Rechained(fat, g, b, n)
    BY <1>10, <2>3 DEF Rechained
  <2>8. IsDone(g, disk)
    BY <1>18 DEF g
  <2> QED BY <1>15, <2>5, <2>6, <2>7, <2>8
<1>19. CASE n > 0 /\ old < count /\ HasFree(fat, count - 1) /\ IsDone(Extend(fat, b, count - 1), disk)
  <2> DEFINE c == count - 1
             g == Extend(fat, b, c)
  <2>1. Table(g)
    BY <1>1, ExtendTable
  <2>2. c \in Nat \ {0} /\ HasFree(fat, c)
    BY <1>4, <1>5, <1>19
  <2> HIDE DEF c
  <2>3. /\ Chain(g, b) \subseteq Chain(fat, b) \cup FreeBlocks(fat) /\ Ends(g, b)
        /\ \A x \in Chain(g, b) : g[x] = FINAL \/ g[x] > 0
        /\ ChainLength(g, b) >= c + 1
        /\ \A x \in Block : x \notin Chain(fat, b) /\ fat[x] # 0 => g[x] = fat[x]
        /\ \A x \in Block : x \notin Chain(g, b) => g[x] = fat[x]
        /\ \A x \in Chain(fat, b) : x \in Chain(g, b) /\ Steps(g, b, x) = Steps(fat, b, x)
    BY <1>1, <1>2, <1>3, <2>2, ExtendChain
  <2> HIDE DEF g
  <2>4. e.length <= EntriesPerBlock * ChainLength(g, b) /\ n <= EntriesPerBlock * ChainLength(g, b)
    <3>1. ChainLength(g, b) \in Nat
      BY <1>1, <2>1, ChainCount
    <3>2. count <= ChainLength(g, b) /\ old <= ChainLength(g, b)
      BY <1>4, <1>5, <1>19, <2>3, <3>1 DEF c
    <3> QED BY <1>1, <1>4, <1>5, <3>1, <3>2, MoreBlocks
  <2>5. Tree(g, disk)
    BY <1>1, <2>1, <2>3, <2>4, NewChain
  <2>6. /\ Tree(g, d2) /\ l \in Used(d2) /\ d2[l] = e2 /\ e2 \in Entry /\ e2.type = "File"
        /\ Used(d2) = Used(disk) /\ \A x \in Loc : x # l => d2[x] = disk[x]
    BY <1>14, <2>4, <2>5
  <2>7. Rechained(fat, g, b, n)
    BY <2>3 DEF Rechained
  <2>8. IsDone(g, disk)
    BY <1>19 DEF g, c
  <2> QED BY <1>15, <2>6, <2>7, <2>8
<1> QED
  BY <1>7, <1>12, <1>13, <1>16, <1>17, <1>18, <1>19

\* truncate() to lengths that end a block, as zeroOutFree() then clears nothing.
Whole == \A n \in Sizes : n % EntriesPerBlock = 0

LEMMA TruncateTree ==
  ASSUME TInv, Careful, Whole, NEW p \in AnyPath, NEW n \in Sizes, Truncate(p, n)
  PROVE  Grown /\ Outcome("truncate", Edited(p, n, {}, Zero))
<1> DEFINE h == Find(p)
           r == Resized(h.entry, h.loc, n)
<1>1. CASE h.status # "OK" /\ Fail("truncate", h.status)
  BY <1>1, FailTree DEF Outcome
<1>2. CASE /\ h.status = "OK" /\ p # <<>> /\ h.entry.type = "File"
           /\ Answer("truncate", r.status) /\ fat' = r.fat /\ disk' = r.disk
  <2>1. h.loc \in Used(disk) /\ h.entry = disk[h.loc]
    BY <1>2, FoundNode
  <2>2. n \in Nat /\ n % EntriesPerBlock = 0
    BY CallsAssumption DEF Whole
  <2>3. r = Resized(disk[h.loc], h.loc, n) /\ disk[h.loc].type = "File"
    BY <1>2, <2>1
  <2> HIDE DEF r, h
  <2>4. /\ Tree(r.fat, r.disk)
        /\ \/ r.status # "OK" /\ r.fat = fat /\ r.disk = disk
           \/ /\ r.status = "OK" /\ Spare(r.fat, r.disk) \subseteq Spare(fat, disk)
              /\ \A c : Resizes(fat, disk, r.fat, r.disk, h.loc, n, {}, c)
    BY <2>1, <2>2, <2>3, ResizedTree
  <2>5. reply' = [op |-> "truncate", status |-> r.status] /\ fat' = r.fat /\ disk' = r.disk
    BY <1>2 DEF Answer
  <2>6. CASE r.status # "OK" /\ r.fat = fat /\ r.disk = disk
    BY <2>5, <2>6, TreeKept DEF Outcome
  <2>7. CASE /\ r.status = "OK" /\ Spare(r.fat, r.disk) \subseteq Spare(fat, disk)
             /\ \A c : Resizes(fat, disk, r.fat, r.disk, h.loc, n, {}, c)
    <3>1. Edited(p, n, {}, Zero)
      BY <1>2, <2>5, <2>7 DEF Edited, h
    <3> QED BY <2>4, <2>5, <2>7, <3>1 DEF Outcome, Grown
  <2> QED BY <2>4, <2>6, <2>7
<1>3. \/ h.status # "OK" /\ Fail("truncate", h.status)
      \/ /\ h.status = "OK" /\ p # <<>> /\ h.entry.type = "File"
         /\ Answer("truncate", r.status) /\ fat' = r.fat /\ disk' = r.disk
  BY DEF Truncate
<1> QED
  BY <1>1, <1>2, <1>3

\* Data is written in the file's own chain, where no entry is.
LEMMA DataTree ==
  ASSUME NEW f, NEW d, Tree(f, d), NEW l \in Used(d), d[l].type = "File",
         NEW d2 \in [Loc -> Cell],
         \A x \in Loc : d2[x] # d[x] => d2[x] \in Data /\ x[1] \in Chain(f, d[l].start)
  PROVE  /\ Tree(f, d2) /\ Used(d2) = Used(d) /\ \A m \in Holders(d) : d2[m] = d[m]
         /\ Stays(f, d, f, d2, Holders(d) \ {l})
<1> DEFINE own == {x \in Loc : x[1] \in Chain(f, d[l].start)}
<1>1. l \in Holders(d)
  BY OwnerFacts
<1>2. \A o \in Dirs(d) : \A x \in own : x[1] # d[o].start
  <2> SUFFICES ASSUME NEW o \in Dirs(d), NEW x \in own, x[1] = d[o].start PROVE FALSE
    OBVIOUS
  <2>1. o \in Holders(d) /\ o # l
    BY DEF Dirs
  <2>2. d[o].start \in Chain(f, d[o].start) /\ d[o].start \in Block
    BY <2>1, HolderFacts
  <2>3. d[o].start \in Chain(f, d[l].start)
    OBVIOUS
  <2> QED BY <1>1, <2>1, <2>2, <2>3 DEF Tree, Separate
<1>3. \A x \in own : x \notin Holders(d)
  <2> SUFFICES ASSUME NEW x \in own, x \in Holders(d) PROVE FALSE
    OBVIOUS
  <2>1. CASE x = RootLoc
    <3>1. RootLoc \in Dirs(d) /\ d[RootLoc].start = StartBlock
      BY DEF Tree, Rooted, Dirs, Holders
    <3>2. x[1] = StartBlock
      BY <2>1, FiledFacts
    <3> QED BY <1>2, <3>1, <3>2
  <2>2. CASE x \in Used(d)
    <3>1. PICK o \in Dirs(d) : Within(d, o, x)
      BY <2>2, OwnerFacts
    <3> QED BY <1>2, <3>1 DEF Within
  <2> QED BY <2>1, <2>2 DEF Holders
<1>4. \A x \in Loc : d2[x] # d[x] =>
        /\ x \notin Holders(d) /\ x \notin Used(d2)
        /\ \A o \in Dirs(d) : ~Within(d, o, x)
  <2> SUFFICES ASSUME NEW x \in Loc, d2[x] # d[x]
               PROVE  /\ x \notin Holders(d) /\ x \notin Used(d2)
                      /\ \A o \in Dirs(d) : ~Within(d, o, x)
    OBVIOUS
  <2>1. x \in own /\ d2[x] \in Data
    OBVIOUS
  <2> QED BY <1>2, <1>3, <2>1 DEF Used, Within
<1>5. Tree(f, d2) /\ \A m \in Holders(d) : d2[m] = d[m]
  BY <1>4, Scribble
<1>6. Used(d2) = Used(d)
  <2>1. \A m \in Used(d) : m \in Loc /\ m \in Holders(d) /\ d2[m] = d[m]
    BY <1>5, OwnerFacts
  <2>2. \A m \in Loc : m \in Used(d2) => m \in Used(d)
    <3> SUFFICES ASSUME NEW m \in Loc, m \in Used(d2) PROVE m \in Used(d)
      OBVIOUS
    <3>1. d2[m] = d[m]
      BY <1>4
    <3> QED BY <3>1 DEF Used
  <2>3. \A m \in Used(d2) : m \in Loc
    BY DEF Used
  <2> QED BY <2>1, <2>2, <2>3 DEF Used
<1>7. ASSUME NEW m \in Holders(d), m # l, d[m].type = "File",
             NEW y \in Chain(f, d[m].start), NEW i \in 0..EntriesPerBlock - 1
      PROVE  d2[<<y, i>>] = d[<<y, i>>]
  <2>1. y \in Block /\ y \notin Chain(f, d[l].start)
    BY <1>1, <1>7, HolderFacts DEF Tree, Separate
  <2>2. <<y, i>> \in Loc
    BY <2>1 DEF Loc
  <2> QED BY <2>1, <2>2
<1>8. Stays(f, d, f, d2, Holders(d) \ {l})
  BY <1>5, <1>7 DEF Stays
<1> QED
  BY <1>5, <1>6, <1>8

LEMMA WriteTree ==
  ASSUME TInv, Careful, NEW p \in AnyPath, NEW x \in Extents, NEW c \in Data,
         Write(p, x[1], x[2], c)
  PROVE  Grown /\ Outcome("write", Written(p, x[1], x[2], c))
<1> DEFINE h    == Find(p)
           len  == IF x[1] + x[2] > h.entry.length THEN x[1] + x[2] ELSE h.entry.length
           r    == Resized(h.entry, h.loc, len)
           dest == Cells(r.fat, h.entry.start, x[1], x[1] + x[2])
           data == [l \in Loc |-> IF l \in dest THEN c ELSE r.disk[l]]
<1>1. ASSUME NEW s, s # "OK", Fail("write", s) PROVE Grown /\ Outcome("write", Written(p, x[1], x[2], c))
  BY <1>1, FailTree DEF Outcome
<1>2. CASE /\ h.status = "OK" /\ r.status = "OK" /\ p # <<>> /\ h.entry.type = "File"
           /\ Save("write", r.fat, data, r.entry, h.loc)
  <2>1. /\ h.loc \in Used(disk) /\ h.entry = disk[h.loc] /\ h.entry \in Entry
        /\ h.loc \in Loc /\ h.loc # RootLoc /\ h.loc \in Holders(disk)
    BY <1>2, FoundNode, OwnerFacts DEF TInv
  <2>2. len \in Nat /\ h.entry.length <= len
    <3>1. x[1] \in Nat /\ x[2] \in Nat /\ h.entry.length \in Nat
      BY <2>1, CallsAssumption DEF Entry
    <3> QED BY <3>1
  <2>3. /\ fat' = r.fat /\ disk' = PutEntry(data, r.entry, h.loc)
        /\ reply' = [op |-> "write", status |-> "OK"]
    BY <1>2, SMTT(60) DEF Save, Answer
  <2>4. r = Resized(disk[h.loc], h.loc, len) /\ disk[h.loc].type = "File" /\ disk[h.loc].length <= len
    BY <1>2, <2>1, <2>2
  <2>5. h.entry.start = disk[h.loc].start
    BY <2>1
  <2>6. \A l \in dest : l[1] \in Chain(r.fat, h.entry.start)
    BY CellBlock
  <2>7. \/ fat' # r.fat \/ Written(p, x[1], x[2], c)
        \/ ~Resizes(fat, disk, fat', disk', h.loc, len, dest, c)
    BY <1>2 DEF Written, Edited
  <2>8. \A l \in Loc : data[l] = IF l \in dest THEN c ELSE r.disk[l]
    OBVIOUS
  <2>9. data = [l \in Loc |-> IF l \in dest THEN c ELSE r.disk[l]]
    OBVIOUS
  <2>10. r.status = "OK"
    BY <1>2
  <2> DEFINE k == h.loc
  <2> HIDE DEF h, len, r, data, dest, k
  <2>11. /\ Tree(r.fat, r.disk) /\ k \in Used(r.disk) /\ r.disk[k] = r.entry
         /\ r.entry \in Entry /\ r.entry.type = "File"
         /\ Spare(r.fat, r.disk) \subseteq Spare(fat, disk)
         /\ Resizes(fat, disk, r.fat, r.disk, k, len, {}, c)
    BY <2>1, <2>2, <2>4, <2>10, ResizedTree DEF k
  <2>12. /\ Used(r.disk) = Used(disk) /\ Holders(r.disk) = Holders(disk)
         /\ Stays(fat, disk, r.fat, r.disk, Holders(disk) \ {k})
         /\ r.disk[k].start = disk[k].start /\ r.disk[k].type = "File"
    BY <2>11 DEF Resizes, Altered, Holders
  <2>13. data \in [Loc -> Cell]
    <3>1. r.disk \in [Loc -> Cell]
      BY <2>11 DEF Tree
    <3> QED BY <2>9, <3>1 DEF Cell
  <2>14. \A l \in Loc : data[l] # r.disk[l] => data[l] \in Data /\ l[1] \in Chain(r.fat, r.disk[k].start)
    BY <2>5, <2>6, <2>8, <2>12 DEF k
  <2>15. /\ Tree(r.fat, data) /\ Used(data) = Used(r.disk)
         /\ \A m \in Holders(r.disk) : data[m] = r.disk[m]
         /\ Stays(r.fat, r.disk, r.fat, data, Holders(r.disk) \ {k})
    <3>1. Tree(r.fat, r.disk) /\ k \in Used(r.disk) /\ r.disk[k].type = "File"
      BY <2>11, <2>12
    <3> QED BY <2>13, <2>14, <3>1, DataTree, SMTT(60)
  <2>16. data[k] = r.entry
    BY <2>1, <2>11, <2>12, <2>15 DEF k
  <2>17. disk' = data
    <3>1. \A l \in Loc : disk'[l] = data[l]
      BY <2>1, <2>3, <2>16 DEF PutEntry, k
    <3>2. disk' \in [Loc -> Cell]
      BY <2>1, <2>3, <2>11, <2>13, <2>16 DEF PutEntry, k
    <3> QED BY <2>13, <3>1, <3>2
  <2>18. Grown
    BY <2>3, <2>15, <2>17 DEF Grown
  <2>19. Stays(fat, disk, r.fat, data, Holders(disk) \ {k})
    <3>1. Tree(fat, disk) /\ Table(r.fat)
      BY <2>11 DEF TInv, Tree
    <3>2. Holders(disk) \ {k} \in SUBSET Holders(disk)
      OBVIOUS
    <3> QED BY <2>12, <2>15, <3>1, <3>2, StaysOn
  <2>20. Resizes(fat, disk, r.fat, data, k, len, dest, c)
    <3>1. data[k] = r.disk[k] /\ Used(data) = Used(disk)
      BY <2>11, <2>12, <2>15, <2>16
    <3>2. Altered(fat, disk, r.fat, data, k)
      BY <2>11, <2>19, <3>1 DEF Resizes, Altered
    <3>3. \A l \in Loc \ {k} : data[l] = IF l \in dest THEN c ELSE disk[l]
      BY <2>8, <2>11 DEF Resizes
    <3> QED BY <2>11, <3>1, <3>2, <3>3 DEF Resizes
  <2>21. Spare(r.fat, data) \subseteq Spare(fat, disk)
    <3>1. Holders(data) = Holders(r.disk)
      BY <2>15 DEF Holders
    <3> QED BY <2>11, <2>15, <3>1 DEF Spare
  <2>22. Written(p, x[1], x[2], c)
    BY <2>3, <2>7, <2>17, <2>20, SMTT(60) DEF k
  <2> QED BY <2>3, <2>17, <2>18, <2>21, <2>22 DEF Outcome
<1>3. \/ \E s : s # "OK" /\ Fail("write", s)
      \/ /\ h.status = "OK" /\ r.status = "OK" /\ p # <<>> /\ h.entry.type = "File"
         /\ Save("write", r.fat, data, r.entry, h.loc)
  BY DEF Write
<1> QED
  BY <1>1, <1>2, <1>3

\* Writing back what find() has read changes nothing.
LEMMA TouchTree ==
  ASSUME TInv, NEW p \in AnyPath, Touch(p)
  PROVE  Grown /\ Outcome("touch", Undisturbed(fat, disk, fat', disk'))
<1> DEFINE h == Find(p)
<1>1. CASE h.status # "OK" /\ Fail("touch", h.status)
  BY <1>1, FailTree DEF Outcome
<1>2. CASE h.status = "OK" /\ Save("touch", fat, disk, h.entry, h.loc)
  <2>1. /\ fat' = fat /\ disk' = PutEntry(disk, h.entry, h.loc)
        /\ reply' = [op |-> "touch", status |-> "OK"]
    BY <1>2 DEF Save, Answer
  <2>2. disk \in [Loc -> Cell]
    BY RootCells
  <2>3. CASE p = <<>>
    <3>1. h.loc = RootLoc /\ h.entry = disk[RootLoc]
      BY <2>3, RootEntryForm DEF Find, Hit, TInv
    <3> HIDE DEF h
    <3>2. \A k \in Loc : PutEntry(disk, h.entry, h.loc)[k] = disk[k]
      BY <3>1, RootCells DEF PutEntry, RootUp
    <3>3. disk' = disk
      BY <2>1, <2>2, <3>2 DEF PutEntry
    <3> QED BY <2>1, <3>3, TreeKept DEF Outcome
  <2>4. CASE p # <<>>
    <3>1. h.loc \in Used(disk) /\ h.entry = disk[h.loc] /\ h.loc # RootLoc
      BY <1>2, <2>4, FoundNode, OwnerFacts DEF TInv
    <3> HIDE DEF h
    <3>2. disk' = disk
      BY <2>1, <2>2, <3>1 DEF PutEntry
    <3> QED BY <2>1, <3>2, TreeKept DEF Outcome
  <2> QED BY <2>3, <2>4
<1> QED
  BY <1>1, <1>2 DEF Touch

\* The disk on which the root has been stored: its "." and ".." apart, nothing
\* there is an entry that a path could lead to.
LEMMA StoredFacts ==
  /\ StoredDisk \in [Loc -> Cell]
  /\ StoredDisk[RootLoc] = RootDir /\ StoredDisk[RootUp] \in Entry
  /\ RootDir \in Entry /\ RootDir.start = StartBlock /\ RootDir.type = "Directory"
  /\ RootDir.length = 2 /\ RootDir.name = "." /\ StoredDisk[RootUp].name = ".."
  /\ \A l \in Loc : l = RootLoc \/ l = RootUp \/ StoredDisk[l] \in {Zero} \cup Data
  /\ Zero.name = "" /\ FreshTable[StartBlock] = FINAL
<1>1. StoredDisk \in [Loc -> Cell] /\ RootDir \in Entry
  BY FreshFacts, PutEntryFacts DEF StoredDisk
<1>2. [RootDir EXCEPT !.name = ".."] \in Entry /\ [RootDir EXCEPT !.name = ".."].name = ".."
  BY <1>1 DEF Entry
<1>3. \A l \in Loc : FreshDisk[l] \in {Zero} \cup Data
  BY ClearedAssumption DEF FreshDisk
<1>4. FreshTable[StartBlock] = FINAL
  BY FiledFacts, BlockFacts DEF FreshTable
<1> QED
  BY <1>1, <1>2, <1>3, <1>4, StoredCells DEF RootDir, Zero

LEMMA FreshTree == Tree(FreshTable, StoredDisk)
<1> DEFINE f == FreshTable
           d == StoredDisk
<1>1. Table(f)
  BY FreshFacts
<1>2. /\ d \in [Loc -> Cell] /\ d[RootLoc] = RootDir /\ d[RootUp] \in Entry
      /\ \A l \in Loc : l = RootLoc \/ l = RootUp \/ d[l] \in {Zero} \cup Data
  BY StoredFacts
<1>3. /\ RootDir \in Entry /\ RootDir.start = StartBlock /\ RootDir.type = "Directory"
      /\ RootDir.length = 2 /\ RootDir.name = "." /\ d[RootUp].name = ".."
      /\ Zero.name = ""
  BY StoredFacts
<1>4. f[StartBlock] = FINAL
  BY StoredFacts
<1> HIDE DEF f, d
<1>5. Used(d) = {}
  BY <1>2, <1>3, NameAssumption DEF Used
<1>6. Holders(d) = {RootLoc} /\ Dirs(d) = {RootLoc}
  BY <1>2, <1>3, <1>5 DEF Holders, Dirs
<1>7. Chain(f, StartBlock) = {StartBlock} /\ ChainLength(f, StartBlock) = 1 /\ Ends(f, StartBlock)
  <2>1. Chain(f, StartBlock) = {StartBlock}
    <3>1. f[StartBlock] \in {FINAL, UNUSABLE, 0}
      BY <1>4
    <3> QED BY <3>1, ChainLast
  <2> QED BY <1>4, <2>1, FS_Singleton DEF ChainLength, Ends
<1>8. /\ d[RootLoc].start = StartBlock /\ d[RootLoc].type = "Directory"
       /\ d[RootLoc].length = 2
  BY <1>2, <1>3
<1>9. \A i \in 0..d[RootLoc].length - 1 : i = 0 \/ i = 1
  BY <1>8
<1>10. Rooted(d)
  BY <1>1, <1>2, <1>3, DataAssumption DEF Rooted
<1>11. Sealed(f, d) /\ Separate(f, d)
  BY <1>2, <1>3, <1>4, <1>6, <1>7 DEF Sealed, Separate
<1>12. Long(f, d)
  <2>1. d[RootLoc].length <= EntriesPerBlock * 1
    BY <1>8, GeometryAssumption
  <2> QED BY <1>6, <1>7, <1>8, <2>1 DEF Long
<1>13. Compact(f, d)
  <2>1. d[RootLoc].length >= 1
    BY <1>8
  <2> QED BY <1>4, <1>6, <1>8, <2>1 DEF Compact
<1>14. Headed(d)
  <2>1. \A i \in 0..d[RootLoc].length - 1 : d[<<StartBlock, i>>] \notin Data
    <3>1. d[<<StartBlock, 0>>] \notin Data /\ d[<<StartBlock, 1>>] \notin Data
      BY <1>2, <1>3, DataAssumption DEF RootLoc, RootUp
    <3> QED BY <1>9, <3>1
  <2> QED BY <1>6, <1>8, <2>1 DEF Headed
<1>15. Owned(d) /\ Unique(d)
  BY <1>5 DEF Owned, Unique
<1>16. Filled(d)
  <2>1. \A i \in 1..d[RootLoc].length - 1 : <<d[RootLoc].start, i>> = RootUp
    BY <1>8 DEF RootUp
  <2> QED BY <1>6, <2>1 DEF Filled
<1>17. Tree(f, d)
  BY <1>1, <1>2, <1>10, <1>11, <1>12, <1>13, <1>14, <1>15, <1>16 DEF Tree
<1> QED
  BY <1>17 DEF f, d

\* The disk stays sound: every directory is in one block with its header, every
\* chain ends and is long enough, no two share a block, and every node is in
\* one place under one name.  A directory must not outgrow its block, and
\* truncate() must not end in the middle of one.
THEOREM StepTree ==
  Careful /\ Whole /\ TInv /\ (Roomy \/ Fits') /\ [Next]_vars => TInv'
<1> SUFFICES ASSUME Careful, Whole, TInv, Roomy \/ Fits', [Next]_vars PROVE Grown
  BY StepClean DEF TInv, Grown
<1>2. CASE Mount
  BY <1>2, TreeKept DEF Mount
<1>3. ASSUME NEW p \in AnyPath,
             Create(p) \/ Mkdir(p) \/ Unlink(p) \/ Rmdir(p) \/ Touch(p)
      PROVE  Grown
  BY <1>3, CreateTree, MkdirTree, UnlinkTree, RmdirTree, TouchTree
<1>4. ASSUME NEW p \in AnyPath, NEW q \in AnyPath, Rename(p, q) PROVE Grown
  BY <1>4, RenameTree
<1>5. ASSUME NEW p \in AnyPath, NEW n \in Sizes, Truncate(p, n) PROVE Grown
  BY <1>5, TruncateTree
<1>6. ASSUME NEW p \in AnyPath, NEW x \in Extents, NEW c \in Data, Write(p, x[1], x[2], c)
      PROVE  Grown
  BY <1>6, WriteTree
<1>7. CASE UNCHANGED vars
  BY <1>7, TreeKept DEF vars
<1> QED
  BY <1>2, <1>3, <1>4, <1>5, <1>6, <1>7 DEF Next

LEMMA InitTree == Init => TInv
BY InitInvariant, FreshGood, FreshTree DEF Init, MInv, TInv, StoredDisk

\* With a slot for every name and "." and "..", nothing else is needed ...
THEOREM RoomyTree == Careful /\ Whole /\ Roomy => (Spec => []TInv)
<1> SUFFICES ASSUME Careful, Whole, Roomy PROVE Spec => []TInv
  OBVIOUS
<1>1. Init => TInv
  BY InitTree
<1>2. TInv /\ [Next]_vars => TInv'
  BY StepTree
<1> QED
  BY <1>1, <1>2, PTL DEF Spec

\* ... and otherwise it holds as long as no directory is longer than a block.
THEOREM FittingTree == Careful /\ Whole => (Spec /\ []Fits => []TInv)
<1> SUFFICES ASSUME Careful, Whole PROVE Spec /\ []Fits => []TInv
  OBVIOUS
<1>1. Init => TInv
  BY InitTree
<1>2. TInv /\ Fits' /\ [Next]_vars => TInv'
  BY StepTree
<1> QED
  BY <1>1, <1>2, PTL DEF Spec

-----------------------------------------------------------------------------
(* The nodes: the tree that paths span, one level after the other.           *)

\* The level after a level S, and the levels themselves: the recursive function
\* has a value for all of them (by the least level that lacks one).
Deeper(S) ==
    UNION {Children(fat, disk, n[1], disk[n[2]]) : n \in {m \in S : disk[m[2]].type = "Directory"}}

Levels(g) ==
    /\ g[0] = Children(fat, disk, <<>>, RootEntry)
    /\ \A k \in 1..BlockCount : g[k] = Deeper(g[k-1])
    /\ Nodes = UNION {g[k] : k \in 0..BlockCount}

LEMMA LevelsExist == \E g : Levels(g)
<1> DEFINE top == Children(fat, disk, <<>>, RootEntry)
           Body(g, i) == IF i = 0 THEN top ELSE Deeper(g[i-1])
           Solves(g, n) == g = [i \in 0..n |-> Body(g, i)]
           Unsolved == {n \in Nat : ~ \E g : Solves(g, n)}
<1>1. BlockCount \in Nat
  BY GeometryAssumption
<1>2. Unsolved = {}
  <2> SUFFICES ASSUME Unsolved # {} PROVE FALSE
    OBVIOUS
  <2>1. PICK n \in Unsolved : \A m \in Unsolved : n <= m
    <3> HIDE DEF Unsolved
    <3>1. Unsolved \subseteq Nat
      BY DEF Unsolved
    <3> QED BY <3>1, NatMin
  <2>2. CASE n = 0
    <3> DEFINE g == [i \in 0..0 |-> top]
    <3>1. Solves(g, 0)
      <4> HIDE DEF top
      <4>1. [i \in 0..0 |-> Body(g, i)] = [i \in 0..0 |-> top]
        OBVIOUS
      <4> QED BY <4>1
    <3> QED BY <3>1, <2>2, <2>1
  <2>3. CASE n # 0
    <3>1. n \in Nat /\ n - 1 \in Nat /\ n - 1 \notin Unsolved
      <4>1. Unsolved \subseteq Nat
        OBVIOUS
      <4> HIDE DEF Unsolved
      <4> QED BY <4>1, <2>1, <2>3
    <3>2. PICK g : Solves(g, n - 1)
      BY <3>1
    <3> DEFINE g2 == [i \in 0..n |-> Body(g, i)]
    <3>3. ASSUME NEW i \in 0..n PROVE Body(g2, i) = Body(g, i)
      <4>1. CASE i = 0
        BY <4>1
      <4>2. CASE i # 0
        <5>1. i - 1 \in 0..n-1 /\ i - 1 \in 0..n
          BY <4>2, <3>1
        <5>2. g[i-1] = Body(g, i-1)
          <6> HIDE DEF Body
          <6> QED BY <5>1, <3>2
        <5>3. g2[i-1] = Body(g, i-1)
          <6> HIDE DEF Body
          <6> QED BY <5>1
        <5> HIDE DEF g2
        <5>4. Body(g2, i) = Deeper(g2[i-1]) /\ Body(g, i) = Deeper(g[i-1])
          BY <4>2
        <5> QED BY <5>2, <5>3, <5>4
      <4> QED BY <4>1, <4>2
    <3>4. Solves(g2, n)
      <4> HIDE DEF Body
      <4> QED BY <3>3
    <3> QED BY <3>4, <2>1
  <2> QED BY <2>2, <2>3
<1> DEFINE level == CHOOSE g : Solves(g, BlockCount)
<1>3. Solves(level, BlockCount)
  <2> HIDE DEF Solves
  <2> QED BY <1>1, <1>2
<1>4. Nodes = UNION {level[k] : k \in 0..BlockCount}
  BY DEF Nodes, NodesOf, Deeper
<1> HIDE DEF level
<1>5. \A i \in 0..BlockCount : level[i] = Body(level, i)
  <2> HIDE DEF Body
  <2> QED BY <1>3
<1>6. Levels(level)
  <2>1. 0 \in 0..BlockCount /\ \A i \in 1..BlockCount : i \in 0..BlockCount /\ i # 0
    BY <1>1
  <2> QED BY <1>4, <1>5, <2>1 DEF Levels
<1> QED
  BY <1>6

\* What the tree has at a path is what find() finds there.
FoundAt(n) ==
    /\ n = <<n[1], n[2]>> /\ n[1] \in Seq(Name) /\ n[1] # <<>>
    /\ Find(n[1]).status = "OK" /\ Find(n[1]).loc = n[2] /\ n[2] \in Used(disk)

LEMMA ChildFound ==
  ASSUME TInv, NEW p \in Seq(Name), Find(p).status = "OK", Find(p).loc \in Dirs(disk),
         NEW n \in Children(fat, disk, p, disk[Find(p).loc])
  PROVE  FoundAt(n)
<1> DEFINE o == Find(p).loc
           dir == disk[o]
<1>1. PICK l \in LiveSlots(fat, disk, dir) : n = <<Append(p, disk[l].name), l>>
  BY DEF Children
<1>2. Tree(fat, disk) /\ Table(fat) /\ o \in Dirs(disk)
  BY DEF TInv, Tree
<1>3. /\ dir \in Entry /\ dir.start \in Usable /\ fat[dir.start] = FINAL
      /\ dir.type = "Directory" /\ dir.length \in 1..EntriesPerBlock
  BY <1>2, HolderFacts, DirFacts
<1>4. l[1] = dir.start /\ l \in Loc
  <2>1. l \in Slots(fat, dir)
    BY DEF LiveSlots
  <2>2. PICK j \in 0..dir.length - 1 : l = <<dir.start, j>>
    BY <1>2, <1>3, <2>1, DirSlots
  <2>3. <<dir.start, j>> \in Loc
    BY <1>2, <1>3, DirSlots
  <2> QED BY <2>2, <2>3
<1>5. l \in Used(disk)
  BY <1>4 DEF LiveSlots, IsFree, Used
<1> DEFINE q == Append(p, disk[l].name)
<1>6. q \in Seq(Name) /\ q # <<>> /\ Parent(q) = p /\ LastName(q) = disk[l].name
  <2> DEFINE c == disk[l].name
  <2>1. c \in Name
    BY DEF LiveSlots
  <2> HIDE DEF c
  <2>2. \A s \in Seq(Name), d \in Name :
          LET t == Append(s, d)
          IN  t \in Seq(Name) /\ Len(t) = Len(s) + 1 /\ t[Len(t)] = d /\ Len(s) \in Nat
    OBVIOUS
  <2>3. \A s \in Seq(Name), d \in Name : SubSeq(Append(s, d), 1, Len(s)) = s
    OBVIOUS
  <2>4. \A s \in Seq(Name), d \in Name :
          LET t == Append(s, d) IN t # <<>> /\ Parent(t) = s /\ LastName(t) = d
    <3> SUFFICES ASSUME NEW s \in Seq(Name), NEW d \in Name
                 PROVE  LET t == Append(s, d)
                        IN  t # <<>> /\ SubSeq(t, 1, Len(t) - 1) = s /\ t[Len(t)] = d
      BY DEF Parent, LastName
    <3> DEFINE t == Append(s, d)
    <3>1. Len(t) = Len(s) + 1 /\ t[Len(t)] = d /\ Len(s) \in Nat
      BY <2>2
    <3>2. SubSeq(t, 1, Len(s)) = s
      BY <2>3
    <3> HIDE DEF t
    <3>3. t # <<>>
      <4>1. Len(<<>>) = 0
        OBVIOUS
      <4> QED BY <3>1, <4>1
    <3>4. Len(t) - 1 = Len(s)
      BY <3>1
    <3> QED BY <3>1, <3>2, <3>3, <3>4 DEF t
  <2> QED BY <2>1, <2>2, <2>4 DEF c
<1> HIDE DEF q
<1>7. Find(q).status = "OK"
  BY <1>2, <1>4, <1>5, <1>6, FindTree
<1>8. Find(q).loc \in Used(disk) /\ disk[Find(q).loc].name = disk[l].name /\ Find(q).loc[1] = l[1]
  BY <1>4, <1>6, <1>7, FindTree
<1>9. Find(q).loc = l
  BY <1>2, <1>5, <1>8 DEF Tree, Unique
<1> QED
  BY <1>1, <1>5, <1>6, <1>7, <1>9 DEF FoundAt, q

LEMMA NodesFound == ASSUME TInv, NEW n \in Nodes PROVE FoundAt(n)
<1>1. PICK g : Levels(g)
  BY LevelsExist
<1> DEFINE Bad == {k \in 0..BlockCount : \E m \in g[k] : ~FoundAt(m)}
<1> SUFFICES ASSUME Bad # {} PROVE FALSE
  BY <1>1 DEF Levels
<1>2. PICK k \in Bad : \A i \in Bad : k <= i
  <2>1. Bad \subseteq Nat
    OBVIOUS
  <2> HIDE DEF Bad
  <2> QED BY <2>1, NatMin
<1>3. PICK m \in g[k] : ~FoundAt(m)
  BY <1>2
<1>4. k # 0
  <2> SUFFICES ASSUME k = 0 PROVE FALSE
    OBVIOUS
  <2>1. m \in Children(fat, disk, <<>>, RootEntry)
    BY <1>1, <1>3 DEF Levels
  <2>2. /\ <<>> \in Seq(Name) /\ Find(<<>>).status = "OK" /\ Find(<<>>).loc = RootLoc
        /\ RootLoc \in Dirs(disk) /\ RootEntry = disk[RootLoc]
    BY RootHeld, RootEntryForm DEF Find, Hit, TInv
  <2> QED BY <1>3, <2>1, <2>2, ChildFound
<1>5. k \in 1..BlockCount /\ k - 1 \in 0..BlockCount /\ k - 1 \notin Bad
  <2>1. k \in 0..BlockCount
    BY <1>2
  <2> HIDE DEF Bad
  <2> QED BY <1>2, <1>4, <2>1, GeometryAssumption
<1>6. PICK a \in g[k-1] : disk[a[2]].type = "Directory" /\ m \in Children(fat, disk, a[1], disk[a[2]])
  BY <1>1, <1>3, <1>5 DEF Levels, Deeper
<1>7. FoundAt(a)
  BY <1>5
<1>8. Find(a[1]).loc \in Dirs(disk)
  BY <1>6, <1>7 DEF FoundAt, Dirs, Holders
<1> QED
  BY <1>3, <1>6, <1>7, <1>8, ChildFound DEF FoundAt

LEMMA LiveHeld ==
  ASSUME TInv
  PROVE  /\ RootEntry = disk[RootLoc]
         /\ \A e \in LiveEntries : \E l \in Holders(disk) : e = disk[l]
<1>1. RootEntry = disk[RootLoc] /\ RootLoc \in Holders(disk)
  BY RootEntryForm DEF TInv, Holders
<1>2. \A n \in Nodes : n[2] \in Holders(disk)
  BY NodesFound DEF FoundAt, Holders
<1> QED
  BY <1>1, <1>2 DEF LiveEntries

LEMMA NodesDistinct ==
  ASSUME TInv, NEW m \in Nodes, NEW n \in Nodes, m[1] = n[1] \/ m[2] = n[2]
  PROVE  m = n
<1>1. FoundAt(m) /\ FoundAt(n)
  BY NodesFound
<1>2. m[1] = n[1]
  BY <1>1, PathOfNode DEF FoundAt
<1>3. m[2] = n[2]
  BY <1>1, <1>2 DEF FoundAt
<1> QED
  BY <1>1, <1>2, <1>3 DEF FoundAt

LEMMA TreeDisjoint == ASSUME TInv PROVE ChainsDisjoint
<1>1. Tree(fat, disk)
  BY DEF TInv
<1>2. \A n \in Nodes : n[2] \in Used(disk) /\ n[2] \in Holders(disk) /\ n[2] # RootLoc
  <2>1. \A n \in Nodes : n[2] \in Used(disk)
    BY NodesFound DEF FoundAt
  <2> QED BY <1>1, <2>1, OwnerFacts
<1>3. ASSUME NEW l \in Holders(disk), NEW k \in Holders(disk), l # k
      PROVE  Chain(fat, disk[l].start) \cap Chain(fat, disk[k].start) = {}
  <2>1. Chain(fat, disk[l].start) \subseteq Block
    BY <1>1, HolderFacts
  <2> QED BY <1>1, <1>3, <2>1 DEF Tree, Separate
<1>4. \A m, n \in Nodes : m # n => m[2] # n[2]
  BY NodesDistinct
<1>5. RootLoc \in Holders(disk) /\ StartBlock \in Chain(fat, disk[RootLoc].start)
  <2>1. RootLoc \in Holders(disk) /\ disk[RootLoc].start = StartBlock
    BY <1>1 DEF Tree, Rooted, Holders
  <2> QED BY <1>1, <2>1, HolderFacts
<1>6. ASSUME NEW m \in Nodes, NEW n \in Nodes, m # n
      PROVE  Chain(fat, disk[m[2]].start) \cap Chain(fat, disk[n[2]].start) = {}
  BY <1>2, <1>3, <1>4, <1>6
<1>7. ASSUME NEW n \in Nodes PROVE StartBlock \notin Chain(fat, disk[n[2]].start)
  <2>1. Chain(fat, disk[n[2]].start) \cap Chain(fat, disk[RootLoc].start) = {}
    BY <1>2, <1>3, <1>5
  <2> QED BY <1>5, <2>1
<1> QED
  BY <1>6, <1>7 DEF ChainsDisjoint

LEMMA TreeSound == ASSUME TInv PROVE ChainsSound
<1> SUFFICES ASSUME NEW e \in LiveEntries
             PROVE  /\ \A b \in Chain(fat, e.start) : fat[b] = FINAL \/ fat[b] > 0
                    /\ e.length <= EntriesPerBlock * ChainLength(fat, e.start)
  BY DEF ChainsSound
<1>1. PICK l \in Holders(disk) : e = disk[l]
  BY LiveHeld
<1> QED
  BY <1>1 DEF TInv, Tree, Sealed, Long

LEMMA TreeUnique == ASSUME TInv PROVE UniqueNames
BY NodesDistinct DEF UniqueNames

\* ... and the comment of ThornFAT.cpp:684 comes true.
LEMMA TreeHeaded == ASSUME TInv PROVE DirectoriesHeaded /\ GrownDirectoryReadable
<1> SUFFICES ASSUME NEW e \in LiveEntries, e.type = "Directory"
             PROVE  /\ e.length >= 1 /\ Slots(fat, e) # {}
                    /\ \A l \in Slots(fat, e) : disk[l] \notin Data
                    /\ e # RootEntry => disk[<<e.start, 0>>].name = ".."
                    /\ ReadDirStatus(fat, e) = "OK"
  BY DEF DirectoriesHeaded, GrownDirectoryReadable
<1>1. PICK o \in Holders(disk) : e = disk[o]
  BY LiveHeld
<1>2. o \in Dirs(disk) /\ Tree(fat, disk) /\ Table(fat)
  BY <1>1 DEF Dirs, TInv, Tree
<1>3. /\ e \in Entry /\ e.start \in Usable /\ fat[e.start] = FINAL
      /\ e.length \in 1..EntriesPerBlock
  BY <1>1, <1>2, HolderFacts, DirFacts
<1>4. /\ ReadDirStatus(fat, e) = "OK"
      /\ \A l : l \in Slots(fat, e) <=> \E j \in 0..e.length - 1 : l = <<e.start, j>>
  BY <1>2, <1>3, DirSlots
<1>5. e.length >= 1 /\ 0 \in 0..e.length - 1
  BY <1>3, GeometryAssumption
<1>6. Slots(fat, e) # {}
  BY <1>4, <1>5
<1>7. /\ \A i \in 0..e.length - 1 : disk[<<e.start, i>>] \notin Data
      /\ o # RootLoc => disk[<<e.start, 0>>].name = ".."
  BY <1>1, <1>2 DEF Tree, Headed
<1>8. e # RootEntry => o # RootLoc
  BY <1>1, LiveHeld
<1> QED
  BY <1>4, <1>5, <1>6, <1>7, <1>8

\* forget, resize and newFile() never give a block of one node to another.
THEOREM ChainsStayDisjoint ==
  Careful /\ Whole => /\ Roomy => (Spec => []ChainsDisjoint)
                      /\ Spec /\ []Fits => []ChainsDisjoint
<1>1. TInv => ChainsDisjoint
  BY TreeDisjoint
<1> QED
  BY <1>1, RoomyTree, FittingTree, PTL

\* readFile() and write() never run off the end of a chain.
THEOREM ChainsStaySound ==
  Careful /\ Whole => /\ Roomy => (Spec => []ChainsSound)
                      /\ Spec /\ []Fits => []ChainsSound
<1>1. TInv => ChainsSound
  BY TreeSound
<1> QED
  BY <1>1, RoomyTree, FittingTree, PTL

\* Whichever slot newFile() reuses and wherever rename() puts an entry, a path
\* leads to one node.
THEOREM NamesStayUnique ==
  Careful /\ Whole => /\ Roomy => (Spec => []UniqueNames)
                      /\ Spec /\ []Fits => []UniqueNames
<1>1. TInv => UniqueNames
  BY TreeUnique
<1> QED
  BY <1>1, RoomyTree, FittingTree, PTL

\* A directory keeps its header, so that readDir() always sets first_index, and
\* no data is ever read as one of its entries.
THEOREM DirectoriesStayHeaded ==
  Careful /\ Whole => /\ Roomy => (Spec => []DirectoriesHeaded)
                      /\ Spec /\ []Fits => []DirectoriesHeaded
<1>1. TInv => DirectoriesHeaded
  BY TreeHeaded
<1> QED
  BY <1>1, RoomyTree, FittingTree, PTL

\* What the comment of newFile() says of a full directory is true where there
\* are too few names to fill one.
THEOREM RoomyReadable == Careful /\ Whole /\ Roomy => (Spec => []GrownDirectoryReadable)
<1>1. TInv => GrownDirectoryReadable
  BY TreeHeaded
<1> QED
  BY <1>1, RoomyTree, PTL

-----------------------------------------------------------------------------
(* Paths and nodes: every node is on a path, and all of them are in Nodes.   *)

\* The path p leads to l.
At(p, l) == Find(p).status = "OK" /\ Find(p).loc = l

\* From a directory one name leads to the node of that name in it, and
\* different paths lead to different nodes.
Paths ==
    /\ \A l : At(<<>>, l) <=> l = RootLoc
    /\ \A p \in Seq(Name) \ {<<>>} : \A l :
          At(p, l) <=> /\ l \in Used(disk) /\ disk[l].name = LastName(p)
                       /\ \E o \in Dirs(disk) : At(Parent(p), o) /\ l[1] = disk[o].start
    /\ \A p, q \in Seq(Name) : \A l, m : At(p, l) /\ At(q, m) => (p = q <=> l = m)

LEMMA Walk == TInv => Paths
<1> SUFFICES ASSUME TInv PROVE Paths
  OBVIOUS
<1>1. \A l : At(<<>>, l) <=> l = RootLoc
  BY DEF At, Find, Hit
<1>2. ASSUME NEW p \in Seq(Name) \ {<<>>}, NEW l, At(p, l)
      PROVE  /\ l \in Used(disk) /\ disk[l].name = LastName(p)
             /\ \E o \in Dirs(disk) : At(Parent(p), o) /\ l[1] = disk[o].start
  BY <1>2, FindTree DEF At
<1>3. ASSUME NEW p \in Seq(Name) \ {<<>>}, NEW l \in Used(disk), disk[l].name = LastName(p),
             NEW o \in Dirs(disk), At(Parent(p), o), l[1] = disk[o].start
      PROVE  At(p, l)
  <2>1. Find(Parent(p)).status = "OK" /\ Find(Parent(p)).loc = o
    BY <1>3 DEF At
  <2>2. Find(p).status = "OK"
    BY <1>3, <2>1, FindTree
  <2>3. /\ Find(p).loc \in Used(disk) /\ disk[Find(p).loc].name = LastName(p)
        /\ Find(p).loc[1] = disk[o].start
    BY <2>1, <2>2, FindTree
  <2>4. Find(p).loc = l
    BY <1>3, <2>3 DEF TInv, Tree, Unique
  <2> QED BY <2>2, <2>4 DEF At
<1>4. ASSUME NEW p \in Seq(Name), NEW q \in Seq(Name), NEW l, NEW m, At(p, l), At(q, m)
      PROVE  p = q <=> l = m
  BY <1>4, PathOfNode DEF At
<1> QED
  BY <1>1, <1>2, <1>3, <1>4 DEF Paths

\* The first i names of a path.
Prefix(p, i) == SubSeq(p, 1, i)

LEMMA PrefixFacts ==
  ASSUME NEW p \in Seq(Name)
  PROVE  /\ Prefix(p, 0) = <<>> /\ Prefix(p, Len(p)) = p /\ Len(p) \in Nat
         /\ \A i \in 0..Len(p) : Prefix(p, i) \in Seq(Name) /\ Len(Prefix(p, i)) = i
         /\ \A i \in 1..Len(p) : /\ Parent(Prefix(p, i)) = Prefix(p, i - 1)
                                 /\ LastName(Prefix(p, i)) = p[i] /\ Prefix(p, i) # <<>>
<1>1. Len(p) \in Nat
  OBVIOUS
<1>2. Prefix(p, 0) = <<>> /\ Prefix(p, Len(p)) = p
  BY DEF Prefix
<1>3. ASSUME NEW i \in 0..Len(p)
      PROVE  /\ Prefix(p, i) \in Seq(Name) /\ Len(Prefix(p, i)) = i
             /\ \A j \in 1..i : Prefix(p, i)[j] = p[j]
  BY DEF Prefix
<1>4. ASSUME NEW i \in 1..Len(p)
      PROVE  /\ Parent(Prefix(p, i)) = Prefix(p, i - 1)
             /\ LastName(Prefix(p, i)) = p[i] /\ Prefix(p, i) # <<>>
  <2> DEFINE t == Prefix(p, i)
  <2>1. t \in Seq(Name) /\ Len(t) = i /\ (\A j \in 1..i : t[j] = p[j]) /\ i \in Nat \ {0}
    BY <1>3
  <2>2. i - 1 \in 0..Len(p)
    BY <1>1
  <2> HIDE DEF t
  <2>3. t # <<>>
    BY <2>1
  <2>4. Parent(t) \in Seq(Name) /\ Len(Parent(t)) = i - 1
    BY <2>1, <2>3, FindStep
  <2>5. \A j \in 1..i - 1 : Parent(t)[j] = p[j]
    BY <2>1, <2>4 DEF Parent
  <2>6. /\ Prefix(p, i - 1) \in Seq(Name) /\ Len(Prefix(p, i - 1)) = i - 1
        /\ \A j \in 1..i - 1 : Prefix(p, i - 1)[j] = p[j]
    BY <1>3, <2>2
  <2>7. Parent(t) = Prefix(p, i - 1)
    <3>1. \A a, b \in Seq(Name) : Len(a) = Len(b) /\ (\A j \in 1..Len(a) : a[j] = b[j]) => a = b
      OBVIOUS
    <3> QED BY <2>4, <2>5, <2>6, <3>1
  <2>8. LastName(t) = p[i]
    BY <2>1, <2>3 DEF LastName
  <2> QED BY <2>3, <2>7, <2>8 DEF t
<1> QED
  BY <1>1, <1>2, <1>3, <1>4

\* The nodes on the way to a node: one directory for each shorter path.
LEMMA Way ==
  ASSUME TInv, NEW p \in Seq(Name), NEW l, At(p, l)
  PROVE  \E w : /\ \A i \in 0..Len(p) : At(Prefix(p, i), w[i])
                /\ \A i \in 0..Len(p) - 1 : w[i] \in Dirs(disk)
                /\ w[0] = RootLoc /\ w[Len(p)] = l
                /\ \A i \in 1..Len(p) : /\ w[i] \in Used(disk) /\ w[i][1] = disk[w[i-1]].start
                                        /\ disk[w[i]].name = p[i]
<1> DEFINE n == Len(p)
           Bad == {k \in 0..n : \A x : ~At(Prefix(p, n - k), x)}
<1>0. n \in Nat
  BY PrefixFacts
<1>1. Bad = {}
  <2> SUFFICES ASSUME Bad # {} PROVE FALSE
    OBVIOUS
  <2>1. PICK k \in Bad : \A j \in Bad : k <= j
    <3>1. Bad \subseteq Nat
      OBVIOUS
    <3> HIDE DEF Bad
    <3> QED BY <3>1, NatMin
  <2>2. k \in 0..n /\ k # 0
    BY <2>1, PrefixFacts
  <2>3. k - 1 \in 0..n /\ k - 1 \notin Bad
    <3> HIDE DEF Bad
    <3> QED BY <1>0, <2>1, <2>2
  <2> DEFINE m == n - k + 1
  <2>4. m \in 1..n /\ n - (k - 1) = m /\ m - 1 = n - k
    BY <1>0, <2>2
  <2>5. PICK x : At(Prefix(p, n - (k - 1)), x)
    BY <2>3
  <2>6. At(Prefix(p, m), x)
    BY <2>4, <2>5
  <2> HIDE DEF m
  <2>7. Prefix(p, m) \in Seq(Name) \ {<<>>} /\ Parent(Prefix(p, m)) = Prefix(p, n - k)
    <3>1. m \in 1..n /\ m \in 0..n
      BY <1>0, <2>4
    <3>2. Prefix(p, m) \in Seq(Name) /\ Prefix(p, m) # <<>> /\ Parent(Prefix(p, m)) = Prefix(p, m - 1)
      BY <3>1, PrefixFacts
    <3> QED BY <2>4, <3>2
  <2>8. \E o \in Dirs(disk) : At(Prefix(p, n - k), o)
    BY <2>6, <2>7, Walk DEF Paths
  <2> QED BY <2>1, <2>8
<1>2. \A i \in 0..n : \E x : At(Prefix(p, i), x)
  <2> TAKE i \in 0..n
  <2>1. n - i \in 0..n /\ n - (n - i) = i
    BY <1>0
  <2> QED BY <1>1, <2>1
<1> DEFINE w == [i \in 0..n |-> CHOOSE x : At(Prefix(p, i), x)]
<1>3. \A i \in 0..n : At(Prefix(p, i), w[i])
  BY <1>2
<1>4. w[0] = RootLoc /\ w[n] = l
  <2>1. 0 \in 0..n /\ n \in 0..n
    BY <1>0
  <2>2. At(<<>>, w[0]) /\ At(p, w[n])
    BY <1>3, <2>1, PrefixFacts
  <2> HIDE DEF w
  <2> QED BY <2>2, Walk DEF Paths
<1> HIDE DEF w
<1>5. ASSUME NEW i \in 1..n
      PROVE  /\ w[i] \in Used(disk) /\ disk[w[i]].name = p[i]
             /\ w[i-1] \in Dirs(disk) /\ w[i][1] = disk[w[i-1]].start
  <2>1. i \in 0..n /\ i - 1 \in 0..n
    BY <1>0
  <2>2. /\ At(Prefix(p, i), w[i]) /\ At(Prefix(p, i - 1), w[i-1]) /\ LastName(Prefix(p, i)) = p[i]
        /\ Prefix(p, i) \in Seq(Name) \ {<<>>} /\ Parent(Prefix(p, i)) = Prefix(p, i - 1)
        /\ Prefix(p, i - 1) \in Seq(Name)
    BY <1>3, <2>1, PrefixFacts
  <2>3. PICK o \in Dirs(disk) : At(Prefix(p, i - 1), o) /\ w[i][1] = disk[o].start
    BY <2>2, Walk DEF Paths
  <2>4. o = w[i-1]
    BY <2>2, <2>3, Walk DEF Paths
  <2>5. w[i] \in Used(disk) /\ disk[w[i]].name = LastName(Prefix(p, i))
    BY <2>2, Walk DEF Paths
  <2> QED BY <2>2, <2>3, <2>4, <2>5
<1>6. \A i \in 0..n - 1 : w[i] \in Dirs(disk)
  <2> TAKE i \in 0..n - 1
  <2>1. i + 1 \in 1..n /\ i + 1 - 1 = i
    BY <1>0
  <2> QED BY <1>5, <2>1
<1> QED
  BY <1>3, <1>4, <1>5, <1>6

\* No path is longer than the disk has blocks: its directories are distinct.
LEMMA ShortPath ==
  ASSUME TInv, NEW p \in Seq(Name), NEW l, At(p, l)
  PROVE  Len(p) <= BlockCount
<1> DEFINE n == Len(p)
<1> SUFFICES ASSUME n > BlockCount PROVE FALSE
  BY PrefixFacts, GeometryAssumption
<1>1. PICK w : /\ \A i \in 0..n : At(Prefix(p, i), w[i])
               /\ \A i \in 0..n - 1 : w[i] \in Dirs(disk)
  BY Way
<1> DEFINE h == [b \in Block |-> CHOOSE i \in 0..n - 1 : disk[w[i]].start = b]
<1>2. Tree(fat, disk) /\ n \in Nat /\ BlockCount \in Nat
  BY PrefixFacts, GeometryAssumption DEF TInv
<1>3. ASSUME NEW i \in 0..n - 1
      PROVE  disk[w[i]].start \in Block /\ h[disk[w[i]].start] = i
  <2>1. w[i] \in Holders(disk)
    BY <1>1 DEF Dirs
  <2>2. disk[w[i]].start \in Block /\ disk[w[i]].start \in Chain(fat, disk[w[i]].start)
    BY <1>2, <2>1, HolderFacts
  <2>3. ASSUME NEW j \in 0..n - 1, disk[w[j]].start = disk[w[i]].start PROVE j = i
    <3>1. w[j] \in Holders(disk)
      BY <1>1 DEF Dirs
    <3>2. w[j] = w[i]
      BY <1>2, <2>1, <2>2, <2>3, <3>1 DEF Tree, Separate
    <3>3. i \in 0..n /\ j \in 0..n
      BY <1>2
    <3>4. /\ At(Prefix(p, i), w[i]) /\ At(Prefix(p, j), w[j])
          /\ Prefix(p, i) \in Seq(Name) /\ Prefix(p, j) \in Seq(Name)
          /\ Len(Prefix(p, i)) = i /\ Len(Prefix(p, j)) = j
      BY <1>1, <3>3, PrefixFacts
    <3>5. Prefix(p, i) = Prefix(p, j)
      BY <3>2, <3>4, Walk DEF Paths
    <3> QED BY <3>4, <3>5
  <2> QED BY <2>2, <2>3
<1> HIDE DEF h
<1> DEFINE c == BlockCount + 1
<1>4. c \in Nat /\ \A k \in 0..c - 1 : \E x \in Block : h[x] = k
  <2>1. \A k \in 0..c - 1 : k \in 0..n - 1
    BY <1>2
  <2> QED BY <1>2, <1>3, <2>1
<1>5. IsFiniteSet(Block) /\ Cardinality(Block) = BlockCount
  <2>1. Cardinality(Block) = IF 0 > BlockCount - 1 THEN 0 ELSE BlockCount - 1 - 0 + 1
    BY GeometryAssumption, FS_Interval DEF Block
  <2> QED BY <2>1, BlockFacts, GeometryAssumption
<1>6. Cardinality(Block) >= c
  <2> HIDE DEF c
  <2> QED BY <1>4, <1>5, AtLeast
<1> QED
  BY <1>2, <1>5, <1>6

\* A node in a directory is a child of it.
LEMMA UsedChild ==
  ASSUME TInv, NEW o \in Dirs(disk), NEW l \in Used(disk), l[1] = disk[o].start, NEW p
  PROVE  <<Append(p, disk[l].name), l>> \in Children(fat, disk, p, disk[o])
<1> DEFINE dir == disk[o]
<1>1. Tree(fat, disk) /\ Table(fat) /\ l \in Holders(disk)
  BY DEF TInv, Tree, Holders
<1>2. /\ dir \in Entry /\ dir.start \in Usable /\ fat[dir.start] = FINAL /\ o \in Holders(disk)
      /\ dir.type = "Directory" /\ dir.length \in 1..EntriesPerBlock /\ dir.start \in Block
      /\ dir.start \in Chain(fat, dir.start)
  BY <1>1, HolderFacts, DirFacts
<1>3. l[2] \in 0..dir.length - 1 /\ l = <<dir.start, l[2]>>
  <2>1. PICK m \in Dirs(disk) : l[1] = disk[m].start /\ l[2] \in 1..disk[m].length - 1
    BY <1>1 DEF Tree, Owned
  <2>2. m = o
    <3>1. m \in Holders(disk)
      BY <2>1 DEF Dirs
    <3> QED BY <1>1, <1>2, <2>1, <3>1 DEF Tree, Separate
  <2>3. l \in Loc
    BY DEF Used
  <2>4. l = <<l[1], l[2]>>
    BY <2>3 DEF Loc
  <2> QED BY <1>2, <2>1, <2>2, <2>4
<1>4. l \in Slots(fat, dir)
  BY <1>1, <1>2, <1>3, DirSlots
<1>5. ~IsFree(fat, disk[l]) /\ disk[l] \notin Data /\ disk[l].name \in Name
  <2>1. disk[l].start \in Chain(fat, disk[l].start)
    BY <1>1, HolderFacts
  <2>2. fat[disk[l].start] # 0
    BY <1>1, <2>1 DEF Tree, Sealed, FINAL
  <2> QED BY <2>2 DEF IsFree, Used
<1> QED
  BY <1>4, <1>5 DEF Children, LiveSlots

\* Nodes has every node that a path leads to.
LEMMA NodesAll ==
  ASSUME TInv, NEW p \in Seq(Name), p # <<>>, NEW l, At(p, l)
  PROVE  <<p, l>> \in Nodes
<1> DEFINE n == Len(p)
<1>0. n \in Nat \ {0} /\ n <= BlockCount /\ BlockCount \in Nat
  BY ShortPath, PrefixFacts, GeometryAssumption
<1>1. PICK w : /\ \A i \in 0..n - 1 : w[i] \in Dirs(disk)
               /\ w[0] = RootLoc /\ w[n] = l
               /\ \A i \in 1..n : /\ w[i] \in Used(disk) /\ w[i][1] = disk[w[i-1]].start
                                  /\ disk[w[i]].name = p[i]
  BY Way
<1>2. PICK g : Levels(g)
  BY LevelsExist
<1> DEFINE Bad == {k \in 0..n - 1 : <<Prefix(p, k + 1), w[k+1]>> \notin g[k]}
<1>3. ASSUME NEW k \in 0..n - 1
      PROVE  <<Prefix(p, k + 1), w[k+1]>> \in Children(fat, disk, Prefix(p, k), disk[w[k]])
  <2>1. k + 1 \in 1..n /\ k + 1 \in 0..n /\ k \in 0..n /\ k + 1 - 1 = k
    BY <1>0
  <2>2. w[k] \in Dirs(disk) /\ w[k+1] \in Used(disk) /\ w[k+1][1] = disk[w[k]].start
        /\ disk[w[k+1]].name = p[k+1]
    BY <1>1, <2>1
  <2>3. Prefix(p, k + 1) = Append(Prefix(p, k), p[k+1])
    <3> DEFINE t == Prefix(p, k + 1)
    <3>1. t \in Seq(Name) /\ t # <<>> /\ Parent(t) = Prefix(p, k) /\ LastName(t) = p[k+1]
      BY <2>1, PrefixFacts
    <3> HIDE DEF t
    <3>2. t = Append(Parent(t), LastName(t))
      BY <3>1 DEF Parent, LastName
    <3> QED BY <3>1, <3>2 DEF t
  <2> QED BY <2>2, <2>3, UsedChild
<1>4. Bad = {}
  <2> SUFFICES ASSUME Bad # {} PROVE FALSE
    OBVIOUS
  <2>1. PICK k \in Bad : \A j \in Bad : k <= j
    <3>1. Bad \subseteq Nat
      OBVIOUS
    <3> HIDE DEF Bad
    <3> QED BY <3>1, NatMin
  <2>2. k \in 0..n - 1 /\ <<Prefix(p, k + 1), w[k+1]>> \notin g[k]
    BY <2>1
  <2>3. k # 0
    <3> SUFFICES ASSUME k = 0 PROVE FALSE
      OBVIOUS
    <3>1. Prefix(p, 0) = <<>> /\ w[0] = RootLoc /\ RootEntry = disk[RootLoc]
      BY <1>1, PrefixFacts, LiveHeld
    <3>2. <<Prefix(p, k + 1), w[k+1]>> \in Children(fat, disk, <<>>, RootEntry)
      BY <1>3, <2>2, <3>1
    <3> QED BY <1>2, <2>2, <3>2 DEF Levels
  <2>4. k - 1 \in 0..n - 1 /\ k - 1 + 1 = k /\ k \in 1..n - 1 /\ k \in 1..BlockCount
    BY <1>0, <2>2, <2>3
  <2>5. k - 1 \notin Bad
    <3> HIDE DEF Bad
    <3> QED BY <2>1, <2>4
  <2>6. <<Prefix(p, k), w[k]>> \in g[k-1]
    BY <2>4, <2>5
  <2>7. disk[w[k]].type = "Directory"
    BY <1>1, <2>2 DEF Dirs
  <2>8. <<Prefix(p, k + 1), w[k+1]>> \in Deeper(g[k-1])
    <3> DEFINE a == <<Prefix(p, k), w[k]>>
    <3>1. a \in g[k-1] /\ a[1] = Prefix(p, k) /\ a[2] = w[k]
      BY <2>6
    <3>2. <<Prefix(p, k + 1), w[k+1]>> \in Children(fat, disk, a[1], disk[a[2]])
      BY <1>3, <2>2, <3>1
    <3> HIDE DEF a
    <3> QED BY <2>7, <3>1, <3>2 DEF Deeper
  <2>9. g[k] = Deeper(g[k-1])
    BY <1>2, <2>4 DEF Levels
  <2> QED BY <2>2, <2>8, <2>9
<1>5. n - 1 \in 0..n - 1 /\ n - 1 + 1 = n /\ n - 1 \in 0..BlockCount
  BY <1>0
<1>6. <<p, l>> \in g[n-1]
  <2>1. <<Prefix(p, n - 1 + 1), w[n-1+1]>> \in g[n-1]
    BY <1>4, <1>5
  <2> QED BY <1>1, <1>5, <2>1, PrefixFacts
<1> QED
  BY <1>2, <1>5, <1>6 DEF Levels

\* A path still leads where it did when the nodes along it stay.
LEMMA StillAt ==
  ASSUME TInv, TInv', NEW P \in SUBSET Seq(Name), \A p \in P : p # <<>> => Parent(p) \in P,
         \A p \in P : \A l : p # <<>> /\ At(p, l) =>
            /\ l \in Used(disk') /\ disk'[l].name = disk[l].name
            /\ disk'[l].type = disk[l].type /\ disk'[l].start = disk[l].start
  PROVE  \A p \in P : \A l : At(p, l) => At(p, l)'
<1>1. Paths /\ Paths'
  <2>1. Paths
    BY Walk
  <2>2. Paths'
    BY Walk, PTL
  <2> QED BY <2>1, <2>2
<1> DEFINE Bad == {n \in Nat : \E p \in P : \E l : Len(p) = n /\ At(p, l) /\ ~At(p, l)'}
<1> SUFFICES ASSUME Bad # {} PROVE FALSE
  OBVIOUS
<1>2. PICK n \in Bad : \A m \in Bad : n <= m
  <2>1. Bad \subseteq Nat
    OBVIOUS
  <2> HIDE DEF Bad
  <2> QED BY <2>1, NatMin
<1>0. PICK p \in P : \E l : Len(p) = n /\ At(p, l) /\ ~At(p, l)'
  BY <1>2
<1>3. PICK l : Len(p) = n /\ At(p, l) /\ ~At(p, l)'
  BY <1>0
<1>4. p # <<>>
  BY <1>1, <1>3 DEF Paths
<1>5. PICK o \in Dirs(disk) : At(Parent(p), o) /\ l[1] = disk[o].start
  BY <1>1, <1>3, <1>4 DEF Paths
<1>6. At(Parent(p), o)'
  <2>1. Len(Parent(p)) = n - 1 /\ Parent(p) \in P /\ Len(Parent(p)) \in Nat /\ n \in Nat
    BY <1>2, <1>3, <1>4, FindStep
  <2>2. n - 1 \notin Bad /\ n - 1 \in Nat
    <3> HIDE DEF Bad
    <3> QED BY <1>2, <2>1
  <2> QED BY <1>5, <2>1, <2>2
<1>7. o \in Dirs(disk') /\ disk'[o].start = disk[o].start
  <2>1. CASE Parent(p) = <<>>
    <3>1. o = RootLoc
      BY <1>1, <1>5, <2>1 DEF Paths
    <3> QED BY <3>1 DEF TInv, Tree, Rooted, Dirs, Holders
  <2>2. CASE Parent(p) # <<>>
    <3>1. Parent(p) \in P
      BY <1>3, <1>4
    <3>2. /\ o \in Used(disk') /\ disk'[o].type = disk[o].type /\ disk'[o].start = disk[o].start
      BY <1>5, <2>2, <3>1
    <3> QED BY <3>2 DEF Dirs, Holders
  <2> QED BY <2>1, <2>2
<1>8. l \in Used(disk') /\ disk'[l].name = disk[l].name /\ disk[l].name = LastName(p)
  BY <1>1, <1>3, <1>4 DEF Paths
<1>9. l[1] = disk'[o].start
  BY <1>5, <1>7
<1>10. At(p, l)'
  BY <1>1, <1>3, <1>4, <1>6, <1>7, <1>8, <1>9 DEF Paths
<1> QED
  BY <1>3, <1>10

\* Every node is on a path.
Connected == \A l \in Used(disk) : \E p \in Seq(Name) : At(p, l)

LEMMA NodeNamed ==
  ASSUME TInv, NEW p \in Seq(Name), NEW l, At(p, l)
  PROVE  /\ p # <<>> => l \in Used(disk) /\ l \in Holders(disk) /\ l # RootLoc
         /\ l # RootLoc => p # <<>>
<1>1. Paths
  BY Walk
<1> QED
  BY <1>1, OwnerFacts DEF Paths, TInv

LEMMA KeptAt ==
  ASSUME TInv, TInv', Used(disk') = Used(disk),
         \A l \in Used(disk) : /\ disk'[l].name = disk[l].name /\ disk'[l].type = disk[l].type
                               /\ disk'[l].start = disk[l].start
  PROVE  /\ \A p \in Seq(Name) : \A l : At(p, l) => At(p, l)'
         /\ Connected => Connected'
<1> DEFINE P == Seq(Name)
<1>1. \A p \in P : p # <<>> => Parent(p) \in P
  BY FindStep
<1>2. \A p \in P : \A l : p # <<>> /\ At(p, l) => l \in Used(disk)
  BY NodeNamed
<1>3. \A p \in P : \A l : At(p, l) => At(p, l)'
  <2> HIDE DEF P
  <2>1. P \in SUBSET Seq(Name)
    BY DEF P
  <2> QED BY <1>1, <1>2, <2>1, StillAt
<1> QED
  BY <1>3 DEF Connected

LEMMA JoinedAt ==
  ASSUME TInv, TInv', NEW p \in Seq(Name), p # <<>>, NEW k, NEW o, NEW e,
         At(Parent(p), o), e.name = LastName(p), Joined(fat, disk, fat', disk', k, o, e)
  PROVE  /\ \A r \in Seq(Name) : \A l : At(r, l) => At(r, l)'
         /\ At(p, k)' /\ (Connected => Connected')
<1> DEFINE P == Seq(Name)
<1>1. \A r \in P : r # <<>> => Parent(r) \in P
  BY FindStep
<1>2. \A r \in P : \A l : r # <<>> /\ At(r, l) => l \in Used(disk) /\ l \in Holders(disk)
  BY NodeNamed
<1>3. \A r \in P : \A l : At(r, l) => At(r, l)'
  <2> HIDE DEF P
  <2>1. P \in SUBSET Seq(Name)
    BY DEF P
  <2>2. \A l \in Holders(disk) : l \in Used(disk) => l \in Used(disk')
    BY DEF Joined
  <2> QED BY <1>1, <1>2, <2>1, <2>2, StillAt DEF Joined, Stays
<1>4. At(p, k)'
  <2>1. Paths'
    BY Walk, PTL
  <2>2. At(Parent(p), o)' /\ Parent(p) \in Seq(Name)
    BY <1>1, <1>3
  <2>3. o \in Dirs(disk') /\ disk'[o].start = disk[o].start
    <3>1. o \in Holders(disk) /\ o \in Dirs(disk)
      BY DEF Joined, Dirs
    <3> QED BY <3>1 DEF Joined, Stays, Dirs, Holders
  <2>4. k \in Used(disk') /\ disk'[k].name = LastName(p) /\ k[1] = disk'[o].start
    BY <2>3 DEF Joined
  <2> QED BY <2>1, <2>2, <2>3, <2>4 DEF Paths
<1> QED
  BY <1>3, <1>4 DEF Connected, Joined

LEMMA RemovedAt ==
  ASSUME TInv, TInv', NEW l, Removed(fat, disk, fat', disk', l)
  PROVE  /\ \A r \in Seq(Name) : \A x : At(r, x) /\ x # l => At(r, x)'
         /\ Connected => Connected'
<1> DEFINE P == {r \in Seq(Name) : \E x : At(r, x) /\ x # l}
<1>1. Paths
  BY Walk
<1>2. ASSUME NEW r \in P, r # <<>> PROVE Parent(r) \in P
  <2>1. PICK x : At(r, x) /\ x # l
    OBVIOUS
  <2>2. PICK o \in Dirs(disk) : x \in Used(disk) /\ At(Parent(r), o) /\ x[1] = disk[o].start
    BY <1>1, <1>2, <2>1 DEF Paths
  <2>3. o # l
    BY <2>2 DEF Removed, Dirs
  <2> QED BY <1>2, <2>2, <2>3, FindStep
<1>3. \A r \in P : \A x : r # <<>> /\ At(r, x) => x # l /\ x \in Used(disk) /\ x \in Holders(disk)
  <2> SUFFICES ASSUME NEW r \in P, NEW x, r # <<>>, At(r, x)
               PROVE  x # l /\ x \in Used(disk) /\ x \in Holders(disk)
    OBVIOUS
  <2>1. PICK y : At(r, y) /\ y # l
    OBVIOUS
  <2>2. x = y
    BY <1>1, <2>1 DEF Paths
  <2> QED BY <2>1, <2>2, NodeNamed
<1>4. \A r \in P : \A x : At(r, x) => At(r, x)'
  <2>1. P \in SUBSET Seq(Name)
    OBVIOUS
  <2>2. \A r \in P : r # <<>> => Parent(r) \in P
    BY <1>2
  <2> HIDE DEF P
  <2> QED BY <1>3, <2>1, <2>2, StillAt DEF Removed, Stays
<1>5. \A r \in Seq(Name) : \A x : At(r, x) /\ x # l => At(r, x)'
  BY <1>4
<1> QED
  BY <1>5 DEF Connected, Removed

\* Below and Parent.
LEMMA BelowParent ==
  ASSUME NEW p \in Seq(Name), NEW r \in Seq(Name), r # <<>>
  PROVE  Below(p, r) <=> Parent(r) = p \/ Below(p, Parent(r))
<1> DEFINE u == Parent(r)
           n == Len(r)
           k == Len(p)
<1>1. u \in Seq(Name) /\ Len(u) = n - 1 /\ n \in Nat \ {0} /\ k \in Nat
  <2>1. n \in Nat /\ k \in Nat
    OBVIOUS
  <2>2. n # 0
    OBVIOUS
  <2> QED BY <2>1, <2>2, FindStep
<1>2. \A j \in 1..n - 1 : u[j] = r[j]
  BY <1>1 DEF Parent
<1>3. \A s \in Seq(Name) : \A m \in 0..Len(s) :
         /\ SubSeq(s, 1, m) \in Seq(Name) /\ Len(SubSeq(s, 1, m)) = m
         /\ \A j \in 1..m : SubSeq(s, 1, m)[j] = s[j]
  OBVIOUS
<1>4. \A a, b \in Seq(Name) : Len(a) = Len(b) /\ (\A j \in 1..Len(a) : a[j] = b[j]) => a = b
  OBVIOUS
<1>5. Below(p, r) <=> k < n /\ \A j \in 1..k : r[j] = p[j]
  <2>1. CASE ~(k < n)
    BY <2>1 DEF Below
  <2>2. CASE k < n
    <3>1. k \in 0..Len(r)
      BY <1>1, <2>2
    <3> QED BY <1>3, <1>4, <2>2, <3>1 DEF Below
  <2> QED BY <2>1, <2>2
<1>6. Below(p, u) <=> k < n - 1 /\ \A j \in 1..k : u[j] = p[j]
  <2>1. CASE ~(k < n - 1)
    BY <1>1, <2>1 DEF Below
  <2>2. CASE k < n - 1
    <3>1. k \in 0..Len(u)
      BY <1>1, <2>2
    <3> HIDE DEF u
    <3> QED BY <1>1, <1>3, <1>4, <2>2, <3>1 DEF Below
  <2> QED BY <2>1, <2>2
<1>7. u = p <=> k = n - 1 /\ \A j \in 1..k : u[j] = p[j]
  <2> HIDE DEF u
  <2> QED BY <1>1, <1>4
<1>8. k < n => ((\A j \in 1..k : u[j] = p[j]) <=> \A j \in 1..k : r[j] = p[j])
  <2> SUFFICES ASSUME k < n PROVE \A j \in 1..k : u[j] = r[j]
    OBVIOUS
  <2> QED BY <1>1, <1>2
<1>9. k < n <=> k = n - 1 \/ k < n - 1
  BY <1>1
<1> HIDE DEF u, k, n
<1> QED
  BY <1>5, <1>6, <1>7, <1>8, <1>9 DEF u

\* What rename() of p to q makes of a path below p.
Rebased(p, q, r) == q \o SubSeq(r, Len(p) + 1, Len(r))

LEMMA RebasedFacts ==
  ASSUME NEW p \in Seq(Name), NEW q \in Seq(Name), NEW r \in Seq(Name), Below(p, r)
  PROVE  LET t == Rebased(p, q, r)
         IN  /\ t \in Seq(Name) /\ t # <<>> /\ r # <<>> /\ LastName(t) = LastName(r)
             /\ Below(q, t) /\ Rebased(q, p, t) = r
             /\ Parent(r) = p => Parent(t) = q
             /\ Parent(r) # p => Below(p, Parent(r)) /\ Parent(t) = Rebased(p, q, Parent(r))
<1>0. \A a, b \in Seq(Name) : Len(a) = Len(b) /\ (\A j \in 1..Len(a) : a[j] = b[j]) => a = b
  BY SMTT(60)
<1>1. ASSUME NEW a \in Seq(Name), NEW x \in Seq(Name), NEW k \in Nat, k <= Len(x)
      PROVE  LET t == a \o SubSeq(x, k + 1, Len(x))
             IN  /\ t \in Seq(Name) /\ Len(t) = Len(a) + Len(x) - k
                 /\ \A j \in 1..Len(a) : t[j] = a[j]
                 /\ \A j \in Len(a) + 1..Len(t) : t[j] = x[j - Len(a) + k]
  <2> DEFINE z == SubSeq(x, k + 1, Len(x))
  <2>1. z \in Seq(Name) /\ Len(z) = Len(x) - k /\ \A j \in 1..Len(x) - k : z[j] = x[j + k]
    BY <1>1
  <2>2. Len(a) \in Nat /\ Len(x) \in Nat
    OBVIOUS
  <2> HIDE DEF z
  <2> DEFINE t == a \o z
             m == Len(a)
             n == Len(x)
  <2>3. /\ t \in Seq(Name) /\ Len(t) = m + Len(z)
        /\ \A j \in 1..m : t[j] = a[j]
        /\ \A j \in m + 1..m + Len(z) : t[j] = z[j - m]
    <3>1. \A c, y \in Seq(Name) : /\ c \o y \in Seq(Name) /\ Len(c \o y) = Len(c) + Len(y)
                                  /\ \A j \in 1..Len(c) : (c \o y)[j] = c[j]
      OBVIOUS
    <3>2. \A c, y \in Seq(Name) : \A j \in Len(c) + 1..Len(c) + Len(y) : (c \o y)[j] = y[j - Len(c)]
      OBVIOUS
    <3> QED BY <2>1, <3>1, <3>2
  <2> HIDE DEF t, m, n
  <2>4. m \in Nat /\ n \in Nat /\ Len(z) = n - k /\ k <= n
    BY <1>1, <2>1, <2>2 DEF m, n
  <2>5. \A j \in m + 1..m + Len(z) : j - m \in 1..n - k /\ t[j] = x[j - m + k]
    <3> TAKE j \in m + 1..m + Len(z)
    <3>1. j - m \in 1..n - k
      BY <2>4
    <3>2. z[j - m] = x[j - m + k]
      BY <2>1, <3>1 DEF n
    <3> QED BY <2>3, <3>1, <3>2
  <2>6. Len(t) = m + n - k /\ m + Len(z) = Len(t)
    BY <2>3, <2>4
  <2> QED BY <2>3, <2>5, <2>6 DEF t, z, m, n
<1> DEFINE t == Rebased(p, q, r)
           k == Len(p)
           m == Len(q)
           n == Len(r)
<1>2. r # <<>> /\ k \in Nat /\ n \in Nat /\ m \in Nat /\ k < n /\ SubSeq(r, 1, k) = p
  BY DEF Below
<1>3. /\ t \in Seq(Name) /\ Len(t) = m + n - k
      /\ \A j \in 1..m : t[j] = q[j]
      /\ \A j \in m + 1..m + n - k : t[j] = r[j - m + k]
  <2>1. k <= Len(r) /\ k \in Nat
    BY <1>2
  <2>2. LET x == q \o SubSeq(r, k + 1, Len(r))
        IN  /\ x \in Seq(Name) /\ Len(x) = Len(q) + Len(r) - k
            /\ \A j \in 1..Len(q) : x[j] = q[j]
            /\ \A j \in Len(q) + 1..Len(x) : x[j] = r[j - Len(q) + k]
    BY <1>1, <2>1
  <2> QED BY <2>2 DEF Rebased
<1>4. \A j \in 1..k : r[j] = p[j]
  <2>1. SubSeq(r, 1, k) = p
    BY <1>2
  <2>2. \A j \in 1..k : SubSeq(r, 1, k)[j] = r[j]
    BY <1>2
  <2> QED BY <2>1, <2>2
<1>5. \A s \in Seq(Name) : \A i \in 0..Len(s) :
         /\ SubSeq(s, 1, i) \in Seq(Name) /\ Len(SubSeq(s, 1, i)) = i
         /\ \A j \in 1..i : SubSeq(s, 1, i)[j] = s[j]
  OBVIOUS
<1> DEFINE l == m + n - k
<1>6. l \in Nat /\ l > m /\ l \in m + 1..m + n - k /\ l - m + k = n
  BY <1>2, SMTT(60)
<1>7. t # <<>> /\ LastName(t) = LastName(r)
  <2>1. Len(t) # 0 /\ t[l] = r[n]
    <3> HIDE DEF t, m, n, k, l
    <3>1. Len(t) = l /\ l # 0
      BY <1>2, <1>3, <1>6 DEF l
    <3>2. t[l] = r[l - m + k]
      BY <1>3, <1>6
    <3> QED BY <1>6, <3>1, <3>2
  <2>2. t # <<>>
    BY <2>1
  <2> HIDE DEF t
  <2> QED BY <1>2, <1>3, <2>1, <2>2 DEF LastName
<1>8. Below(q, t)
  <2>1. m \in 0..Len(t)
    BY <1>2, <1>3, <1>6
  <2> HIDE DEF t
  <2>2. SubSeq(t, 1, m) = q
    <3>1. /\ SubSeq(t, 1, m) \in Seq(Name) /\ Len(SubSeq(t, 1, m)) = m
          /\ \A j \in 1..m : SubSeq(t, 1, m)[j] = t[j]
      BY <1>3, <1>5, <2>1
    <3> QED BY <1>0, <1>3, <3>1
  <2> QED BY <1>3, <1>6, <2>2 DEF Below
<1>9. Rebased(q, p, t) = r
  <2> DEFINE u == Rebased(q, p, t)
  <2>1. /\ u \in Seq(Name) /\ Len(u) = k + l - m
        /\ \A j \in 1..k : u[j] = p[j]
        /\ \A j \in k + 1..k + l - m : u[j] = t[j - k + m]
    <3>1. m <= Len(t) /\ t \in Seq(Name) /\ m \in Nat /\ Len(t) = l
      BY <1>2, <1>3, <1>6
    <3> HIDE DEF t, l
    <3>2. LET x == p \o SubSeq(t, m + 1, Len(t))
          IN  /\ x \in Seq(Name) /\ Len(x) = Len(p) + Len(t) - m
              /\ \A j \in 1..Len(p) : x[j] = p[j]
              /\ \A j \in Len(p) + 1..Len(x) : x[j] = t[j - Len(p) + m]
      BY <1>1, <3>1
    <3> QED BY <3>1, <3>2 DEF Rebased
  <2> HIDE DEF u, t, k, m, n
  <2>2. k + l - m = n
    BY <1>2
  <2>3. ASSUME NEW j \in 1..n PROVE u[j] = r[j]
    <3>1. CASE j \in 1..k
      BY <1>4, <2>1, <3>1
    <3>2. CASE j \notin 1..k
      <4>1. j \in k + 1..k + l - m
        BY <1>2, <2>2, <3>2
      <4> DEFINE i == j - k + m
      <4>2. i \in m + 1..m + n - k /\ i - m + k = j
        BY <1>2, <4>1
      <4>3. u[j] = t[i]
        BY <2>1, <4>1
      <4> HIDE DEF i
      <4>4. t[i] = r[i - m + k]
        BY <1>3, <4>2
      <4> QED BY <4>2, <4>3, <4>4
    <3> QED BY <3>1, <3>2
  <2>4. Len(u) = Len(r) /\ \A j \in 1..Len(u) : u[j] = r[j]
    BY <2>1, <2>2, <2>3 DEF n
  <2> QED BY <1>0, <2>1, <2>4 DEF u
<1> HIDE DEF t
<1>10. Parent(t) \in Seq(Name) /\ Len(Parent(t)) = l - 1 /\ \A j \in 1..l - 1 : Parent(t)[j] = t[j]
  <2>1. Parent(t) \in Seq(Name) /\ Len(Parent(t)) = l - 1
    BY <1>3, <1>7, FindStep
  <2>2. l - 1 \in 0..Len(t)
    BY <1>3, <1>6
  <2> QED BY <1>3, <1>5, <2>1, <2>2 DEF Parent
<1>11. Parent(r) \in Seq(Name) /\ Len(Parent(r)) = n - 1 /\ \A j \in 1..n - 1 : Parent(r)[j] = r[j]
  <2>1. Parent(r) \in Seq(Name) /\ Len(Parent(r)) = n - 1
    BY <1>2, FindStep
  <2>2. n - 1 \in 0..Len(r)
    BY <1>2
  <2> QED BY <1>5, <2>1, <2>2 DEF Parent
<1>12. ASSUME Parent(r) = p PROVE Parent(t) = q
  <2> HIDE DEF k, n
  <2>1. k = n - 1
    BY <1>11, <1>12 DEF k
  <2>2. l - 1 = m
    BY <1>2, <2>1
  <2> QED BY <1>0, <1>3, <1>10, <2>2, SMTT(60)
<1>13. ASSUME Parent(r) # p
       PROVE  Below(p, Parent(r)) /\ Parent(t) = Rebased(p, q, Parent(r))
  <2> DEFINE v == Parent(r)
             u == Rebased(p, q, v)
  <2>1. Below(p, v)
    BY <1>2, <1>13, BelowParent
  <2>2. k < n - 1 /\ k \in Nat
    BY <1>2, <1>11, <2>1 DEF Below
  <2>3. v \in Seq(Name) /\ Len(v) = n - 1 /\ \A j \in 1..n - 1 : v[j] = r[j]
    BY <1>11
  <2> HIDE DEF v
  <2>4. /\ u \in Seq(Name) /\ Len(u) = m + n - 1 - k
        /\ \A j \in 1..m : u[j] = q[j]
        /\ \A j \in m + 1..m + n - 1 - k : u[j] = v[j - m + k]
    <3>1. k <= Len(v)
      BY <1>2, <2>2, <2>3
    <3>2. LET x == q \o SubSeq(v, k + 1, Len(v))
          IN  /\ x \in Seq(Name) /\ Len(x) = Len(q) + Len(v) - k
              /\ \A j \in 1..Len(q) : x[j] = q[j]
              /\ \A j \in Len(q) + 1..Len(x) : x[j] = v[j - Len(q) + k]
      BY <1>1, <2>2, <2>3, <3>1, ZenonT(90)
    <3>3. Len(q) + Len(v) - k = m + n - 1 - k
      BY <1>2, <2>3
    <3> QED BY <3>2, <3>3 DEF Rebased
  <2> HIDE DEF u, k, m, n
  <2>5. l - 1 = m + n - 1 - k
    BY <1>2
  <2>6. ASSUME NEW j \in 1..l - 1 PROVE u[j] = t[j]
    <3>1. CASE j \in 1..m
      BY <1>3, <2>4, <3>1
    <3>2. CASE j \notin 1..m
      <4>1. j \in m + 1..m + n - 1 - k /\ j \in m + 1..m + n - k
        BY <1>2, <2>6, <3>2
      <4>2. j - m + k \in 1..n - 1
        BY <1>2, <4>1
      <4>3. u[j] = v[j - m + k] /\ v[j - m + k] = r[j - m + k] /\ t[j] = r[j - m + k]
        BY <1>3, <2>3, <2>4, <4>1, <4>2
      <4> QED BY <4>3
    <3> QED BY <3>1, <3>2
  <2>7. u = Parent(t)
    <3> HIDE DEF l
    <3> QED BY <1>0, <1>10, <2>4, <2>5, <2>6
  <2> QED BY <2>1, <2>7 DEF u, v
<1> QED
  BY <1>2, <1>3, <1>7, <1>8, <1>9, <1>12, <1>13 DEF t

LEMMA ShiftedAt ==
  ASSUME TInv, TInv', NEW p \in Seq(Name), p # <<>>, NEW q \in Seq(Name), q # <<>>,
         p # q, ~Below(p, q), NEW src, NEW l, NEW o, At(p, src), At(Parent(q), o),
         Shifted(fat, disk, fat', disk', src, l, o, LastName(q))
  PROVE  /\ \A r \in Seq(Name) : \A x : At(r, x) /\ x \notin {src, l} =>
               At(IF Below(p, r) THEN Rebased(p, q, r) ELSE r, x)'
         /\ At(q, l)' /\ (l \in Used(disk) => At(q, l)) /\ (Connected => Connected')
<1> DEFINE P == {r \in Seq(Name) : /\ ~Below(p, r)
                                   /\ \E x : At(r, x) /\ x \notin {src, l}}
<1>1. Paths /\ Paths' /\ Tree(fat, disk)
  <2>1. Paths
    BY Walk
  <2>2. Paths'
    BY Walk, PTL
  <2> QED BY <2>1, <2>2 DEF TInv
<1>2. /\ src \in Used(disk) /\ l \in Loc /\ l # src /\ o \in Dirs(disk) /\ l[1] = disk[o].start
      /\ l \in Used(disk) => disk[l].type = "File" /\ disk[l].name = LastName(q)
      /\ Used(disk') = (Used(disk) \ {src}) \cup {l}
      /\ disk'[l] = [disk[src] EXCEPT !.name = LastName(q)]
      /\ \A x \in Holders(disk) \ {src, l} :
            disk'[x].name = disk[x].name /\ disk'[x].type = disk[x].type /\ disk'[x].start = disk[x].start
  BY DEF Shifted, Stays
<1>3. l \notin Dirs(disk) /\ l # RootLoc
  <2>1. l \in Used(disk')
    BY <1>2
  <2>2. l # RootLoc
    BY <2>1, OwnerFacts DEF TInv
  <2> QED BY <1>2, <2>2 DEF Dirs, Holders
<1>4. /\ disk'[l].name = LastName(q) /\ disk'[l].type = disk[src].type
      /\ disk'[l].start = disk[src].start
  <2>1. disk[src] \in Entry
    BY <1>1, <1>2, OwnerFacts, HolderFacts
  <2> QED BY <1>2, <2>1 DEF Entry
<1>5. \A r \in Seq(Name) : r # <<>> => Parent(r) \in Seq(Name) /\ LastName(r) \in Name
  BY FindStep
<1>6. ASSUME NEW r \in P, r # <<>> PROVE Parent(r) \in P
  <2>1. PICK x : At(r, x) /\ x \notin {src, l}
    BY <1>6
  <2>2. PICK d \in Dirs(disk) : At(Parent(r), d)
    BY <1>1, <1>6, <2>1 DEF Paths
  <2>3. r \in Seq(Name) /\ ~Below(p, r)
    BY <1>6
  <2>4. Parent(r) # p /\ ~Below(p, Parent(r))
    BY <1>6, <2>3, BelowParent
  <2>5. d # src
    BY <1>1, <1>5, <1>6, <2>2, <2>3, <2>4 DEF Paths
  <2> QED BY <1>3, <1>5, <1>6, <2>2, <2>3, <2>4, <2>5
<1>7. \A r \in P : \A x : At(r, x) => At(r, x)'
  <2>1. P \in SUBSET Seq(Name) /\ \A r \in P : r # <<>> => Parent(r) \in P
    BY <1>6
  <2>2. \A r \in P : \A x : r # <<>> /\ At(r, x) =>
           /\ x \in Used(disk') /\ disk'[x].name = disk[x].name
           /\ disk'[x].type = disk[x].type /\ disk'[x].start = disk[x].start
    <3> SUFFICES ASSUME NEW r \in P, NEW x, r # <<>>, At(r, x)
                 PROVE  /\ x \in Used(disk') /\ disk'[x].name = disk[x].name
                        /\ disk'[x].type = disk[x].type /\ disk'[x].start = disk[x].start
      OBVIOUS
    <3>1. PICK y : At(r, y) /\ y \notin {src, l}
      OBVIOUS
    <3>2. x = y
      BY <1>1, <3>1 DEF Paths
    <3>3. x \in Used(disk) /\ x \in Holders(disk)
      BY NodeNamed
    <3> QED BY <1>2, <3>1, <3>2, <3>3
  <2> HIDE DEF P
  <2> QED BY <2>1, <2>2, StillAt
<1>8. o # src /\ Parent(q) \in P
  <2>1. Parent(q) \in Seq(Name) /\ Parent(q) # p /\ ~Below(p, Parent(q))
    BY <1>5, BelowParent
  <2>2. o # src
    BY <1>1, <2>1 DEF Paths
  <2> QED BY <1>2, <1>3, <2>1, <2>2
<1>9. At(q, l)'
  <2>1. At(Parent(q), o)'
    BY <1>7, <1>8
  <2>2. o \in Dirs(disk') /\ disk'[o].start = disk[o].start
    <3>1. o \in Holders(disk) /\ o # l /\ o # src /\ disk[o].type = "Directory"
      BY <1>2, <1>3, <1>8 DEF Dirs
    <3>2. o \in Holders(disk')
      BY <1>2, <3>1 DEF Holders
    <3> QED BY <1>2, <3>1, <3>2 DEF Dirs
  <2>3. l \in Used(disk')
    BY <1>2
  <2>4. /\ l[1] = disk'[o].start /\ disk'[l].name = LastName(q)
        /\ q \in Seq(Name) /\ q # <<>> /\ Paths'
    BY <1>1, <1>2, <1>4, <2>2
  <2> QED BY <2>1, <2>2, <2>3, <2>4 DEF Paths
<1>10. ASSUME l \in Used(disk) PROVE At(q, l)
  BY <1>1, <1>2, <1>10 DEF Paths
<1> HIDE DEF P
<1>11. \A r \in Seq(Name) : \A x : At(r, x) /\ x \notin {src, l} /\ Below(p, r) => At(Rebased(p, q, r), x)'
  <2> DEFINE Bad == {n \in Nat : \E r \in Seq(Name) : \E x :
                          /\ Len(r) = n /\ Below(p, r) /\ At(r, x)
                          /\ x \notin {src, l} /\ ~At(Rebased(p, q, r), x)'}
  <2> SUFFICES ASSUME Bad # {} PROVE FALSE
    <3>1. \A r \in Seq(Name) : Len(r) \in Nat
      OBVIOUS
    <3> QED BY <3>1
  <2>1. PICK n \in Bad : \A m \in Bad : n <= m
    <3>1. Bad \subseteq Nat
      OBVIOUS
    <3> HIDE DEF Bad
    <3> QED BY <3>1, NatMin
  <2>22. PICK r \in Seq(Name) : \E x : /\ Len(r) = n /\ Below(p, r) /\ At(r, x)
                                      /\ x \notin {src, l} /\ ~At(Rebased(p, q, r), x)'
    BY <2>1
  <2>2. PICK x : /\ Len(r) = n /\ Below(p, r) /\ At(r, x)
                 /\ x \notin {src, l} /\ ~At(Rebased(p, q, r), x)'
    BY <2>22
  <2> DEFINE t == Rebased(p, q, r)
  <2>3. /\ t \in Seq(Name) /\ t # <<>> /\ r # <<>> /\ LastName(t) = LastName(r)
        /\ Parent(r) = p => Parent(t) = q
        /\ Parent(r) # p => Below(p, Parent(r)) /\ Parent(t) = Rebased(p, q, Parent(r))
    BY <2>2, RebasedFacts
  <2> HIDE DEF t
  <2>4. PICK d \in Dirs(disk) : At(Parent(r), d) /\ x[1] = disk[d].start
    BY <1>1, <2>2, <2>3 DEF Paths
  <2>5. /\ x \in Used(disk) /\ disk[x].name = LastName(r) /\ x \in Holders(disk)
        /\ x \in Used(disk') /\ disk'[x].name = LastName(t)
    <3>1. x \in Used(disk) /\ disk[x].name = LastName(r)
      BY <1>1, <2>2, <2>3 DEF Paths
    <3>2. x \in Holders(disk)
      BY <3>1 DEF Holders
    <3> QED BY <1>2, <2>2, <2>3, <3>1, <3>2
  <2>6. CASE Parent(r) = p
    <3>1. d = src
      BY <1>1, <2>4, <2>6 DEF Paths
    <3>2. l \in Dirs(disk') /\ x[1] = disk'[l].start
      <4>1. disk'[l].type = "Directory" /\ l \in Holders(disk')
        BY <1>2, <1>4, <2>4, <3>1 DEF Dirs, Holders
      <4> QED BY <1>4, <2>4, <3>1, <4>1 DEF Dirs
    <3>3. At(t, x)'
      BY <1>1, <1>9, <2>3, <2>5, <2>6, <3>2 DEF Paths
    <3> QED BY <2>2, <3>3 DEF t
  <2>7. CASE Parent(r) # p
    <3>1. d \notin {src, l} /\ Parent(r) \in Seq(Name)
      <4>1. d # l /\ Parent(r) \in Seq(Name)
        BY <1>3, <1>5, <2>2, <2>3, <2>4
      <4>2. d # src
        <5>1. At(Parent(r), d) /\ At(p, src) /\ Parent(r) # p
          BY <2>4, <2>7
        <5> QED BY <1>1, <4>1, <5>1 DEF Paths
      <4> QED BY <4>1, <4>2
    <3>2. At(Parent(t), d)'
      <4>1. Len(Parent(r)) = n - 1 /\ Len(Parent(r)) \in Nat /\ n \in Nat
        <5>1. Len(r) = n /\ Len(Parent(r)) = Len(r) - 1
          BY <2>2, <2>3, FindStep
        <5>2. \A t0 \in Seq(Name) : Len(t0) \in Nat
          OBVIOUS
        <5> QED BY <2>2, <3>1, <5>1, <5>2
      <4>2. n - 1 \notin Bad /\ n - 1 \in Nat
        <5> HIDE DEF Bad
        <5> QED BY <2>1, <4>1
      <4> QED BY <2>3, <2>4, <2>7, <3>1, <4>1, <4>2
    <3>3. d \in Dirs(disk') /\ x[1] = disk'[d].start
      <4>1. d \in Holders(disk) /\ disk[d].type = "Directory"
        BY <2>4 DEF Dirs
      <4>2. d \in Holders(disk')
        BY <1>2, <3>1, <4>1 DEF Holders
      <4> QED BY <1>2, <2>4, <3>1, <4>1, <4>2 DEF Dirs
    <3>4. At(t, x)'
      BY <1>1, <2>3, <2>5, <3>2, <3>3 DEF Paths
    <3> QED BY <2>2, <3>4 DEF t
  <2> QED BY <2>6, <2>7
<1>12. \A r \in Seq(Name) : \A x : At(r, x) /\ x \notin {src, l} =>
          At(IF Below(p, r) THEN Rebased(p, q, r) ELSE r, x)'
  BY <1>7, <1>11 DEF P
<1>13. ASSUME Connected PROVE Connected'
  <2> SUFFICES ASSUME NEW x \in Used(disk') PROVE \E r \in Seq(Name) : At(r, x)'
    BY DEF Connected
  <2>1. CASE x = l
    BY <1>9, <2>1
  <2>2. CASE x # l
    <3>1. PICK r \in Seq(Name) : At(r, x)
      BY <1>2, <1>13, <2>2 DEF Connected
    <3>2. At(IF Below(p, r) THEN Rebased(p, q, r) ELSE r, x)' /\ x \in Used(disk)
      BY <1>2, <1>12, <2>2, <3>1
    <3> QED BY <3>1, <3>2, RebasedFacts
  <2> QED BY <2>1, <2>2
<1> QED
  BY <1>9, <1>10, <1>12, <1>13

\* The calls, by their effect.
Effects ==
    \/ UNCHANGED vars
    \/ Outcome("mount", Undisturbed(fat, disk, fat', disk'))
    \/ \E p \in AnyPath :
          \/ Outcome("create", Added(p, "File"))
          \/ Outcome("mkdir", Added(p, "Directory"))
          \/ Outcome("unlink", Taken(p, "File"))
          \/ Outcome("rmdir", Taken(p, "Directory"))
          \/ Outcome("touch", Undisturbed(fat, disk, fat', disk'))
          \/ \E q \in AnyPath : Outcome("rename", Relocated(p, q))
          \/ \E n \in Sizes : Outcome("truncate", Edited(p, n, {}, Zero))
          \/ \E x \in Extents, d \in Data : Outcome("write", Written(p, x[1], x[2], d))

LEMMA StepEffects ==
  ASSUME Careful, Whole, TInv, Roomy \/ Fits', [Next]_vars
  PROVE  Effects
<1>2. CASE Mount
  BY <1>2, TreeKept DEF Mount, Answer, Effects, Outcome
<1>3. ASSUME NEW p \in AnyPath,
             Create(p) \/ Mkdir(p) \/ Unlink(p) \/ Rmdir(p) \/ Touch(p)
      PROVE  Effects
  <2>1. \/ Outcome("create", Added(p, "File"))
        \/ Outcome("mkdir", Added(p, "Directory"))
        \/ Outcome("unlink", Taken(p, "File"))
        \/ Outcome("rmdir", Taken(p, "Directory"))
        \/ Outcome("touch", Undisturbed(fat, disk, fat', disk'))
    BY <1>3, CreateTree, MkdirTree, UnlinkTree, RmdirTree, TouchTree
  <2> QED BY <2>1 DEF Effects
<1>4. ASSUME NEW p \in AnyPath, NEW q \in AnyPath, Rename(p, q) PROVE Effects
  <2>1. Outcome("rename", Relocated(p, q))
    BY <1>4, RenameTree
  <2> QED BY <2>1 DEF Effects
<1>5. ASSUME NEW p \in AnyPath, NEW n \in Sizes, Truncate(p, n) PROVE Effects
  <2>1. Outcome("truncate", Edited(p, n, {}, Zero))
    BY <1>5, TruncateTree
  <2> QED BY <2>1 DEF Effects
<1>6. ASSUME NEW p \in AnyPath, NEW x \in Extents, NEW c \in Data, Write(p, x[1], x[2], c)
      PROVE  Effects
  <2>1. Outcome("write", Written(p, x[1], x[2], c))
    BY <1>6, WriteTree
  <2> QED BY <2>1 DEF Effects
<1> QED
  BY <1>2, <1>3, <1>4, <1>5, <1>6 DEF Next, Effects

\* At first there is no node and no block without an owner.
LEMMA FreshNodes == Used(StoredDisk) = {} /\ Spare(FreshTable, StoredDisk) = {}
<1> DEFINE f == FreshTable
           d == StoredDisk
<1>1. /\ d[RootLoc] = RootDir /\ d[RootUp].name = ".."
      /\ \A l \in Loc : l = RootLoc \/ l = RootUp \/ d[l] \in {Zero} \cup Data
  BY StoredFacts
<1>2. RootDir.name = "." /\ Zero.name = "" /\ RootDir.start = StartBlock
  BY StoredFacts
<1>3. \A b \in Usable : f[b] # 0 => b = StartBlock
  BY BlockFacts DEF FreshTable
<1>4. StartBlock \in Chain(f, d[RootLoc].start) /\ RootLoc \in Holders(d)
  <2>1. Tree(f, d)
    BY FreshTree
  <2> HIDE DEF f, d
  <2>2. RootLoc \in Holders(d) /\ d[RootLoc].start = StartBlock
    BY <1>1, <1>2 DEF Holders
  <2> QED BY <2>1, <2>2, HolderFacts
<1> HIDE DEF f, d
<1>5. Used(d) = {}
  BY <1>1, <1>2, NameAssumption DEF Used
<1>6. Spare(f, d) = {}
  BY <1>3, <1>4 DEF Spare
<1> QED
  BY <1>5, <1>6 DEF f, d

\* No call loses a node or a directory that leads to one.
LEMMA StepConnected ==
  ASSUME TInv, TInv', Connected, Effects
  PROVE  Connected'
<1> DEFINE SameNodes == /\ Used(disk') = Used(disk)
                        /\ \A l \in Used(disk) : /\ disk'[l].name = disk[l].name
                                                 /\ disk'[l].type = disk[l].type
                                                 /\ disk'[l].start = disk[l].start
<1>1. CASE SameNodes
  BY <1>1, KeptAt
<1>2. ASSUME Undisturbed(fat, disk, fat', disk') PROVE Connected'
  <2>1. SameNodes
    BY <1>2 DEF Undisturbed, Stays, Holders
  <2> QED BY <1>1, <2>1
<1>3. CASE UNCHANGED vars
  BY <1>1, <1>3 DEF vars, Used
<1>5. ASSUME NEW p \in AnyPath PROVE p \in Seq(Name)
  <2>1. <<>> \in Seq(Name)
    OBVIOUS
  <2> QED BY <2>1, CallsAssumption DEF AnyPath
<1>6. ASSUME NEW p \in AnyPath, NEW t, Added(p, t) PROVE Connected'
  <2>1. PICK k, e : /\ Joined(fat, disk, fat', disk', k, FindParent(p).loc, e) /\ e.name = LastName(p)
    BY <1>6 DEF Added
  <2>2. p # <<>> /\ FindParent(p).status = "OK"
    BY <1>6 DEF Added
  <2>3. At(Parent(p), FindParent(p).loc)
    BY <2>2 DEF At, FindParent, NotFile, Miss
  <2> QED BY <1>5, <2>1, <2>2, <2>3, JoinedAt
<1>7. ASSUME NEW p \in AnyPath, NEW t, Taken(p, t) PROVE Connected'
  BY <1>7, RemovedAt DEF Taken
<1>8. ASSUME NEW p \in AnyPath, NEW q \in AnyPath, Relocated(p, q) PROVE Connected'
  <2>1. /\ p # <<>> /\ q # <<>> /\ p # q /\ ~Below(p, q)
        /\ At(p, Find(p).loc) /\ At(Parent(q), Find(Parent(q)).loc)
    BY <1>8 DEF Relocated, At
  <2>2. PICK l : Shifted(fat, disk, fat', disk', Find(p).loc, l, Find(Parent(q)).loc, LastName(q))
    BY <1>8 DEF Relocated
  <2> QED BY <1>5, <2>1, <2>2, ShiftedAt
<1>9. ASSUME NEW p, NEW n, NEW W, NEW c, Edited(p, n, W, c) PROVE Connected'
  <2>1. Altered(fat, disk, fat', disk', Find(p).loc)
    BY <1>9 DEF Edited, Resizes
  <2>2. SameNodes
    BY <2>1 DEF Altered, Stays, Holders
  <2> QED BY <1>1, <2>2
<1>10. ASSUME NEW p \in AnyPath,
              \/ Outcome("create", Added(p, "File"))
              \/ Outcome("mkdir", Added(p, "Directory"))
              \/ Outcome("unlink", Taken(p, "File"))
              \/ Outcome("rmdir", Taken(p, "Directory"))
              \/ Outcome("touch", Undisturbed(fat, disk, fat', disk'))
       PROVE  Connected'
  BY <1>2, <1>6, <1>7, <1>10 DEF Outcome
<1>11. ASSUME NEW p \in AnyPath, NEW q \in AnyPath, Outcome("rename", Relocated(p, q))
       PROVE  Connected'
  BY <1>2, <1>8, <1>11 DEF Outcome
<1>12. ASSUME NEW p \in AnyPath, NEW n \in Sizes, Outcome("truncate", Edited(p, n, {}, Zero))
       PROVE  Connected'
  BY <1>2, <1>9, <1>12 DEF Outcome
<1>13. ASSUME NEW p \in AnyPath, NEW x \in Extents, NEW d \in Data,
              Outcome("write", Written(p, x[1], x[2], d))
       PROVE  Connected'
  BY <1>2, <1>9, <1>13 DEF Outcome, Written
<1>14. Outcome("mount", Undisturbed(fat, disk, fat', disk')) => Connected'
  BY <1>2 DEF Outcome
<1> QED
  BY <1>3, <1>10, <1>11, <1>12, <1>13, <1>14 DEF Effects

\* What no entry in use leads to is what no live entry leads to.
SpareIsLeaked == LeakedIn(fat, disk, RootEntry) = Spare(fat, disk)

LEMMA SpareLeaked == TInv /\ Connected => SpareIsLeaked
<1> SUFFICES ASSUME TInv, Connected PROVE LeakedIn(fat, disk, RootEntry) = Spare(fat, disk)
  BY DEF SpareIsLeaked
<1>1. RootEntry = disk[RootLoc] /\ RootLoc \in Holders(disk)
  BY RootEntryForm DEF TInv, Tree, Rooted, Holders
<1>2. \A e \in LiveEntries : \E o \in Holders(disk) : e = disk[o]
  BY LiveHeld
<1>3. ASSUME NEW o \in Holders(disk) PROVE disk[o] \in LiveEntries
  <2>1. CASE o = RootLoc
    BY <1>1, <2>1 DEF LiveEntries
  <2>2. CASE o # RootLoc
    <3>1. PICK p \in Seq(Name) : At(p, o)
      BY <2>2 DEF Connected, Holders
    <3>2. p # <<>>
      BY <2>2, <3>1, NodeNamed
    <3>3. <<p, o>> \in Nodes
      BY <3>1, <3>2, NodesAll
    <3> QED BY <3>3 DEF LiveEntries
  <2> QED BY <2>1, <2>2
<1>4. LeakedIn(fat, disk, RootEntry) =
         {b \in Usable : fat[b] # 0} \ UNION {Chain(fat, e.start) : e \in LiveEntries}
  BY DEF LeakedIn, LiveEntries, Nodes
<1>5. UNION {Chain(fat, e.start) : e \in LiveEntries} = UNION {Chain(fat, disk[o].start) : o \in Holders(disk)}
  BY <1>2, <1>3
<1> QED
  BY <1>4, <1>5 DEF Spare

\* ... so that a call that succeeds wastes none.
LEMMA StepNoLeak ==
  ASSUME TInv, TInv', Connected, Connected', Effects
  PROVE  [reply'.status = "OK" =>
             LeakedIn(fat', disk', RootEntry') \subseteq LeakedIn(fat, disk, RootEntry)]_vars
<1>1. SpareIsLeaked
  BY SpareLeaked
<1>2. SpareIsLeaked'
  BY SpareLeaked, PTL
<1> QED
  BY <1>1, <1>2 DEF Effects, Outcome, SpareIsLeaked

\* Every block in use stays in the chain of some live entry.
THEOREM NoBlockLost ==
  Careful /\ Whole => /\ Roomy => (Spec => NoLeakOnSuccess)
                      /\ Spec /\ []Fits => NoLeakOnSuccess
<1> SUFFICES ASSUME Careful, Whole
             PROVE  /\ Roomy => (Spec => NoLeakOnSuccess)
                    /\ Spec /\ []Fits => NoLeakOnSuccess
  OBVIOUS
<1> DEFINE NoLeak == [reply'.status = "OK" =>
                        LeakedIn(fat', disk', RootEntry') \subseteq LeakedIn(fat, disk, RootEntry)]_vars
<1>1. Init => Connected
  BY FreshNodes DEF Init, Connected, StoredDisk
<1>2. TInv /\ TInv' /\ Connected /\ (Roomy \/ Fits') /\ [Next]_vars => Connected'
  BY StepEffects, StepConnected
<1>3. TInv /\ TInv' /\ Connected /\ Connected' /\ (Roomy \/ Fits') /\ [Next]_vars => NoLeak
  BY StepEffects, StepNoLeak
<1>4. Roomy => (Spec => []TInv)
  BY RoomyTree
<1>5. Spec /\ []Fits => []TInv
  BY FittingTree
<1> HIDE DEF NoLeak
<1>6. Roomy => (Spec => [][NoLeak]_vars)
  <2> SUFFICES ASSUME Roomy PROVE Spec => [][NoLeak]_vars
    OBVIOUS
  <2>1. TInv /\ TInv' /\ Connected /\ [Next]_vars => Connected'
    BY <1>2
  <2>2. TInv /\ TInv' /\ Connected /\ Connected' /\ [Next]_vars => NoLeak
    BY <1>3
  <2>3. Spec => []TInv
    BY <1>4
  <2> QED BY <1>1, <2>1, <2>2, <2>3, PTL DEF Spec
<1>7. Spec /\ []Fits => [][NoLeak]_vars
  <2>1. TInv /\ TInv' /\ Fits' /\ Connected /\ [Next]_vars => Connected'
    BY <1>2
  <2>2. TInv /\ TInv' /\ Fits' /\ Connected /\ Connected' /\ [Next]_vars => NoLeak
    BY <1>3
  <2> QED BY <1>1, <1>5, <2>1, <2>2, PTL DEF Spec
<1>8. [NoLeak]_vars => [reply'.status = "OK" =>
         LeakedIn(fat', disk', RootEntry') \subseteq LeakedIn(fat, disk, RootEntry)]_vars
  BY DEF NoLeak
<1> QED
  BY <1>6, <1>7, <1>8, PTL DEF NoLeakOnSuccess

-----------------------------------------------------------------------------
(* The contents of files.                                                    *)

\* The cells at indices from..to-1 of the chain from b, once more.
LEMMA CellsIff ==
  ASSUME NEW f, NEW b, Chain(f, b) \subseteq Block, NEW from, NEW to, NEW y, NEW j
  PROVE  <<y, j>> \in Cells(f, b, from, to) <=>
            /\ y \in Chain(f, b) /\ j \in 0..EntriesPerBlock - 1
            /\ from <= EntriesPerBlock * Steps(f, b, y) + j
            /\ EntriesPerBlock * Steps(f, b, y) + j < to
<1> DEFINE rows == {<<z, Steps(f, b, z)>> : z \in Chain(f, b) \cap Block}
           row(x) == {<<x[1], i>> : i \in {k \in 0..EntriesPerBlock - 1 :
                                    /\ from <= EntriesPerBlock * x[2] + k
                                    /\ EntriesPerBlock * x[2] + k < to}}
<1>1. Cells(f, b, from, to) = UNION {row(x) : x \in rows}
  BY DEF Cells
<1>2. \A x \in rows : <<y, j>> \in row(x) <=>
         /\ y = x[1] /\ j \in 0..EntriesPerBlock - 1
         /\ from <= EntriesPerBlock * x[2] + j /\ EntriesPerBlock * x[2] + j < to
  OBVIOUS
<1>3. \A x \in rows : x[1] \in Chain(f, b) /\ x[2] = Steps(f, b, x[1])
  OBVIOUS
<1>4. y \in Chain(f, b) => \E x \in rows : x[1] = y
  <2> SUFFICES ASSUME y \in Chain(f, b) PROVE <<y, Steps(f, b, y)>> \in rows
    OBVIOUS
  <2> QED OBVIOUS
<1>5. <<y, j>> \in Cells(f, b, from, to) <=> \E x \in rows : <<y, j>> \in row(x)
  BY <1>1
<1> HIDE DEF row, rows
<1> QED
  BY <1>2, <1>3, <1>4, <1>5

LEMMA CellPair ==
  ASSUME NEW f, NEW b, NEW from, NEW to, NEW l \in Cells(f, b, from, to)
  PROVE  l = <<l[1], l[2]>>
BY DEF Cells

\* The i-th cell of a chain that is long enough, and its index.
LEMMA CellAt ==
  ASSUME NEW f, Table(f), NEW b \in Start, Ends(f, b),
         \A x \in Chain(f, b) : f[x] = FINAL \/ f[x] > 0,
         NEW n \in Nat, n <= EntriesPerBlock * ChainLength(f, b), NEW i \in 0..n - 1
  PROVE  \E y \in Chain(f, b) : \E j \in 0..EntriesPerBlock - 1 :
            EntriesPerBlock * Steps(f, b, y) + j = i
<1> DEFINE q == i \div EntriesPerBlock
           j == i % EntriesPerBlock
           m == ChainLength(f, b)
<1>1. i \in Nat /\ i < n /\ EntriesPerBlock \in Nat \ {0} /\ m \in Nat
  BY ChainCount, GeometryAssumption
<1>2. \A k \in Nat \ {0}, a \in Nat : a \div k \in Nat /\ k * (a \div k) + (a % k) = a /\ a % k \in 0..k - 1
  OBVIOUS
<1>3. q \in Nat /\ EntriesPerBlock * q + j = i /\ j \in 0..EntriesPerBlock - 1
  BY <1>1, <1>2
<1> HIDE DEF q, j, m
<1>4. EntriesPerBlock * q \in Nat
  BY <1>1, <1>3
<1>5. EntriesPerBlock * q < n
  BY <1>1, <1>3, <1>4
<1>6. q < m
  BY <1>1, <1>3, <1>5, FewerBlocks DEF m
<1>7. q \in 0..ChainLength(f, b) - 1
  BY <1>1, <1>3, <1>6 DEF m
<1>8. PICK y \in Chain(f, b) : Steps(f, b, y) = q
  BY <1>7, StepsAll
<1> QED
  BY <1>3, <1>8

\* An index tells the block and the cell in it.
LEMMA IndexOnce ==
  ASSUME NEW f, Table(f), NEW b \in Start, Ends(f, b),
         NEW y \in Chain(f, b), NEW z \in Chain(f, b),
         NEW i \in 0..EntriesPerBlock - 1, NEW j \in 0..EntriesPerBlock - 1,
         EntriesPerBlock * Steps(f, b, y) + i = EntriesPerBlock * Steps(f, b, z) + j
  PROVE  y = z /\ i = j
<1> DEFINE a == Steps(f, b, y)
           c == Steps(f, b, z)
<1>1. a \in Nat /\ c \in Nat /\ EntriesPerBlock \in Nat \ {0}
  BY StepsNext, GeometryAssumption
<1>2. ASSUME NEW s \in Nat, NEW t \in Nat, s < t, NEW u \in 0..EntriesPerBlock - 1,
             NEW v \in 0..EntriesPerBlock - 1, EntriesPerBlock * s + u = EntriesPerBlock * t + v
      PROVE  FALSE
  <2>1. EntriesPerBlock * t >= EntriesPerBlock * (s + 1)
    BY <1>1, <1>2
  <2>2. EntriesPerBlock * (s + 1) = EntriesPerBlock * s + EntriesPerBlock
    BY <1>1
  <2>3. EntriesPerBlock * s \in Nat /\ EntriesPerBlock * t \in Nat
    BY <1>1
  <2> QED BY <1>1, <1>2, <2>1, <2>2, <2>3
<1> HIDE DEF a, c
<1>3. EntriesPerBlock * a + i = EntriesPerBlock * c + j
  BY DEF a, c
<1>4. ~(a < c) /\ ~(c < a)
  BY <1>1, <1>2, <1>3
<1>5. a = c
  BY <1>1, <1>4
<1>6. y = z
  BY <1>5, StepsUnique DEF a, c
<1>7. EntriesPerBlock * a \in Nat
  BY <1>1
<1> QED
  BY <1>3, <1>5, <1>6, <1>7

\* The content of a file is its cells in order.
LEMMA ContentCell ==
  ASSUME NEW f, NEW d, Tree(f, d), NEW l \in Used(d),
         NEW y \in Chain(f, d[l].start), NEW j \in 0..EntriesPerBlock - 1, NEW i,
         i = EntriesPerBlock * Steps(f, d[l].start, y) + j, i < d[l].length
  PROVE  i + 1 \in 1..d[l].length /\ Content(f, d, d[l])[i + 1] = d[<<y, j>>]
<1> DEFINE e == d[l]
           b == e.start
           cells == {<<Index(f, b, m), d[m]>> : m \in Cells(f, b, 0, e.length)}
<1>1. /\ Table(f) /\ b \in Start /\ Chain(f, b) \subseteq Block /\ e.length \in Nat /\ Ends(f, b)
      /\ l \in Holders(d)
  BY OwnerFacts, HolderFacts DEF Tree, Sealed
<1>2. Steps(f, b, y) \in Nat /\ EntriesPerBlock \in Nat
  BY <1>1, StepsNext, GeometryAssumption
<1>3. EntriesPerBlock * Steps(f, b, y) \in Nat
  BY <1>2
<1>4. i \in Nat /\ i + 1 \in 1..e.length /\ (i + 1) - 1 = i
  BY <1>1, <1>2, <1>3
<1>5. <<y, j>> \in Cells(f, b, 0, e.length)
  BY <1>1, <1>4, CellsIff
<1>6. <<i, d[<<y, j>>]>> \in cells
  <2>1. Index(f, b, <<y, j>>) = i
    BY DEF Index
  <2> QED BY <1>5, <2>1
<1>7. ASSUME NEW c \in cells, c[1] = i PROVE c[2] = d[<<y, j>>]
  <2>1. PICK m \in Cells(f, b, 0, e.length) : c = <<Index(f, b, m), d[m]>>
    OBVIOUS
  <2>2. m = <<m[1], m[2]>>
    BY CellPair
  <2>3. m[1] \in Chain(f, b) /\ m[2] \in 0..EntriesPerBlock - 1
    BY <1>1, <2>2, CellsIff
  <2>4. EntriesPerBlock * Steps(f, b, m[1]) + m[2] = i
    BY <1>7, <2>1 DEF Index
  <2> HIDE DEF b
  <2>5. m[1] = y /\ m[2] = j
    BY <1>1, <2>3, <2>4, IndexOnce DEF b
  <2> QED BY <2>1, <2>2, <2>5
<1>8. Content(f, d, e) = [k \in 1..e.length |-> (CHOOSE c \in cells : c[1] = k - 1)[2]]
  BY DEF Content
<1> HIDE DEF cells, e
<1>9. (CHOOSE c \in cells : c[1] = i)[2] = d[<<y, j>>]
  <2>1. \E c \in cells : c[1] = i
    BY <1>6
  <2> QED BY <1>7, <2>1
<1>10. Content(f, d, e)[i + 1] = (CHOOSE c \in cells : c[1] = (i + 1) - 1)[2]
  BY <1>4, <1>8
<1> QED
  BY <1>4, <1>9, <1>10 DEF e

LEMMA ContentLength ==
  ASSUME NEW f, NEW d, NEW e, e.length \in Nat
  PROVE  /\ DOMAIN Content(f, d, e) = 1..e.length /\ Len(Content(f, d, e)) = e.length
         /\ \A c : c = [i \in 1..e.length |-> c[i]] /\ (\A i \in 1..e.length : c[i] = Content(f, d, e)[i]) =>
               c = Content(f, d, e)
         /\ Content(f, d, e) = [i \in 1..e.length |-> Content(f, d, e)[i]]
<1>1. PICK t : Content(f, d, e) = [i \in 1..e.length |-> t[i]]
  <2> DEFINE cells == {<<Index(f, e.start, l), d[l]>> : l \in Cells(f, e.start, 0, e.length)}
             t == [i \in 1..e.length |-> (CHOOSE c \in cells : c[1] = i - 1)[2]]
  <2>1. Content(f, d, e) = t
    BY DEF Content
  <2> HIDE DEF t
  <2>2. t = [i \in 1..e.length |-> t[i]]
    BY DEF t
  <2> QED BY <2>1, <2>2
<1>2. Len([i \in 1..e.length |-> t[i]]) = e.length
  OBVIOUS
<1> QED
  BY <1>1, <1>2

LEMMA FileChain ==
  ASSUME NEW f, NEW d, Tree(f, d), NEW l \in Used(d), d[l].type = "File"
  PROVE  /\ Table(f) /\ d[l].start \in Start /\ Chain(f, d[l].start) \subseteq Block
         /\ Ends(f, d[l].start) /\ (\A x \in Chain(f, d[l].start) : f[x] = FINAL \/ f[x] > 0)
         /\ d[l].length \in Nat /\ d[l].length <= EntriesPerBlock * ChainLength(f, d[l].start)
         /\ l \in Loc /\ d[l] \in Entry
         /\ \A i \in 1..d[l].length : \E y \in Chain(f, d[l].start) : \E j \in 0..EntriesPerBlock - 1 :
               /\ i = EntriesPerBlock * Steps(f, d[l].start, y) + j + 1
               /\ Steps(f, d[l].start, y) \in Nat
               /\ EntriesPerBlock * Steps(f, d[l].start, y) \in Nat
               /\ Content(f, d, d[l])[i] = d[<<y, j>>]
<1> DEFINE b == d[l].start
           n == d[l].length
<1>1. /\ Table(f) /\ b \in Start /\ Chain(f, b) \subseteq Block
      /\ Ends(f, b) /\ (\A x \in Chain(f, b) : f[x] = FINAL \/ f[x] > 0)
      /\ n \in Nat /\ n <= EntriesPerBlock * ChainLength(f, b) /\ l \in Loc /\ d[l] \in Entry
  BY OwnerFacts, HolderFacts DEF Tree, Sealed, Long
<1>2. ASSUME NEW i \in 1..n
      PROVE  \E y \in Chain(f, b) : \E j \in 0..EntriesPerBlock - 1 :
                /\ i = EntriesPerBlock * Steps(f, b, y) + j + 1
                /\ Steps(f, b, y) \in Nat /\ EntriesPerBlock * Steps(f, b, y) \in Nat
                /\ Content(f, d, d[l])[i] = d[<<y, j>>]
  <2>1. i - 1 \in 0..n - 1 /\ i - 1 < n /\ (i - 1) + 1 = i
    BY <1>1
  <2> HIDE DEF b, n
  <2>2. PICK y \in Chain(f, b) : \E j \in 0..EntriesPerBlock - 1 :
           EntriesPerBlock * Steps(f, b, y) + j = i - 1
    BY <1>1, <2>1, CellAt
  <2>3. PICK j \in 0..EntriesPerBlock - 1 : EntriesPerBlock * Steps(f, b, y) + j = i - 1
    BY <2>2
  <2>4. Content(f, d, d[l])[(i - 1) + 1] = d[<<y, j>>]
    BY <2>1, <2>3, ContentCell DEF b, n
  <2>5. Steps(f, b, y) \in Nat /\ EntriesPerBlock \in Nat
    BY <1>1, StepsNext, GeometryAssumption
  <2>6. EntriesPerBlock * Steps(f, b, y) \in Nat
    BY <2>5
  <2> QED BY <2>1, <2>3, <2>4, <2>5, <2>6
<1> QED
  BY <1>1, <1>2

\* A file keeps its content when its chain and the cells of the chain stay.
LEMMA ContentStays ==
  ASSUME NEW f, NEW d, Tree(f, d), NEW f2, NEW d2, Tree(f2, d2), NEW l \in Used(d), NEW k \in Used(d2),
         d[l].type = "File", d2[k].type = "File",
         d2[k].start = d[l].start, d2[k].length = d[l].length,
         \A b \in Chain(f, d[l].start) : f2[b] = f[b],
         \A b \in Chain(f, d[l].start), i \in 0..EntriesPerBlock - 1 : d2[<<b, i>>] = d[<<b, i>>]
  PROVE  Content(f2, d2, d2[k]) = Content(f, d, d[l])
<1> DEFINE b == d[l].start
           n == d[l].length
<1>1. /\ Table(f) /\ b \in Start /\ n \in Nat /\ Table(f2)
      /\ \A i \in 1..n : \E y \in Chain(f, b) : \E j \in 0..EntriesPerBlock - 1 :
            /\ i = EntriesPerBlock * Steps(f, b, y) + j + 1
            /\ Steps(f, b, y) \in Nat /\ EntriesPerBlock * Steps(f, b, y) \in Nat
            /\ Content(f, d, d[l])[i] = d[<<y, j>>]
  BY FileChain
<1>2. Table(f2)
  BY DEF Tree
<1>3. Chain(f2, b) = Chain(f, b)
  BY <1>1, <1>2, ChainSame
<1>4. ASSUME NEW y \in Chain(f, b) PROVE Steps(f2, b, y) = Steps(f, b, y)
  <2>1. y \in Start /\ Chain(f, y) \subseteq Chain(f, b)
    BY <1>1, ChainPart
  <2>2. Chain(f2, y) = Chain(f, y)
    BY <1>1, <1>2, <2>1, ChainSame
  <2> QED BY <1>3, <2>2 DEF Steps, ChainLength
<1>5. ASSUME NEW i \in 1..n PROVE Content(f2, d2, d2[k])[i] = Content(f, d, d[l])[i]
  <2>1. PICK y \in Chain(f, b) : \E j \in 0..EntriesPerBlock - 1 :
            /\ i = EntriesPerBlock * Steps(f, b, y) + j + 1
            /\ Steps(f, b, y) \in Nat /\ EntriesPerBlock * Steps(f, b, y) \in Nat
            /\ Content(f, d, d[l])[i] = d[<<y, j>>]
    BY <1>1
  <2>2. PICK j \in 0..EntriesPerBlock - 1 :
            /\ i = EntriesPerBlock * Steps(f, b, y) + j + 1
            /\ Steps(f, b, y) \in Nat /\ EntriesPerBlock * Steps(f, b, y) \in Nat
            /\ Content(f, d, d[l])[i] = d[<<y, j>>]
    BY <2>1
  <2> DEFINE m == EntriesPerBlock * Steps(f, b, y) + j
  <2>3. m + 1 = i /\ m < n
    BY <1>1, <2>2, GeometryAssumption
  <2>4. m = EntriesPerBlock * Steps(f2, d2[k].start, y) + j /\ m < d2[k].length
        /\ y \in Chain(f2, d2[k].start)
    BY <1>3, <1>4, <2>3
  <2> HIDE DEF m, b, n
  <2>5. Content(f2, d2, d2[k])[m + 1] = d2[<<y, j>>]
    BY <2>4, ContentCell
  <2>6. d2[<<y, j>>] = d[<<y, j>>]
    BY DEF b
  <2> QED BY <2>2, <2>3, <2>5, <2>6
<1>6. /\ Content(f, d, d[l]) = [i \in 1..n |-> Content(f, d, d[l])[i]]
      /\ Content(f2, d2, d2[k]) = [i \in 1..n |-> Content(f2, d2, d2[k])[i]]
  <2>1. \A f3, d3, e : e.length \in Nat =>
           Content(f3, d3, e) = [i \in 1..e.length |-> Content(f3, d3, e)[i]]
    BY ContentLength
  <2>2. d2[k].length = n /\ d[l].length = n /\ n \in Nat
    BY <1>1
  <2> HIDE DEF n
  <2>3. Content(f, d, d[l]) = [i \in 1..d[l].length |-> Content(f, d, d[l])[i]]
    BY <2>1, <2>2
  <2>4. Content(f2, d2, d2[k]) = [i \in 1..d2[k].length |-> Content(f2, d2, d2[k])[i]]
    BY <2>1, <2>2
  <2> QED BY <2>2, <2>3, <2>4
<1> HIDE DEF n
<1> QED
  BY <1>5, <1>6

\* The i-th cell of the file l after it got c in the cells W.
CellKept(f, d, f2, d2, l, W, c, i) ==
    \E y \in Chain(f2, d[l].start) : \E j \in 0..EntriesPerBlock - 1 :
       /\ i = EntriesPerBlock * Steps(f2, d[l].start, y) + j + 1
       /\ <<y, j>> \in W => Content(f2, d2, d2[l])[i] = c
       /\ <<y, j>> \notin W /\ i <= d[l].length => Content(f2, d2, d2[l])[i] = Content(f, d, d[l])[i]

\* A file that is resized keeps the cells that are neither cut off nor written.
LEMMA ContentResized ==
  ASSUME NEW f, NEW d, Tree(f, d), NEW f2, NEW d2, Tree(f2, d2), NEW l, NEW n \in Nat, NEW W, NEW c,
         Resizes(f, d, f2, d2, l, n, W, c), NEW i \in 1..n
  PROVE  CellKept(f, d, f2, d2, l, W, c, i)
<1> DEFINE b == d[l].start
<1>1. /\ l \in Used(d) /\ l \in Used(d2) /\ d[l].type = "File" /\ d2[l] = [d[l] EXCEPT !.length = n]
      /\ \A x \in Loc \ {l} : d2[x] = IF x \in W THEN c ELSE d[x]
      /\ \A x \in Chain(f, b) : EntriesPerBlock * Steps(f, b, x) < n =>
            x \in Chain(f2, b) /\ Steps(f2, b, x) = Steps(f, b, x)
  BY DEF Resizes, Altered
<1>2. /\ Table(f) /\ b \in Start /\ d[l].length \in Nat /\ d[l] \in Entry
      /\ \A k \in 1..d[l].length : \E y \in Chain(f, b) : \E j \in 0..EntriesPerBlock - 1 :
            /\ k = EntriesPerBlock * Steps(f, b, y) + j + 1
            /\ Steps(f, b, y) \in Nat /\ EntriesPerBlock * Steps(f, b, y) \in Nat
            /\ Content(f, d, d[l])[k] = d[<<y, j>>]
  <2>1. l \in Used(d) /\ d[l].type = "File"
    BY <1>1
  <2> QED BY <2>1, FileChain
<1>3. d2[l].length = n /\ d2[l].start = b /\ d2[l].type = "File"
  BY <1>1, <1>2 DEF Entry
<1>4. /\ Table(f2) /\ Chain(f2, b) \subseteq Block
      /\ \A k \in 1..n : \E y \in Chain(f2, b) : \E j \in 0..EntriesPerBlock - 1 :
            /\ k = EntriesPerBlock * Steps(f2, b, y) + j + 1
            /\ Steps(f2, b, y) \in Nat /\ EntriesPerBlock * Steps(f2, b, y) \in Nat
            /\ Content(f2, d2, d2[l])[k] = d2[<<y, j>>]
  <2>1. d2[l].start = b /\ d2[l].length = n
    BY <1>3
  <2>2. /\ Table(f2) /\ Chain(f2, d2[l].start) \subseteq Block
        /\ \A k \in 1..d2[l].length :
              \E y \in Chain(f2, d2[l].start) : \E j \in 0..EntriesPerBlock - 1 :
                 /\ k = EntriesPerBlock * Steps(f2, d2[l].start, y) + j + 1
                 /\ Steps(f2, d2[l].start, y) \in Nat
                 /\ EntriesPerBlock * Steps(f2, d2[l].start, y) \in Nat
                 /\ Content(f2, d2, d2[l])[k] = d2[<<y, j>>]
    <3>1. l \in Used(d2) /\ d2[l].type = "File"
      BY <1>1, <1>3
    <3> QED BY <3>1, FileChain
  <2> HIDE DEF b
  <2> QED BY <2>1, <2>2
<1> HIDE DEF b
<1>5. PICK y \in Chain(f2, b) : \E j \in 0..EntriesPerBlock - 1 :
            /\ i = EntriesPerBlock * Steps(f2, b, y) + j + 1
            /\ Steps(f2, b, y) \in Nat /\ EntriesPerBlock * Steps(f2, b, y) \in Nat
            /\ Content(f2, d2, d2[l])[i] = d2[<<y, j>>]
  BY <1>4
<1>6. PICK j \in 0..EntriesPerBlock - 1 :
            /\ i = EntriesPerBlock * Steps(f2, b, y) + j + 1
            /\ Steps(f2, b, y) \in Nat /\ EntriesPerBlock * Steps(f2, b, y) \in Nat
            /\ Content(f2, d2, d2[l])[i] = d2[<<y, j>>]
  BY <1>5
<1>7. d2[<<y, j>>] = IF <<y, j>> \in W THEN c ELSE d[<<y, j>>]
  <2>1. y \in Block /\ \A m \in Holders(d2) : m[1] # y
    <3>1. y \in Chain(f2, d2[l].start)
      BY <1>3
    <3> QED BY <1>1, <1>3, <3>1, FileCells
  <2>2. l \in Holders(d2)
    BY <1>1 DEF Holders
  <2>3. <<y, j>> \in Loc
    BY <2>1 DEF Loc
  <2>4. <<y, j>>[1] = y
    OBVIOUS
  <2>5. <<y, j>> # l
    BY <2>1, <2>2, <2>4
  <2> QED BY <1>1, <2>3, <2>5
<1>8. ASSUME i <= d[l].length PROVE Content(f, d, d[l])[i] = d[<<y, j>>]
  <2>1. i \in 1..d[l].length
    BY <1>2, <1>8
  <2>2. PICK z \in Chain(f, b) : \E h \in 0..EntriesPerBlock - 1 :
            /\ i = EntriesPerBlock * Steps(f, b, z) + h + 1
            /\ Steps(f, b, z) \in Nat /\ EntriesPerBlock * Steps(f, b, z) \in Nat
            /\ Content(f, d, d[l])[i] = d[<<z, h>>]
    BY <1>2, <2>1
  <2>3. PICK h \in 0..EntriesPerBlock - 1 :
            /\ i = EntriesPerBlock * Steps(f, b, z) + h + 1
            /\ Steps(f, b, z) \in Nat /\ EntriesPerBlock * Steps(f, b, z) \in Nat
            /\ Content(f, d, d[l])[i] = d[<<z, h>>]
    BY <2>2
  <2>4. EntriesPerBlock * Steps(f, b, z) < n
    BY <2>3, GeometryAssumption
  <2>5. z \in Chain(f2, b) /\ Steps(f2, b, z) = Steps(f, b, z)
    BY <1>1, <2>4 DEF b
  <2>6. EntriesPerBlock * Steps(f2, b, y) + j = EntriesPerBlock * Steps(f2, b, z) + h
    BY <1>6, <2>3, <2>5, GeometryAssumption
  <2>7. Ends(f2, b)
    BY <1>1, <1>3, FileChain
  <2>8. y = z /\ j = h
    BY <1>2, <1>4, <2>5, <2>6, <2>7, IndexOnce
  <2> QED BY <2>3, <2>8
<1> QED
  BY <1>6, <1>7, <1>8 DEF b, CellKept

-----------------------------------------------------------------------------
(* The driver implements FileTree.                                           *)

\* What a node shows of itself in the tree.
NodeOf(f, d, l) ==
    [type |-> d[l].type, data |-> IF d[l].type = "File" THEN Content(f, d, d[l]) ELSE <<>>]

Mapped == tree = TreeOf(fat, disk, RootEntry)

\* The tree has the paths that lead somewhere, and shows what is there.
Pictured ==
    /\ tree = [p \in DOMAIN tree |-> tree[p]]
    /\ \A p : p \in DOMAIN tree <=> p \in Seq(Name) /\ p # <<>> /\ \E l : At(p, l)
    /\ \A p \in Seq(Name) : \A l : p # <<>> /\ At(p, l) => tree[p] = NodeOf(fat, disk, l)

LEMMA MappedPictured == TInv /\ Mapped => Pictured
<1> SUFFICES ASSUME TInv, Mapped PROVE Pictured
  OBVIOUS
<1> DEFINE chosen(p) == (CHOOSE n \in Nodes : n[1] = p)[2]
           shown(p) == [type |-> disk[chosen(p)].type,
                        data |-> IF disk[chosen(p)].type = "File"
                                 THEN Content(fat, disk, disk[chosen(p)]) ELSE <<>>]
           paths == {n[1] : n \in Nodes}
<1>1. tree = [p \in paths |-> shown(p)]
  BY DEF Mapped, TreeOf, Nodes
<1>2. \A n \in Nodes : n[1] \in Seq(Name) /\ n[1] # <<>> /\ At(n[1], n[2])
  BY NodesFound DEF FoundAt, At
<1>3. ASSUME NEW p \in Seq(Name), p # <<>>, NEW l, At(p, l)
      PROVE  p \in paths /\ chosen(p) = l
  <2>1. <<p, l>> \in Nodes
    BY <1>3, NodesAll
  <2>2. \E n \in Nodes : n[1] = p
    BY <2>1
  <2>3. chosen(p) = (CHOOSE n \in Nodes : n[1] = p)[2] /\ At(p, chosen(p))
    BY <1>2, <2>2
  <2>4. chosen(p) = l
    BY <1>3, <2>3 DEF At
  <2> QED BY <2>2, <2>4
<1>4. \A p \in paths : p \in Seq(Name) /\ p # <<>> /\ \E l : At(p, l)
  BY <1>2
<1>5. \A p : shown(p) = NodeOf(fat, disk, chosen(p))
  BY DEF NodeOf
<1> HIDE DEF chosen, shown, paths
<1> QED
  BY <1>1, <1>3, <1>4, <1>5 DEF Pictured

\* A node that stays shows the same.
LEMMA NodeStays ==
  ASSUME TInv, TInv', NEW S, Stays(fat, disk, fat', disk', S),
         NEW l \in S, l \in Used(disk), l \in Used(disk')
  PROVE  NodeOf(fat', disk', l) = NodeOf(fat, disk, l)
<1>1. /\ disk'[l].type = disk[l].type /\ disk'[l].start = disk[l].start
      /\ \A b \in Chain(fat, disk[l].start) : fat'[b] = fat[b]
      /\ disk[l].type = "File" =>
            /\ disk'[l].length = disk[l].length
            /\ \A b \in Chain(fat, disk[l].start), i \in 0..EntriesPerBlock - 1 :
                  disk'[<<b, i>>] = disk[<<b, i>>]
  BY DEF Stays
<1>2. Tree(fat, disk) /\ Tree(fat', disk')
  BY DEF TInv
<1>3. disk[l].type = "File" => Content(fat', disk', disk'[l]) = Content(fat, disk, disk[l])
  BY <1>1, <1>2, ContentStays
<1> QED
  BY <1>1, <1>3 DEF NodeOf

\* After a call, too, one path leads to a node.
LEMMA OnePathNext ==
  ASSUME TInv', NEW r \in Seq(Name), NEW s \in Seq(Name), NEW x, NEW y, At(r, x)', At(s, y)'
  PROVE  (r = s <=> x = y) /\ (r # <<>> => x \in Used(disk'))
<1>1. Paths'
  BY Walk, PTL
<1>2. r = s <=> x = y
  BY <1>1 DEF Paths
<1>3. r # <<>> => x \in Used(disk')
  BY <1>1 DEF Paths
<1> QED
  BY <1>2, <1>3

\* Where every node has its place.
LEMMA KeptBack ==
  ASSUME TInv, TInv', Connected, Used(disk') = Used(disk),
         \A l \in Used(disk) : /\ disk'[l].name = disk[l].name /\ disk'[l].type = disk[l].type
                               /\ disk'[l].start = disk[l].start
  PROVE  \A p \in Seq(Name) : \A l : p # <<>> => (At(p, l)' <=> At(p, l))
<1>1. \A p \in Seq(Name) : \A l : At(p, l) => At(p, l)'
  BY KeptAt
<1>2. ASSUME NEW p \in Seq(Name), p # <<>>, NEW l, At(p, l)' PROVE At(p, l)
  <2>1. l \in Used(disk)
    BY <1>2, OnePathNext
  <2>2. PICK s \in Seq(Name) : At(s, l)
    BY <2>1 DEF Connected
  <2>3. At(s, l)'
    BY <1>1, <2>2
  <2>4. s = p
    BY <1>2, <2>3, OnePathNext
  <2> QED BY <2>2, <2>4
<1> QED
  BY <1>1, <1>2

\* A call that disturbs nothing does not show.
LEMMA KeptShown ==
  ASSUME TInv, TInv', Connected, Pictured, Pictured', Undisturbed(fat, disk, fat', disk')
  PROVE  tree' = tree
<1>1. /\ Used(disk') = Used(disk)
      /\ \A l \in Used(disk) : /\ disk'[l].name = disk[l].name /\ disk'[l].type = disk[l].type
                               /\ disk'[l].start = disk[l].start
      /\ Stays(fat, disk, fat', disk', Holders(disk)) /\ Used(disk) \subseteq Holders(disk)
  BY DEF Undisturbed, Stays, Holders
<1>2. \A p \in Seq(Name) : \A l : p # <<>> => (At(p, l)' <=> At(p, l))
  BY <1>1, KeptBack
<1>3. \A p : p \in DOMAIN tree' <=> p \in DOMAIN tree
  BY <1>2 DEF Pictured
<1>4. ASSUME NEW p \in DOMAIN tree PROVE tree'[p] = tree[p]
  <2>1. PICK l : p \in Seq(Name) /\ p # <<>> /\ At(p, l)
    BY DEF Pictured
  <2>2. At(p, l)' /\ l \in Used(disk) /\ l \in Used(disk')
    BY <1>1, <1>2, <2>1, NodeNamed
  <2>3. NodeOf(fat', disk', l) = NodeOf(fat, disk, l)
    BY <1>1, <2>2, NodeStays
  <2> QED BY <2>1, <2>2, <2>3 DEF Pictured
<1>5. tree = [p \in DOMAIN tree |-> tree[p]] /\ tree' = [p \in DOMAIN tree' |-> tree'[p]]
  BY DEF Pictured
<1> QED
  BY <1>3, <1>4, <1>5

\* What is at a path shows.
LEMMA NodeShown ==
  ASSUME TInv, Pictured, NEW p \in Seq(Name), NEW l, At(p, l)
  PROVE  /\ l \in Dirs(disk) => T!IsDir(p)
         /\ p # <<>> => /\ p \in DOMAIN tree /\ tree[p] = NodeOf(fat, disk, l)
                        /\ tree[p].type = disk[l].type
                        /\ disk[l].type = "File" => T!IsFile(p)
<1>1. p # <<>> => p \in DOMAIN tree /\ tree[p] = NodeOf(fat, disk, l)
  BY DEF Pictured
<1>2. NodeOf(fat, disk, l).type = disk[l].type
  BY DEF NodeOf
<1> QED
  BY <1>1, <1>2 DEF T!IsDir, T!IsFile, Dirs

LEMMA ParentShown ==
  ASSUME NEW p
  PROVE  T!Parent(p) = Parent(p) /\ \A q : T!Below(p, q) <=> Below(p, q)
BY DEF Parent, T!Parent, Below, T!Below

\* create() and mkdir().
LEMMA AddedShown ==
  ASSUME TInv, TInv', Connected, Pictured, Pictured', NEW p \in Seq(Name), NEW op,
         NEW type \in {"File", "Directory"}, Added(p, type), reply' = [op |-> op, status |-> "OK"]
  PROVE  T!Add(op, p, type)
<1>1. PICK k, e : /\ Joined(fat, disk, fat', disk', k, FindParent(p).loc, e)
                  /\ e.name = LastName(p) /\ e.type = type /\ (type = "File" => e.length = 0)
  BY DEF Added
<1> DEFINE o == FindParent(p).loc
<1>2. /\ p # <<>> /\ FindParent(p).status = "OK" /\ \A l : ~At(p, l)
      /\ Parent(p) \in Seq(Name)
  BY FindStep DEF Added, At
<1>3. At(Parent(p), o)
  BY <1>2 DEF At, FindParent, NotFile, Miss
<1> HIDE DEF o
<1>4. /\ o \in Dirs(disk) /\ disk'[k] = e /\ Used(disk') = Used(disk) \cup {k}
      /\ Stays(fat, disk, fat', disk', Holders(disk)) /\ k \notin Holders(disk)
  BY <1>1 DEF Joined, o
<1>5. (\A r \in Seq(Name) : \A l : At(r, l) => At(r, l)') /\ At(p, k)'
  BY <1>1, <1>2, <1>3, JoinedAt DEF o
<1>6. ASSUME NEW r \in Seq(Name), r # <<>>, r # p, NEW l, At(r, l)' PROVE At(r, l)
  <2>1. l \in Used(disk') /\ l # k
    BY <1>5, <1>6, OnePathNext
  <2>2. PICK s \in Seq(Name) : At(s, l)
    BY <1>4, <2>1 DEF Connected
  <2>3. s = r
    BY <1>5, <1>6, <2>2, OnePathNext
  <2> QED BY <2>2, <2>3
<1>7. \A r : r \in DOMAIN tree' <=> r \in DOMAIN tree \cup {p}
  BY <1>2, <1>5, <1>6 DEF Pictured
<1>8. tree'[p] = [type |-> type, data |-> <<>>]
  <2>1. tree'[p] = NodeOf(fat', disk', k)
    BY <1>2, <1>5 DEF Pictured
  <2>2. e.length = 0 => Content(fat', disk', e) = <<>>
    BY DEF Content
  <2> QED BY <1>1, <1>4, <2>1, <2>2 DEF NodeOf
<1>9. ASSUME NEW r \in DOMAIN tree PROVE tree'[r] = tree[r]
  <2>1. PICK l : r \in Seq(Name) /\ r # <<>> /\ At(r, l)
    BY DEF Pictured
  <2>2. At(r, l)' /\ l \in Used(disk) /\ l \in Used(disk') /\ l \in Holders(disk)
    BY <1>4, <1>5, <2>1, NodeNamed
  <2>3. NodeOf(fat', disk', l) = NodeOf(fat, disk, l)
    BY <1>4, <2>2, NodeStays
  <2> QED BY <2>1, <2>2, <2>3 DEF Pictured
<1>10. tree' = [r \in DOMAIN tree \cup {p} |->
                   IF r = p THEN [type |-> type, data |-> <<>>] ELSE tree[r]]
  <2>1. tree' = [r \in DOMAIN tree' |-> tree'[r]]
    BY DEF Pictured
  <2>2. DOMAIN tree' = DOMAIN tree \cup {p}
    BY <1>7
  <2> QED BY <1>8, <1>9, <2>1, <2>2
<1>11. T!IsDir(T!Parent(p)) /\ p \notin DOMAIN tree
  BY <1>2, <1>3, <1>4, NodeShown, ParentShown DEF Pictured
<1> QED
  BY <1>10, <1>11 DEF T!Add, T!Answer

\* unlink() and rmdir().
LEMMA TakenShown ==
  ASSUME TInv, TInv', Connected, Pictured, Pictured', NEW p \in Seq(Name),
         NEW type \in {"File", "Directory"}, Taken(p, type)
  PROVE  /\ tree' = [q \in DOMAIN tree \ {p} |-> tree[q]]
         /\ type = "File" => T!IsFile(p)
         /\ type = "Directory" => T!IsDir(p) /\ \A q \in DOMAIN tree : ~T!Below(p, q)
<1> DEFINE l == Find(p).loc
<1>1. /\ p # <<>> /\ At(p, l) /\ Removed(fat, disk, fat', disk', l) /\ disk[l].type = type
  BY FindHeld DEF Taken, At, Held
<1> HIDE DEF l
<1>2. /\ l \in Used(disk) /\ Used(disk') = Used(disk) \ {l} /\ l \in Holders(disk)
      /\ Stays(fat, disk, fat', disk', Holders(disk) \ {l})
      /\ type = "Directory" => \A m \in Used(disk) : m[1] # disk[l].start
  BY <1>1 DEF Removed, Holders
<1>3. \A r \in Seq(Name) : \A x : At(r, x) /\ x # l => At(r, x)'
  BY <1>1, RemovedAt
<1>4. ASSUME NEW r \in Seq(Name), r # <<>>, NEW x, At(r, x)' PROVE At(r, x) /\ r # p
  <2>1. x \in Used(disk') /\ x # l
    BY <1>2, <1>4, OnePathNext
  <2>2. PICK s \in Seq(Name) : At(s, x)
    BY <1>2, <2>1 DEF Connected
  <2>3. s = r
    BY <1>3, <1>4, <2>1, <2>2, OnePathNext
  <2>4. At(r, x)
    BY <2>2, <2>3
  <2> QED BY <1>1, <2>1, <2>4 DEF At
<1>5. \A r \in Seq(Name) : \A x : At(r, x) /\ r # p => x # l
  BY <1>1, Walk DEF Paths
<1>6. \A r : r \in DOMAIN tree' <=> r \in DOMAIN tree \ {p}
  BY <1>3, <1>4, <1>5 DEF Pictured
<1>7. ASSUME NEW r \in DOMAIN tree \ {p} PROVE tree'[r] = tree[r]
  <2>1. PICK x : r \in Seq(Name) /\ r # <<>> /\ At(r, x)
    BY DEF Pictured
  <2>2. x # l /\ x \in Used(disk) /\ x \in Used(disk') /\ x \in Holders(disk) /\ At(r, x)'
    BY <1>2, <1>3, <1>5, <2>1, NodeNamed
  <2>3. NodeOf(fat', disk', x) = NodeOf(fat, disk, x)
    BY <1>2, <2>2, NodeStays
  <2> QED BY <2>1, <2>2, <2>3 DEF Pictured
<1>8. tree' = [q \in DOMAIN tree \ {p} |-> tree[q]]
  <2>1. tree' = [r \in DOMAIN tree' |-> tree'[r]]
    BY DEF Pictured
  <2>2. DOMAIN tree' = DOMAIN tree \ {p}
    BY <1>6
  <2> QED BY <1>7, <2>1, <2>2
<1>9. ASSUME type = "Directory", NEW q \in DOMAIN tree, Below(p, q) PROVE FALSE
  <2>1. PICK x : q \in Seq(Name) /\ q # <<>> /\ At(q, x)
    BY DEF Pictured
  <2>2. PICK w : /\ \A i \in 0..Len(q) : At(Prefix(q, i), w[i])
                 /\ \A i \in 1..Len(q) : w[i] \in Used(disk) /\ w[i][1] = disk[w[i-1]].start
    BY <2>1, Way
  <2>3. Len(p) \in Nat /\ Len(p) < Len(q) /\ Len(q) \in Nat /\ Prefix(q, Len(p)) = p
    BY <1>9, <2>1, PrefixFacts DEF Below, Prefix
  <2>4. Len(p) \in 0..Len(q) /\ Len(p) + 1 \in 1..Len(q) /\ (Len(p) + 1) - 1 = Len(p)
    BY <2>3
  <2>5. w[Len(p)] = l
    BY <1>1, <2>2, <2>3, <2>4 DEF At
  <2>6. w[Len(p) + 1] \in Used(disk) /\ w[Len(p) + 1][1] = disk[l].start
    BY <2>2, <2>4, <2>5
  <2> QED BY <1>2, <1>9, <2>6
<1>10. l \in Dirs(disk) <=> type = "Directory"
  BY <1>1, <1>2 DEF Dirs
<1> QED
  BY <1>1, <1>8, <1>9, <1>10, NodeShown, ParentShown

\* Where rename() takes what was on the path r.
NewPath(p, q, r) == IF r = p THEN q ELSE IF Below(p, r) THEN Rebased(p, q, r) ELSE r

LEMMA NewPathFacts ==
  ASSUME NEW p \in Seq(Name), NEW q \in Seq(Name), q # <<>>, NEW r \in Seq(Name), r # <<>>
  PROVE  /\ NewPath(p, q, r) \in Seq(Name) /\ NewPath(p, q, r) # <<>>
         /\ r = p \/ Below(p, r) =>
               Rebased(p, q, r) = NewPath(p, q, r) /\ Rebased(q, p, NewPath(p, q, r)) = r
<1>1. \A a, b \in Seq(Name) : Rebased(a, b, a) = b
  <2> SUFFICES ASSUME NEW a \in Seq(Name), NEW b \in Seq(Name) PROVE Rebased(a, b, a) = b
    OBVIOUS
  <2>1. SubSeq(a, Len(a) + 1, Len(a)) = <<>>
    OBVIOUS
  <2>2. b \o <<>> = b
    OBVIOUS
  <2> QED BY <2>1, <2>2 DEF Rebased
<1>2. Below(p, r) => r # p
  BY DEF Below
<1>3. Below(p, r) => /\ Rebased(p, q, r) \in Seq(Name) /\ Rebased(p, q, r) # <<>>
                     /\ Rebased(q, p, Rebased(p, q, r)) = r
  BY RebasedFacts
<1> QED
  BY <1>1, <1>2, <1>3 DEF NewPath

\* rename().
LEMMA ShiftedShown ==
  ASSUME TInv, TInv', Connected, Pictured, Pictured', NEW p \in Seq(Name), NEW q \in Seq(Name),
         Relocated(p, q)
  PROVE  /\ \A r \in DOMAIN tree : r # q =>
               NewPath(p, q, r) \in DOMAIN tree' /\ tree'[NewPath(p, q, r)] = tree[r]
         /\ \A s \in DOMAIN tree' : \E r \in DOMAIN tree : r # q /\ s = NewPath(p, q, r)
         /\ p \in DOMAIN tree /\ T!IsDir(Parent(q)) /\ (q \in DOMAIN tree => T!IsFile(q))
<1> DEFINE src == Find(p).loc
           o == Find(Parent(q)).loc
<1>1. PICK l : /\ Find(q).status = "OK" => l = Find(q).loc
               /\ Shifted(fat, disk, fat', disk', src, l, o, LastName(q))
  BY DEF Relocated
<1>2. /\ p # <<>> /\ q # <<>> /\ p # q /\ ~Below(p, q) /\ At(p, src) /\ At(Parent(q), o)
      /\ Parent(q) \in Seq(Name)
  BY FindStep DEF Relocated, At
<1>3. \A x : At(q, x) => x = l
  BY <1>1 DEF At
<1> HIDE DEF src, o
<1>4. /\ src \in Used(disk) /\ l # src /\ o \in Dirs(disk)
      /\ l \in Used(disk) => disk[l].type = "File"
      /\ Used(disk') = (Used(disk) \ {src}) \cup {l}
      /\ disk'[l] = [disk[src] EXCEPT !.name = LastName(q)]
      /\ Stays(fat, disk, fat', disk', Holders(disk) \ {src, l})
      /\ \A b \in Chain(fat, disk[src].start) : fat'[b] = fat[b]
      /\ disk[src].type = "File" =>
            \A b \in Chain(fat, disk[src].start), i \in 0..EntriesPerBlock - 1 :
               disk'[<<b, i>>] = disk[<<b, i>>]
  BY <1>1 DEF Shifted
<1>5. /\ \A r \in Seq(Name) : \A x : At(r, x) /\ x \notin {src, l} =>
            At(IF Below(p, r) THEN Rebased(p, q, r) ELSE r, x)'
      /\ At(q, l)' /\ (l \in Used(disk) => At(q, l))
  BY <1>1, <1>2, ShiftedAt
<1>6. ASSUME NEW r \in Seq(Name), r # p, NEW x, At(r, x), x # l PROVE At(NewPath(p, q, r), x)' /\ x # src
  <2>1. x # src
    BY <1>2, <1>6, Walk DEF Paths
  <2> QED BY <1>5, <1>6, <2>1 DEF NewPath
<1>7. NodeOf(fat', disk', l) = NodeOf(fat, disk, src)
  <2>1. Tree(fat, disk) /\ Tree(fat', disk') /\ disk[src] \in Entry
    BY <1>4, OwnerFacts, HolderFacts DEF TInv
  <2>2. /\ disk'[l].type = disk[src].type /\ disk'[l].start = disk[src].start
        /\ disk'[l].length = disk[src].length
    BY <1>4, <2>1 DEF Entry
  <2>3. l \in Used(disk')
    BY <1>4
  <2>4. /\ \A b \in Chain(fat, disk[src].start) : fat'[b] = fat[b]
        /\ disk[src].type = "File" =>
              \A b \in Chain(fat, disk[src].start), i \in 0..EntriesPerBlock - 1 :
                 disk'[<<b, i>>] = disk[<<b, i>>]
    BY <1>4
  <2>5. \A k : /\ k \in Used(disk') /\ disk'[k].type = "File" /\ disk[src].type = "File"
              /\ disk'[k].start = disk[src].start /\ disk'[k].length = disk[src].length =>
           Content(fat', disk', disk'[k]) = Content(fat, disk, disk[src])
    <3>1. src \in Used(disk)
      BY <1>4
    <3> HIDE DEF src
    <3> QED BY <2>1, <2>4, <3>1, ContentStays
  <2>6. disk[src].type = "File" => Content(fat', disk', disk'[l]) = Content(fat, disk, disk[src])
    BY <2>2, <2>3, <2>5
  <2> QED BY <2>2, <2>6 DEF NodeOf
<1>8. p \in DOMAIN tree /\ tree[p] = NodeOf(fat, disk, src)
  BY <1>2 DEF Pictured
<1>9. ASSUME NEW r \in DOMAIN tree, r # q
      PROVE  NewPath(p, q, r) \in DOMAIN tree' /\ tree'[NewPath(p, q, r)] = tree[r]
  <2>1. PICK x : r \in Seq(Name) /\ r # <<>> /\ At(r, x)
    BY DEF Pictured
  <2>2. NewPath(p, q, r) \in Seq(Name) /\ NewPath(p, q, r) # <<>>
    BY <1>2, <2>1, NewPathFacts
  <2>3. CASE r = p
    <3>1. NewPath(p, q, r) = q
      BY <2>3 DEF NewPath
    <3>2. q \in DOMAIN tree' /\ tree'[q] = NodeOf(fat', disk', l)
      BY <1>2, <1>5 DEF Pictured
    <3> QED BY <1>7, <1>8, <2>3, <3>1, <3>2
  <2>4. CASE r # p
    <3>1. x \in Used(disk) /\ x \in Holders(disk)
      BY <2>1, NodeNamed
    <3>2. x # l
      <4>1. x = l => At(q, x)
        BY <1>5, <3>1
      <4> QED BY <1>9, <2>1, <4>1, Walk DEF Paths
    <3>3. At(NewPath(p, q, r), x)' /\ x # src
      BY <1>6, <2>1, <2>4, <3>2
    <3>4. x \in Used(disk') /\ x \in Holders(disk) \ {src, l}
      BY <1>4, <3>1, <3>2, <3>3
    <3>5. NodeOf(fat', disk', x) = NodeOf(fat, disk, x)
      BY <1>4, <3>1, <3>4, NodeStays
    <3>6. tree[r] = NodeOf(fat, disk, x)
      BY <2>1 DEF Pictured
    <3>7. NewPath(p, q, r) \in DOMAIN tree' /\ tree'[NewPath(p, q, r)] = NodeOf(fat', disk', x)
      BY <2>2, <3>3 DEF Pictured
    <3> QED BY <3>5, <3>6, <3>7
  <2> QED BY <2>3, <2>4
<1>10. ASSUME NEW s \in DOMAIN tree' PROVE \E r \in DOMAIN tree : r # q /\ s = NewPath(p, q, r)
  <2>1. PICK y : s \in Seq(Name) /\ s # <<>> /\ At(s, y)'
    BY DEF Pictured
  <2>2. CASE y = l
    <3>1. s = q
      BY <1>5, <2>1, <2>2, OnePathNext
    <3> QED BY <1>2, <1>8, <3>1 DEF NewPath
  <2>3. CASE y # l
    <3>1. y \in Used(disk) /\ y # src
      BY <1>4, <2>1, <2>3, OnePathNext
    <3>2. PICK r \in Seq(Name) : At(r, y)
      BY <3>1 DEF Connected
    <3>3. y # RootLoc
      BY <3>1, OwnerFacts DEF TInv
    <3>4. r # <<>> /\ r # p
      BY <1>2, <3>1, <3>2, <3>3, NodeNamed DEF At
    <3>5. At(NewPath(p, q, r), y)' /\ NewPath(p, q, r) \in Seq(Name)
      BY <1>2, <1>6, <2>3, <3>2, <3>4, NewPathFacts
    <3>6. s = NewPath(p, q, r)
      BY <2>1, <3>5, OnePathNext
    <3>7. r # q
      BY <1>3, <2>3, <3>2
    <3>8. r \in DOMAIN tree
      BY <3>2, <3>4 DEF Pictured
    <3> QED BY <3>6, <3>7, <3>8
  <2> QED BY <2>2, <2>3
<1>11. T!IsDir(Parent(q))
  BY <1>2, <1>4, NodeShown
<1>12. ASSUME q \in DOMAIN tree PROVE T!IsFile(q)
  <2>1. PICK x : At(q, x)
    BY <1>12 DEF Pictured
  <2>2. x = l /\ l \in Used(disk)
    BY <1>2, <1>3, <2>1, NodeNamed
  <2> QED BY <1>2, <1>4, <2>1, <2>2, NodeShown
<1> QED
  BY <1>8, <1>9, <1>10, <1>11, <1>12

\* ... as a function on the new paths.
LEMMA RelocatedShown ==
  ASSUME TInv, TInv', Connected, Pictured, Pictured', NEW p \in Seq(Name), NEW q \in Seq(Name),
         Relocated(p, q), reply' = [op |-> "rename", status |-> "OK"]
  PROVE  T!Rename(p, q)
<1> DEFINE moved  == {r \in DOMAIN tree : r = p \/ Below(p, r)}
           kept   == DOMAIN tree \ (moved \cup {q})
           new(r) == Rebased(p, q, r)
           old(s) == Rebased(q, p, s)
<1>1. p # <<>> /\ q # <<>> /\ p # q /\ ~Below(p, q)
  BY DEF Relocated
<1>2. /\ \A r \in DOMAIN tree : r # q =>
            NewPath(p, q, r) \in DOMAIN tree' /\ tree'[NewPath(p, q, r)] = tree[r]
      /\ \A s \in DOMAIN tree' : \E r \in DOMAIN tree : r # q /\ s = NewPath(p, q, r)
      /\ p \in DOMAIN tree /\ T!IsDir(Parent(q)) /\ (q \in DOMAIN tree => T!IsFile(q))
  BY ShiftedShown
<1>3. \A r \in DOMAIN tree : r \in Seq(Name) /\ r # <<>>
  BY DEF Pictured
<1>4. \A r \in moved : r # q /\ new(r) = NewPath(p, q, r) /\ old(new(r)) = r
  BY <1>1, <1>3, NewPathFacts
<1>5. \A r \in kept : r # q /\ NewPath(p, q, r) = r
  BY DEF NewPath
<1>6. \A s : s \in DOMAIN tree' <=> s \in kept \cup {new(r) : r \in moved}
  <2>1. ASSUME NEW s \in DOMAIN tree' PROVE s \in kept \cup {new(r) : r \in moved}
    <3>1. PICK r \in DOMAIN tree : r # q /\ s = NewPath(p, q, r)
      BY <1>2
    <3>2. r \in moved \/ r \in kept
      BY <3>1
    <3> HIDE DEF moved, kept, new
    <3> QED BY <1>4, <1>5, <3>1, <3>2
  <2>2. \A r \in kept : r \in DOMAIN tree /\ r \in DOMAIN tree'
    BY <1>2, <1>5
  <2>3. \A r \in moved : new(r) \in DOMAIN tree'
    BY <1>2, <1>4
  <2> QED BY <2>1, <2>2, <2>3
<1>7. ASSUME NEW s \in DOMAIN tree'
      PROVE  tree'[s] = IF s \in kept THEN tree[s] ELSE tree[old(s)]
  <2>1. CASE s \in kept
    BY <1>2, <1>5, <2>1
  <2>2. CASE s \notin kept
    <3>1. PICK r \in moved : s = new(r)
      BY <1>6, <2>2
    <3>2. tree'[s] = tree[r] /\ old(s) = r
      BY <1>2, <1>4, <3>1
    <3> QED BY <2>2, <3>2
  <2> QED BY <2>1, <2>2
<1>8. tree' = [s \in kept \cup {new(r) : r \in moved} |->
                  IF s \in kept THEN tree[s] ELSE tree[old(s)]]
  <2>1. tree' = [s \in DOMAIN tree' |-> tree'[s]]
    BY DEF Pictured
  <2> HIDE DEF moved, kept, new, old
  <2>2. DOMAIN tree' = kept \cup {new(r) : r \in moved}
    BY <1>6
  <2> QED BY <1>7, <2>1, <2>2
<1> QED
  BY <1>1, <1>2, <1>8, ParentShown, ZenonT(90) DEF T!Rename, T!Answer, Rebased

\* truncate() and write(): the new content of the file, cell by cell.
LEMMA EditedShown ==
  ASSUME TInv, TInv', Connected, Pictured, Pictured', NEW p \in Seq(Name), NEW n \in Nat,
         NEW W, NEW c, Edited(p, n, W, c)
  PROVE  LET e   == Find(p).entry
             was == tree[p].data
             now == tree'[p].data
         IN  /\ T!IsFile(p) /\ e.length \in Nat /\ Len(was) = e.length /\ DOMAIN was = 1..e.length
             /\ Len(now) = n /\ tree' = [tree EXCEPT ![p].data = now]
             /\ Chain(fat', e.start) \subseteq Block
             /\ \A i \in 1..n : \E y \in Chain(fat', e.start) : \E j \in 0..EntriesPerBlock - 1 :
                   /\ i = EntriesPerBlock * Steps(fat', e.start, y) + j + 1
                   /\ <<y, j>> \in W => now[i] = c
                   /\ <<y, j>> \notin W /\ i <= e.length => now[i] = was[i]
<1>1. PICK l : /\ p # <<>> /\ At(p, l) /\ Resizes(fat, disk, fat', disk', l, n, W, c)
               /\ Find(p).entry = disk[l]
  BY FindHeld DEF Edited, At, Held
<1>2. /\ l \in Used(disk) /\ Used(disk') = Used(disk) /\ disk[l].type = "File"
      /\ Stays(fat, disk, fat', disk', Holders(disk) \ {l})
      /\ disk'[l].name = disk[l].name /\ disk'[l].type = disk[l].type /\ disk'[l].start = disk[l].start
      /\ disk'[l] = [disk[l] EXCEPT !.length = n]
  BY <1>1 DEF Resizes, Altered
<1>3. Tree(fat, disk) /\ Tree(fat', disk')
  BY DEF TInv
<1>4. disk[l].length \in Nat /\ disk[l] \in Entry
  BY <1>2, <1>3, FileChain
<1>5. disk'[l].length = n /\ Chain(fat', disk[l].start) \subseteq Block
  <2>1. disk'[l].length = n
    BY <1>2, <1>4 DEF Entry
  <2>2. l \in Used(disk') /\ disk'[l].type = "File"
    BY <1>2
  <2>3. Chain(fat', disk'[l].start) \subseteq Block
    BY <1>3, <2>2, FileChain
  <2> QED BY <1>2, <2>1, <2>3
<1>6. \A x \in Used(disk) : /\ disk'[x].name = disk[x].name /\ disk'[x].type = disk[x].type
                            /\ disk'[x].start = disk[x].start
  BY <1>2 DEF Stays, Holders
<1>7. \A r \in Seq(Name) : \A x : r # <<>> => (At(r, x)' <=> At(r, x))
  BY <1>2, <1>6, KeptBack
<1>8. \A r : r \in DOMAIN tree' <=> r \in DOMAIN tree
  BY <1>7 DEF Pictured
<1>9. ASSUME NEW r \in DOMAIN tree, r # p PROVE tree'[r] = tree[r]
  <2>1. PICK x : r \in Seq(Name) /\ r # <<>> /\ At(r, x)
    BY DEF Pictured
  <2>2. At(r, x)' /\ x \in Used(disk) /\ x \in Used(disk') /\ x \in Holders(disk)
    BY <1>2, <1>7, <2>1, NodeNamed
  <2>3. x # l
    BY <1>1, <1>9, <2>1, Walk DEF Paths
  <2>4. NodeOf(fat', disk', x) = NodeOf(fat, disk, x)
    BY <1>2, <2>2, <2>3, NodeStays
  <2> QED BY <2>1, <2>2, <2>4 DEF Pictured
<1>10. /\ p \in DOMAIN tree /\ tree[p] = [type |-> "File", data |-> Content(fat, disk, disk[l])]
       /\ tree'[p] = [type |-> "File", data |-> Content(fat', disk', disk'[l])]
  <2>1. p \in DOMAIN tree /\ tree[p] = NodeOf(fat, disk, l)
    BY <1>1 DEF Pictured
  <2>2. At(p, l)'
    BY <1>1, <1>7
  <2>3. tree'[p] = NodeOf(fat', disk', l)
    BY <1>1, <2>2 DEF Pictured
  <2> QED BY <1>2, <2>1, <2>3 DEF NodeOf
<1>11. tree' = [tree EXCEPT ![p].data = tree'[p].data]
  <2>1. tree = [r \in DOMAIN tree |-> tree[r]] /\ tree' = [r \in DOMAIN tree' |-> tree'[r]]
    BY DEF Pictured
  <2>2. DOMAIN tree' = DOMAIN tree
    BY <1>8, <2>1
  <2>3. tree'[p] = [tree[p] EXCEPT !.data = tree'[p].data]
    BY <1>10
  <2>4. [tree EXCEPT ![p].data = tree'[p].data] =
           [r \in DOMAIN tree |-> IF r = p THEN [tree[p] EXCEPT !.data = tree'[p].data] ELSE tree[r]]
    BY <2>1
  <2> QED BY <1>9, <2>1, <2>2, <2>3, <2>4
<1>12. /\ Len(tree[p].data) = disk[l].length /\ DOMAIN tree[p].data = 1..disk[l].length
       /\ Len(tree'[p].data) = n
  <2>1. \A f, d, e : e.length \in Nat =>
           DOMAIN Content(f, d, e) = 1..e.length /\ Len(Content(f, d, e)) = e.length
    BY ContentLength
  <2>2. /\ Len(Content(fat, disk, disk[l])) = disk[l].length
        /\ DOMAIN Content(fat, disk, disk[l]) = 1..disk[l].length
    BY <1>4, <2>1
  <2>3. Len(Content(fat', disk', disk'[l])) = disk'[l].length
    BY <1>5, <2>1
  <2> QED BY <1>5, <1>10, <2>2, <2>3
<1>13. ASSUME NEW i \in 1..n PROVE CellKept(fat, disk, fat', disk', l, W, c, i)
  <2>1. Resizes(fat, disk, fat', disk', l, n, W, c)
    BY <1>1
  <2> QED BY <1>3, <2>1, ContentResized
<1> DEFINE e   == Find(p).entry
           was == tree[p].data
           now == tree'[p].data
<1>14. ASSUME NEW i \in 1..n
       PROVE  \E y \in Chain(fat', e.start) : \E j \in 0..EntriesPerBlock - 1 :
                 /\ i = EntriesPerBlock * Steps(fat', e.start, y) + j + 1
                 /\ <<y, j>> \in W => now[i] = c
                 /\ <<y, j>> \notin W /\ i <= e.length => now[i] = was[i]
  <2>1. now = Content(fat', disk', disk'[l]) /\ was = Content(fat, disk, disk[l]) /\ e = disk[l]
    BY <1>1, <1>10
  <2> HIDE DEF e, was, now
  <2>3. PICK y \in Chain(fat', disk[l].start) : \E j \in 0..EntriesPerBlock - 1 :
           /\ i = EntriesPerBlock * Steps(fat', disk[l].start, y) + j + 1
           /\ <<y, j>> \in W => Content(fat', disk', disk'[l])[i] = c
           /\ <<y, j>> \notin W /\ i <= disk[l].length =>
                 Content(fat', disk', disk'[l])[i] = Content(fat, disk, disk[l])[i]
    BY <1>13 DEF CellKept
  <2>4. PICK j \in 0..EntriesPerBlock - 1 :
           /\ i = EntriesPerBlock * Steps(fat', e.start, y) + j + 1
           /\ <<y, j>> \in W => now[i] = c
           /\ <<y, j>> \notin W /\ i <= e.length => now[i] = was[i]
    BY <2>1, <2>3
  <2> QED BY <2>1, <2>4
<1>15. T!IsFile(p)
  BY <1>10 DEF T!IsFile
<1>16. /\ e.length \in Nat /\ Len(was) = e.length /\ DOMAIN was = 1..e.length
       /\ Len(now) = n /\ Chain(fat', e.start) \subseteq Block
  BY <1>1, <1>4, <1>5, <1>12
<1>17. tree' = [tree EXCEPT ![p].data = now]
  BY <1>11
<1> HIDE DEF e, was, now
<1>18. /\ T!IsFile(p) /\ e.length \in Nat /\ Len(was) = e.length /\ DOMAIN was = 1..e.length
       /\ Len(now) = n /\ tree' = [tree EXCEPT ![p].data = now]
       /\ Chain(fat', e.start) \subseteq Block
       /\ \A i \in 1..n : \E y \in Chain(fat', e.start) : \E j \in 0..EntriesPerBlock - 1 :
             /\ i = EntriesPerBlock * Steps(fat', e.start, y) + j + 1
             /\ <<y, j>> \in W => now[i] = c
             /\ <<y, j>> \notin W /\ i <= e.length => now[i] = was[i]
  BY <1>14, <1>15, <1>16, <1>17
<1> QED
  BY <1>18, Zenon DEF e, was, now

\* truncate() keeps what it does not cut off.
LEMMA TruncatedShown ==
  ASSUME TInv, TInv', Connected, Pictured, Pictured', NEW p \in Seq(Name), NEW n \in Nat,
         Edited(p, n, {}, Zero), reply' = [op |-> "truncate", status |-> "OK"]
  PROVE  T!Truncate(p, n)
<1> DEFINE e   == Find(p).entry
           was == tree[p].data
           now == tree'[p].data
           W   == {}
<1>0. Edited(p, n, W, Zero)
  OBVIOUS
<1> HIDE DEF W
<1>1. /\ T!IsFile(p) /\ e.length \in Nat /\ DOMAIN was = 1..e.length
      /\ Len(now) = n /\ tree' = [tree EXCEPT ![p].data = now]
      /\ \A i \in 1..n : \E y \in Chain(fat', e.start) : \E j \in 0..EntriesPerBlock - 1 :
            /\ i = EntriesPerBlock * Steps(fat', e.start, y) + j + 1
            /\ <<y, j>> \in W => now[i] = Zero
            /\ <<y, j>> \notin W /\ i <= e.length => now[i] = was[i]
  BY <1>0, EditedShown, SMTT(60)
<1>2. \A i \in (DOMAIN was \cap 1..n) \ {} : now[i] = was[i]
  BY <1>1 DEF W
<1> HIDE DEF e
<1> QED
  BY <1>1, <1>2 DEF T!Truncate, T!Edit, T!Answer

\* write() keeps what it does not write.
LEMMA WrittenShown ==
  ASSUME TInv, TInv', Connected, Pictured, Pictured', NEW p \in Seq(Name),
         NEW off \in Nat, NEW n \in Nat, NEW c, Written(p, off, n, c),
         reply' = [op |-> "write", status |-> "OK"]
  PROVE  T!Write(p, off, n, c)
<1> DEFINE e   == Find(p).entry
           len == IF off + n > e.length THEN off + n ELSE e.length
           W   == Cells(fat', e.start, off, off + n)
           was == tree[p].data
           now == tree'[p].data
<1>1. Edited(p, len, W, c)
  BY DEF Written
<1>2. e.length \in Nat
  <2>1. Find(p).status = "OK" /\ Find(p).loc \in Used(disk) /\ disk[Find(p).loc].type = "File"
    BY <1>1 DEF Edited, Resizes, Altered
  <2>2. Find(p).entry = disk[Find(p).loc]
    BY <2>1, FindHeld DEF Held
  <2> QED BY <2>1, <2>2, FileChain DEF TInv
<1>3. len \in Nat
  BY <1>2
<1> HIDE DEF len, W
<1>4. /\ T!IsFile(p) /\ Len(was) = e.length /\ DOMAIN was = 1..e.length
      /\ Len(now) = len /\ tree' = [tree EXCEPT ![p].data = now]
      /\ Chain(fat', e.start) \subseteq Block
      /\ \A i \in 1..len : \E y \in Chain(fat', e.start) : \E j \in 0..EntriesPerBlock - 1 :
            /\ i = EntriesPerBlock * Steps(fat', e.start, y) + j + 1
            /\ <<y, j>> \in W => now[i] = c
            /\ <<y, j>> \notin W /\ i <= e.length => now[i] = was[i]
  BY <1>1, <1>3, EditedShown
<1> HIDE DEF e, was, now
<1>5. ASSUME NEW i \in 1..len
      PROVE  /\ i \in off+1 .. off+n => now[i] = c
             /\ i \notin off+1 .. off+n /\ i <= e.length => now[i] = was[i]
  <2>1. PICK y \in Chain(fat', e.start) : \E j \in 0..EntriesPerBlock - 1 :
            /\ i = EntriesPerBlock * Steps(fat', e.start, y) + j + 1
            /\ <<y, j>> \in W => now[i] = c
            /\ <<y, j>> \notin W /\ i <= e.length => now[i] = was[i]
    BY <1>4
  <2>2. PICK j \in 0..EntriesPerBlock - 1 :
            /\ i = EntriesPerBlock * Steps(fat', e.start, y) + j + 1
            /\ <<y, j>> \in W => now[i] = c
            /\ <<y, j>> \notin W /\ i <= e.length => now[i] = was[i]
    BY <2>1
  <2>3. <<y, j>> \in W <=> /\ off <= EntriesPerBlock * Steps(fat', e.start, y) + j
                           /\ EntriesPerBlock * Steps(fat', e.start, y) + j < off + n
    BY <1>4, CellsIff DEF W
  <2>4. y \in Block /\ Steps(fat', e.start, y) \in Int /\ EntriesPerBlock \in Int
    <3>1. Table(fat') /\ e.start \in Start /\ Ends(fat', e.start)
      <4>1. Find(p).status = "OK" /\ Find(p).loc \in Used(disk') /\ disk'[Find(p).loc].type = "File"
            /\ disk'[Find(p).loc].start = disk[Find(p).loc].start
        BY <1>1 DEF Edited, Resizes, Altered
      <4>2. Find(p).entry = disk[Find(p).loc]
        BY <4>1, FindHeld DEF Held
      <4>3. /\ Table(fat') /\ disk'[Find(p).loc].start \in Start
            /\ Ends(fat', disk'[Find(p).loc].start)
        BY <4>1, FileChain DEF TInv
      <4> QED BY <4>1, <4>2, <4>3 DEF e
    <3>2. Steps(fat', e.start, y) \in Nat
      BY <3>1, StepsNext
    <3> QED BY <1>4, <3>2, GeometryAssumption
  <2> DEFINE k == EntriesPerBlock * Steps(fat', e.start, y) + j
  <2>5. k \in Int /\ i = k + 1
    BY <2>2, <2>4
  <2>6. /\ off <= k /\ k < off + n => now[i] = c
        /\ ~(off <= k /\ k < off + n) /\ i <= e.length => now[i] = was[i]
    BY <2>2, <2>3
  <2> HIDE DEF k
  <2> QED BY <1>2, <2>5, <2>6
<1>6. \A i \in off+1 .. off+n : i \in 1..len
  BY <1>2 DEF len
<1>7. \A i \in (DOMAIN was \cap 1..len) \ (off+1 .. off+n) : now[i] = was[i]
  BY <1>4, <1>5
<1>8. \A i \in off+1 .. off+n : now[i] = c
  BY <1>5, <1>6
<1>9. len = IF off + n > Len(was) THEN off + n ELSE Len(was)
  BY <1>4 DEF len
<1> HIDE DEF len
<1>10. T!Edit("write", p, len, off+1 .. off+n)
  BY <1>4, <1>7 DEF T!Edit, T!Answer, was, now
<1> QED
  BY <1>4, <1>8, <1>9, <1>10 DEF T!Write, was, now
\* A call that succeeds does to the tree what its name says, one that fails nothing.
LEMMA StepShown ==
  ASSUME TInv, TInv', Connected, Pictured, Pictured', Effects
  PROVE  [T!Next]_(T!treeVars)
<1>1. Undisturbed(fat, disk, fat', disk') => tree' = tree
  BY KeptShown
<1>2. CASE UNCHANGED vars
  <2>1. Undisturbed(fat, disk, fat', disk') /\ reply' = reply
    BY <1>2, TreeKept DEF vars
  <2> QED BY <1>1, <2>1 DEF T!treeVars
<1>4. reply'.status # "OK" /\ Undisturbed(fat, disk, fat', disk') => T!Observe
  BY <1>1 DEF T!Observe
<1>5. ASSUME NEW op \in {"mount", "touch"}, Outcome(op, Undisturbed(fat, disk, fat', disk'))
      PROVE  T!Observe
  BY <1>1, <1>5 DEF Outcome, T!Observe
<1>6. \A p \in AnyPath : p # <<>> => p \in Path /\ p \in Seq(Name)
  BY CallsAssumption DEF AnyPath
<1>7. ASSUME NEW p \in AnyPath, NEW op, NEW type \in {"File", "Directory"}, Outcome(op, Added(p, type))
      PROVE  T!Observe \/ (p \in Path /\ T!Add(op, p, type))
  <2>1. CASE reply'.status # "OK" /\ Undisturbed(fat, disk, fat', disk')
    BY <1>4, <2>1
  <2>2. CASE reply' = [op |-> op, status |-> "OK"] /\ Added(p, type)
    <3>1. p \in Path /\ p \in Seq(Name)
      BY <1>6, <2>2 DEF Added
    <3> QED BY <2>2, <3>1, AddedShown
  <2> QED BY <1>7, <2>1, <2>2 DEF Outcome
<1>8. ASSUME NEW p \in AnyPath, NEW op, NEW type \in {"File", "Directory"}, Outcome(op, Taken(p, type))
      PROVE  \/ T!Observe
             \/ /\ p \in Path /\ reply' = [op |-> op, status |-> "OK"]
                /\ tree' = [q \in DOMAIN tree \ {p} |-> tree[q]]
                /\ type = "File" => T!IsFile(p)
                /\ type = "Directory" => T!IsDir(p) /\ \A q \in DOMAIN tree : ~T!Below(p, q)
  <2>1. CASE reply'.status # "OK" /\ Undisturbed(fat, disk, fat', disk')
    BY <1>4, <2>1
  <2>2. CASE reply' = [op |-> op, status |-> "OK"] /\ Taken(p, type)
    <3>1. p \in Path /\ p \in Seq(Name)
      BY <1>6, <2>2 DEF Taken
    <3> QED BY <2>2, <3>1, TakenShown
  <2> QED BY <1>8, <2>1, <2>2 DEF Outcome
<1>9. ASSUME NEW p \in AnyPath, NEW q \in AnyPath, Outcome("rename", Relocated(p, q))
      PROVE  T!Observe \/ (p \in Path /\ q \in Path /\ T!Rename(p, q))
  <2>1. CASE reply'.status # "OK" /\ Undisturbed(fat, disk, fat', disk')
    BY <1>4, <2>1
  <2>2. CASE reply' = [op |-> "rename", status |-> "OK"] /\ Relocated(p, q)
    <3>1. p \in Path /\ p \in Seq(Name) /\ q \in Path /\ q \in Seq(Name)
      BY <1>6, <2>2 DEF Relocated
    <3> QED BY <2>2, <3>1, RelocatedShown
  <2> QED BY <1>9, <2>1, <2>2 DEF Outcome
<1>10. ASSUME NEW p \in AnyPath, NEW n \in Sizes, Outcome("truncate", Edited(p, n, {}, Zero))
       PROVE  T!Observe \/ (p \in Path /\ T!Truncate(p, n))
  <2>1. CASE reply'.status # "OK" /\ Undisturbed(fat, disk, fat', disk')
    BY <1>4, <2>1
  <2>2. CASE reply' = [op |-> "truncate", status |-> "OK"] /\ Edited(p, n, {}, Zero)
    <3>1. p \in Path /\ p \in Seq(Name) /\ n \in Nat
      BY <1>6, <2>2, CallsAssumption DEF Edited
    <3> QED BY <2>2, <3>1, TruncatedShown
  <2> QED BY <1>10, <2>1, <2>2 DEF Outcome
<1>11. ASSUME NEW p \in AnyPath, NEW x \in Extents, NEW c \in Data,
              Outcome("write", Written(p, x[1], x[2], c))
       PROVE  T!Observe \/ (p \in Path /\ T!Write(p, x[1], x[2], c))
  <2>1. CASE reply'.status # "OK" /\ Undisturbed(fat, disk, fat', disk')
    BY <1>4, <2>1
  <2>2. CASE reply' = [op |-> "write", status |-> "OK"] /\ Written(p, x[1], x[2], c)
    <3>1. p \in Path /\ p \in Seq(Name) /\ x[1] \in Nat /\ x[2] \in Nat
      BY <1>6, <2>2, CallsAssumption DEF Written, Edited
    <3> QED BY <2>2, <3>1, WrittenShown
  <2> QED BY <1>11, <2>1, <2>2 DEF Outcome
<1>12. ASSUME NEW p \in AnyPath,
              \/ Outcome("create", Added(p, "File"))
              \/ Outcome("mkdir", Added(p, "Directory"))
              \/ Outcome("unlink", Taken(p, "File"))
              \/ Outcome("rmdir", Taken(p, "Directory"))
       PROVE  T!Next
  <2>1. CASE Outcome("create", Added(p, "File"))
    BY <1>7, <2>1 DEF T!Next
  <2>2. CASE Outcome("mkdir", Added(p, "Directory"))
    BY <1>7, <2>2 DEF T!Next
  <2>3. CASE Outcome("unlink", Taken(p, "File"))
    <3>1. T!Observe \/ (p \in Path /\ T!Unlink(p))
      BY <1>8, <2>3 DEF T!Unlink, T!Answer
    <3> QED BY <3>1 DEF T!Next
  <2>4. CASE Outcome("rmdir", Taken(p, "Directory"))
    <3>1. T!Observe \/ (p \in Path /\ T!Rmdir(p))
      BY <1>8, <2>4 DEF T!Rmdir, T!Answer
    <3> QED BY <3>1 DEF T!Next
  <2> QED BY <1>12, <2>1, <2>2, <2>3, <2>4
<1>13. ASSUME NEW p \in AnyPath,
              \/ Outcome("touch", Undisturbed(fat, disk, fat', disk'))
              \/ \E q \in AnyPath : Outcome("rename", Relocated(p, q))
              \/ \E n \in Sizes : Outcome("truncate", Edited(p, n, {}, Zero))
              \/ \E x \in Extents, c \in Data : Outcome("write", Written(p, x[1], x[2], c))
       PROVE  T!Next
  BY <1>5, <1>9, <1>10, <1>11, <1>13 DEF T!Next
<1>14. CASE Outcome("mount", Undisturbed(fat, disk, fat', disk'))
  BY <1>5, <1>14 DEF T!Next
<1> QED
  BY <1>2, <1>12, <1>13, <1>14 DEF Effects

\* The variable tree always holds what the disk stands for.
LEMMA MappedNext ==
  ASSUME Mapped, [MCNext]_<<vars, calls, tree>>
  PROVE  Mapped' /\ [Next]_vars
<1>1. CASE MCNext
  <2>1. CASE UNCHANGED <<fat, disk>> /\ RootEntry' = RootEntry
    <3>1. tree' = tree /\ TreeOf(fat', disk', RootEntry') = TreeOf(fat, disk, RootEntry)
      BY <1>1, <2>1 DEF MCNext
    <3> QED BY <1>1, <3>1 DEF MCNext, Mapped
  <2>2. CASE ~(UNCHANGED <<fat, disk>> /\ RootEntry' = RootEntry)
    BY <1>1, <2>2 DEF MCNext, Mapped
  <2> QED BY <2>1, <2>2
<1>2. CASE UNCHANGED <<vars, calls, tree>>
  <2>1. UNCHANGED <<fat, disk, root, tree>> /\ UNCHANGED vars
    BY <1>2 DEF vars
  <2> QED BY <2>1 DEF Mapped, RootEntry
<1> QED
  BY <1>1, <1>2

\* The disk on which only the root is stored stands for the empty tree.
LEMMA FirstShown == Init /\ TInv /\ Pictured => T!Init
<1> SUFFICES ASSUME Init, TInv, Pictured PROVE T!Init
  OBVIOUS
<1>1. \A p : p \notin DOMAIN tree
  <2> SUFFICES ASSUME NEW p \in DOMAIN tree PROVE FALSE
    OBVIOUS
  <2>1. p \in Seq(Name) /\ p # <<>> /\ \E l : At(p, l)
    BY DEF Pictured
  <2>2. \E l : l \in Used(disk)
    BY <2>1, NodeNamed
  <2> QED BY <2>2, FreshNodes DEF Init, StoredDisk
<1>2. tree = [p \in DOMAIN tree |-> tree[p]]
  BY DEF Pictured
<1>3. tree = [p \in {} |-> tree[p]]
  BY <1>1, <1>2
<1> QED
  BY <1>3 DEF T!Init, Init

\* Every call does what FS.h promises of it, as long as the disk's table is
\* large enough: a refinement of FileTree under the mapping TreeOf.
THEOREM DriverImplementsTree ==
  Careful /\ Whole => /\ Roomy => (MCSpec => TreeSpec)
                      /\ MCSpec /\ []Fits => TreeSpec
<1> SUFFICES ASSUME Careful, Whole
             PROVE  /\ Roomy => (MCSpec => TreeSpec)
                    /\ MCSpec /\ []Fits => TreeSpec
  OBVIOUS
<1>1. MCInit => Init /\ Mapped /\ Connected
  BY FreshNodes DEF MCInit, Mapped, Init, Connected, StoredDisk
<1>2. Mapped /\ [MCNext]_<<vars, calls, tree>> => Mapped' /\ [Next]_vars
  BY MappedNext
<1>3. TInv /\ TInv' /\ Connected /\ (Roomy \/ Fits') /\ [Next]_vars => Connected'
  BY StepEffects, StepConnected
<1>4. TInv /\ Mapped => Pictured
  BY MappedPictured
<1>5. /\ TInv /\ TInv' /\ Connected /\ (Roomy \/ Fits') /\ Pictured /\ Pictured' /\ [Next]_vars
      => [T!Next]_(T!treeVars)
  BY StepEffects, StepShown
<1>6. Init /\ TInv /\ Pictured => T!Init
  BY FirstShown
<1>7. Roomy => (Spec => []TInv)
  BY RoomyTree
<1>8. Spec /\ []Fits => []TInv
  BY FittingTree
<1>9. MCSpec => Spec /\ []Mapped
  BY <1>1, <1>2, PTL DEF MCSpec, Spec
<1>10. ASSUME Roomy PROVE MCSpec => TreeSpec
  <2>1. TInv /\ TInv' /\ Connected /\ [Next]_vars => Connected'
    BY <1>3, <1>10
  <2>2. /\ TInv /\ TInv' /\ Connected /\ Pictured /\ Pictured' /\ [Next]_vars
        => [T!Next]_(T!treeVars)
    BY <1>5, <1>10
  <2>3. Spec => []TInv
    BY <1>7, <1>10
  <2> QED
    BY <1>1, <1>2, <1>4, <1>6, <1>9, <2>1, <2>2, <2>3, PTL DEF MCSpec, Spec, TreeSpec, T!Spec
<1>11. MCSpec /\ []Fits => TreeSpec
  <2>1. TInv /\ TInv' /\ Fits' /\ Connected /\ [Next]_vars => Connected'
    BY <1>3
  <2>2. /\ TInv /\ TInv' /\ Fits' /\ Connected /\ Pictured /\ Pictured' /\ [Next]_vars
        => [T!Next]_(T!treeVars)
    BY <1>5
  <2> QED
    BY <1>1, <1>2, <1>4, <1>6, <1>8, <1>9, <2>1, <2>2, PTL DEF MCSpec, Spec, TreeSpec, T!Spec
<1> QED
  BY <1>10, <1>11
=============================================================================
