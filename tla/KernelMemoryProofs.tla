------------------------- MODULE KernelMemoryProofs -------------------------
(***************************************************************************)
(* The heap, for any sizes of header, alignment and request: what callers  *)
(* hold stays apart from every header and from what other callers hold,    *)
(* however the list was split and merged; the count of allocated bytes is  *)
(* that of the blocks in use; and no two neighbours are free.              *)
(*                                                                         *)
(* Then the heap with its pages, for any sizes: what holds of the heap     *)
(* alone holds of it in the kernel; no page serves two purposes; whatever  *)
(* the kernel reaches by address is mapped; and what callers hold has      *)
(* pages.                                                                  *)
(***************************************************************************)
EXTENDS KernelMemory, Minimum, TLAPS, SequenceTheorems, FiniteSetTheorems

-----------------------------------------------------------------------------
(* The heap by itself. *)

\* A header.
Meta == [at : Nat, size : Nat \ {0}, free : BOOLEAN]

\* Where a block's bytes end.
Bound(b) == b.at + HeaderSize + b.size

\* The blocks lie one after the other, ...
Ordered(bs) == \A i, j \in DOMAIN bs : i < j => Bound(bs[i]) <= bs[j].at

\* ... the bytes that follow a header are aligned, ...
Aligned(bs) == \A i \in DOMAIN bs : (bs[i].at + HeaderSize) % MemoryAlign = 0

\* ... and no two neighbours are free.
NoFreePair(bs) == \A i \in 1..Len(bs) - 1 : ~(bs[i].free /\ bs[i + 1].free)

\* A pointer that a caller holds is that of a block in use, which is as large as
\* was asked for.
Holds(b, p, n) == ~b.free /\ b.at + HeaderSize = p /\ n <= b.size

Types ==
    /\ blocks \in Seq(Meta) /\ end \in Nat /\ allocated \in Int
    /\ live \in [DOMAIN live -> Nat]

Placed ==
    /\ Ordered(blocks) /\ Aligned(blocks)
    /\ \A i \in DOMAIN blocks : Bound(blocks[i]) < end

Given == \A p \in DOMAIN live : \E i \in DOMAIN blocks : Holds(blocks[i], p, live[p])

HeapInv == Types /\ Placed /\ Given /\ Accounted /\ Coalesced

-----------------------------------------------------------------------------
(* Addresses. *)

LEMMA Multiple ==
  ASSUME NEW n \in Nat \ {0}, NEW q \in Int
  PROVE  (q * n) % n = 0
OBVIOUS

\* realign() goes to the next place where the bytes after a header are aligned.
LEMMA RealignFacts ==
  ASSUME NEW val \in Nat
  PROVE  /\ Realign(val) \in Nat /\ val <= Realign(val) /\ Realign(val) < val + MemoryAlign
         /\ (Realign(val) + HeaderSize) % MemoryAlign = 0
<1> DEFINE x == val + HeaderSize
           r == x % MemoryAlign
           q == x \div MemoryAlign
<1>1. x \in Nat /\ MemoryAlign \in Nat \ {0} /\ HeaderSize \in Nat
  BY HeapAssumption
<1>2. q \in Int /\ r \in 0..MemoryAlign - 1 /\ x = q * MemoryAlign + r
  <2> HIDE DEF x
  <2> QED BY <1>1
<1>3. CASE r = 0
  BY <1>1, <1>3 DEF Realign
<1>4. CASE r # 0
  <2>1. Realign(val) = val + MemoryAlign - r
    BY <1>4 DEF Realign
  <2>2. Realign(val) + HeaderSize = (q + 1) * MemoryAlign
    <3>1. (q + 1) * MemoryAlign = q * MemoryAlign + MemoryAlign
      BY <1>1, <1>2
    <3>2. q * MemoryAlign \in Int
      BY <1>1, <1>2
    <3> HIDE DEF q, r
    <3> QED BY <2>1, <1>1, <1>2, <3>1, <3>2
  <2>3. (Realign(val) + HeaderSize) % MemoryAlign = 0
    <3> HIDE DEF q
    <3>1. q + 1 \in Int
      BY <1>2
    <3> QED BY <2>2, <3>1, <1>1, Multiple
  <2> HIDE DEF q, r
  <2> QED BY <2>1, <2>3, <1>1, <1>2, <1>4
<1> QED
  BY <1>3, <1>4

-----------------------------------------------------------------------------
(* Lists. *)

\* r is s with e put in as its i-th element.
Inserted(r, S, s, i, e) ==
    /\ r \in Seq(S) /\ Len(r) = Len(s) + 1
    /\ \A j \in 1..Len(s) + 1 :
           r[j] = IF j < i THEN s[j] ELSE IF j = i THEN e ELSE s[j - 1]

LEMMA InsertFacts ==
  ASSUME NEW S, NEW s \in Seq(S), NEW i \in 1..Len(s) + 1, NEW e \in S
  PROVE  Inserted(InsertAt(s, i, e), S, s, i, e)
<1> DEFINE a == SubSeq(s, 1, i - 1)
           z == SubSeq(s, i, Len(s))
           m == a \o <<e>>
           r == m \o z
<1>1. Len(s) \in Nat /\ \A j \in 1..Len(s) : s[j] \in S
  BY ElementOfSeq, LenProperties
<1>2. /\ a \in Seq(S) /\ Len(a) = i - 1 /\ \A j \in 1..i - 1 : a[j] = s[j]
  BY <1>1, SubSeqProperties
<1>3. /\ z \in Seq(S) /\ Len(z) = Len(s) - i + 1
      /\ \A j \in 1..Len(s) - i + 1 : z[j] = s[i + j - 1]
  BY <1>1, SubSeqProperties
<1>4. <<e>> \in Seq(S) /\ Len(<<e>>) = 1 /\ <<e>>[1] = e
  OBVIOUS
<1> HIDE DEF a, z
<1>5. /\ m \in Seq(S) /\ Len(m) = i
      /\ \A j \in 1..i : m[j] = IF j < i THEN s[j] ELSE e
  <2>1. /\ m \in Seq(S) /\ Len(m) = Len(a) + 1
        /\ \A j \in 1..Len(a) + 1 : m[j] = IF j <= Len(a) THEN a[j] ELSE <<e>>[j - Len(a)]
    BY <1>2, <1>4, ConcatProperties
  <2> HIDE DEF m
  <2> QED BY <2>1, <1>2, <1>4, <1>1, SMTT(60)
<1> HIDE DEF m
<1>6. /\ r \in Seq(S) /\ Len(r) = Len(m) + Len(z)
      /\ \A j \in 1..Len(m) + Len(z) : r[j] = IF j <= Len(m) THEN m[j] ELSE z[j - Len(m)]
  BY <1>3, <1>5, ConcatProperties
<1>7. r = InsertAt(s, i, e)
  BY DEF InsertAt, a, z, m
<1> HIDE DEF r
<1>8. Len(r) = Len(s) + 1
  BY <1>1, <1>3, <1>5, <1>6
<1>9. ASSUME NEW j \in 1..Len(s) + 1
      PROVE  r[j] = IF j < i THEN s[j] ELSE IF j = i THEN e ELSE s[j - 1]
  <2>1. j \in 1..Len(m) + Len(z)
    BY <1>1, <1>3, <1>5
  <2>2. CASE j <= i
    BY <2>1, <2>2, <1>5, <1>6
  <2>3. CASE j > i
    <3>1. r[j] = z[j - i]
      BY <2>1, <2>3, <1>5, <1>6, <1>1
    <3>2. j - i \in 1..Len(s) - i + 1 /\ i + (j - i) - 1 = j - 1
      BY <2>3, <1>1
    <3> QED BY <3>1, <3>2, <1>3, <2>3, <1>1
  <2> QED BY <2>2, <2>3, <1>1
<1> QED
  BY <1>6, <1>7, <1>8, <1>9 DEF Inserted

\* A list of headers, read one by one.
LEMMA MetaFacts ==
  ASSUME NEW bs \in Seq(Meta)
  PROVE  /\ Len(bs) \in Nat /\ DOMAIN bs = 1..Len(bs)
         /\ \A i \in DOMAIN bs : /\ bs[i] \in Meta /\ bs[i].at \in Nat
                                 /\ bs[i].size \in Nat \ {0} /\ bs[i].free \in BOOLEAN
                                 /\ Bound(bs[i]) \in Nat /\ HeaderSize \in Nat \ {0}
<1>1. Len(bs) \in Nat /\ DOMAIN bs = 1..Len(bs) /\ \A i \in DOMAIN bs : bs[i] \in Meta
  BY LenProperties, ElementOfSeq
<1> QED
  BY <1>1, HeapAssumption DEF Meta, Bound

\* r is bs with its i-th block cut after size bytes, and the rest in new.
Halved(r, bs, i, size, new) ==
    /\ r \in Seq(Meta) /\ Len(r) = Len(bs) + 1
    /\ \A j \in 1..Len(bs) + 1 :
           r[j] = IF j < i THEN bs[j]
                  ELSE IF j = i THEN [bs[i] EXCEPT !.size = size]
                  ELSE IF j = i + 1 THEN new ELSE bs[j - 1]
    /\ new \in Meta /\ new.free /\ (new.at + HeaderSize) % MemoryAlign = 0
    /\ bs[i].at + HeaderSize + size <= new.at
    /\ Bound(new) <= IF i < Len(bs) THEN bs[i + 1].at ELSE Bound(bs[i])

\* split() cuts the block in two or leaves it; the remainder lies between what
\* the caller gets and the next header.
LEMMA SplitFacts ==
  ASSUME NEW bs \in Seq(Meta), Ordered(bs), NEW i \in DOMAIN bs, NEW size \in Nat \ {0},
         bs[i].size >= size, Split(bs, i, size) # bs
  PROVE  \E new : Halved(Split(bs, i, size), bs, i, size, new)
<1> DEFINE at   == Realign(bs[i].at + size + HeaderSize + 1)
           rest == IF i < Len(bs) THEN bs[i + 1].at - at - HeaderSize
                   ELSE bs[i].at + bs[i].size - at
           new  == [at |-> at, size |-> rest, free |-> TRUE]
           ins  == InsertAt(bs, i + 1, new)
           r    == [ins EXCEPT ![i].size = size]
<1>1. bs[i].size > size + HeaderSize /\ rest > 0 /\ Split(bs, i, size) = r
  BY DEF Split
<1>2. /\ Len(bs) \in Nat /\ i \in 1..Len(bs) /\ bs[i] \in Meta /\ bs[i].at \in Nat
      /\ bs[i].size \in Nat /\ HeaderSize \in Nat \ {0}
      /\ i < Len(bs) => bs[i + 1].at \in Nat
  BY MetaFacts
<1>3. /\ at \in Nat /\ bs[i].at + size + HeaderSize + 1 <= at
      /\ (at + HeaderSize) % MemoryAlign = 0
  <2> DEFINE val == bs[i].at + size + HeaderSize + 1
  <2>1. val \in Nat
    BY <1>2
  <2> HIDE DEF val
  <2>2. Realign(val) \in Nat /\ val <= Realign(val) /\ (Realign(val) + HeaderSize) % MemoryAlign = 0
    BY <2>1, RealignFacts
  <2> QED BY <2>2 DEF val
<1> HIDE DEF at
<1>4. /\ i < Len(bs) => rest = bs[i + 1].at - at - HeaderSize
      /\ ~(i < Len(bs)) => rest = bs[i].at + bs[i].size - at
  OBVIOUS
<1> HIDE DEF rest
<1>12. rest \in Int
  <2>1. CASE i < Len(bs)
    BY <2>1, <1>2, <1>3, <1>4, SMTT(60)
  <2>2. CASE ~(i < Len(bs))
    BY <2>2, <1>2, <1>3, <1>4
  <2> QED BY <2>1, <2>2
<1>13. rest \in Nat \ {0} /\ new \in Meta
  BY <1>1, <1>3, <1>12 DEF Meta
<1>5. Bound(new) <= IF i < Len(bs) THEN bs[i + 1].at ELSE Bound(bs[i])
  <2>1. Bound(new) = at + HeaderSize + rest
    BY DEF Bound
  <2>2. Bound(bs[i]) = bs[i].at + HeaderSize + bs[i].size
    BY DEF Bound
  <2>3. CASE i < Len(bs)
    BY <2>1, <2>3, <1>2, <1>3, <1>4, <1>12
  <2>4. CASE ~(i < Len(bs))
    BY <2>1, <2>2, <2>4, <1>2, <1>3, <1>4, <1>12, SMTT(60)
  <2> HIDE DEF new
  <2> QED BY <2>3, <2>4
<1>6. new.free /\ (new.at + HeaderSize) % MemoryAlign = 0 /\ bs[i].at + HeaderSize + size <= new.at
  BY <1>2, <1>3
<1> HIDE DEF new
<1>7. /\ ins \in Seq(Meta) /\ Len(ins) = Len(bs) + 1
      /\ \A j \in 1..Len(bs) + 1 :
             ins[j] = IF j < i + 1 THEN bs[j] ELSE IF j = i + 1 THEN new ELSE bs[j - 1]
  <2>1. i + 1 \in 1..Len(bs) + 1
    BY <1>2
  <2>2. Inserted(ins, Meta, bs, i + 1, new)
    BY <2>1, <1>13, InsertFacts
  <2> HIDE DEF ins
  <2> QED BY <2>2 DEF Inserted
<1> HIDE DEF ins
<1>8. [ins[i] EXCEPT !.size = size] \in Meta /\ ins[i] = bs[i] /\ i \in 1..Len(ins)
  <2>1. i \in 1..Len(ins) /\ ins[i] = bs[i]
    BY <1>2, <1>7
  <2> QED BY <2>1, <1>2 DEF Meta
<1>9. r = [ins EXCEPT ![i] = [ins[i] EXCEPT !.size = size]]
  OBVIOUS
<1>10. /\ r \in Seq(Meta) /\ Len(r) = Len(ins)
       /\ \A j \in 1..Len(ins) : r[j] = IF j = i THEN [ins[i] EXCEPT !.size = size] ELSE ins[j]
  BY <1>7, <1>8, <1>9, ExceptSeq
<1> HIDE DEF r
<1>11. ASSUME NEW j \in 1..Len(bs) + 1
       PROVE  r[j] = IF j < i THEN bs[j]
                     ELSE IF j = i THEN [bs[i] EXCEPT !.size = size]
                     ELSE IF j = i + 1 THEN new ELSE bs[j - 1]
  BY <1>2, <1>7, <1>8, <1>10
<1> QED
  BY <1>1, <1>13, <1>5, <1>6, <1>7, <1>10, <1>11 DEF Halved

-----------------------------------------------------------------------------
(* What merge() and the count compute. *)

Weight(b) == IF b.free THEN 0 ELSE b.size + HeaderSize

\* S goes through the sums of the weights of bs.
Sums(S, bs) == S[0] = 0 /\ \A i \in 1..Len(bs) : S[i] = S[i - 1] + Weight(bs[i])

\* The fold of Accounted goes through them.
LEMMA CountedSums ==
  ASSUME NEW bs \in Seq(Meta)
  PROVE  \E S \in [0..Len(bs) -> Nat] :
            Sums(S, bs) /\ S[Len(bs)] = Taken(bs)
<1> DEFINE n == Len(bs)
           G(it) == it = [s \in SUBSET DOMAIN bs |->
                             IF s = {} THEN 0 ELSE Counted(it[s \ {Max(s)}], bs[Max(s)])]
           iter == CHOOSE it : G(it)
           F == [z \in (1..n) \X Nat |-> Counted(z[2], bs[z[1]])]
<1>1. Taken(bs) = iter[DOMAIN bs]
  BY DEF Taken, FoldLeft, MapThenFoldSet
<1>2. n \in Nat /\ DOMAIN bs = 1..n
  BY MetaFacts
<1>3. ASSUME NEW i \in 1..n, NEW d \in Nat
      PROVE  /\ F[<<i, d>>] \in Nat /\ F[<<i, d>>] = Counted(d, bs[i])
             /\ F[<<i, d>>] = d + Weight(bs[i])
  BY <1>2, MetaFacts, HeapAssumption, SMTT(60) DEF Counted, Weight
<1>4. ASSUME NEW s \in SUBSET (1..n), s # {} PROVE Max(s) \in 1..n
  <2>1. s \subseteq 0..n
    BY <1>2
  <2> QED BY ONLY <1>2, <1>4, <2>1, MaxFact
<1> HIDE DEF F, n
<1>10. Turns(n, Nat, F) /\ 0 \in Nat
  BY <1>3 DEF Turns
<1>5. \E it : G(it)
  <2>1. PICK it : it = [s \in SUBSET (1..n) |-> it[s]] /\ Folds(it, n, Nat, 0, F)
    BY <1>2, <1>10, FoldExists
  <2>2. ASSUME NEW s \in SUBSET (1..n), s # {}
        PROVE  it[s] = Counted(it[s \ {Max(s)}], bs[Max(s)])
    BY <1>3, <1>4, <2>1, <2>2 DEF Folds
  <2>3. it[{}] = 0
    BY <2>1 DEF Folds
  <2>4. it = [s \in SUBSET (1..n) |->
                 IF s = {} THEN 0 ELSE Counted(it[s \ {Max(s)}], bs[Max(s)])]
    BY <2>1, <2>2, <2>3
  <2> QED BY <2>4, <1>2
<1>6. G(iter)
  <2> HIDE DEF G
  <2> QED BY <1>5
<1> HIDE DEF iter
<1>7. Follows(iter, n, Nat, 0, F)
  BY <1>2, <1>3, <1>4, <1>6 DEF Follows
<1>8. PICK R : States(R, n, Nat, 0, F, iter[1..n])
  BY <1>2, <1>7, <1>10, FoldStates
<1> USE DEF States
<1>9. \A i \in 1..n : R[i] = R[i - 1] + Weight(bs[i])
  <2> SUFFICES ASSUME NEW i \in 1..n PROVE R[i] = R[i - 1] + Weight(bs[i])
    OBVIOUS
  <2>1. R[i - 1] \in Nat
    <3>1. i - 1 \in 0..n
      BY <1>2
    <3> QED BY <3>1, <1>8
  <2> QED BY <2>1, <1>3, <1>8
<1> QED
  BY <1>1, <1>2, <1>8, <1>9 DEF Sums, n

LEMMA SumsTaken ==
  ASSUME NEW bs \in Seq(Meta), NEW S, Sums(S, bs)
  PROVE  S[Len(bs)] = Taken(bs) /\ Taken(bs) \in Nat
<1>1. PICK T \in [0..Len(bs) -> Nat] : Sums(T, bs) /\ T[Len(bs)] = Taken(bs)
  BY CountedSums
<1>2. Len(bs) \in Nat
  BY MetaFacts
<1> DEFINE Differ == {i \in 0..Len(bs) : S[i] # T[i]}
<1>3. Differ = {}
  <2> SUFFICES ASSUME Differ # {} PROVE FALSE
    OBVIOUS
  <2>1. PICK i \in Differ : \A k \in Differ : i <= k
    <3>1. Differ \subseteq Nat
      BY <1>2
    <3> HIDE DEF Differ
    <3> QED BY <3>1, NatMin
  <2>2. i \in 0..Len(bs) /\ i # 0
    BY <2>1, <1>1 DEF Sums
  <2>3. i \in 1..Len(bs) /\ i - 1 \in 0..Len(bs) /\ i - 1 \notin Differ
    <3> HIDE DEF Differ
    <3> QED BY <2>1, <2>2, <1>2
  <2>4. S[i - 1] = T[i - 1]
    BY <2>3
  <2> QED BY <2>1, <2>3, <2>4, <1>1 DEF Sums
<1> QED
  BY <1>1, <1>2, <1>3

\* How the operations change the count.
LEMMA TakenAppend ==
  ASSUME NEW bs \in Seq(Meta), NEW b \in Meta
  PROVE  Taken(Append(bs, b)) = Taken(bs) + Weight(b)
<1>1. PICK S \in [0..Len(bs) -> Nat] : Sums(S, bs) /\ S[Len(bs)] = Taken(bs)
  BY CountedSums
<1>2. Len(bs) \in Nat
  BY MetaFacts
<1> DEFINE r == Append(bs, b)
           T == [i \in 0..Len(bs) + 1 |-> IF i = Len(bs) + 1 THEN Taken(bs) + Weight(b) ELSE S[i]]
<1>3. /\ r \in Seq(Meta) /\ Len(r) = Len(bs) + 1 /\ r[Len(bs) + 1] = b
      /\ \A i \in 1..Len(bs) : r[i] = bs[i]
  BY AppendProperties
<1> HIDE DEF r
<1>4. ASSUME NEW i \in 1..Len(r) PROVE T[i] = T[i - 1] + Weight(r[i])
  <2>1. i \in 0..Len(bs) + 1 /\ i - 1 \in 0..Len(bs) + 1 /\ i - 1 # Len(bs) + 1
    BY <1>2, <1>3
  <2>2. CASE i = Len(bs) + 1
    BY <2>1, <2>2, <1>1, <1>2, <1>3
  <2>3. CASE i # Len(bs) + 1
    BY <2>1, <2>3, <1>1, <1>2, <1>3 DEF Sums
  <2> QED BY <2>2, <2>3
<1>5. Sums(T, r)
  BY <1>1, <1>2, <1>4 DEF Sums
<1>6. T[Len(r)] = Taken(bs) + Weight(b)
  BY <1>2, <1>3
<1> QED
  BY <1>3, <1>5, <1>6, SumsTaken DEF r

LEMMA WeightInt == ASSUME NEW b \in Meta PROVE Weight(b) \in Nat
BY HeapAssumption DEF Meta, Weight

LEMMA TakenExcept ==
  ASSUME NEW bs \in Seq(Meta), NEW k \in DOMAIN bs, NEW b \in Meta
  PROVE  Taken([bs EXCEPT ![k] = b]) = Taken(bs) - Weight(bs[k]) + Weight(b)
<1>1. PICK S \in [0..Len(bs) -> Nat] : Sums(S, bs) /\ S[Len(bs)] = Taken(bs)
  BY CountedSums
<1>2. Len(bs) \in Nat /\ k \in 1..Len(bs) /\ Weight(bs[k]) \in Nat /\ Weight(b) \in Nat
  BY MetaFacts, WeightInt
<1> DEFINE r == [bs EXCEPT ![k] = b]
           T == [i \in 0..Len(bs) |->
                    IF i < k THEN S[i] ELSE S[i] - Weight(bs[k]) + Weight(b)]
<1>3. /\ r \in Seq(Meta) /\ Len(r) = Len(bs)
      /\ \A i \in 1..Len(bs) : r[i] = IF i = k THEN b ELSE bs[i]
  BY <1>2, ExceptSeq
<1> HIDE DEF r
<1>4. ASSUME NEW i \in 1..Len(r) PROVE T[i] = T[i - 1] + Weight(r[i])
  <2>1. /\ i \in 0..Len(bs) /\ i - 1 \in 0..Len(bs) /\ bs[i] \in Meta
        /\ S[i] = S[i - 1] + Weight(bs[i]) /\ S[i] \in Nat /\ S[i - 1] \in Nat
        /\ Weight(bs[i]) \in Nat
    <3>1. i \in 1..Len(bs) /\ i \in DOMAIN bs
      BY <1>2, <1>3, MetaFacts
    <3>2. bs[i] \in Meta
      BY <3>1, MetaFacts
    <3> QED BY <3>1, <3>2, <1>1, <1>2, WeightInt DEF Sums
  <2>2. CASE i < k
    <3>1. T[i] = S[i] /\ T[i - 1] = S[i - 1] /\ r[i] = bs[i]
      BY <2>1, <2>2, <1>2, <1>3
    <3> HIDE DEF T
    <3> QED BY <3>1, <2>1
  <2>3. CASE i = k
    <3>1. T[i] = S[i] - Weight(bs[k]) + Weight(b) /\ T[i - 1] = S[i - 1] /\ r[i] = b
      BY <2>1, <2>3, <1>2, <1>3
    <3> HIDE DEF T
    <3> QED BY <3>1, <2>1, <2>3, <1>2
  <2>4. CASE i > k
    <3>1. /\ T[i] = S[i] - Weight(bs[k]) + Weight(b) /\ r[i] = bs[i]
          /\ T[i - 1] = S[i - 1] - Weight(bs[k]) + Weight(b)
      BY <2>1, <2>4, <1>2, <1>3
    <3> HIDE DEF T
    <3> QED BY <3>1, <2>1, <1>2
  <2> QED BY <2>2, <2>3, <2>4, <1>2
<1>5. Sums(T, r)
  <2>1. 0 \in 0..Len(bs) /\ 0 < k /\ T[0] = 0
    BY <1>1, <1>2 DEF Sums
  <2> HIDE DEF T
  <2> QED BY <2>1, <1>4 DEF Sums
<1>6. T[Len(r)] = Taken(bs) - Weight(bs[k]) + Weight(b)
  BY <1>1, <1>2, <1>3
<1> HIDE DEF T
<1> QED
  BY <1>3, <1>5, <1>6, SumsTaken DEF r

LEMMA TakenHalved ==
  ASSUME NEW bs \in Seq(Meta), NEW i \in DOMAIN bs, bs[i].free, NEW r, NEW size, NEW new,
         Halved(r, bs, i, size, new)
  PROVE  Taken(r) = Taken(bs)
<1>1. PICK S \in [0..Len(bs) -> Nat] : Sums(S, bs) /\ S[Len(bs)] = Taken(bs)
  BY CountedSums
<1>2. Len(bs) \in Nat /\ i \in 1..Len(bs) /\ Weight(bs[i]) = 0
  BY MetaFacts DEF Weight
<1> DEFINE T == [j \in 0..Len(bs) + 1 |-> IF j <= i THEN S[j] ELSE S[j - 1]]
<1>3. /\ r \in Seq(Meta) /\ Len(r) = Len(bs) + 1
      /\ \A j \in 1..Len(bs) + 1 :
             Weight(r[j]) = IF j < i THEN Weight(bs[j])
                            ELSE IF j = i \/ j = i + 1 THEN 0 ELSE Weight(bs[j - 1])
  <2>1. Weight([bs[i] EXCEPT !.size = size]) = 0 /\ Weight(new) = 0
    <3>1. [bs[i] EXCEPT !.size = size].free = bs[i].free
      BY MetaFacts DEF Meta
    <3> QED BY <3>1 DEF Weight, Halved
  <2>2. ASSUME NEW j \in 1..Len(bs) + 1
        PROVE  Weight(r[j]) = IF j < i THEN Weight(bs[j])
                              ELSE IF j = i \/ j = i + 1 THEN 0 ELSE Weight(bs[j - 1])
    <3>1. r[j] = IF j < i THEN bs[j]
                 ELSE IF j = i THEN [bs[i] EXCEPT !.size = size]
                 ELSE IF j = i + 1 THEN new ELSE bs[j - 1]
      BY DEF Halved
    <3> QED BY <3>1, <2>1
  <2> QED BY <2>2 DEF Halved
<1>4. ASSUME NEW j \in 1..Len(r) PROVE T[j] = T[j - 1] + Weight(r[j])
  <2>1. j \in 0..Len(bs) + 1 /\ j - 1 \in 0..Len(bs) + 1 /\ j \in 1..Len(bs) + 1
    BY <1>2, <1>3
  <2>2. CASE j <= i
    <3>1. T[j] = S[j] /\ T[j - 1] = S[j - 1] /\ Weight(r[j]) = Weight(bs[j]) /\ j \in 1..Len(bs)
      BY <2>1, <2>2, <1>2, <1>3
    <3> HIDE DEF T
    <3> QED BY <3>1, <1>1 DEF Sums
  <2>3. CASE j = i + 1
    <3>1. T[j] = S[i] /\ T[j - 1] = S[i] /\ Weight(r[j]) = 0 /\ S[i] \in Nat
      BY <2>1, <2>3, <1>1, <1>2, <1>3
    <3> HIDE DEF T
    <3> QED BY <3>1
  <2>4. CASE j > i + 1
    <3>1. /\ T[j] = S[j - 1] /\ T[j - 1] = S[j - 1 - 1] /\ Weight(r[j]) = Weight(bs[j - 1])
          /\ j - 1 \in 1..Len(bs)
      BY <2>1, <2>4, <1>2, <1>3, SMTT(60)
    <3> HIDE DEF T
    <3> QED BY <3>1, <1>1 DEF Sums
  <2> QED BY <2>1, <2>2, <2>3, <2>4, <1>2
<1>5. Sums(T, r)
  <2>1. T[0] = 0
    BY <1>1, <1>2 DEF Sums
  <2> HIDE DEF T
  <2> QED BY <2>1, <1>4 DEF Sums
<1>6. T[Len(r)] = Taken(bs)
  BY <1>1, <1>2, <1>3
<1> HIDE DEF T
<1> QED
  BY <1>3, <1>5, <1>6, SumsTaken

\* One turn of merge() appends the block, or makes the last one larger.
Grown(bs, b) == [bs[Len(bs)] EXCEPT !.size = @ + HeaderSize + b.size]

LEMMA GrownFacts ==
  ASSUME NEW bs \in Seq(Meta), Len(bs) > 0, NEW b \in Meta
  PROVE  /\ Grown(bs, b) \in Meta /\ Grown(bs, b).at = bs[Len(bs)].at
         /\ Grown(bs, b).free = bs[Len(bs)].free
         /\ Bound(Grown(bs, b)) = Bound(bs[Len(bs)]) + HeaderSize + b.size
<1> DEFINE x == bs[Len(bs)]
           s == x.size + HeaderSize + b.size
<1>1. Len(bs) \in DOMAIN bs
  BY MetaFacts
<1>2. x \in Meta
  BY <1>1, MetaFacts
<1> HIDE DEF x
<1>3. x.at \in Nat /\ x.size \in Nat \ {0} /\ b.size \in Nat \ {0} /\ HeaderSize \in Nat
  BY <1>2, HeapAssumption DEF Meta
<1>4. s \in Nat \ {0} /\ x.at + HeaderSize + s = (x.at + HeaderSize + x.size) + HeaderSize + b.size
  <2>1. \A a \in Nat, h \in Nat, u \in Nat \ {0}, v \in Nat \ {0} :
           u + h + v \in Nat \ {0} /\ a + h + (u + h + v) = (a + h + u) + h + v
    OBVIOUS
  <2> QED BY ONLY <2>1, <1>3, SMTT(60) DEF s
<1>5. Grown(bs, b) = [x EXCEPT !.size = s]
  BY DEF Grown, x
<1> HIDE DEF s
<1>6. /\ [x EXCEPT !.size = s] \in Meta /\ [x EXCEPT !.size = s].at = x.at
      /\ [x EXCEPT !.size = s].free = x.free /\ [x EXCEPT !.size = s].size = s
  BY <1>2, <1>4 DEF Meta
<1> QED
  BY <1>4, <1>5, <1>6 DEF Bound, x, s

LEMMA JoinFacts ==
  ASSUME NEW bs \in Seq(Meta), NEW b \in Meta
  PROVE  /\ Join(bs, b) \in Seq(Meta)
         /\ \/ Join(bs, b) = Append(bs, b) /\ (Len(bs) > 0 => ~(bs[Len(bs)].free /\ b.free))
            \/ /\ Len(bs) > 0 /\ bs[Len(bs)].free /\ b.free
               /\ Join(bs, b) = [bs EXCEPT ![Len(bs)] = Grown(bs, b)]
<1>1. Len(bs) \in Nat /\ (bs # <<>> <=> Len(bs) > 0) /\ Last(bs) = bs[Len(bs)]
  BY MetaFacts, EmptySeq DEF Last
<1>2. CASE bs # <<>> /\ Last(bs).free /\ b.free
  <2>1. Len(bs) \in 1..Len(bs) /\ bs[Len(bs)] \in Meta
    BY <1>1, <1>2, MetaFacts
  <2>2. Grown(bs, b) \in Meta
    BY <1>1, <1>2, GrownFacts
  <2>3. Join(bs, b) = [bs EXCEPT ![Len(bs)] = Grown(bs, b)]
    BY <1>2 DEF Join, Grown
  <2> QED BY <1>1, <1>2, <2>1, <2>2, <2>3, ExceptSeq
<1>3. CASE ~(bs # <<>> /\ Last(bs).free /\ b.free)
  BY <1>1, <1>3, AppendProperties DEF Join
<1> QED
  BY <1>2, <1>3

\* out is what merge() has made of the first i blocks of bs.
Merged(out, bs, i) ==
    /\ out \in Seq(Meta) /\ Ordered(out) /\ Aligned(out) /\ NoFreePair(out)
    /\ \A k \in DOMAIN out, j \in DOMAIN bs : i < j => Bound(out[k]) <= bs[j].at
    /\ \A k \in DOMAIN out : \E j \in DOMAIN bs : Bound(out[k]) <= Bound(bs[j])
    /\ \A j \in DOMAIN bs : j <= i /\ ~bs[j].free => \E k \in DOMAIN out : out[k] = bs[j]

LEMMA JoinAppends ==
  ASSUME NEW bs \in Seq(Meta), Ordered(bs), Aligned(bs), NEW i \in DOMAIN bs, NEW out,
         Merged(out, bs, i - 1), Len(out) > 0 => ~(out[Len(out)].free /\ bs[i].free)
  PROVE  Merged(Append(out, bs[i]), bs, i)
<1> DEFINE r == Append(out, bs[i])
           n == Len(out)
<1>1. /\ Len(bs) \in Nat /\ i \in 1..Len(bs) /\ DOMAIN bs = 1..Len(bs)
      /\ \A j \in DOMAIN bs : bs[j] \in Meta /\ bs[j].at \in Nat /\ Bound(bs[j]) \in Nat
      /\ \A j \in DOMAIN bs : bs[j].at <= Bound(bs[j])
  BY MetaFacts DEF Bound
<1>2. out \in Seq(Meta) /\ n \in Nat /\ DOMAIN out = 1..n
  BY MetaFacts DEF Merged
<1>3. /\ r \in Seq(Meta) /\ Len(r) = n + 1 /\ DOMAIN r = 1..n + 1 /\ r[n + 1] = bs[i]
      /\ \A k \in 1..n : r[k] = out[k]
  BY <1>1, <1>2, AppendProperties, MetaFacts
<1> HIDE DEF r, n
<1>4. Ordered(r)
  <2> SUFFICES ASSUME NEW j \in 1..n + 1, NEW k \in 1..n + 1, j < k
               PROVE  Bound(r[j]) <= r[k].at
    BY <1>3 DEF Ordered
  <2>1. CASE k = n + 1
    <3>1. j \in 1..n /\ i - 1 < i
      BY <2>1, <1>1, <1>2
    <3> QED BY <3>1, <2>1, <1>1, <1>2, <1>3 DEF Merged
  <2>2. CASE k # n + 1
    <3>1. j \in 1..n /\ k \in 1..n
      BY <2>2, <1>2
    <3> QED BY <3>1, <1>2, <1>3 DEF Merged, Ordered
  <2> QED BY <2>1, <2>2
<1>5. Aligned(r)
  <2> SUFFICES ASSUME NEW k \in 1..n + 1 PROVE (r[k].at + HeaderSize) % MemoryAlign = 0
    BY <1>3 DEF Aligned
  <2>1. CASE k = n + 1
    BY <2>1, <1>3 DEF Aligned
  <2>2. CASE k # n + 1
    <3>1. k \in 1..n
      BY <2>2, <1>2
    <3> QED BY <3>1, <1>2, <1>3 DEF Merged, Aligned
  <2> QED BY <2>1, <2>2
<1>6. NoFreePair(r)
  <2> SUFFICES ASSUME NEW k \in 1..n PROVE ~(r[k].free /\ r[k + 1].free)
    BY <1>2, <1>3 DEF NoFreePair
  <2>1. CASE k = n
    BY <2>1, <1>2, <1>3 DEF n
  <2>2. CASE k # n
    <3>1. k \in 1..n - 1 /\ k + 1 \in 1..n
      BY <2>2, <1>2
    <3> QED BY <3>1, <1>3 DEF Merged, NoFreePair, n
  <2> QED BY <2>1, <2>2
<1>7. ASSUME NEW k \in DOMAIN r
      PROVE  /\ \A j \in DOMAIN bs : i < j => Bound(r[k]) <= bs[j].at
             /\ \E j \in DOMAIN bs : Bound(r[k]) <= Bound(bs[j])
  <2>1. CASE k = n + 1
    BY <2>1, <1>1, <1>3 DEF Ordered
  <2>2. CASE k # n + 1
    <3>1. k \in DOMAIN out /\ r[k] = out[k]
      BY <2>2, <1>2, <1>3
    <3>2. \A j \in DOMAIN bs : i < j => i - 1 < j
      BY <1>1
    <3> QED BY <3>1, <3>2 DEF Merged
  <2> QED BY <2>1, <2>2
<1>8. ASSUME NEW j \in DOMAIN bs, j <= i, ~bs[j].free
      PROVE  \E k \in DOMAIN r : r[k] = bs[j]
  <2>1. CASE j = i
    BY <2>1, <1>2, <1>3
  <2>2. CASE j # i
    <3>1. j <= i - 1
      BY <2>2, <1>1, <1>8
    <3>2. PICK k \in DOMAIN out : out[k] = bs[j]
      BY <3>1, <1>8 DEF Merged
    <3> QED BY <3>2, <1>2, <1>3
  <2> QED BY <2>1, <2>2
<1> QED
  BY <1>3, <1>4, <1>5, <1>6, <1>7, <1>8 DEF Merged, r

LEMMA JoinGrows ==
  ASSUME NEW bs \in Seq(Meta), Ordered(bs), NEW i \in DOMAIN bs, NEW out,
         Merged(out, bs, i - 1), Len(out) > 0, out[Len(out)].free, bs[i].free
  PROVE  Merged([out EXCEPT ![Len(out)] = Grown(out, bs[i])], bs, i)
<1> DEFINE n == Len(out)
           m == Grown(out, bs[i])
           r == [out EXCEPT ![n] = m]
<1>1. /\ Len(bs) \in Nat /\ i \in 1..Len(bs) /\ DOMAIN bs = 1..Len(bs)
      /\ \A j \in DOMAIN bs : /\ bs[j] \in Meta /\ bs[j].at \in Nat /\ Bound(bs[j]) \in Nat
                              /\ bs[j].size \in Nat
      /\ HeaderSize \in Nat
  BY MetaFacts
<1>2. /\ out \in Seq(Meta) /\ n \in Nat /\ DOMAIN out = 1..n /\ n \in 1..n
      /\ \A k \in 1..n : /\ out[k] \in Meta /\ out[k].at \in Nat /\ out[k].size \in Nat
                         /\ Bound(out[k]) \in Nat
  BY MetaFacts DEF Merged
<1>3. m \in Meta /\ m.at = out[n].at /\ m.free = out[n].free /\ Bound(m) = Bound(out[n]) + HeaderSize + bs[i].size
  BY <1>1, <1>2, GrownFacts
<1> HIDE DEF m, n
<1>4. /\ r \in Seq(Meta) /\ Len(r) = n /\ DOMAIN r = 1..n
      /\ \A k \in 1..n : r[k] = IF k = n THEN m ELSE out[k]
  BY <1>2, <1>3, ExceptSeq, MetaFacts DEF n
<1> HIDE DEF r
<1>5. Bound(m) <= Bound(bs[i])
  <2>1. Bound(out[n]) <= bs[i].at
    <3>1. i - 1 < i
      BY <1>1
    <3> QED BY <3>1, <1>2 DEF Merged
  <2> QED BY <2>1, <1>1, <1>2, <1>3, SMTT(60) DEF Bound
<1>6. Ordered(r)
  <2> SUFFICES ASSUME NEW j \in 1..n, NEW k \in 1..n, j < k PROVE Bound(r[j]) <= r[k].at
    BY <1>4 DEF Ordered
  <2>1. j # n
    BY <1>2
  <2>2. r[j] = out[j]
    BY <2>1, <1>4
  <2>3. r[k].at = out[k].at
    <3>1. r[k] = IF k = n THEN m ELSE out[k]
      BY <1>4
    <3> QED BY <3>1, <1>3
  <2> QED BY <2>2, <2>3, <1>2 DEF Merged, Ordered
<1>7. Aligned(r)
  <2>1. \A k \in 1..n : r[k].at = out[k].at
    BY <1>3, <1>4
  <2> QED BY <2>1, <1>2, <1>4 DEF Merged, Aligned
<1>8. NoFreePair(r)
  <2>1. \A k \in 1..n : r[k].free = out[k].free
    BY <1>3, <1>4 DEF n
  <2>2. \A k \in 1..n - 1 : k \in 1..n /\ k + 1 \in 1..n
    BY <1>2
  <2> QED BY <2>1, <2>2, <1>4 DEF Merged, NoFreePair, n
<1>9. ASSUME NEW k \in DOMAIN r
      PROVE  /\ \A j \in DOMAIN bs : i < j => Bound(r[k]) <= bs[j].at
             /\ \E j \in DOMAIN bs : Bound(r[k]) <= Bound(bs[j])
  <2>1. CASE k = n
    <3>1. ASSUME NEW j \in DOMAIN bs, i < j PROVE Bound(m) <= bs[j].at
      <4>1. Bound(bs[i]) <= bs[j].at
        BY <3>1 DEF Ordered
      <4>2. Bound(m) \in Nat
        BY <1>1, <1>2, <1>3
      <4> QED BY <4>1, <4>2, <1>1, <1>5
    <3> QED BY <2>1, <3>1, <1>4, <1>5
  <2>2. CASE k # n
    <3>1. k \in DOMAIN out /\ r[k] = out[k]
      BY <2>2, <1>2, <1>4
    <3>2. \A j \in DOMAIN bs : i < j => i - 1 < j
      BY <1>1
    <3> QED BY <3>1, <3>2 DEF Merged
  <2> QED BY <2>1, <2>2
<1>10. ASSUME NEW j \in DOMAIN bs, j <= i, ~bs[j].free
       PROVE  \E k \in DOMAIN r : r[k] = bs[j]
  <2>1. j <= i - 1
    BY <1>1, <1>10
  <2>2. PICK k \in DOMAIN out : out[k] = bs[j]
    BY <2>1, <1>10 DEF Merged
  <2>3. k # n
    BY <2>2, <1>10 DEF n
  <2> QED BY <2>2, <2>3, <1>2, <1>4
<1> QED
  BY <1>4, <1>6, <1>7, <1>8, <1>9, <1>10 DEF Merged, r, m, n

\* merge() turn by turn.
LEMMA MergeStates ==
  ASSUME NEW bs \in Seq(Meta)
  PROVE  \E R \in [0..Len(bs) -> Seq(Meta)] :
            /\ R[0] = <<>> /\ R[Len(bs)] = Merge(bs)
            /\ \A i \in 1..Len(bs) : R[i] = Join(R[i - 1], bs[i])
<1> DEFINE n == Len(bs)
           D == Seq(Meta)
           G(it) == it = [s \in SUBSET DOMAIN bs |->
                             IF s = {} THEN <<>> ELSE Join(it[s \ {Max(s)}], bs[Max(s)])]
           iter == CHOOSE it : G(it)
           F == [z \in (1..n) \X D |-> Join(z[2], bs[z[1]])]
<1>1. Merge(bs) = iter[DOMAIN bs]
  BY DEF Merge, FoldLeft, MapThenFoldSet
<1>2. n \in Nat /\ DOMAIN bs = 1..n /\ <<>> \in D
  BY MetaFacts, EmptySeq
<1>3. ASSUME NEW i \in 1..n, NEW d \in D
      PROVE  F[<<i, d>>] \in D /\ F[<<i, d>>] = Join(d, bs[i])
  BY <1>2, MetaFacts, JoinFacts
<1>4. ASSUME NEW s \in SUBSET (1..n), s # {} PROVE Max(s) \in 1..n
  <2>1. s \subseteq 0..n
    BY <1>2
  <2> QED BY ONLY <1>2, <1>4, <2>1, MaxFact
<1> HIDE DEF F, n, D
<1>5. Turns(n, D, F)
  BY <1>3 DEF Turns
<1>6. \E it : G(it)
  <2>1. PICK it : it = [s \in SUBSET (1..n) |-> it[s]] /\ Folds(it, n, D, <<>>, F)
    BY <1>2, <1>5, FoldExists
  <2>2. ASSUME NEW s \in SUBSET (1..n), s # {}
        PROVE  it[s] = Join(it[s \ {Max(s)}], bs[Max(s)])
    BY <1>3, <1>4, <2>1, <2>2 DEF Folds
  <2>3. it[{}] = <<>>
    BY <2>1 DEF Folds
  <2>4. it = [s \in SUBSET (1..n) |->
                 IF s = {} THEN <<>> ELSE Join(it[s \ {Max(s)}], bs[Max(s)])]
    BY <2>1, <2>2, <2>3
  <2> QED BY <2>4, <1>2
<1>7. G(iter)
  <2> HIDE DEF G
  <2> QED BY <1>6
<1> HIDE DEF iter
<1>8. Follows(iter, n, D, <<>>, F)
  BY <1>2, <1>3, <1>4, <1>7 DEF Follows
<1>9. PICK R : States(R, n, D, <<>>, F, iter[1..n])
  BY <1>2, <1>5, <1>8, FoldStates
<1>10. ASSUME NEW i \in 1..n PROVE R[i] = Join(R[i - 1], bs[i])
  <2>1. i - 1 \in 0..n
    BY <1>2
  <2>2. R[i - 1] \in D
    BY <2>1, <1>9 DEF States
  <2> QED BY <2>2, <1>3, <1>9 DEF States
<1> QED
  BY <1>1, <1>2, <1>9, <1>10 DEF States, n, D

\* What it leaves behind: no two free neighbours, every block in use where it
\* was, no block beyond where the blocks ended, and the same count.
LEMMA MergeFacts ==
  ASSUME NEW bs \in Seq(Meta), Ordered(bs), Aligned(bs)
  PROVE  Merged(Merge(bs), bs, Len(bs)) /\ Taken(Merge(bs)) = Taken(bs)
<1>1. PICK R \in [0..Len(bs) -> Seq(Meta)] :
         /\ R[0] = <<>> /\ R[Len(bs)] = Merge(bs)
         /\ \A i \in 1..Len(bs) : R[i] = Join(R[i - 1], bs[i])
  BY MergeStates
<1>2. PICK S \in [0..Len(bs) -> Nat] : Sums(S, bs) /\ S[Len(bs)] = Taken(bs)
  BY CountedSums
<1>3. Len(bs) \in Nat /\ DOMAIN bs = 1..Len(bs)
  BY MetaFacts
<1> DEFINE Good(i) == Merged(R[i], bs, i) /\ Taken(R[i]) = S[i]
           Bad == {i \in 0..Len(bs) : ~Good(i)}
<1>4. Good(0)
  <2>1. <<>> \in Seq(Meta) /\ Len(<<>>) = 0 /\ DOMAIN <<>> = 1..0 /\ 1..0 = {} /\ 1..0 - 1 = {}
    OBVIOUS
  <2>2. Merged(<<>>, bs, 0)
    BY <2>1, <1>3 DEF Merged, Ordered, Aligned, NoFreePair
  <2>3. Taken(<<>>) = 0
    <3>1. Sums([j \in {0} |-> 0], <<>>)
      BY <2>1 DEF Sums
    <3> QED BY <2>1, <3>1, SumsTaken
  <2> QED BY <2>2, <2>3, <1>1, <1>2 DEF Sums
<1>5. ASSUME NEW i \in 1..Len(bs), Good(i - 1) PROVE Good(i)
  <2> DEFINE out == R[i - 1]
  <2>1. /\ out \in Seq(Meta) /\ i \in DOMAIN bs /\ bs[i] \in Meta /\ R[i] = Join(out, bs[i])
        /\ Merged(out, bs, i - 1) /\ Taken(out) = S[i - 1] /\ S[i] = S[i - 1] + Weight(bs[i])
    BY <1>1, <1>2, <1>3, <1>5, MetaFacts DEF Merged, Sums
  <2>2. S[i - 1] \in Nat
    <3>1. i - 1 \in 0..Len(bs)
      BY <1>3
    <3> QED BY <3>1, <1>2
  <2> HIDE DEF out
  <2>3. CASE R[i] = Append(out, bs[i]) /\ (Len(out) > 0 => ~(out[Len(out)].free /\ bs[i].free))
    <3>1. Merged(R[i], bs, i)
      BY <2>1, <2>3, JoinAppends
    <3>2. Taken(R[i]) = Taken(out) + Weight(bs[i])
      BY <2>1, <2>3, TakenAppend
    <3> QED BY <3>1, <3>2, <2>1
  <2>4. CASE /\ Len(out) > 0 /\ out[Len(out)].free /\ bs[i].free
             /\ R[i] = [out EXCEPT ![Len(out)] = Grown(out, bs[i])]
    <3>1. Merged(R[i], bs, i)
      BY <2>1, <2>4, JoinGrows
    <3>2. Len(out) \in DOMAIN out /\ Grown(out, bs[i]) \in Meta /\ Grown(out, bs[i]).free
      <4>1. Len(out) \in Nat /\ DOMAIN out = 1..Len(out)
        BY <2>1, MetaFacts
      <4>2. Len(out) \in DOMAIN out
        BY <4>1, <2>4
      <4> QED BY <4>2, <2>1, <2>4, GrownFacts
    <3>3. Taken(R[i]) = Taken(out) - Weight(out[Len(out)]) + Weight(Grown(out, bs[i]))
      BY <2>1, <2>4, <3>2, TakenExcept
    <3>4. Weight(out[Len(out)]) = 0 /\ Weight(Grown(out, bs[i])) = 0 /\ Weight(bs[i]) = 0
      BY <2>4, <3>2 DEF Weight
    <3> QED BY <3>1, <3>3, <3>4, <2>1, <2>2
  <2> QED BY <2>1, <2>3, <2>4, JoinFacts
<1>6. Bad = {}
  <2> SUFFICES ASSUME Bad # {} PROVE FALSE
    OBVIOUS
  <2>1. PICK i \in Bad : \A k \in Bad : i <= k
    <3>1. Bad \subseteq Nat
      BY <1>3
    <3> HIDE DEF Bad
    <3> QED BY <3>1, NatMin
  <2>2. i \in 0..Len(bs) /\ ~Good(i)
    <3> HIDE DEF Good
    <3> QED BY <2>1
  <2> HIDE DEF Good
  <2>3. i # 0
    BY <2>2, <1>4
  <2>4. i \in 1..Len(bs) /\ i - 1 \in 0..Len(bs) /\ i - 1 \notin Bad
    <3>1. i \in 1..Len(bs) /\ i - 1 \in 0..Len(bs) /\ i - 1 < i
      BY <2>2, <2>3, <1>3
    <3> HIDE DEF Bad
    <3> QED BY <3>1, <2>1
  <2>5. Good(i - 1)
    BY <2>4
  <2> QED BY <2>2, <2>4, <2>5, <1>5
<1>7. Good(Len(bs))
  <2> HIDE DEF Good
  <2> QED BY <1>3, <1>6
<1> QED
  BY <1>1, <1>2, <1>7

-----------------------------------------------------------------------------
(* Each operation keeps the invariant. *)

THEOREM InitHeap == Init => HeapInv
<1> SUFFICES ASSUME Init PROVE HeapInv
  OBVIOUS
<1>1. /\ blocks = <<>> /\ end = 0 /\ allocated = 0 /\ live = <<>>
      /\ <<>> \in Seq(Meta) /\ Len(<<>>) = 0 /\ DOMAIN <<>> = {} /\ 1..0 - 1 = {}
  BY DEF Init
<1>2. Types /\ Placed /\ Given
  BY <1>1 DEF Types, Placed, Given, Ordered, Aligned
<1>3. Coalesced
  BY <1>1 DEF Coalesced
<1>4. Accounted
  <2>1. Sums([j \in {0} |-> 0], <<>>)
    BY <1>1 DEF Sums
  <2>2. Taken(<<>>) = 0
    BY <1>1, <2>1, SumsTaken
  <2> QED BY <1>1, <2>2 DEF Accounted
<1> QED
  BY <1>2, <1>3, <1>4 DEF HeapInv

\* What the caller gets next, pointer p of n bytes.
Gets(p, n) == live' = [q \in DOMAIN live \cup {p} |-> IF q = p THEN n ELSE live[q]]

\* A new block at the end of the list.
LEMMA GrowStep ==
  ASSUME HeapInv, NEW size \in Nat, Grow(size)
  PROVE  HeapInv'
<1> DEFINE b == [at |-> Realign(end), size |-> size, free |-> FALSE]
           n == Len(blocks)
<1>1. /\ size \in Nat \ {0} /\ end' = b.at + size + HeaderSize + 1
      /\ blocks' = Append(blocks, b)
      /\ allocated' = allocated + b.size + HeaderSize /\ Gets(b.at + HeaderSize, size)
  BY DEF Grow, Give, Gets
<1>2. /\ blocks \in Seq(Meta) /\ end \in Nat /\ allocated \in Int /\ HeaderSize \in Nat
      /\ live \in [DOMAIN live -> Nat]
  BY HeapAssumption DEF HeapInv, Types
<1>3. /\ b \in Meta /\ b.at \in Nat /\ b.size = size /\ ~b.free /\ end <= b.at
      /\ (b.at + HeaderSize) % MemoryAlign = 0
  BY <1>1, <1>2, RealignFacts DEF Meta
<1>4. Bound(b) \in Nat /\ Bound(b) < end' /\ end' \in Nat /\ b.at < Bound(b)
  <2>1. Bound(b) = b.at + HeaderSize + size /\ end' = b.at + size + HeaderSize + 1
    BY <1>1 DEF Bound
  <2> DEFINE a == b.at
  <2>2. a \in Nat
    BY <1>3
  <2>3. Bound(b) = a + HeaderSize + size /\ end' = a + size + HeaderSize + 1
    BY <2>1
  <2> HIDE DEF a, b
  <2>4. Bound(b) \in Nat /\ Bound(b) < end' /\ end' \in Nat /\ a < Bound(b)
    BY <2>2, <2>3, <1>1, HeapAssumption
  <2> QED BY <2>4 DEF a
<1>5. Weight(b) = size + HeaderSize
  BY <1>3 DEF Weight
<1> HIDE DEF b
<1>6. /\ n \in Nat /\ DOMAIN blocks = 1..n
      /\ \A i \in 1..n : /\ Bound(blocks[i]) \in Nat /\ Bound(blocks[i]) < end
                         /\ blocks[i].at \in Nat
  BY <1>2, MetaFacts DEF HeapInv, Placed
<1>7. /\ blocks' \in Seq(Meta) /\ Len(blocks') = n + 1 /\ DOMAIN blocks' = 1..n + 1
      /\ blocks'[n + 1] = b /\ \A i \in 1..n : blocks'[i] = blocks[i]
  BY <1>1, <1>2, <1>3, AppendProperties, MetaFacts
<1> HIDE DEF n
<1>8. Types'
  <2>1. live' \in [DOMAIN live' -> Nat]
    BY <1>1, <1>2 DEF Gets
  <2> QED BY <2>1, <1>1, <1>2, <1>3, <1>4, <1>7 DEF Types
<1>9. Placed'
  <2>1. ASSUME NEW i \in 1..n + 1, NEW j \in 1..n + 1, i < j
        PROVE  Bound(blocks'[i]) <= blocks'[j].at
    <3>1. CASE j = n + 1
      <4>1. i \in 1..n
        BY <2>1, <3>1, <1>6
      <4> QED BY <3>1, <4>1, <1>2, <1>3, <1>6, <1>7
    <3>2. CASE j # n + 1
      <4>1. i \in 1..n /\ j \in 1..n
        BY <2>1, <3>2, <1>6
      <4> QED BY <4>1, <2>1, <1>6, <1>7 DEF HeapInv, Placed, Ordered
    <3> QED BY <3>1, <3>2
  <2>2. ASSUME NEW i \in 1..n + 1
        PROVE  (blocks'[i].at + HeaderSize) % MemoryAlign = 0 /\ Bound(blocks'[i]) < end'
    <3>1. CASE i = n + 1
      BY <3>1, <1>3, <1>4, <1>7
    <3>2. CASE i # n + 1
      <4>1. i \in 1..n
        BY <3>2, <1>6
      <4>2. Bound(blocks[i]) < end'
        BY <4>1, <1>2, <1>3, <1>4, <1>6
      <4> QED BY <4>1, <4>2, <1>6, <1>7 DEF HeapInv, Placed, Aligned
    <3> QED BY <3>1, <3>2
  <2> QED BY <2>1, <2>2, <1>7 DEF Placed, Ordered, Aligned
<1>10. Given'
  <2> SUFFICES ASSUME NEW p \in DOMAIN live'
               PROVE  \E i \in DOMAIN blocks' : Holds(blocks'[i], p, live'[p])
    BY DEF Given
  <2>1. CASE p = b.at + HeaderSize
    <3>1. live'[p] = size /\ n + 1 \in 1..n + 1
      BY <2>1, <1>1, <1>6 DEF Gets
    <3> QED BY <2>1, <3>1, <1>1, <1>3, <1>7 DEF Holds
  <2>2. CASE p # b.at + HeaderSize
    <3>1. p \in DOMAIN live /\ live'[p] = live[p]
      BY <2>2, <1>1 DEF Gets
    <3>2. PICK i \in DOMAIN blocks : Holds(blocks[i], p, live[p])
      BY <3>1 DEF HeapInv, Given
    <3> QED BY <3>1, <3>2, <1>6, <1>7
  <2> QED BY <2>1, <2>2
<1>11. Accounted'
  BY <1>1, <1>2, <1>3, <1>5, TakenAppend DEF HeapInv, Accounted
<1>12. Coalesced'
  <2> SUFFICES ASSUME NEW i \in 1..n PROVE ~(blocks'[i].free /\ blocks'[i + 1].free)
    BY <1>6, <1>7 DEF Coalesced
  <2>1. CASE i = n
    BY <2>1, <1>3, <1>7
  <2>2. CASE i # n
    <3>1. i \in 1..n - 1 /\ i + 1 \in 1..n
      BY <2>2, <1>6
    <3> QED BY <3>1, <1>7 DEF HeapInv, Coalesced, n
  <2> QED BY <2>1, <2>2
<1> QED
  BY <1>8, <1>9, <1>10, <1>11, <1>12 DEF HeapInv

\* Two blocks of a list in order do not start at the same place.
LEMMA SameBlock ==
  ASSUME NEW bs \in Seq(Meta), Ordered(bs), NEW i \in DOMAIN bs, NEW j \in DOMAIN bs,
         bs[i].at = bs[j].at
  PROVE  i = j
<1>1. /\ i \in Nat /\ j \in Nat /\ bs[i].at \in Nat /\ bs[j].at \in Nat
      /\ bs[i].size \in Nat \ {0} /\ bs[j].size \in Nat \ {0} /\ HeaderSize \in Nat
  BY MetaFacts
<1>2. bs[i].at < Bound(bs[i]) /\ bs[j].at < Bound(bs[j])
  BY <1>1 DEF Bound
<1>3. Bound(bs[i]) \in Nat /\ Bound(bs[j]) \in Nat
  BY MetaFacts
<1>4. CASE i < j
  <2>1. Bound(bs[i]) <= bs[j].at
    BY <1>4 DEF Ordered
  <2> QED BY <2>1, <1>1, <1>2, <1>3
<1>5. CASE j < i
  <2>1. Bound(bs[j]) <= bs[i].at
    BY <1>5 DEF Ordered
  <2> QED BY <2>1, <1>1, <1>2, <1>3
<1> QED
  BY <1>1, <1>4, <1>5

\* A block is marked as free and merged with its neighbours.
LEMMA FreeStep ==
  ASSUME HeapInv, NEW p \in DOMAIN live, Free(p)
  PROVE  HeapInv'
<1>1. PICK i \in DOMAIN blocks :
        /\ blocks[i].at + HeaderSize = p
        /\ blocks' = Merge([blocks EXCEPT ![i].free = TRUE])
        /\ allocated' = allocated - (blocks[i].size + HeaderSize)
        /\ live' = [q \in DOMAIN live \ {p} |-> live[q]]
        /\ end' = end
  BY DEF Free
<1> DEFINE m == [blocks[i] EXCEPT !.free = TRUE]
           bs == [blocks EXCEPT ![i] = m]
<1>2. /\ blocks \in Seq(Meta) /\ end \in Nat /\ allocated \in Int /\ HeaderSize \in Nat
      /\ live \in [DOMAIN live -> Nat] /\ Ordered(blocks) /\ Aligned(blocks)
  BY HeapAssumption DEF HeapInv, Types, Placed
<1>3. /\ Len(blocks) \in Nat /\ DOMAIN blocks = 1..Len(blocks)
      /\ \A j \in DOMAIN blocks : /\ blocks[j] \in Meta /\ blocks[j].at \in Nat
                                  /\ blocks[j].size \in Nat \ {0}
  BY <1>2, MetaFacts
<1>4. ~blocks[i].free
  <2>1. PICK j \in DOMAIN blocks : Holds(blocks[j], p, live[p])
    BY DEF HeapInv, Given
  <2>2. blocks[j].at = blocks[i].at
    <3>1. blocks[j].at + HeaderSize = blocks[i].at + HeaderSize
      BY <1>1, <2>1 DEF Holds
    <3>2. blocks[j].at \in Nat /\ blocks[i].at \in Nat
      BY <1>3
    <3> QED BY <3>1, <3>2, <1>2
  <2>3. i = j
    BY <2>2, <1>2, SameBlock
  <2> QED BY <2>1, <2>3 DEF Holds
<1>5. m \in Meta /\ m.at = blocks[i].at /\ m.size = blocks[i].size /\ m.free
  BY <1>3 DEF Meta
<1>6. Bound(m) = Bound(blocks[i]) /\ Weight(m) = 0 /\ Weight(blocks[i]) = blocks[i].size + HeaderSize
  BY <1>4, <1>5 DEF Bound, Weight
<1>7. blocks' = Merge(bs)
  BY <1>1
<1> HIDE DEF m
<1>8. /\ bs \in Seq(Meta) /\ Len(bs) = Len(blocks) /\ DOMAIN bs = DOMAIN blocks
      /\ \A j \in DOMAIN blocks : bs[j] = IF j = i THEN m ELSE blocks[j]
  BY <1>2, <1>3, <1>5, ExceptSeq, MetaFacts
<1>9. Taken(bs) = Taken(blocks) - Weight(blocks[i]) + Weight(m)
  BY <1>2, <1>5, TakenExcept
<1> HIDE DEF bs
<1>10. \A j \in DOMAIN bs : bs[j].at = blocks[j].at /\ Bound(bs[j]) = Bound(blocks[j])
  BY <1>5, <1>6, <1>8
<1>11. Ordered(bs) /\ Aligned(bs)
  BY <1>2, <1>8, <1>10 DEF Ordered, Aligned
<1>12. Merged(blocks', bs, Len(bs)) /\ Taken(blocks') = Taken(bs)
  BY <1>7, <1>8, <1>11, MergeFacts
<1>13. blocks' \in Seq(Meta) /\ DOMAIN blocks' = 1..Len(blocks')
  BY <1>12, MetaFacts DEF Merged
<1>14. Types'
  <2>1. live' \in [DOMAIN live' -> Nat]
    BY <1>1, <1>2
  <2>2. blocks[i].size \in Nat
    BY <1>3
  <2> QED BY <2>1, <2>2, <1>1, <1>2, <1>13 DEF Types
<1>15. Placed'
  <2> SUFFICES ASSUME NEW k \in DOMAIN blocks' PROVE Bound(blocks'[k]) < end
    BY <1>1, <1>12 DEF Placed, Merged
  <2>1. PICK j \in DOMAIN bs : Bound(blocks'[k]) <= Bound(bs[j])
    BY <1>12 DEF Merged
  <2>2. Bound(bs[j]) < end
    BY <1>8, <1>10 DEF HeapInv, Placed
  <2>3. Bound(blocks'[k]) \in Nat /\ Bound(bs[j]) \in Nat
    BY <1>8, <1>13, MetaFacts
  <2> QED BY <2>1, <2>2, <2>3, <1>2
<1>16. Given'
  <2> SUFFICES ASSUME NEW q \in DOMAIN live \ {p}
               PROVE  \E k \in DOMAIN blocks' : Holds(blocks'[k], q, live[q])
    BY <1>1 DEF Given
  <2>1. PICK j \in DOMAIN blocks : Holds(blocks[j], q, live[q])
    BY DEF HeapInv, Given
  <2>2. j # i
    BY <2>1, <1>1 DEF Holds
  <2>3. bs[j] = blocks[j] /\ ~bs[j].free /\ j \in DOMAIN bs /\ j <= Len(bs)
    BY <2>1, <2>2, <1>3, <1>8 DEF Holds
  <2>4. PICK k \in DOMAIN blocks' : blocks'[k] = bs[j]
    BY <2>3, <1>12 DEF Merged
  <2> QED BY <2>1, <2>3, <2>4
<1>17. Accounted'
  <2>1. allocated = Taken(blocks) /\ blocks[i].size \in Nat
    BY <1>3 DEF HeapInv, Accounted
  <2> QED BY <2>1, <1>1, <1>2, <1>6, <1>9, <1>12 DEF Accounted
<1>18. Coalesced'
  BY <1>12 DEF Coalesced, Merged, NoFreePair
<1> QED
  BY <1>14, <1>15, <1>16, <1>17, <1>18 DEF HeapInv

\* r is what split() makes of blocks when the i-th is to hold size bytes: only
\* that block and the one it leaves behind may both be free.
Cleft(r, i, size) ==
    /\ r \in Seq(Meta) /\ Ordered(r) /\ Aligned(r) /\ Taken(r) = Taken(blocks)
    /\ \A k \in DOMAIN r : Bound(r[k]) < end
    /\ i \in DOMAIN r /\ r[i].free /\ r[i].size >= size
    /\ \A j \in DOMAIN blocks : ~blocks[j].free => \E k \in DOMAIN r : r[k] = blocks[j]
    /\ \A k \in 1..Len(r) - 1 : r[k].free /\ r[k + 1].free => k = i

LEMMA SplitCleft ==
  ASSUME HeapInv, NEW i \in DOMAIN blocks, NEW size \in Nat \ {0}, Fits(blocks[i], size)
  PROVE  Cleft(Split(blocks, i, size), i, size)
<1>1. /\ blocks \in Seq(Meta) /\ Ordered(blocks) /\ Aligned(blocks) /\ end \in Nat
      /\ \A j \in DOMAIN blocks : Bound(blocks[j]) < end
      /\ blocks[i].free /\ blocks[i].size >= size
  BY DEF HeapInv, Types, Placed, Fits
<1>2. CASE Split(blocks, i, size) = blocks
  BY <1>1, <1>2 DEF Cleft, HeapInv, Coalesced
<1>3. CASE Split(blocks, i, size) # blocks
  <2> DEFINE r == Split(blocks, i, size)
             n == Len(blocks)
             x == [blocks[i] EXCEPT !.size = size]
  <2>1. PICK new : Halved(r, blocks, i, size, new)
    BY <1>1, <1>3, SplitFacts
  <2>2. Taken(r) = Taken(blocks)
    BY <1>1, <2>1, TakenHalved
  <2> HIDE DEF r
  <2>3. /\ n \in Nat /\ DOMAIN blocks = 1..n /\ i \in 1..n /\ HeaderSize \in Nat
        /\ \A j \in 1..n : /\ blocks[j] \in Meta /\ blocks[j].at \in Nat
                           /\ blocks[j].size \in Nat \ {0} /\ Bound(blocks[j]) \in Nat
                           /\ blocks[j].at < Bound(blocks[j])
    <3>1. \A j \in DOMAIN blocks : blocks[j].at < Bound(blocks[j])
      BY <1>1, MetaFacts DEF Bound
    <3> QED BY <3>1, <1>1, MetaFacts, SMTT(60)
  <2>4. /\ x \in Meta /\ x.at = blocks[i].at /\ x.size = size /\ x.free
        /\ Bound(x) = blocks[i].at + HeaderSize + size
    BY <1>1, <2>3 DEF Meta, Bound
  <2> HIDE DEF x
  <2>5. /\ new \in Meta /\ new.free /\ new.at \in Nat /\ Bound(new) \in Nat /\ Bound(x) <= new.at
        /\ new.at < Bound(new) /\ (new.at + HeaderSize) % MemoryAlign = 0
        /\ i < n => Bound(new) <= blocks[i + 1].at
        /\ i = n => Bound(new) <= Bound(blocks[i])
    <3>1. new \in Meta /\ Bound(x) <= new.at
      BY <2>1, <2>4 DEF Halved
    <3>2. new.at \in Nat /\ new.size \in Nat \ {0}
      BY <3>1 DEF Meta
    <3>3. Bound(new) \in Nat /\ new.at < Bound(new)
      BY <3>2, <2>3 DEF Bound
    <3> QED BY <2>1, <2>3, <3>1, <3>2, <3>3, SMTT(60) DEF Halved, n
  <2>6. /\ r \in Seq(Meta) /\ Len(r) = n + 1 /\ DOMAIN r = 1..n + 1
        /\ \A j \in 1..n + 1 : r[j] = IF j < i THEN blocks[j] ELSE IF j = i THEN x
                                      ELSE IF j = i + 1 THEN new ELSE blocks[j - 1]
    <3>1. r \in Seq(Meta) /\ Len(r) = n + 1
      BY <2>1 DEF Halved, n
    <3> QED BY <3>1, <2>1, MetaFacts DEF Halved, n, x
  <2> HIDE DEF n
  <2>7. Bound(new) < end
    <3>1. CASE i < n
      <4>1. i + 1 \in 1..n
        BY <3>1, <2>3
      <4>2. /\ Bound(new) <= blocks[i + 1].at /\ blocks[i + 1].at < Bound(blocks[i + 1])
            /\ Bound(blocks[i + 1]) < end
        BY <3>1, <4>1, <2>3, <2>5, <1>1
      <4> QED BY <4>1, <4>2, <2>3, <2>5, <1>1
    <3>2. CASE i = n
      <4>1. Bound(new) <= Bound(blocks[i]) /\ Bound(blocks[i]) < end
        BY <3>2, <2>5, <1>1
      <4> QED BY <4>1, <2>3, <2>5, <1>1
    <3> QED BY <3>1, <3>2, <2>3
  <2>20. ASSUME NEW k \in 1..n + 1, k > i + 1
         PROVE  k - 1 \in 1..n /\ k - 1 \in i + 1..n /\ r[k] = blocks[k - 1]
    <3>1. ~(k < i) /\ k # i /\ k # i + 1
      BY <2>20, <2>3
    <3> QED BY <3>1, <2>20, <2>3, <2>6
  <2>8. ASSUME NEW k \in i + 1..n PROVE Bound(new) <= blocks[k].at
    <3>1. i + 1 \in 1..n /\ k \in 1..n /\ Bound(new) <= blocks[i + 1].at
      BY <2>3, <2>5
    <3>2. CASE k = i + 1
      BY <3>1, <3>2
    <3>3. CASE k # i + 1
      <4>1. i + 1 < k /\ i + 1 \in DOMAIN blocks /\ k \in DOMAIN blocks
        BY <3>1, <3>3, <2>3
      <4>3. Bound(blocks[i + 1]) <= blocks[k].at
        BY <4>1, <1>1 DEF Ordered
      <4> QED BY <4>3, <3>1, <2>3, <2>5, SMTT(60)
    <3> QED BY <3>2, <3>3
  <2>9. ASSUME NEW j \in 1..n + 1, NEW k \in 1..n + 1, j < k
        PROVE  Bound(r[j]) <= r[k].at
    <3>1. ASSUME NEW v \in 1..n, NEW w \in 1..n, v < w
          PROVE  Bound(blocks[v]) <= blocks[w].at
      BY <3>1, <2>3, <1>1 DEF Ordered
    <3>2. Bound(x) \in Nat /\ x.at \in Nat
      BY <2>4, MetaFacts, <2>3
    <3>3. CASE j < i /\ k <= i
      <4>2. k = i \/ k < i
        BY <3>3, <2>3
      <4>3. r[k].at = blocks[k].at
        BY <4>2, <2>3, <2>4, <2>6
      <4>1. j \in 1..n /\ i \in 1..n /\ k \in 1..n /\ r[j] = blocks[j] /\ r[k].at = blocks[k].at
        BY <3>3, <4>3, <2>3, <2>6
      <4> QED BY <4>1, <3>1, <2>9
    <3>4. CASE j < i /\ k = i + 1
      <4>1. /\ j \in 1..n /\ r[j] = blocks[j] /\ r[k] = new
            /\ Bound(blocks[j]) <= blocks[i].at
        BY <3>4, <3>1, <2>3, <2>6
      <4>2. blocks[i].at <= Bound(x) /\ Bound(x) <= new.at
        BY <2>3, <2>4, <2>5
      <4> QED BY <4>1, <4>2, <3>2, <2>3, <2>5, SMTT(60)
    <3>5. CASE j < i /\ k > i + 1
      <4>1. j \in 1..n /\ k - 1 \in 1..n /\ j < k - 1 /\ r[j] = blocks[j] /\ r[k] = blocks[k - 1]
        BY <3>5, <2>3, <2>6, <2>20
      <4> QED BY <4>1, <3>1
    <3>6. CASE j = i /\ k = i + 1
      BY <3>6, <2>3, <2>5, <2>6, SMTT(60)
    <3>7. CASE j \in {i, i + 1} /\ k > i + 1
      <4>1. k - 1 \in i + 1..n /\ r[k] = blocks[k - 1] /\ blocks[k - 1].at \in Nat
        BY <3>7, <2>3, <2>20
      <4>2. Bound(new) <= blocks[k - 1].at
        BY <4>1, <2>8
      <4>3. r[j] = x \/ r[j] = new
        BY <3>7, <2>3, <2>6
      <4> QED BY <4>1, <4>2, <4>3, <3>2, <2>5
    <3>8. CASE j > i + 1
      <4>2. k > i + 1 /\ j - 1 < k - 1
        BY <3>8, <2>9, <2>3
      <4>1. /\ j - 1 \in 1..n /\ k - 1 \in 1..n /\ j - 1 < k - 1
            /\ r[j] = blocks[j - 1] /\ r[k] = blocks[k - 1]
        BY <3>8, <4>2, <2>20
      <4> QED BY <4>1, <3>1
    <3> QED BY <2>9, <3>3, <3>4, <3>5, <3>6, <3>7, <3>8, <2>3, SMTT(60)
  <2>10. Ordered(r)
    BY <2>6, <2>9 DEF Ordered
  <2>11. ASSUME NEW k \in 1..n + 1
         PROVE  (r[k].at + HeaderSize) % MemoryAlign = 0 /\ Bound(r[k]) < end
    <3>1. ASSUME NEW v \in 1..n
          PROVE  (blocks[v].at + HeaderSize) % MemoryAlign = 0 /\ Bound(blocks[v]) < end
      BY <2>3, <1>1 DEF Aligned
    <3>2. Bound(x) < end /\ (x.at + HeaderSize) % MemoryAlign = 0
      <4>3. Bound(x) \in Nat
        BY <2>3, <2>4
      <4>1. Bound(x) \in Nat /\ Bound(x) <= new.at /\ new.at < Bound(new)
        BY <4>3, <2>5
      <4>2. Bound(x) < end
        BY <4>1, <2>5, <2>7, <1>1
      <4> QED BY <4>2, <3>1, <2>3, <2>4
    <3>3. CASE k < i
      BY <3>1, <3>3, <2>3, <2>6
    <3>4. CASE k = i
      BY <3>2, <3>4, <2>3, <2>6
    <3>5. CASE k = i + 1
      BY <3>5, <2>3, <2>5, <2>6, <2>7, SMTT(60)
    <3>6. CASE k > i + 1
      <4>1. k - 1 \in 1..n /\ r[k] = blocks[k - 1]
        BY <3>6, <2>20
      <4> QED BY <4>1, <3>1
    <3> QED BY <3>3, <3>4, <3>5, <3>6, <2>3
  <2>12. i \in 1..n + 1 /\ r[i] = x
    BY <2>3, <2>6
  <2>13. ASSUME NEW j \in 1..n, ~blocks[j].free PROVE \E k \in 1..n + 1 : r[k] = blocks[j]
    <3>1. j # i
      BY <2>13, <1>1
    <3>2. CASE j < i
      <4>1. j \in 1..n + 1 /\ r[j] = blocks[j]
        BY <3>2, <2>3, <2>6
      <4> QED BY <4>1
    <3>3. CASE j > i
      <4>1. j + 1 \in 1..n + 1 /\ j + 1 > i + 1 /\ (j + 1) - 1 = j
        BY <3>3, <2>3
      <4>2. r[j + 1] = blocks[j]
        BY <4>1, <2>20
      <4> QED BY <4>1, <4>2
    <3> QED BY <3>1, <3>2, <3>3, <2>3
  <2>14. ASSUME NEW k \in 1..n, r[k].free, r[k + 1].free PROVE k = i
    <3>1. ASSUME NEW v \in 1..n - 1 PROVE ~(blocks[v].free /\ blocks[v + 1].free)
      BY DEF HeapInv, Coalesced, n
    <3>2. CASE k + 1 < i
      <4>1. /\ k \in 1..n - 1 /\ r[k] = blocks[k] /\ r[k + 1] = blocks[k + 1]
        BY <3>2, <2>3, <2>6
      <4> QED BY <4>1, <3>1, <2>14
    <3>3. CASE k + 1 = i
      <4>1. k \in 1..n - 1 /\ r[k] = blocks[k] /\ blocks[k + 1].free
        BY <3>3, <2>3, <2>6, <1>1
      <4> QED BY <4>1, <3>1, <2>14
    <3>4. CASE k = i + 1
      <4>1. i \in 1..n - 1 /\ k + 1 \in 1..n + 1 /\ k + 1 > i + 1 /\ (k + 1) - 1 = i + 1
        BY <3>4, <2>3
      <4>2. r[k + 1] = blocks[i + 1]
        BY <4>1, <2>20
      <4> QED BY <4>1, <4>2, <3>1, <2>14, <1>1
    <3>5. CASE k > i + 1
      <4>1. /\ k - 1 \in 1..n - 1 /\ k \in 1..n + 1 /\ k + 1 \in 1..n + 1
            /\ k + 1 > i + 1 /\ (k + 1) - 1 = k /\ (k - 1) + 1 = k
        BY <3>5, <2>3
      <4>2. r[k] = blocks[k - 1] /\ r[k + 1] = blocks[(k - 1) + 1]
        BY <3>5, <4>1, <2>20
      <4> QED BY <4>1, <4>2, <3>1, <2>14
    <3> QED BY <3>2, <3>3, <3>4, <3>5, <2>3
  <2>15. Aligned(r) /\ \A k \in DOMAIN r : Bound(r[k]) < end
    BY <2>6, <2>11 DEF Aligned
  <2>16. \A k \in 1..Len(r) - 1 : r[k].free /\ r[k + 1].free => k = i
    <3>1. Len(r) - 1 = n
      BY <2>3, <2>6
    <3> QED BY <3>1, <2>14
  <2>17. size <= size
    OBVIOUS
  <2>18. \A j \in DOMAIN blocks : ~blocks[j].free => \E k \in DOMAIN r : r[k] = blocks[j]
    BY <2>3, <2>6, <2>13
  <2>19. Cleft(r, i, size)
    BY <2>2, <2>4, <2>6, <2>10, <2>12, <2>15, <2>16, <2>17, <2>18 DEF Cleft
  <2> QED BY <2>19 DEF r
<1> QED
  BY <1>2, <1>3

\* A free block is taken, after it was cut to the size asked for.
LEMMA ReuseStep ==
  ASSUME HeapInv, NEW size \in Nat, Reuse(size)
  PROVE  HeapInv'
<1>1. PICK i \in DOMAIN blocks :
        LET now == [Split(blocks, i, size) EXCEPT ![i].free = FALSE]
        IN  /\ size > 0 /\ Fits(blocks[i], size) /\ blocks' = now /\ Give(now[i], size)
            /\ end' = end
  BY DEF Reuse
<1> DEFINE r == Split(blocks, i, size)
           y == [r[i] EXCEPT !.free = FALSE]
<1>2. Cleft(r, i, size) /\ size \in Nat \ {0}
  BY <1>1, SplitCleft
<1>3. blocks' = [r EXCEPT ![i] = y] /\ Give(blocks'[i], size) /\ end' = end
  BY <1>1
<1> HIDE DEF r
<1>4. /\ r \in Seq(Meta) /\ Ordered(r) /\ Aligned(r) /\ Taken(r) = Taken(blocks)
      /\ i \in DOMAIN r /\ r[i].free /\ r[i].size >= size
      /\ \A k \in DOMAIN r : Bound(r[k]) < end
  BY <1>2 DEF Cleft
<1>5. /\ Len(r) \in Nat /\ DOMAIN r = 1..Len(r) /\ HeaderSize \in Nat
      /\ \A k \in DOMAIN r : r[k] \in Meta /\ r[k].at \in Nat /\ r[k].size \in Nat \ {0}
  BY <1>4, MetaFacts, HeapAssumption
<1>6. /\ y \in Meta /\ y.at = r[i].at /\ y.size = r[i].size /\ ~y.free
      /\ y.at \in Nat /\ y.size \in Nat
  BY <1>4, <1>5 DEF Meta
<1> HIDE DEF y
<1>7. /\ blocks' \in Seq(Meta) /\ Len(blocks') = Len(r) /\ DOMAIN blocks' = DOMAIN r
      /\ \A k \in DOMAIN r : blocks'[k] = IF k = i THEN y ELSE r[k]
  BY <1>3, <1>4, <1>5, <1>6, ExceptSeq, MetaFacts
<1>8. \A k \in DOMAIN r : blocks'[k].at = r[k].at /\ Bound(blocks'[k]) = Bound(r[k])
  BY <1>6, <1>7 DEF Bound
<1>9. /\ allocated' = allocated + y.size + HeaderSize /\ Gets(y.at + HeaderSize, size)
  BY <1>3, <1>4, <1>7 DEF Give, Gets
<1>10. Types'
  <2>1. /\ end \in Nat /\ allocated \in Int /\ live \in [DOMAIN live -> Nat]
    BY DEF HeapInv, Types
  <2>2. live' \in [DOMAIN live' -> Nat]
    BY <1>9, <2>1 DEF Gets
  <2> QED BY <2>1, <2>2, <1>3, <1>5, <1>6, <1>7, <1>9 DEF Types
<1>11. Placed'
  BY <1>3, <1>4, <1>7, <1>8 DEF Placed, Ordered, Aligned
<1>12. Given'
  <2> SUFFICES ASSUME NEW p \in DOMAIN live'
               PROVE  \E k \in DOMAIN blocks' : Holds(blocks'[k], p, live'[p])
    BY DEF Given
  <2>1. CASE p = y.at + HeaderSize
    <3>1. live'[p] = size
      BY <2>1, <1>9 DEF Gets
    <3> QED BY <2>1, <3>1, <1>4, <1>6, <1>7 DEF Holds
  <2>2. CASE p # y.at + HeaderSize
    <3>1. p \in DOMAIN live /\ live'[p] = live[p]
      BY <2>2, <1>9 DEF Gets
    <3>2. PICK j \in DOMAIN blocks : Holds(blocks[j], p, live[p])
      BY <3>1 DEF HeapInv, Given
    <3>3. PICK k \in DOMAIN r : r[k] = blocks[j]
      BY <3>2, <1>2 DEF Cleft, Holds
    <3>4. k # i
      BY <3>2, <3>3, <1>4 DEF Holds
    <3> QED BY <3>1, <3>2, <3>3, <3>4, <1>7
  <2> QED BY <2>1, <2>2
<1>13. Accounted'
  <2>1. Taken(blocks') = Taken(r) - Weight(r[i]) + Weight(y)
    BY <1>3, <1>4, <1>6, TakenExcept
  <2>2. Weight(r[i]) = 0 /\ Weight(y) = y.size + HeaderSize
    BY <1>4, <1>6 DEF Weight
  <2>3. allocated = Taken(blocks) /\ allocated \in Int
    BY DEF HeapInv, Accounted, Types
  <2> QED BY <2>1, <2>2, <2>3, <1>4, <1>5, <1>6, <1>9 DEF Accounted
<1>14. Coalesced'
  <2> SUFFICES ASSUME NEW k \in 1..Len(r) - 1, blocks'[k].free, blocks'[k + 1].free
               PROVE  FALSE
    BY <1>7 DEF Coalesced
  <2>1. k \in DOMAIN r /\ k + 1 \in DOMAIN r
    BY <1>5
  <2>2. k # i /\ r[k].free
    BY <2>1, <1>6, <1>7
  <2>3. r[k + 1].free
    <3>1. k + 1 # i
      BY <2>1, <1>6, <1>7
    <3> QED BY <3>1, <2>1, <1>7
  <2> QED BY <2>2, <2>3, <1>2 DEF Cleft
<1> QED
  BY <1>10, <1>11, <1>12, <1>13, <1>14 DEF HeapInv

-----------------------------------------------------------------------------
(* The theorems. *)

\* Every step of malloc() and free() keeps the invariant.
LEMMA StepHeap == HeapInv /\ [Next]_vars => HeapInv'
<1> SUFFICES ASSUME HeapInv, [Next]_vars PROVE HeapInv'
  OBVIOUS
<1>1. CASE UNCHANGED vars
  BY <1>1 DEF vars, HeapInv, Types, Placed, Given, Accounted, Coalesced
<1>2. CASE AllocateNothing
  BY <1>1, <1>2 DEF AllocateNothing
<1>3. ASSUME NEW size \in Request, Grow(size) PROVE HeapInv'
  BY <1>3, GrowStep, HeapAssumption
<1>4. ASSUME NEW size \in Request, Reuse(size) PROVE HeapInv'
  BY <1>4, ReuseStep, HeapAssumption
<1>5. ASSUME NEW p \in DOMAIN live, Free(p) PROVE HeapInv'
  BY <1>5, FreeStep
<1> QED
  BY <1>1, <1>2, <1>3, <1>4, <1>5 DEF Next

\* Of two blocks in a list, the bytes of one are apart from the header and the
\* bytes of the other.
LEMMA BlocksApart ==
  ASSUME NEW bs \in Seq(Meta), Ordered(bs), NEW i \in DOMAIN bs, NEW j \in DOMAIN bs,
         NEW n \in Nat, n <= bs[i].size
  PROVE  /\ Apart(bs[i].at + HeaderSize, n, bs[j].at, HeaderSize)
         /\ \A m \in Nat : i # j /\ m <= bs[j].size =>
                Apart(bs[i].at + HeaderSize, n, bs[j].at + HeaderSize, m)
<1> DEFINE a == bs[i].at
           b == bs[j].at
           s == bs[i].size
           t == bs[j].size
<1>1. /\ i \in Nat /\ j \in Nat /\ a \in Nat /\ b \in Nat /\ s \in Nat /\ t \in Nat
      /\ HeaderSize \in Nat
  BY MetaFacts
<1>2. i < j => a + HeaderSize + s <= b
  BY DEF Ordered, Bound
<1>3. j < i => b + HeaderSize + t <= a
  BY DEF Ordered, Bound
<1>4. n <= s /\ (i = j => a = b)
  OBVIOUS
<1> HIDE DEF a, b, s, t
<1>5. Apart(a + HeaderSize, n, b, HeaderSize)
  BY <1>1, <1>2, <1>3, <1>4 DEF Apart
<1>6. ASSUME NEW m \in Nat, i # j, m <= t
      PROVE  Apart(a + HeaderSize, n, b + HeaderSize, m)
  BY <1>1, <1>2, <1>3, <1>4, <1>6 DEF Apart
<1> QED
  BY <1>5, <1>6 DEF a, b, t

LEMMA HeapInvIntact == HeapInv => LiveIntact
<1> SUFFICES ASSUME HeapInv, NEW p \in DOMAIN live
             PROVE  /\ \A q \in DOMAIN live \ {p} : Apart(p, live[p], q, live[q])
                    /\ \A i \in DOMAIN blocks : Apart(p, live[p], blocks[i].at, HeaderSize)
                    /\ \E i \in DOMAIN blocks : blocks[i].at + HeaderSize = p /\ ~blocks[i].free
  BY DEF LiveIntact
<1>1. blocks \in Seq(Meta) /\ Ordered(blocks) /\ \A q \in DOMAIN live : live[q] \in Nat
  BY DEF HeapInv, Types, Placed
<1>2. PICK i \in DOMAIN blocks : Holds(blocks[i], p, live[p])
  BY DEF HeapInv, Given
<1>3. ASSUME NEW q \in DOMAIN live \ {p} PROVE Apart(p, live[p], q, live[q])
  <2>1. PICK j \in DOMAIN blocks : Holds(blocks[j], q, live[q])
    BY DEF HeapInv, Given
  <2>2. i # j
    BY <1>2, <2>1 DEF Holds
  <2> QED BY <1>1, <1>2, <2>1, <2>2, BlocksApart DEF Holds
<1>4. ASSUME NEW j \in DOMAIN blocks PROVE Apart(p, live[p], blocks[j].at, HeaderSize)
  BY <1>1, <1>2, BlocksApart DEF Holds
<1> QED
  BY <1>2, <1>3, <1>4 DEF Holds

\* In every state malloc() and free() can reach, the list is in order and aligned,
\* what callers hold is in it, and the count and the merging are right.
THEOREM SpecHeapInv == Spec => []HeapInv
<1> QED
  BY InitHeap, StepHeap, PTL DEF Spec

\* What callers of malloc() hold lies in blocks of their own, apart from every
\* header and from what other callers hold.
THEOREM SpecLiveIntact == Spec => []LiveIntact
<1> QED
  BY SpecHeapInv, HeapInvIntact, PTL

\* What allocate() adds to the count is what free() takes off.
THEOREM SpecAccounted == Spec => []Accounted
<1>1. HeapInv => Accounted
  BY DEF HeapInv
<1> QED
  BY <1>1, SpecHeapInv, PTL

\* merge() leaves no two free neighbours, and split() brings none about.
THEOREM SpecCoalesced == Spec => []Coalesced
<1>1. HeapInv => Coalesced
  BY DEF HeapInv
<1> QED
  BY <1>1, SpecHeapInv, PTL

-----------------------------------------------------------------------------
(* The heap of the kernel is the heap. *)

\* Booting and making ports leave the heap alone, and its pages do not matter to it.
LEMMA StepIsHeap == [NextMemory]_<<vars, mvars>> => [Next]_vars
<1> SUFFICES ASSUME [NextMemory]_<<vars, mvars>> PROVE [Next]_vars
  OBVIOUS
<1>1. CASE UNCHANGED <<vars, mvars>>
  BY <1>1
<1>2. CASE BootPage \/ ApicInit \/ (Running /\ MakePort)
  BY <1>2 DEF BootPage, ApicInit, MakePort
<1>3. ASSUME NEW size \in Request, GrowMapped(size) PROVE Next
  BY <1>3 DEF GrowMapped, Next
<1>4. ASSUME NEW size \in Request, GrowStuck(size) PROVE UNCHANGED vars
  BY <1>4 DEF GrowStuck
<1>5. ASSUME NEW size \in Request, Reuse(size) PROVE Next
  BY <1>5 DEF Next
<1>6. ASSUME NEW p \in DOMAIN live, Free(p) PROVE Next
  BY <1>6 DEF Next
<1>7. CASE AllocateNothing
  BY <1>7 DEF Next
<1> QED
  BY <1>1, <1>2, <1>3, <1>4, <1>5, <1>6, <1>7 DEF NextMemory

\* With its pages, from the boot on, the heap does what it does alone.
THEOREM MemoryIsHeap == SpecMemory => Spec
<1>1. InitMemory => Init
  BY DEF InitMemory
<1> QED
  BY <1>1, StepIsHeap, PTL DEF SpecMemory, Spec

\* What callers of malloc() hold lies in blocks of their own, apart from every
\* header and from what other callers hold: no store of theirs reaches the list.
THEOREM MemoryLiveIntact == SpecMemory => []LiveIntact
BY MemoryIsHeap, SpecLiveIntact, PTL

\* The count of allocated bytes is that of the blocks in use.
THEOREM MemoryAccounted == SpecMemory => []Accounted
BY MemoryIsHeap, SpecAccounted, PTL

\* merge() leaves no two free neighbours, and split() brings none about.
THEOREM MemoryCoalesced == SpecMemory => []Coalesced
BY MemoryIsHeap, SpecCoalesced, PTL

-----------------------------------------------------------------------------
(* The memory as a set of states, and the loops over it. *)

\* Names of entries: what a walk goes through, and the leaves.
EntrySpace == {EntryOf(v, level) : v \in Nat, level \in 1..Levels} \cup {<<Levels, v>> : v \in Nat}

Memories ==
    [used    : FiniteSubsetsOf(Nat),
     entries : UNION {[S -> Nat] : S \in FiniteSubsetsOf(EntrySpace)},
     stuck   : BOOLEAN]

\* A walk does not leave D.
Walked(D, v, by) == \A d \in D, level \in 1..Levels - 1 : Level(d, EntryOf(v, level), by) \in D

LEMMA TablesIn ==
  ASSUME NEW D, NEW m \in D, NEW v, NEW by, Walked(D, v, by)
  PROVE  Tables(m, v, by) \in D
<1> DEFINE n == Levels - 1
           q == [l \in 1..n |-> l]
           G(it) == it = [s \in SUBSET DOMAIN q |->
                             IF s = {} THEN m
                             ELSE Level(it[s \ {Max(s)}], EntryOf(v, q[Max(s)]), by)]
           iter == CHOOSE it : G(it)
           F == [z \in (1..n) \X D |-> Level(z[2], EntryOf(v, z[1]), by)]
<1>1. Tables(m, v, by) = iter[DOMAIN q]
  BY DEF Tables, FoldLeft, MapThenFoldSet
<1>2. n \in Nat /\ DOMAIN q = 1..n /\ \A l \in 1..n : q[l] = l
  BY PagingAssumption
<1>3. ASSUME NEW i \in 1..n, NEW d \in D
      PROVE  F[<<i, d>>] \in D /\ F[<<i, d>>] = Level(d, EntryOf(v, i), by)
  BY DEF Walked
<1>4. ASSUME NEW s \in SUBSET (1..n), s # {} PROVE Max(s) \in 1..n
  <2>1. s \subseteq 0..n
    BY <1>2
  <2> QED BY ONLY <1>2, <1>4, <2>1, MaxFact
<1> HIDE DEF F, n, q
<1>5. Turns(n, D, F)
  BY <1>3 DEF Turns
<1>6. \E it : G(it)
  <2>1. PICK it : it = [s \in SUBSET (1..n) |-> it[s]] /\ Folds(it, n, D, m, F)
    BY <1>2, <1>5, FoldExists
  <2>2. ASSUME NEW s \in SUBSET (1..n), s # {}
        PROVE  it[s] = Level(it[s \ {Max(s)}], EntryOf(v, q[Max(s)]), by)
    BY <1>2, <1>3, <1>4, <2>1, <2>2, ZenonT(60) DEF Folds
  <2>3. it[{}] = m
    BY <2>1 DEF Folds
  <2>4. it = [s \in SUBSET (1..n) |->
                 IF s = {} THEN m ELSE Level(it[s \ {Max(s)}], EntryOf(v, q[Max(s)]), by)]
    BY <2>1, <2>2, <2>3
  <2> QED BY <2>4, <1>2, ZenonT(60)
<1>7. G(iter)
  <2> HIDE DEF G
  <2> QED BY <1>6
<1> HIDE DEF iter
<1>8. Follows(iter, n, D, m, F)
  <2>1. iter[{}] = m
    BY <1>2, <1>7
  <2>2. ASSUME NEW s \in SUBSET (1..n), s # {}, iter[s \ {Max(s)}] \in D
        PROVE  iter[s] = F[<<Max(s), iter[s \ {Max(s)}]>>]
    <3>1. iter[s] = Level(iter[s \ {Max(s)}], EntryOf(v, q[Max(s)]), by)
      BY <1>2, <1>7, <2>2
    <3>2. Max(s) \in 1..n /\ q[Max(s)] = Max(s)
      BY <1>2, <1>4, <2>2
    <3> QED BY <3>1, <3>2, <2>2, <1>3
  <2> QED BY <2>1, <2>2 DEF Follows
<1>9. PICK R : States(R, n, D, m, F, iter[1..n])
  BY <1>2, <1>5, <1>8, FoldStates
<1>10. n \in 0..n
  BY <1>2
<1> QED
  BY <1>1, <1>2, <1>9, <1>10 DEF States

-----------------------------------------------------------------------------
(* One step of the walk. *)

LEMMA SpaceFacts ==
  /\ \A e \in EntrySpace : e[1] \in 1..Levels
  /\ \A v \in Nat : <<Levels, v>> \in EntrySpace
  /\ \A v \in Nat, level \in 1..Levels - 1 : EntryOf(v, level) \in EntrySpace
  /\ \A v \in Nat, level \in 1..Levels - 1 : EntryOf(v, level)[1] = level
BY PagingAssumption DEF EntrySpace, EntryOf

LEMMA MemoryFacts ==
  ASSUME NEW m \in Memories
  PROVE  /\ m.used \in SUBSET Nat /\ IsFiniteSet(m.used) /\ m.stuck \in BOOLEAN
         /\ DOMAIN m.entries \in SUBSET EntrySpace /\ IsFiniteSet(DOMAIN m.entries)
         /\ m.entries = [e \in DOMAIN m.entries |-> m.entries[e]]
         /\ \A e \in DOMAIN m.entries : m.entries[e] \in Nat
         /\ m = [used |-> m.used, entries |-> m.entries, stuck |-> m.stuck]
<1>1. /\ m.used \in FiniteSubsetsOf(Nat) /\ m.stuck \in BOOLEAN
      /\ m.entries \in UNION {[S -> Nat] : S \in FiniteSubsetsOf(EntrySpace)}
      /\ m = [used |-> m.used, entries |-> m.entries, stuck |-> m.stuck]
  BY DEF Memories
<1>2. PICK S \in FiniteSubsetsOf(EntrySpace) : m.entries \in [S -> Nat]
  BY <1>1
<1> QED
  BY <1>1, <1>2 DEF FiniteSubsetsOf

LEMMA MemoryIs ==
  ASSUME NEW u \in SUBSET Nat, IsFiniteSet(u), NEW S \in SUBSET EntrySpace, IsFiniteSet(S),
         NEW f \in [S -> Nat], NEW b \in BOOLEAN
  PROVE  [used |-> u, entries |-> f, stuck |-> b] \in Memories
<1>1. S \in FiniteSubsetsOf(EntrySpace) /\ u \in FiniteSubsetsOf(Nat)
  BY DEF FiniteSubsetsOf
<1>2. f \in UNION {[T -> Nat] : T \in FiniteSubsetsOf(EntrySpace)}
  BY <1>1
<1> QED
  BY <1>1, <1>2 DEF Memories

\* n is m with page in the entry e.
Has(n, m, e, page) ==
    /\ n \in Memories /\ n.used = m.used /\ n.stuck = m.stuck
    /\ DOMAIN n.entries = DOMAIN m.entries \cup {e} /\ n.entries[e] = page
    /\ \A x \in DOMAIN m.entries : x # e => n.entries[x] = m.entries[x]

LEMMA PutFacts ==
  ASSUME NEW m \in Memories, NEW e \in EntrySpace, NEW page \in Nat
  PROVE  Has(Put(m, e, page), m, e, page)
<1> DEFINE S == DOMAIN m.entries \cup {e}
           f == [x \in S |-> IF x = e THEN page ELSE m.entries[x]]
<1>1. /\ m.used \in SUBSET Nat /\ IsFiniteSet(m.used) /\ m.stuck \in BOOLEAN
      /\ DOMAIN m.entries \in SUBSET EntrySpace /\ IsFiniteSet(DOMAIN m.entries)
      /\ \A x \in DOMAIN m.entries : m.entries[x] \in Nat
  BY MemoryFacts
<1>2. S \in SUBSET EntrySpace /\ IsFiniteSet(S)
  BY <1>1, FS_AddElement
<1>3. f \in [S -> Nat]
  BY <1>1
<1>4. Put(m, e, page) = [used |-> m.used, entries |-> f, stuck |-> m.stuck]
  BY DEF Put, Memories
<1>5. /\ DOMAIN f = DOMAIN m.entries \cup {e} /\ f[e] = page
      /\ \A x \in DOMAIN m.entries : x # e => f[x] = m.entries[x]
  OBVIOUS
<1> HIDE DEF S, f
<1> QED
  BY <1>1, <1>2, <1>3, <1>4, <1>5, MemoryIs DEF Has

\* n is m with the frame f marked.
Marked(n, m, f) ==
    n \in Memories /\ n.used = m.used \cup {f} /\ n.stuck = m.stuck /\ n.entries = m.entries

LEMMA MarkFacts ==
  ASSUME NEW m \in Memories, NEW f \in Nat
  PROVE  Marked([m EXCEPT !.used = @ \cup {f}], m, f)
<1> DEFINE n == [m EXCEPT !.used = @ \cup {f}]
<1>1. n = [used |-> m.used \cup {f}, entries |-> m.entries, stuck |-> m.stuck]
  BY DEF Memories
<1>2. m.used \cup {f} \in SUBSET Nat /\ IsFiniteSet(m.used \cup {f})
  BY MemoryFacts, FS_AddElement
<1>3. /\ m.entries \in [DOMAIN m.entries -> Nat] /\ m.stuck \in BOOLEAN
      /\ DOMAIN m.entries \in SUBSET EntrySpace /\ IsFiniteSet(DOMAIN m.entries)
  BY MemoryFacts
<1>4. n \in Memories
  <2> HIDE DEF n
  <2> QED BY <1>1, <1>2, <1>3, MemoryIs
<1> QED
  BY <1>1, <1>4 DEF Marked

\* The allocators find frames that are free, if any.
LEMMA BootFreeFacts ==
  ASSUME NEW used \in SUBSET Nat, IsFiniteSet(used)
  PROVE  /\ BootFree(used) \in Nat \ used
         /\ BootFree(used) <= BootBits + Cardinality(used)
<1> DEFINE c == Cardinality(used)
           I == BootBits..BootBits + c
<1>1. c \in Nat /\ BootBits \in Nat
  BY FS_CardinalityType, PagingAssumption
<1>2. IsFiniteSet(I) /\ Cardinality(I) = c + 1 /\ I \subseteq Nat
  <2> DEFINE b == BootBits + c
  <2>1. b \in Int /\ BootBits \in Int /\ ~(BootBits > b) /\ b - BootBits + 1 = c + 1
    BY <1>1
  <2>2. I \subseteq Nat
    BY <1>1
  <2>3. I = BootBits..b
    OBVIOUS
  <2> HIDE DEF b, I, c
  <2>4. /\ IsFiniteSet(BootBits..b)
        /\ Cardinality(BootBits..b) = IF BootBits > b THEN 0 ELSE b - BootBits + 1
    BY <2>1, FS_Interval
  <2> QED BY <2>1, <2>2, <2>3, <2>4
<1>3. I \ used # {}
  <2> SUFFICES ASSUME I \subseteq used PROVE FALSE
    OBVIOUS
  <2>1. Cardinality(I) <= c
    BY FS_Subset
  <2> QED BY <2>1, <1>1, <1>2
<1>4. Min(I \ used) \in I \ used
  <2>1. I \ used \subseteq Nat
    BY <1>2
  <2> QED BY ONLY <1>3, <2>1, MinFact
<1>5. BootFree(used) = Min(I \ used)
  BY DEF BootFree
<1> QED
  BY <1>1, <1>2, <1>4, <1>5

LEMMA WholeWords ==
  ASSUME NEW n \in Nat, NEW w \in Nat \ {0}
  PROVE  (n \div w) * w \in Nat /\ (n \div w) * w <= n
OBVIOUS

LEMMA FindFreeFacts ==
  ASSUME NEW used \in SUBSET Nat, FindFree(used) # -1
  PROVE  FindFree(used) \in Nat \ used /\ PhysicalStart + FindFree(used) < MemoryHigh
<1> DEFINE w == (Pages \div WordBits) * WordBits
           F == (0..w - 1) \ used
<1>1. Pages \in Nat /\ WordBits \in Nat \ {0} /\ PhysicalStart \in Nat /\ MemoryHigh \in Nat
  BY PagingAssumption DEF Pages
<1>2. w \in Nat /\ w <= Pages
  BY <1>1, WholeWords
<1> HIDE DEF w
<1>3. F # {} /\ FindFree(used) = Min(F) /\ F \subseteq Nat
  BY <1>2 DEF FindFree, w
<1>4. Min(F) \in F
  <2> HIDE DEF F
  <2> QED BY ONLY <1>3, MinFact
<1> QED
  BY <1>1, <1>2, <1>3, <1>4 DEF Pages

\* n is m with the entry e, which was missing, for the frame f, which was free.
Took(n, m, e, f) ==
    /\ n \in Memories /\ f \in Nat \ m.used /\ e \notin DOMAIN m.entries
    /\ n.used = m.used \cup {f} /\ n.stuck = m.stuck
    /\ DOMAIN n.entries = DOMAIN m.entries \cup {e} /\ n.entries[e] = PhysicalStart + f
    /\ \A x \in DOMAIN m.entries : n.entries[x] = m.entries[x]

\* How far the frames go that an allocator hands out.
Near(by, m, f) ==
    IF by = "boot" THEN f <= BootBits + Cardinality(m.used) ELSE PhysicalStart + f < MemoryHigh

\* One level of a walk: nothing to do, no frame left, or a new page.
LEMMA LevelFacts ==
  ASSUME NEW m \in Memories, NEW e \in EntrySpace, NEW by \in {"boot", "pager"}
  PROVE  \/ Level(m, e, by) = m /\ (m.stuck \/ e \in DOMAIN m.entries)
         \/ /\ by = "pager" /\ Level(m, e, by) = [m EXCEPT !.stuck = TRUE]
         \/ /\ ~m.stuck
            /\ \E f : Took(Level(m, e, by), m, e, f) /\ Near(by, m, f)
<1> DEFINE f == FreeFrame(by, m.used)
           k == [m EXCEPT !.used = @ \cup {f}]
<1>1. m.used \in SUBSET Nat /\ IsFiniteSet(m.used)
  BY MemoryFacts
<1>2. CASE m.stuck \/ e \in DOMAIN m.entries
  BY <1>2 DEF Level
<1>3. CASE ~m.stuck /\ e \notin DOMAIN m.entries /\ f = -1
  <2>1. by = "pager"
    BY <1>1, <1>3, BootFreeFacts DEF FreeFrame
  <2> QED BY <1>3, <2>1 DEF Level
<1>4. CASE ~m.stuck /\ e \notin DOMAIN m.entries /\ f # -1
  <2>1. f \in Nat \ m.used /\ Near(by, m, f)
    <3>1. CASE by = "boot"
      BY <3>1, <1>1, BootFreeFacts DEF FreeFrame, Near
    <3>2. CASE by = "pager"
      BY <3>2, <1>1, <1>4, FindFreeFacts DEF FreeFrame, Near
    <3> QED BY <3>1, <3>2
  <2>2. Level(m, e, by) = Put(k, e, PhysicalStart + f)
    BY <1>4 DEF Level
  <2> HIDE DEF f
  <2>3. Marked(k, m, f)
    BY <2>1, MarkFacts
  <2>4. PhysicalStart + f \in Nat
    BY <2>1, PagingAssumption
  <2> HIDE DEF k
  <2>5. Has(Put(k, e, PhysicalStart + f), k, e, PhysicalStart + f)
    BY <2>3, <2>4, PutFacts DEF Marked
  <2>6. Took(Level(m, e, by), m, e, f)
    BY <1>4, <2>1, <2>2, <2>3, <2>5 DEF Took, Has, Marked
  <2> QED BY <1>4, <2>1, <2>6
<1> QED
  BY <1>2, <1>3, <1>4

LEMMA HaltFacts ==
  ASSUME NEW m \in Memories
  PROVE  LET n == [m EXCEPT !.stuck = TRUE]
         IN  n \in Memories /\ n.used = m.used /\ n.entries = m.entries /\ n.stuck
BY DEF Memories

-----------------------------------------------------------------------------
(* What holds of the memory throughout. *)

\* The entries whose pages were allocated.
IsOwn(e) == \/ e[1] < Levels \/ e[2] > LastPage - StackPages
            \/ HeapPage <= e[2] /\ e[2] < MemoryMap

OwnIn(m) == {e \in DOMAIN m.entries : IsOwn(e)}

\* Their frames are marked, different, and not in X, the frames given to others.
Sound(m, X) ==
    /\ X \subseteq m.used
    /\ \A e \in OwnIn(m) : m.entries[e] - PhysicalStart \in m.used \ X
    /\ \A e, g \in OwnIn(m) : e # g => m.entries[e] # m.entries[g]

\* Tables lie in memory, and what is mapped before the heap is mapped to itself.
LowTables(m) == \A e \in DOMAIN m.entries : e[1] < Levels => m.entries[e] <= MemoryHigh
Identity(m)  == \A v \in 0..HeapPage - 1 :
                    <<Levels, v>> \in DOMAIN m.entries => m.entries[<<Levels, v>>] = v

Valid(m, X) == m \in Memories /\ Sound(m, X) /\ LowTables(m) /\ Identity(m)

\* n is m with more frames marked and more entries, of tables.
Grew(n, m) ==
    /\ m.used \subseteq n.used /\ DOMAIN m.entries \subseteq DOMAIN n.entries
    /\ m.stuck => n.stuck
    /\ \A e \in DOMAIN m.entries : n.entries[e] = m.entries[e]
    /\ \A e \in DOMAIN n.entries \ DOMAIN m.entries : e[1] < Levels

\* A frame is marked for somebody.
LEMMA MarkSound ==
  ASSUME NEW m \in Memories, NEW X, NEW f \in Nat \ m.used, NEW n, Marked(n, m, f), Sound(m, X)
  PROVE  Sound(n, X \cup {f}) /\ (Valid(m, X) => Valid(n, X \cup {f}))
BY DEF Sound, Marked, OwnIn, Valid, LowTables, Identity

\* A page that was marked becomes that of an entry.
LEMMA HasSound ==
  ASSUME NEW m \in Memories, NEW X, Sound(m, X), NEW f \in X, NEW e, NEW n,
         Has(n, m, e, PhysicalStart + f)
  PROVE  Sound(n, X \ {f})
<1>1. /\ PhysicalStart \in Nat /\ f \in Nat /\ f \in m.used
      /\ \A g \in DOMAIN m.entries : m.entries[g] \in Nat
  BY MemoryFacts, PagingAssumption DEF Sound
<1>2. (PhysicalStart + f) - PhysicalStart = f
  BY <1>1
<1>3. ASSUME NEW g \in OwnIn(n), g # e
      PROVE  g \in OwnIn(m) /\ n.entries[g] = m.entries[g]
  BY <1>3 DEF OwnIn, Has
<1>4. \A g \in OwnIn(m) : m.entries[g] # PhysicalStart + f
  BY <1>2 DEF Sound
<1>5. n.entries[e] = PhysicalStart + f /\ n.used = m.used
  BY DEF Has
<1>6. ASSUME NEW g \in OwnIn(n)
      PROVE  n.entries[g] - PhysicalStart \in n.used \ (X \ {f})
  BY <1>1, <1>2, <1>3, <1>5 DEF Sound
<1>7. ASSUME NEW g \in OwnIn(n), NEW h \in OwnIn(n), g # h
      PROVE  n.entries[g] # n.entries[h]
  BY <1>3, <1>4, <1>5, <1>7 DEF Sound
<1> QED
  BY <1>5, <1>6, <1>7 DEF Sound

\* Entries of others do not matter.
LEMMA OtherSound ==
  ASSUME NEW m \in Memories, NEW X, Sound(m, X), NEW e, ~IsOwn(e), NEW page, NEW n,
         Has(n, m, e, page)
  PROVE  Sound(n, X)
<1>1. \A g \in OwnIn(n) : g \in OwnIn(m) /\ n.entries[g] = m.entries[g]
  BY DEF OwnIn, Has
<1> QED
  BY <1>1 DEF Sound, Has

LEMMA TookSound ==
  ASSUME NEW m \in Memories, NEW X, Sound(m, X), NEW e, NEW f, NEW n, Took(n, m, e, f)
  PROVE  Sound(n, X)
<1>1. /\ PhysicalStart \in Nat /\ f \in Nat
      /\ \A g \in DOMAIN m.entries : m.entries[g] \in Nat
  BY MemoryFacts, PagingAssumption DEF Took
<1>2. (PhysicalStart + f) - PhysicalStart = f
  BY <1>1
<1>3. ASSUME NEW g \in OwnIn(n), g # e
      PROVE  g \in OwnIn(m) /\ n.entries[g] = m.entries[g]
  BY <1>3 DEF OwnIn, Took
<1>4. \A g \in OwnIn(m) : m.entries[g] # PhysicalStart + f
  BY <1>2 DEF Sound, Took
<1>5. n.entries[e] = PhysicalStart + f /\ n.used = m.used \cup {f} /\ f \notin m.used
  BY DEF Took
<1>6. ASSUME NEW g \in OwnIn(n)
      PROVE  n.entries[g] - PhysicalStart \in n.used \ X
  BY <1>2, <1>3, <1>5 DEF Sound
<1>7. ASSUME NEW g \in OwnIn(n), NEW h \in OwnIn(n), g # h
      PROVE  n.entries[g] # n.entries[h]
  BY <1>3, <1>4, <1>5, <1>7 DEF Sound
<1> QED
  BY <1>5, <1>6, <1>7 DEF Sound

-----------------------------------------------------------------------------
(* The pager keeps all that. *)

\* n is m with more frames marked and more entries.
Kept(n, m) ==
    /\ m.used \subseteq n.used /\ DOMAIN m.entries \subseteq DOMAIN n.entries
    /\ m.stuck => n.stuck
    /\ \A e \in DOMAIN m.entries : n.entries[e] = m.entries[e]

LEMMA TookTable ==
  ASSUME NEW m, NEW X, Valid(m, X), NEW e, e[1] < Levels, NEW f, NEW n, Took(n, m, e, f),
         PhysicalStart + f <= MemoryHigh
  PROVE  Valid(n, X) /\ Grew(n, m)
<1>1. m \in Memories /\ Sound(n, X)
  BY TookSound DEF Valid
<1>2. LowTables(n)
  BY DEF LowTables, Took, Valid
<1>3. Identity(n)
  <2>1. \A v \in Nat : <<Levels, v>> # e
    BY PagingAssumption
  <2> QED BY <2>1, MemoryAssumption DEF Identity, Took, Valid
<1> QED
  BY <1>1, <1>2, <1>3 DEF Valid, Grew, Took

LEMMA Halting ==
  ASSUME NEW m, NEW X, Valid(m, X)
  PROVE  LET n == [m EXCEPT !.stuck = TRUE]
         IN  Valid(n, X) /\ Grew(n, m) /\ n.stuck
<1> DEFINE n == [m EXCEPT !.stuck = TRUE]
<1>1. n \in Memories /\ n.used = m.used /\ n.entries = m.entries /\ n.stuck
  BY HaltFacts DEF Valid
<1> HIDE DEF n
<1>2. Valid(n, X) /\ Grew(n, m) /\ n.stuck
  BY <1>1 DEF Valid, Sound, OwnIn, LowTables, Identity, Grew
<1> QED
  BY <1>2 DEF n

LEMMA PagerTables ==
  ASSUME NEW m, NEW X, Valid(m, X), NEW v \in Nat
  PROVE  Valid(Tables(m, v, "pager"), X) /\ Grew(Tables(m, v, "pager"), m)
<1> DEFINE D == {n \in Memories : Valid(n, X) /\ Grew(n, m)}
<1>1. m \in D
  BY DEF Valid, Grew
<1>2. ASSUME NEW d \in D, NEW level \in 1..Levels - 1
      PROVE  Level(d, EntryOf(v, level), "pager") \in D
  <2> DEFINE e == EntryOf(v, level)
             n == Level(d, e, "pager")
  <2>1. e \in EntrySpace /\ e[1] < Levels
    BY SpaceFacts, PagingAssumption
  <2>2. d \in Memories /\ Valid(d, X) /\ Grew(d, m)
    OBVIOUS
  <2> HIDE DEF e, D
  <2>3. Valid(n, X) /\ Grew(n, d)
    <3>1. CASE n = d
      BY <3>1, <2>2 DEF Grew
    <3>2. CASE n = [d EXCEPT !.stuck = TRUE]
      BY <3>2, <2>2, Halting
    <3>3. ASSUME NEW f, Took(n, d, e, f), Near("pager", d, f) PROVE Valid(n, X) /\ Grew(n, d)
      <4>1. PhysicalStart + f <= MemoryHigh
        BY <3>3, PagingAssumption DEF Near, Took
      <4> HIDE DEF n
      <4> QED BY <3>3, <4>1, <2>1, <2>2, TookTable
    <3> QED BY <3>1, <3>2, <3>3, <2>1, <2>2, LevelFacts
  <2> HIDE DEF n
  <2>4. Grew(n, m)
    BY <2>2, <2>3 DEF Grew
  <2> QED BY <2>3, <2>4 DEF D, Valid, n, e
<1> HIDE DEF D
<1>3. Tables(m, v, "pager") \in D
  BY <1>1, <1>2, TablesIn DEF Walked
<1> QED
  BY <1>3 DEF D

\* The heap's page: a new one unless the walk ended for want of a page.
LEMMA AssignHeap ==
  ASSUME NEW m, NEW X, Valid(m, X), NEW v \in Nat, v >= HeapPage
  PROVE  LET r == Assign(m, v, None)
         IN  Valid(r, X) /\ Kept(r, m) /\ (~r.stuck => <<Levels, v>> \in DOMAIN r.entries)
<1> DEFINE t == Tables(m, v, "pager")
           e == <<Levels, v>>
           r == Level(t, e, "pager")
<1>1. Valid(t, X) /\ Grew(t, m) /\ t \in Memories
  BY PagerTables DEF Valid
<1>2. e \in EntrySpace /\ e[1] = Levels /\ e[2] = v
  BY SpaceFacts
<1>3. Assign(m, v, None) = r
  BY DEF Assign
<1> HIDE DEF t, e
<1>4. Valid(r, X) /\ Kept(r, t) /\ (~r.stuck => e \in DOMAIN r.entries)
  <2>1. CASE r = t /\ (t.stuck \/ e \in DOMAIN t.entries)
    BY <2>1, <1>1 DEF Kept
  <2>2. CASE r = [t EXCEPT !.stuck = TRUE]
    <3>1. Valid(r, X) /\ Grew(r, t) /\ r.stuck
      BY <2>2, <1>1, Halting
    <3> HIDE DEF r
    <3> QED BY <3>1 DEF Kept, Grew
  <2>3. ASSUME NEW f, Took(r, t, e, f) PROVE Valid(r, X) /\ Kept(r, t) /\ e \in DOMAIN r.entries
    <3> HIDE DEF r
    <3>1. Sound(r, X)
      BY <1>1, <2>3, TookSound DEF Valid
    <3>2. LowTables(r)
      BY <1>1, <1>2, <2>3, PagingAssumption DEF LowTables, Took, Valid
    <3>3. Identity(r)
      <4>1. \A w \in 0..HeapPage - 1 : <<Levels, w>> # e
        BY MemoryAssumption DEF e
      <4> QED BY <4>1, <1>1, <2>3 DEF Identity, Took, Valid
    <3> QED BY <2>3, <3>1, <3>2, <3>3 DEF Valid, Kept, Took
  <2> QED BY <2>1, <2>2, <2>3, <1>1, <1>2, LevelFacts
<1>5. Kept(r, m)
  <2> HIDE DEF r
  <2> QED BY <1>1, <1>4 DEF Kept, Grew
<1> QED
  BY <1>3, <1>4, <1>5 DEF e

Mapped(m, v, page) == <<Levels, v>> \in DOMAIN m.entries /\ m.entries[<<Levels, v>>] = page

\* A page mapped to its own address, unless it is none and so is there.
LEMMA IdentityMaps ==
  ASSUME NEW m, NEW X, Valid(m, X), NEW page \in 0..HeapPage - 1, Mapped(m, 0, 0)
  PROVE  LET r == IdentityMap(m, page)
         IN  Valid(r, X) /\ Kept(r, m) /\ (~r.stuck => Mapped(r, page, page))
<1> DEFINE t == Tables(m, page, "pager")
           e == <<Levels, page>>
           r == IdentityMap(m, page)
<1>0. page \in Nat /\ page < HeapPage /\ HeapPage \in Nat
  BY MemoryAssumption
<1>1. Valid(t, X) /\ Grew(t, m) /\ t \in Memories
  BY <1>0, PagerTables DEF Valid
<1>2. e \in EntrySpace /\ e[1] = Levels /\ e[2] = page
  BY <1>0, SpaceFacts
<1>3. r = IF page = None THEN Level(t, e, "pager")
          ELSE IF t.stuck \/ e \in DOMAIN t.entries THEN t ELSE Put(t, e, page)
  BY DEF IdentityMap, Assign
<1> HIDE DEF t, e, r
<1>4. Valid(r, X) /\ Kept(r, t) /\ (~r.stuck => Mapped(r, page, page))
  <2>1. CASE t.stuck \/ e \in DOMAIN t.entries
    <3>1. r = t
      BY <2>1, <1>3 DEF Level
    <3>2. e \in DOMAIN t.entries => Mapped(t, page, page)
      BY <1>0, <1>1 DEF Valid, Identity, Mapped, e
    <3> QED BY <2>1, <3>1, <3>2, <1>1 DEF Kept
  <2>2. CASE ~t.stuck /\ e \notin DOMAIN t.entries
    <3>1. page # None
      BY <2>2, <1>1 DEF Mapped, None, e, Grew
    <3>2. Has(r, t, e, page)
      BY <2>2, <3>1, <1>0, <1>1, <1>2, <1>3, PutFacts
    <3>3. ~IsOwn(e)
      <4>1. /\ page \in Nat /\ HeapPage \in Nat /\ HeapPage <= MemoryMap /\ LastPage \in Int
            /\ MemoryHigh \in Nat /\ StackPages \in Nat /\ Levels \in Nat
            /\ MemoryMap = LastPage - StackPages - MemoryHigh
        BY <1>0, MemoryAssumption, PagingAssumption DEF LastPage, MemoryMap
      <4> QED BY <4>1, <1>0, <1>2 DEF IsOwn
    <3>4. Sound(r, X)
      BY <1>1, <3>2, <3>3, OtherSound DEF Valid
    <3>5. LowTables(r)
      BY <1>1, <1>2, <3>2, PagingAssumption DEF LowTables, Has, Valid
    <3>6. Identity(r)
      BY <1>1, <3>2 DEF Identity, Has, Valid, e
    <3> QED BY <2>2, <3>2, <3>4, <3>5, <3>6 DEF Valid, Kept, Has, Mapped, e
  <2> QED BY <2>1, <2>2
<1>5. Kept(r, m)
  BY <1>1, <1>4 DEF Kept, Grew
<1> QED
  BY <1>4, <1>5 DEF r

-----------------------------------------------------------------------------
(* The pages of the heap. *)

\* requestSpace() goes through the memories of R, one page at a time.
PageByPage(R, D, q, n, result) ==
    /\ R \in [0..n -> D] /\ R[0] = memory /\ R[n] = result
    /\ \A i \in 1..n : R[i] = Assign(R[i - 1], q[i], None)

LEMMA ExtendedRun ==
  ASSUME NEW D, memory \in D, NEW from, NEW to, NEW n \in Nat, NEW q, q = NewPages(from, to),
         DOMAIN q = 1..n, \A d \in D, i \in 1..n : Assign(d, q[i], None) \in D
  PROVE  \E R : PageByPage(R, D, q, n, Extended(from, to))
<1> DEFINE G(it) == it = [s \in SUBSET DOMAIN q |->
                             IF s = {} THEN memory
                             ELSE Assign(it[s \ {Max(s)}], q[Max(s)], None)]
           iter == CHOOSE it : G(it)
           F == [z \in (1..n) \X D |-> Assign(z[2], q[z[1]], None)]
<1>1. Extended(from, to) = iter[DOMAIN q]
  BY DEF Extended, FoldLeft, MapThenFoldSet
<1>3. ASSUME NEW i \in 1..n, NEW d \in D
      PROVE  F[<<i, d>>] \in D /\ F[<<i, d>>] = Assign(d, q[i], None)
  OBVIOUS
<1>4. ASSUME NEW s \in SUBSET (1..n), s # {} PROVE Max(s) \in 1..n
  <2>1. s \subseteq 0..n
    OBVIOUS
  <2> QED BY ONLY n \in Nat, <1>4, <2>1, MaxFact
<1> HIDE DEF F
<1>5. Turns(n, D, F)
  BY <1>3 DEF Turns
<1>6. \E it : G(it)
  <2>1. PICK it : it = [s \in SUBSET (1..n) |-> it[s]] /\ Folds(it, n, D, memory, F)
    BY <1>5, FoldExists
  <2>2. ASSUME NEW s \in SUBSET (1..n), s # {}
        PROVE  it[s] = Assign(it[s \ {Max(s)}], q[Max(s)], None)
    BY <1>3, <1>4, <2>1, <2>2 DEF Folds
  <2>3. it[{}] = memory
    BY <2>1 DEF Folds
  <2>4. it = [s \in SUBSET (1..n) |->
                 IF s = {} THEN memory ELSE Assign(it[s \ {Max(s)}], q[Max(s)], None)]
    BY <2>1, <2>2, <2>3
  <2> QED BY <2>4
<1>7. G(iter)
  <2> HIDE DEF G
  <2> QED BY <1>6
<1> HIDE DEF iter
<1>8. Follows(iter, n, D, memory, F)
  <2>1. iter[{}] = memory
    BY <1>7
  <2>2. ASSUME NEW s \in SUBSET (1..n), s # {}, iter[s \ {Max(s)}] \in D
        PROVE  iter[s] = F[<<Max(s), iter[s \ {Max(s)}]>>]
    <3>1. iter[s] = Assign(iter[s \ {Max(s)}], q[Max(s)], None)
      BY <1>7, <2>2
    <3> QED BY <3>1, <2>2, <1>3, <1>4
  <2> QED BY <2>1, <2>2 DEF Follows
<1>9. PICK R : States(R, n, D, memory, F, iter[1..n])
  BY <1>5, <1>8, FoldStates
<1>10. ASSUME NEW i \in 1..n PROVE R[i] = Assign(R[i - 1], q[i], None)
  <2>1. i - 1 \in 0..n
    OBVIOUS
  <2>2. R[i - 1] \in D /\ R[i] = F[<<i, R[i - 1]>>]
    BY <2>1, <1>9 DEF States
  <2> QED BY <2>2, <1>3
<1> QED
  BY <1>1, <1>9, <1>10 DEF States, PageByPage

\* All the pages are there afterwards, unless the kernel has halted.
LEMMA ExtendedFacts ==
  ASSUME NEW X, Valid(memory, X), NEW from \in Nat, NEW to \in Nat, from <= to
  PROVE  LET r == Extended(from, to)
             a == from \div PageLength
             b == to \div PageLength
         IN  /\ Valid(r, X) /\ Kept(r, memory)
             /\ ~r.stuck => \A v \in HeapPage + a..HeapPage + b - 1 : <<Levels, v>> \in DOMAIN r.entries
<1> DEFINE r == Extended(from, to)
           a == from \div PageLength
           b == to \div PageLength
           n == b - a
           q == NewPages(from, to)
           D == {m \in Memories : Valid(m, X) /\ Kept(m, memory)}
           Good(i, m) == ~m.stuck => \A j \in 1..i : <<Levels, q[j]>> \in DOMAIN m.entries
<1>1. a \in Nat /\ b \in Nat /\ n \in Nat /\ HeapPage \in Nat
  <2>1. PageLength \in Nat \ {0}
    BY HeapAssumption
  <2>2. a \in Nat /\ b \in Nat /\ a <= b
    BY <2>1
  <2> HIDE DEF a, b
  <2> QED BY <2>2, MemoryAssumption
<1>2. q = [i \in 1..n |-> HeapPage + a + i - 1]
  BY DEF NewPages
<1> HIDE DEF a, b
<1>3. \A i \in 1..n : q[i] \in Nat /\ q[i] >= HeapPage /\ q[i] = HeapPage + a + i - 1
  BY <1>1, <1>2
<1>4. memory \in D /\ DOMAIN q = 1..n
  BY <1>2 DEF Valid, Kept
<1> HIDE DEF q, r, n
<1>5. ASSUME NEW m \in D, NEW i \in 1..n
      PROVE  LET k == Assign(m, q[i], None)
             IN  /\ k \in D /\ Kept(k, m)
                 /\ ~k.stuck => <<Levels, q[i]>> \in DOMAIN k.entries
  <2> DEFINE k == Assign(m, q[i], None)
  <2>1. Valid(k, X) /\ Kept(k, m) /\ (~k.stuck => <<Levels, q[i]>> \in DOMAIN k.entries)
    BY <1>3, AssignHeap
  <2> HIDE DEF k
  <2>2. Kept(k, memory)
    BY <2>1 DEF Kept
  <2> QED BY <2>1, <2>2 DEF Valid, k
<1>6. PICK R : PageByPage(R, D, q, n, r)
  <2>1. \A m \in D, i \in 1..n : Assign(m, q[i], None) \in D
    BY <1>5
  <2> HIDE DEF D
  <2> QED BY <2>1, <1>1, <1>4, ExtendedRun DEF q, r
<1>7. ASSUME NEW i \in 1..n, Good(i - 1, R[i - 1]) PROVE Good(i, R[i])
  <2>1. i - 1 \in 0..n /\ R[i] = Assign(R[i - 1], q[i], None)
    BY <1>1, <1>6 DEF PageByPage
  <2>2. R[i - 1] \in D
    BY <2>1, <1>6 DEF PageByPage
  <2>3. Kept(R[i], R[i - 1]) /\ (~R[i].stuck => <<Levels, q[i]>> \in DOMAIN R[i].entries)
    BY <2>1, <2>2, <1>5
  <2>4. \A j \in 1..i : j = i \/ j \in 1..i - 1
    BY <1>1
  <2> QED BY <1>7, <2>3, <2>4 DEF Kept
<1>8. Good(n, r)
  <2> DEFINE Bad == {i \in 0..n : ~Good(i, R[i])}
  <2>1. Bad = {}
    <3> SUFFICES ASSUME Bad # {} PROVE FALSE
      OBVIOUS
    <3>1. PICK i \in Bad : \A k \in Bad : i <= k
      <4>1. Bad \subseteq Nat
        BY <1>1
      <4> HIDE DEF Bad
      <4> QED BY <4>1, NatMin
    <3>2. i \in 0..n /\ ~Good(i, R[i])
      <4> HIDE DEF Good
      <4> QED BY <3>1
    <3>3. i # 0
      BY <3>2
    <3>4. i \in 1..n /\ i - 1 \in 0..n /\ i - 1 < i
      BY <3>2, <3>3, <1>1
    <3>5. i - 1 \notin Bad
      <4> HIDE DEF Bad
      <4> QED BY <3>1, <3>4
    <3>6. Good(i - 1, R[i - 1])
      <4> HIDE DEF Good
      <4> QED BY <3>4, <3>5
    <3> HIDE DEF Good
    <3> QED BY <3>2, <3>4, <3>6, <1>7
  <2>2. n \in 0..n /\ R[n] = r
    BY <1>1, <1>6 DEF PageByPage
  <2> HIDE DEF Good
  <2> QED BY <2>1, <2>2
<1>9. r \in D
  <2>1. n \in 0..n
    BY <1>1
  <2> HIDE DEF D
  <2> QED BY <2>1, <1>6 DEF PageByPage
<1>10. ASSUME ~r.stuck, NEW v \in HeapPage + a..HeapPage + b - 1 PROVE <<Levels, v>> \in DOMAIN r.entries
  <2>1. v - HeapPage - a + 1 \in 1..n /\ v = HeapPage + a + (v - HeapPage - a + 1) - 1
    BY <1>1 DEF n
  <2>2. q[v - HeapPage - a + 1] = v
    BY <2>1, <1>3
  <2> QED BY <2>1, <2>2, <1>8, <1>10
<1> QED
  BY <1>9, <1>10 DEF r, a, b

-----------------------------------------------------------------------------
(* The pages of the ports. *)

Frames(q) == {q[i] - PhysicalStart : i \in {j \in DOMAIN q : q[j] # None}}

\* The pages of q are in memory, different from each other and from those of the
\* entries, and mapped to their own addresses while the kernel runs.
Ported(m, q) ==
    /\ Valid(m, Frames(q)) /\ q \in Seq(Nat) /\ Mapped(m, 0, 0)
    /\ \A i \in DOMAIN q : q[i] # None => PhysicalStart <= q[i] /\ q[i] < MemoryHigh
    /\ \A i, j \in DOMAIN q : i # j /\ q[i] # None => q[i] # q[j]
    /\ \A i \in DOMAIN q : ~m.stuck => Mapped(m, q[i], q[i])

LEMMA ConcatAppend ==
  ASSUME NEW p \in Seq(Nat), NEW q \in Seq(Nat), NEW x \in Nat
  PROVE  p \o Append(q, x) = Append(p \o q, x)
OBVIOUS

LEMMA MappedKept ==
  ASSUME NEW n, NEW m, Kept(n, m), NEW v, NEW page, Mapped(m, v, page)
  PROVE  Mapped(n, v, page)
BY DEF Kept, Mapped

LEMMA AppendList ==
  ASSUME NEW q \in Seq(Nat), NEW x \in Nat
  PROVE  /\ Append(q, x) \in Seq(Nat) /\ DOMAIN q \subseteq DOMAIN Append(q, x)
         /\ \A i \in DOMAIN q : Append(q, x)[i] = q[i]
         /\ \E k \in DOMAIN Append(q, x) :
                /\ Append(q, x)[k] = x /\ k \notin DOMAIN q
                /\ DOMAIN Append(q, x) = DOMAIN q \cup {k}
<1> DEFINE r == Append(q, x)
           n == Len(q)
<1>1. n \in Nat /\ DOMAIN q = 1..n
  BY LenProperties
<1>2. /\ r \in Seq(Nat) /\ Len(r) = n + 1 /\ r[n + 1] = x
      /\ \A i \in 1..n : r[i] = q[i]
  BY AppendProperties
<1> HIDE DEF r, n
<1>3. DOMAIN r = 1..n + 1
  BY <1>2, LenProperties
<1>4. 1..n + 1 = 1..n \cup {n + 1} /\ n + 1 \notin 1..n /\ n + 1 \in 1..n + 1
  BY <1>1
<1> QED
  BY <1>1, <1>2, <1>3, <1>4 DEF r

\* The constructor asks for a page: none is left, ...
LEMMA NoPage ==
  ASSUME NEW m, NEW q, Ported(m, q)
  PROVE  Ported(IdentityMap(m, None), Append(q, None))
<1> DEFINE r == IdentityMap(m, None)
           w == Append(q, None)
<1>1. None \in Nat /\ 0 \in 0..HeapPage - 1 /\ None = 0
  BY MemoryAssumption, PagingAssumption DEF None
<1>2. Valid(r, Frames(q)) /\ Kept(r, m) /\ (~r.stuck => Mapped(r, None, None))
  BY <1>1, IdentityMaps DEF Ported
<1>3. Mapped(r, 0, 0)
  BY <1>2, MappedKept DEF Ported
<1>4. q \in Seq(Nat)
  BY DEF Ported
<1> HIDE DEF r
<1>5. PICK k \in DOMAIN w : w[k] = None /\ k \notin DOMAIN q /\ DOMAIN w = DOMAIN q \cup {k}
  BY <1>1, <1>4, AppendList
<1>6. w \in Seq(Nat) /\ DOMAIN q \subseteq DOMAIN w /\ \A i \in DOMAIN q : w[i] = q[i]
  BY <1>1, <1>4, AppendList
<1> HIDE DEF w
<1>7. Frames(w) = Frames(q)
  <2>1. {j \in DOMAIN w : w[j] # None} = {j \in DOMAIN q : q[j] # None}
    BY <1>5, <1>6
  <2> QED BY <2>1, <1>6 DEF Frames
<1>8. ASSUME NEW i \in DOMAIN w
      PROVE  /\ w[i] # None => PhysicalStart <= w[i] /\ w[i] < MemoryHigh
             /\ \A j \in DOMAIN w : i # j /\ w[i] # None => w[i] # w[j]
  BY <1>5, <1>6 DEF Ported
<1>9. ASSUME NEW i \in DOMAIN w, ~r.stuck PROVE Mapped(r, w[i], w[i])
  <2>1. CASE i = k
    BY <2>1, <1>2, <1>5, <1>9
  <2>2. CASE i # k
    <3>1. i \in DOMAIN q /\ w[i] = q[i] /\ ~m.stuck
      BY <2>2, <1>2, <1>5, <1>6, <1>9 DEF Kept
    <3> QED BY <3>1, <1>2, MappedKept DEF Ported
  <2> QED BY <2>1, <2>2
<1> QED
  BY <1>2, <1>3, <1>6, <1>7, <1>8, <1>9 DEF Ported, r, w

\* ... or one is marked and mapped.
LEMMA NewPage ==
  ASSUME NEW m, NEW q, Ported(m, q), NEW f \in Nat \ m.used, PhysicalStart + f < MemoryHigh
  PROVE  Ported(IdentityMap([m EXCEPT !.used = @ \cup {f}], PhysicalStart + f),
                Append(q, PhysicalStart + f))
<1> DEFINE n == [m EXCEPT !.used = @ \cup {f}]
           page == PhysicalStart + f
           r == IdentityMap(n, page)
           w == Append(q, page)
           X == Frames(q)
<1>1. /\ page \in Nat /\ page \in 0..HeapPage - 1 /\ page # None /\ page - PhysicalStart = f
      /\ PhysicalStart <= page /\ page < MemoryHigh
  BY MemoryAssumption, PagingAssumption DEF None
<1>2. m \in Memories /\ Valid(m, X) /\ Sound(m, X) /\ Mapped(m, 0, 0) /\ q \in Seq(Nat)
  BY DEF Ported, Valid
<1>3. Marked(n, m, f)
  BY <1>2, MarkFacts
<1> HIDE DEF n, page, X
<1>4. Valid(n, X \cup {f})
  BY <1>2, <1>3, MarkSound
<1>5. Mapped(n, 0, 0) /\ Kept(n, m)
  BY <1>2, <1>3 DEF Marked, Mapped, Kept
<1>6. Valid(r, X \cup {f}) /\ Kept(r, n) /\ (~r.stuck => Mapped(r, page, page))
  BY <1>1, <1>4, <1>5, IdentityMaps
<1> HIDE DEF r
<1>7. Kept(r, m) /\ Mapped(r, 0, 0)
  <2>1. Kept(r, m)
    BY <1>5, <1>6 DEF Kept
  <2> QED BY <2>1, <1>2, MappedKept
<1>8. PICK k \in DOMAIN w : w[k] = page /\ k \notin DOMAIN q /\ DOMAIN w = DOMAIN q \cup {k}
  BY <1>1, <1>2, AppendList
<1>9. w \in Seq(Nat) /\ DOMAIN q \subseteq DOMAIN w /\ \A i \in DOMAIN q : w[i] = q[i]
  BY <1>1, <1>2, AppendList
<1> HIDE DEF w
<1>10. Frames(w) = X \cup {f}
  <2>1. {j \in DOMAIN w : w[j] # None} = {j \in DOMAIN q : q[j] # None} \cup {k}
    BY <1>1, <1>8, <1>9
  <2> QED BY <2>1, <1>1, <1>8, <1>9 DEF Frames, X
<1>11. \A i \in DOMAIN q : q[i] # page
  <2> SUFFICES ASSUME NEW i \in DOMAIN q, q[i] = page PROVE FALSE
    OBVIOUS
  <2>1. f \in X
    BY <1>1 DEF X, Frames
  <2> QED BY <2>1, <1>2 DEF Sound
<1>12. ASSUME NEW i \in DOMAIN w
      PROVE  /\ w[i] # None => PhysicalStart <= w[i] /\ w[i] < MemoryHigh
             /\ \A j \in DOMAIN w : i # j /\ w[i] # None => w[i] # w[j]
  BY <1>1, <1>8, <1>9, <1>11 DEF Ported
<1>13. ASSUME NEW i \in DOMAIN w, ~r.stuck PROVE Mapped(r, w[i], w[i])
  <2>1. CASE i = k
    BY <2>1, <1>6, <1>8, <1>13
  <2>2. CASE i # k
    <3>1. i \in DOMAIN q /\ w[i] = q[i] /\ ~m.stuck
      BY <2>2, <1>7, <1>8, <1>9, <1>13 DEF Kept
    <3> QED BY <3>1, <1>7, MappedKept DEF Ported
  <2> QED BY <2>1, <2>2
<1>14. Ported(r, w)
  BY <1>6, <1>7, <1>9, <1>10, <1>12, <1>13 DEF Ported
<1> QED
  BY <1>14 DEF r, w, n, page

\* The constructor's loop, from the pages given before.
LEMMA PortsFold ==
  ASSUME NEW D, NEW base \in D, \A s \in D, i \in 1..PortFrames : PortPage(s, i) \in D
  PROVE  FoldLeft(PortPage, base, [i \in 1..PortFrames |-> i]) \in D
<1> DEFINE n == PortFrames
           q == [i \in 1..n |-> i]
           result == FoldLeft(PortPage, base, q)
           G(it) == it = [s \in SUBSET DOMAIN q |->
                             IF s = {} THEN base ELSE PortPage(it[s \ {Max(s)}], q[Max(s)])]
           iter == CHOOSE it : G(it)
           F == [z \in (1..n) \X D |-> PortPage(z[2], z[1])]
<1>1. result = iter[DOMAIN q]
  BY DEF FoldLeft, MapThenFoldSet
<1>2. n \in Nat /\ DOMAIN q = 1..n /\ \A i \in 1..n : q[i] = i
  BY MemoryAssumption
<1>3. ASSUME NEW i \in 1..n, NEW d \in D
      PROVE  F[<<i, d>>] \in D /\ F[<<i, d>>] = PortPage(d, i)
  OBVIOUS
<1>4. ASSUME NEW s \in SUBSET (1..n), s # {} PROVE Max(s) \in 1..n
  <2>1. s \subseteq 0..n
    BY <1>2
  <2> QED BY ONLY <1>2, <1>4, <2>1, MaxFact
<1> HIDE DEF F, n, q, result
<1>5. Turns(n, D, F)
  BY <1>3 DEF Turns
<1>6. \E it : G(it)
  <2>1. PICK it : it = [s \in SUBSET (1..n) |-> it[s]] /\ Folds(it, n, D, base, F)
    BY <1>2, <1>5, FoldExists
  <2>2. ASSUME NEW s \in SUBSET (1..n), s # {}
        PROVE  it[s] = PortPage(it[s \ {Max(s)}], q[Max(s)])
    BY <1>2, <1>3, <1>4, <2>1, <2>2, ZenonT(60) DEF Folds
  <2>3. it[{}] = base
    BY <2>1 DEF Folds
  <2>4. it = [s \in SUBSET (1..n) |->
                 IF s = {} THEN base ELSE PortPage(it[s \ {Max(s)}], q[Max(s)])]
    BY <2>1, <2>2, <2>3
  <2> QED BY <2>4, <1>2, ZenonT(60)
<1>7. G(iter)
  <2> HIDE DEF G
  <2> QED BY <1>6
<1> HIDE DEF iter
<1>8. Follows(iter, n, D, base, F)
  <2>1. iter[{}] = base
    BY <1>2, <1>7
  <2>2. ASSUME NEW s \in SUBSET (1..n), s # {}, iter[s \ {Max(s)}] \in D
        PROVE  iter[s] = F[<<Max(s), iter[s \ {Max(s)}]>>]
    <3>1. iter[s] = PortPage(iter[s \ {Max(s)}], q[Max(s)])
      BY <1>2, <1>7, <2>2
    <3>2. Max(s) \in 1..n /\ q[Max(s)] = Max(s)
      BY <1>2, <1>4, <2>2
    <3> QED BY <3>1, <3>2, <2>2, <1>3
  <2> QED BY <2>1, <2>2 DEF Follows
<1>9. PICK R : States(R, n, D, base, F, iter[1..n])
  BY <1>2, <1>5, <1>8, FoldStates
<1>10. n \in 0..n
  BY <1>2
<1>11. result \in D
  BY <1>1, <1>2, <1>9, <1>10 DEF States
<1> QED
  BY <1>11 DEF result, q, n

\* A port made: the pages are those of before and the new ones.
LEMMA MakePortFacts ==
  ASSUME Ported(memory, dma), MakePort
  PROVE  Ported(memory', dma') /\ Kept(memory', memory)
<1> DEFINE S == [m : Memories, pages : Seq(Nat)]
           D == {s \in S : Ported(s.m, dma \o s.pages) /\ Kept(s.m, memory)}
           base == [m |-> memory, pages |-> <<>>]
           after == FoldLeft(PortPage, base, [i \in 1..PortFrames |-> i])
<1>1. memory' = after.m /\ dma' = dma \o after.pages
  BY DEF MakePort
<1>2. dma \in Seq(Nat) /\ memory \in Memories
  BY DEF Ported, Valid
<1>3. base \in D
  <2>1. base \in S /\ base.m = memory /\ dma \o base.pages = dma
    BY <1>2
  <2>2. Kept(memory, memory)
    BY DEF Kept
  <2> QED BY <2>1, <2>2
<1>4. ASSUME NEW s \in D, NEW i \in 1..PortFrames PROVE PortPage(s, i) \in D
  <2> DEFINE m == s.m
             q == dma \o s.pages
             f == FindFree(m.used)
             a == Allocate(m)
             r == IdentityMap(a.m, a.page)
             w == Append(s.pages, a.page)
  <2>1. /\ m \in Memories /\ s.pages \in Seq(Nat) /\ Ported(m, q) /\ Kept(m, memory)
        /\ m.used \in SUBSET Nat
    BY MemoryFacts
  <2>2. PortPage(s, i) = [m |-> r, pages |-> w]
    BY DEF PortPage
  <2> HIDE DEF m
  <2>3. a.page \in Nat /\ Ported(r, Append(q, a.page)) /\ Kept(r, m)
    <3>1. CASE f = -1
      <4>1. a.m = m /\ a.page = None
        BY <3>1 DEF Allocate
      <4>2. None \in Nat
        BY DEF None
      <4>3. Valid(m, Frames(q)) /\ Mapped(m, 0, 0) /\ None \in 0..HeapPage - 1
        BY <2>1, MemoryAssumption, PagingAssumption, SMTT(60) DEF Ported, None
      <4>4. Kept(r, m)
        BY <4>1, <4>3, IdentityMaps
      <4> QED BY <4>1, <4>2, <4>4, <2>1, NoPage
    <3>2. CASE f # -1
      <4> DEFINE n == [m EXCEPT !.used = @ \cup {f}]
      <4>1. f \in Nat \ m.used /\ PhysicalStart + f < MemoryHigh
        BY <3>2, <2>1, FindFreeFacts
      <4>2. a.m = n /\ a.page = PhysicalStart + f
        BY <3>2 DEF Allocate
      <4> HIDE DEF f, a
      <4>3. a.page \in Nat /\ a.page \in 0..HeapPage - 1
        BY <4>1, <4>2, MemoryAssumption, PagingAssumption, SMTT(60)
      <4>4. Marked(n, m, f)
        BY <4>1, <2>1, MarkFacts
      <4> HIDE DEF n
      <4>5. Valid(n, Frames(q) \cup {f}) /\ Mapped(n, 0, 0) /\ Kept(n, m)
        <5>1. Valid(n, Frames(q) \cup {f})
          BY <4>1, <4>4, <2>1, MarkSound DEF Ported, Valid
        <5> QED BY <5>1, <4>4, <2>1 DEF Marked, Mapped, Kept, Ported
      <4>6. Kept(r, n)
        BY <4>2, <4>3, <4>5, IdentityMaps
      <4>7. Kept(r, m)
        BY <4>5, <4>6 DEF Kept
      <4>8. Ported(r, Append(q, a.page))
        BY <4>1, <4>2, <2>1, NewPage DEF n
      <4> QED BY <4>3, <4>7, <4>8
    <3> QED BY <3>1, <3>2
  <2> HIDE DEF a, r
  <2>4. w \in Seq(Nat) /\ Append(q, a.page) = dma \o w
    <3> DEFINE x == a.page
               p == s.pages
    <3>1. p \in Seq(Nat) /\ x \in Nat
      BY <2>1, <2>3
    <3> HIDE DEF x, p
    <3>2. Append(p, x) \in Seq(Nat)
      BY <3>1, AppendList
    <3>3. Append(dma \o p, x) = dma \o Append(p, x)
      BY <3>1, <1>2, ConcatAppend
    <3> QED BY <3>2, <3>3 DEF x, p
  <2>5. r \in Memories /\ Kept(r, memory)
    BY <2>1, <2>3 DEF Ported, Valid, Kept
  <2> HIDE DEF w, q
  <2> QED BY <2>2, <2>3, <2>4, <2>5
<1> HIDE DEF D, base
<1>5. after \in D
  BY <1>3, <1>4, PortsFold
<1> HIDE DEF after
<1> QED
  BY <1>1, <1>5 DEF D

-----------------------------------------------------------------------------
(* The boot takes no more pages than there are. *)

StackLeaves == {<<Levels, v>> : v \in LastPage - StackPages + 1..LastPage}
BootOwn     == BootTables \cup StackLeaves

\* As many frames are marked, at most, as entries were given pages of their own,
\* with those of P that are about to.
Few(m, P) ==
    OwnIn(m) \cup P \subseteq BootOwn /\ Cardinality(m.used) <= Cardinality(OwnIn(m) \cup P)

LEMMA AddressFacts ==
  /\ BootAddresses \subseteq Nat /\ LastPage \in Nat /\ MemoryMap \in Nat
  /\ MemoryMap + MemoryHigh = LastPage - StackPages
  /\ MemoryHigh \in Nat /\ StackPages \in Nat /\ IdentityPages \in Nat \ {0}
  /\ HeapPage \in Nat /\ IdentityPages <= HeapPage /\ HeapPage <= MemoryMap /\ HeapPage > 0
<1>1. LastPage \in Int /\ MemoryMap = LastPage - StackPages - MemoryHigh
  BY PagingAssumption DEF LastPage, MemoryMap
<1>2. /\ MemoryMap \in Nat /\ MemoryHigh \in Nat /\ StackPages \in Nat
      /\ IdentityPages \in Nat \ {0} /\ HeapPage \in Nat /\ IdentityPages <= HeapPage
      /\ HeapPage <= MemoryMap
  BY PagingAssumption, BootAssumption, MemoryAssumption
<1>3. LastPage \in Nat
  BY <1>1, <1>2
<1>4. BootAddresses \subseteq Nat
  BY <1>2, <1>3 DEF BootAddresses
<1> QED
  BY <1>1, <1>2, <1>3, <1>4

LEMMA BootOwnFinite ==
  IsFiniteSet(BootOwn) /\ Cardinality(BootOwn) <= Cardinality(BootTables) + StackPages
<1>1. IsFiniteSet(BootTables)
  <2> DEFINE I == 0..IdentityPages - 1
             J == MemoryMap..LastPage
             K == 1..Levels - 1
             T == BootAddresses \X K
             f == [z \in T |-> EntryOf(z[1], z[2])]
  <2>1. IsFiniteSet(I) /\ IsFiniteSet(J) /\ IsFiniteSet(K)
    <3>1. IdentityPages - 1 \in Int /\ Levels - 1 \in Int /\ MemoryMap \in Int /\ LastPage \in Int
      BY AddressFacts, PagingAssumption
    <3> QED BY <3>1, FS_Interval
  <2>2. IsFiniteSet(BootAddresses)
    BY <2>1, FS_Union DEF BootAddresses
  <2>3. IsFiniteSet(T)
    BY <2>1, <2>2, FS_Product
  <2>4. f \in Surjection(T, BootTables)
    <3>1. \A z \in T : f[z] \in BootTables
      BY DEF BootTables
    <3>2. ASSUME NEW e \in BootTables PROVE \E z \in T : f[z] = e
      <4>1. PICK v \in BootAddresses, level \in K : e = EntryOf(v, level)
        BY DEF BootTables
      <4>2. <<v, level>> \in T /\ f[<<v, level>>] = e
        BY <4>1
      <4> QED BY <4>2
    <3> HIDE DEF T
    <3> QED BY <3>1, <3>2 DEF Surjection
  <2> HIDE DEF T, f
  <2> QED BY <2>3, <2>4, FS_Surjection
<1>2. IsFiniteSet(StackLeaves) /\ Cardinality(StackLeaves) <= StackPages
  <2> DEFINE I == LastPage - StackPages + 1..LastPage
             f == [v \in I |-> <<Levels, v>>]
  <2>1. IsFiniteSet(I) /\ Cardinality(I) = StackPages
    <3> DEFINE a == LastPage - StackPages + 1
    <3>1. /\ a \in Int /\ LastPage \in Int /\ LastPage - a + 1 = StackPages
          /\ (a > LastPage => StackPages = 0) /\ I = a..LastPage
      BY AddressFacts
    <3> HIDE DEF a, I
    <3>2. /\ IsFiniteSet(a..LastPage)
          /\ Cardinality(a..LastPage) = IF a > LastPage THEN 0 ELSE LastPage - a + 1
      BY <3>1, FS_Interval
    <3> QED BY <3>1, <3>2
  <2>2. f \in Surjection(I, StackLeaves)
    BY DEF Surjection, StackLeaves
  <2> HIDE DEF I, f
  <2> QED BY <2>1, <2>2, FS_Surjection
<1>3. /\ IsFiniteSet(BootTables \cup StackLeaves)
      /\ Cardinality(BootTables \cup StackLeaves) = Cardinality(BootTables)
             + Cardinality(StackLeaves) - Cardinality(BootTables \cap StackLeaves)
  BY <1>1, <1>2, FS_Union
<1>4. /\ Cardinality(BootTables) \in Nat /\ Cardinality(StackLeaves) \in Nat
      /\ Cardinality(BootTables \cap StackLeaves) \in Nat
  BY <1>1, <1>2, FS_CardinalityType, FS_Intersection
<1> QED
  BY <1>2, <1>3, <1>4, PagingAssumption DEF BootOwn

LEMMA BootNear ==
  ASSUME NEW m \in Memories, NEW P, Few(m, P), NEW f \in Nat,
         f <= BootBits + Cardinality(m.used)
  PROVE  PhysicalStart + f <= MemoryHigh
<1> DEFINE c == Cardinality(BootTables)
           d == Cardinality(OwnIn(m) \cup P)
           u == Cardinality(m.used)
           b == Cardinality(BootOwn)
<1>1. OwnIn(m) \cup P \in SUBSET BootOwn /\ u <= d
  BY DEF Few
<1>2. IsFiniteSet(OwnIn(m) \cup P) /\ d <= b
  BY <1>1, BootOwnFinite, FS_Subset
<1>3. b <= c + StackPages
  BY BootOwnFinite
<1>4. u \in Nat /\ d \in Nat /\ b \in Nat /\ c \in Nat
  <2>1. IsFiniteSet(m.used)
    BY MemoryFacts
  <2>2. BootTables \in SUBSET BootOwn
    BY DEF BootOwn
  <2>3. IsFiniteSet(BootTables)
    BY <2>2, BootOwnFinite, FS_Subset
  <2> QED BY <1>2, <2>1, <2>3, BootOwnFinite, FS_CardinalityType
<1>5. PhysicalStart + BootBits + c + StackPages <= MemoryHigh
  BY BootAssumption
<1> HIDE DEF b, c, d, u
<1>6. f <= BootBits + u
  BY DEF u
<1> QED
  BY <1>1, <1>2, <1>3, <1>4, <1>5, <1>6, PagingAssumption

\* A table of the boot's.
LEMMA BootTable ==
  ASSUME NEW m, NEW X, Valid(m, X), NEW P, P \subseteq StackLeaves, Few(m, P),
         NEW e \in BootTables, e[1] < Levels, NEW f, NEW n, Took(n, m, e, f), Near("boot", m, f)
  PROVE  Valid(n, X) /\ Grew(n, m) /\ Few(n, P)
<1>1. m \in Memories /\ f \in Nat /\ f \notin m.used /\ f <= BootBits + Cardinality(m.used)
  BY DEF Valid, Took, Near
<1>2. Valid(n, X) /\ Grew(n, m)
  BY <1>1, BootNear, TookTable
<1> DEFINE A == OwnIn(m) \cup P
<1>3. OwnIn(n) = OwnIn(m) \cup {e} /\ e \notin OwnIn(m)
  BY DEF OwnIn, IsOwn, Took
<1>4. e \notin P
  BY PagingAssumption DEF StackLeaves
<1>5. OwnIn(n) \cup P = A \cup {e} /\ e \notin A /\ A \cup {e} \subseteq BootOwn
  BY <1>3, <1>4 DEF Few, BootOwn
<1>6. IsFiniteSet(A) /\ IsFiniteSet(m.used)
  <2>1. A \in SUBSET BootOwn
    BY <1>5
  <2> HIDE DEF A
  <2> QED BY <2>1, <1>1, BootOwnFinite, FS_Subset, MemoryFacts
<1>7. Cardinality(m.used) <= Cardinality(A) /\ n.used = m.used \cup {f}
  BY DEF Few, Took
<1> HIDE DEF A
<1>8. /\ Cardinality(A \cup {e}) = Cardinality(A) + 1
      /\ Cardinality(m.used \cup {f}) = Cardinality(m.used) + 1
  BY <1>1, <1>5, <1>6, FS_AddElement
<1>9. Cardinality(A) \in Nat /\ Cardinality(m.used) \in Nat
  BY <1>6, FS_CardinalityType
<1>10. Few(n, P)
  BY <1>5, <1>7, <1>8, <1>9 DEF Few
<1> QED
  BY <1>2, <1>10

LEMMA BootWalk ==
  ASSUME NEW m, NEW X, Valid(m, X), ~m.stuck, NEW P, P \subseteq StackLeaves, Few(m, P),
         NEW v \in BootAddresses
  PROVE  LET r == Tables(m, v, "boot")
         IN  Valid(r, X) /\ Grew(r, m) /\ ~r.stuck /\ Few(r, P)
<1> DEFINE D == {n \in Memories : Valid(n, X) /\ Grew(n, m) /\ ~n.stuck /\ Few(n, P)}
<1>1. m \in D
  BY DEF Valid, Grew
<1>2. ASSUME NEW d \in D, NEW level \in 1..Levels - 1
      PROVE  Level(d, EntryOf(v, level), "boot") \in D
  <2> DEFINE e == EntryOf(v, level)
             n == Level(d, e, "boot")
  <2>1. e \in EntrySpace /\ e[1] < Levels /\ e \in BootTables
    BY SpaceFacts, AddressFacts, PagingAssumption DEF BootTables
  <2>2. d \in Memories /\ Valid(d, X) /\ Grew(d, m) /\ ~d.stuck /\ Few(d, P)
    OBVIOUS
  <2> HIDE DEF e, D
  <2>3. Valid(n, X) /\ Grew(n, d) /\ ~n.stuck /\ Few(n, P)
    <3>1. CASE n = d
      BY <3>1, <2>2 DEF Grew
    <3>2. ASSUME NEW f, Took(n, d, e, f), Near("boot", d, f)
          PROVE  Valid(n, X) /\ Grew(n, d) /\ ~n.stuck /\ Few(n, P)
      <4> HIDE DEF n
      <4>1. Valid(n, X) /\ Grew(n, d) /\ Few(n, P)
        BY <3>2, <2>1, <2>2, BootTable
      <4> QED BY <4>1, <3>2, <2>2 DEF Took
    <3> QED BY <3>1, <3>2, <2>1, <2>2, LevelFacts
  <2> HIDE DEF n
  <2>4. Grew(n, m)
    BY <2>2, <2>3 DEF Grew
  <2> QED BY <2>3, <2>4 DEF D, Valid, n, e
<1> HIDE DEF D
<1>3. Tables(m, v, "boot") \in D
  BY <1>1, <1>2, TablesIn DEF Walked
<1> QED
  BY <1>3 DEF D

\* n is m with the virtual page v mapped, the other pages as they were.
Leaf(n, m, v, page) ==
    /\ DOMAIN m.entries \subseteq DOMAIN n.entries /\ Mapped(n, v, page)
    /\ \A w \in Nat \ {v} :
           <<Levels, w>> \in DOMAIN n.entries <=> <<Levels, w>> \in DOMAIN m.entries
    /\ \A w \in Nat \ {v} : \A x : Mapped(m, w, x) => Mapped(n, w, x)

LEMMA BootLeaf ==
  ASSUME NEW m, NEW X, Valid(m, X), ~m.stuck, NEW P, P \subseteq StackLeaves, Few(m, P),
         NEW v \in BootAddresses, NEW page \in Nat
  PROVE  LET t == Tables(m, v, "boot")
             n == BootAllocate(m, v, page)
         IN  /\ Valid(t, X) /\ ~t.stuck /\ Few(t, P)
             /\ DOMAIN t.entries \cap StackLeaves = DOMAIN m.entries \cap StackLeaves
             /\ Has(n, t, <<Levels, v>>, page) /\ Leaf(n, m, v, page)
<1> DEFINE t == Tables(m, v, "boot")
           n == BootAllocate(m, v, page)
           e == <<Levels, v>>
<1>1. Valid(t, X) /\ Grew(t, m) /\ ~t.stuck /\ Few(t, P) /\ t \in Memories
  BY BootWalk DEF Valid
<1>2. v \in Nat /\ e \in EntrySpace
  BY AddressFacts, SpaceFacts
<1>3. n = Put(t, e, page)
  BY DEF BootAllocate
<1> HIDE DEF t
<1>4. Has(n, t, e, page)
  BY <1>1, <1>2, <1>3, PutFacts
<1> HIDE DEF n
<1>5. \A w \in Nat : <<Levels, w>> \in DOMAIN t.entries <=> <<Levels, w>> \in DOMAIN m.entries
  BY <1>1, PagingAssumption DEF Grew
<1>6. Leaf(n, m, v, page)
  <2>1. DOMAIN m.entries \subseteq DOMAIN n.entries /\ Mapped(n, v, page)
    BY <1>1, <1>4 DEF Grew, Has, Mapped
  <2>2. ASSUME NEW w \in Nat \ {v}
        PROVE  /\ <<Levels, w>> \in DOMAIN n.entries <=> <<Levels, w>> \in DOMAIN m.entries
               /\ \A x : Mapped(m, w, x) => Mapped(n, w, x)
    <3>1. <<Levels, w>> # e
      OBVIOUS
    <3> HIDE DEF e
    <3>2. <<Levels, w>> \in DOMAIN n.entries <=> <<Levels, w>> \in DOMAIN t.entries
      BY <3>1, <1>4 DEF Has
    <3>3. <<Levels, w>> \in DOMAIN m.entries =>
              n.entries[<<Levels, w>>] = m.entries[<<Levels, w>>]
      BY <3>1, <1>1, <1>4 DEF Has, Grew
    <3> QED BY <3>2, <3>3, <1>5 DEF Mapped
  <2> QED BY <2>1, <2>2 DEF Leaf
<1>7. DOMAIN t.entries \cap StackLeaves = DOMAIN m.entries \cap StackLeaves
  BY <1>1, PagingAssumption DEF StackLeaves, Grew
<1> QED
  BY <1>1, <1>4, <1>6, <1>7 DEF t, n, e

\* A page that is nobody's own is mapped.
LEMMA BootOther ==
  ASSUME NEW m, NEW X, Valid(m, X), ~m.stuck, Few(m, {}), NEW v \in BootAddresses,
         NEW page \in Nat, v <= LastPage - StackPages,
         (v < HeapPage /\ page = v) \/ v >= MemoryMap
  PROVE  LET n == BootAllocate(m, v, page)
         IN  Valid(n, X) /\ ~n.stuck /\ Few(n, {}) /\ Leaf(n, m, v, page)
<1> DEFINE t == Tables(m, v, "boot")
           n == BootAllocate(m, v, page)
           e == <<Levels, v>>
<1>1. /\ Valid(t, X) /\ ~t.stuck /\ Few(t, {}) /\ t \in Memories
      /\ Has(n, t, e, page) /\ Leaf(n, m, v, page)
  BY BootLeaf DEF Valid
<1>2. v \in Nat /\ e[1] = Levels /\ e[2] = v
  BY AddressFacts
<1>3. ~IsOwn(e)
  BY <1>2, AddressFacts, PagingAssumption DEF IsOwn
<1>4. Identity(n)
  <2>1. ASSUME NEW w \in 0..HeapPage - 1, <<Levels, w>> \in DOMAIN n.entries
        PROVE  n.entries[<<Levels, w>>] = w
    <3>1. w \in Nat /\ w < HeapPage
      BY AddressFacts
    <3>2. CASE w = v
      BY <3>1, <3>2, <1>1, <1>2, AddressFacts DEF Has
    <3>3. CASE w # v
      <4>1. <<Levels, w>> # e
        BY <3>3
      <4> HIDE DEF e, n
      <4>2. <<Levels, w>> \in DOMAIN t.entries /\ n.entries[<<Levels, w>>] = t.entries[<<Levels, w>>]
        BY <2>1, <4>1, <1>1 DEF Has
      <4> QED BY <4>2, <1>1 DEF Valid, Identity
    <3> QED BY <3>2, <3>3
  <2> QED BY <2>1 DEF Identity
<1> HIDE DEF t, n, e
<1>5. Sound(n, X)
  BY <1>1, <1>3, OtherSound DEF Valid
<1>6. LowTables(n)
  BY <1>1, <1>2, PagingAssumption DEF Valid, LowTables, Has
<1>7. OwnIn(n) = OwnIn(t)
  BY <1>1, <1>3 DEF OwnIn, Has
<1> QED
  BY <1>1, <1>4, <1>5, <1>6, <1>7 DEF Valid, Has, Few, n, e

\* A page of the stack.
LEMMA BootStack ==
  ASSUME NEW m, NEW X, Valid(m, X), ~m.stuck, Few(m, {}), NEW v \in Nat,
         v > LastPage - StackPages, v <= LastPage, <<Levels, v>> \notin DOMAIN m.entries,
         NEW f, f = BootFree(m.used)
  PROVE  LET n == BootAllocate([m EXCEPT !.used = @ \cup {f}], v, PhysicalStart + f)
         IN  Valid(n, X) /\ ~n.stuck /\ Few(n, {}) /\ Leaf(n, m, v, PhysicalStart + f)
<1> DEFINE k == [m EXCEPT !.used = @ \cup {f}]
           page == PhysicalStart + f
           e == <<Levels, v>>
           t == Tables(k, v, "boot")
           n == BootAllocate(k, v, page)
<1>1. m \in Memories /\ f \in Nat \ m.used /\ page \in Nat /\ IsFiniteSet(m.used)
  <2>1. m \in Memories /\ m.used \in SUBSET Nat /\ IsFiniteSet(m.used)
    BY MemoryFacts DEF Valid
  <2> QED BY <2>1, BootFreeFacts, PagingAssumption
<1>2. Marked(k, m, f)
  BY <1>1, MarkFacts
<1> HIDE DEF k
<1>3. Valid(k, X \cup {f}) /\ k \in Memories /\ ~k.stuck
  BY <1>1, <1>2, MarkSound DEF Valid, Marked
<1>4. /\ e \in StackLeaves /\ {e} \subseteq StackLeaves /\ v \in BootAddresses
      /\ v >= MemoryMap /\ v >= HeapPage /\ IsOwn(e) /\ e[1] = Levels
  BY AddressFacts DEF StackLeaves, BootAddresses, IsOwn
<1>5. Few(k, {e})
  <2> DEFINE A == OwnIn(m)
  <2>1. OwnIn(k) = A /\ e \notin A /\ k.used = m.used \cup {f} /\ f \notin m.used
    BY <1>1, <1>2 DEF OwnIn, Marked
  <2>2. A \in SUBSET BootOwn /\ Cardinality(m.used) <= Cardinality(A) /\ A \cup {e} \subseteq BootOwn
    <3>1. OwnIn(m) \cup {} = OwnIn(m)
      OBVIOUS
    <3> QED BY <3>1, <1>4 DEF Few, BootOwn
  <2> HIDE DEF A
  <2>3. IsFiniteSet(A)
    BY <2>2, BootOwnFinite, FS_Subset
  <2>4. /\ Cardinality(A \cup {e}) = Cardinality(A) + 1
        /\ Cardinality(m.used \cup {f}) = Cardinality(m.used) + 1
    BY <1>1, <2>1, <2>3, FS_AddElement
  <2>5. Cardinality(A) \in Nat /\ Cardinality(m.used) \in Nat
    BY <1>1, <2>3, FS_CardinalityType
  <2> QED BY <2>1, <2>2, <2>4, <2>5 DEF Few
<1>6. /\ Valid(t, X \cup {f}) /\ ~t.stuck /\ Few(t, {e}) /\ t \in Memories
      /\ DOMAIN t.entries \cap StackLeaves = DOMAIN k.entries \cap StackLeaves
      /\ Has(n, t, e, page) /\ Leaf(n, k, v, page)
  BY <1>1, <1>3, <1>4, <1>5, BootLeaf DEF Valid
<1> HIDE DEF t, n
<1>7. Sound(n, X)
  <2>1. f \in X \cup {f} /\ (X \cup {f}) \ {f} = X
    BY <1>1 DEF Valid, Sound
  <2>2. Sound(n, (X \cup {f}) \ {f})
    BY <2>1, <1>6, HasSound DEF Valid, page
  <2> QED BY <2>1, <2>2
<1>8. LowTables(n)
  BY <1>4, <1>6, PagingAssumption DEF Valid, LowTables, Has
<1>9. Identity(n)
  <2>1. \A w \in 0..HeapPage - 1 : <<Levels, w>> # e
    BY <1>4, AddressFacts
  <2> QED BY <2>1, <1>6 DEF Valid, Identity, Has
<1>10. Few(n, {})
  <2>1. OwnIn(n) \cup {} = OwnIn(t) \cup {e}
    BY <1>4, <1>6 DEF OwnIn, Has
  <2> QED BY <2>1, <1>6 DEF Few, Has
<1>11. Leaf(n, m, v, page)
  BY <1>2, <1>6 DEF Leaf, Mapped, Marked
<1> QED
  BY <1>6, <1>7, <1>8, <1>9, <1>10, <1>11 DEF Valid, Has, n, k, page

\* What the boot has mapped of the memory after i pages, and of the stack.
MapTo(m, i) ==
    \A p \in 0..MemoryHigh : p < i - IdentityPages => Mapped(m, MemoryMap + p, p)
StackTo(m, i) ==
    \A v \in Nat : <<Levels, v>> \in DOMAIN m.entries /\ v > LastPage - StackPages =>
        LastPage - v < i - IdentityPages - MemoryHigh - 1

BootAt(m, i) ==
    /\ i > 0 => Mapped(m, 0, 0)
    /\ MapTo(m, i)
    /\ i <= BootPages => Few(m, {}) /\ ~m.stuck /\ StackTo(m, i)

LEMMA BootStepFacts ==
  ASSUME NEW m, NEW X, Valid(m, X), NEW i \in Nat, i < BootPages, BootAt(m, i)
  PROVE  LET n == BootStep(m, i)
         IN  Valid(n, X) /\ BootAt(n, i + 1) /\ DOMAIN m.entries \subseteq DOMAIN n.entries
<1> DEFINE n == BootStep(m, i)
           p == i - IdentityPages
           q == p - MemoryHigh - 1
           f == BootFree(m.used)
           Result(v, page) == Valid(n, X) /\ ~n.stuck /\ Few(n, {}) /\ Leaf(n, m, v, page)
<1>1. i <= BootPages /\ ~m.stuck /\ Few(m, {}) /\ p \in Int /\ q \in Int
  <2>1. i <= BootPages /\ p \in Int /\ q \in Int
    BY AddressFacts DEF BootPages
  <2> QED BY <2>1 DEF BootAt
<1>2. CASE p < 0
  <2>1. n = BootAllocate(m, i, i) /\ i \in BootAddresses /\ i < HeapPage /\ i <= LastPage - StackPages
    BY <1>2, AddressFacts DEF BootStep, BootAddresses
  <2>2. Result(i, i)
    BY <1>1, <2>1, BootOther
  <2>3. Mapped(n, 0, 0)
    <3>1. CASE i = 0
      BY <3>1, <2>2 DEF Leaf
    <3>2. CASE i # 0
      <4>1. 0 \in Nat \ {i} /\ Mapped(m, 0, 0)
        BY <3>2 DEF BootAt
      <4> QED BY <4>1, <2>2 DEF Leaf
    <3> QED BY <3>1, <3>2
  <2>4. \A r \in 0..MemoryHigh : ~(r < i + 1 - IdentityPages)
    BY <1>2, AddressFacts
  <2>5. ASSUME NEW v \in Nat, <<Levels, v>> \in DOMAIN n.entries, v > LastPage - StackPages
        PROVE  LastPage - v < i + 1 - IdentityPages - MemoryHigh - 1
    <3>1. v # i
      BY <2>1, <2>5, AddressFacts
    <3> HIDE DEF n
    <3>2. <<Levels, v>> \in DOMAIN m.entries
      BY <3>1, <2>2, <2>5 DEF Leaf
    <3>3. LastPage - v < i - IdentityPages - MemoryHigh - 1
      BY <3>2, <2>5, <1>1 DEF BootAt, StackTo
    <3> QED BY <3>3, AddressFacts
  <2> HIDE DEF n
  <2>6. MapTo(n, i + 1) /\ StackTo(n, i + 1)
    BY <2>4, <2>5, AddressFacts DEF MapTo, StackTo
  <2>7. BootAt(n, i + 1)
    BY <2>2, <2>3, <2>6 DEF BootAt
  <2> QED BY <2>2, <2>7 DEF n, Leaf
<1>3. CASE p >= 0 /\ q < 0
  <2> DEFINE a == MemoryMap + p
  <2>1. /\ n = BootAllocate(m, a, p) /\ a \in BootAddresses /\ a >= MemoryMap /\ p \in Nat
        /\ a <= LastPage - StackPages /\ p \in 0..MemoryHigh /\ a \in Nat /\ a # 0
    BY <1>1, <1>3, AddressFacts DEF BootStep, BootAddresses
  <2>2. Result(a, p)
    BY <1>1, <2>1, BootOther
  <2> HIDE DEF n
  <2>3. Mapped(n, 0, 0)
    <3>1. 0 \in Nat \ {a} /\ i > 0 /\ Mapped(m, 0, 0)
      BY <1>3, <2>1, AddressFacts DEF BootAt
    <3> QED BY <3>1, <2>2 DEF Leaf
  <2>4. ASSUME NEW r \in 0..MemoryHigh, r < i + 1 - IdentityPages
        PROVE  Mapped(n, MemoryMap + r, r)
    <3>1. CASE r = p
      BY <3>1, <2>2 DEF Leaf
    <3>2. CASE r # p
      <4>1. r < i - IdentityPages /\ MemoryMap + r \in Nat \ {a}
        BY <3>2, <2>1, <2>4, AddressFacts
      <4>2. Mapped(m, MemoryMap + r, r)
        BY <4>1 DEF BootAt, MapTo
      <4> QED BY <4>1, <4>2, <2>2 DEF Leaf
    <3> QED BY <3>1, <3>2
  <2>5. ASSUME NEW v \in Nat, <<Levels, v>> \in DOMAIN n.entries, v > LastPage - StackPages
        PROVE  LastPage - v < i + 1 - IdentityPages - MemoryHigh - 1
    <3>1. v # a
      BY <2>1, <2>5, AddressFacts
    <3>2. <<Levels, v>> \in DOMAIN m.entries
      BY <3>1, <2>2, <2>5 DEF Leaf
    <3>3. LastPage - v < i - IdentityPages - MemoryHigh - 1
      BY <3>2, <2>5, <1>1 DEF BootAt, StackTo
    <3> QED BY <3>3, AddressFacts
  <2>6. MapTo(n, i + 1) /\ StackTo(n, i + 1)
    BY <2>4, <2>5, AddressFacts DEF MapTo, StackTo
  <2>7. BootAt(n, i + 1)
    BY <2>2, <2>3, <2>6 DEF BootAt
  <2> QED BY <2>2, <2>7 DEF n, Leaf
<1>4. CASE p >= 0 /\ q >= 0
  <2> DEFINE a == LastPage - q
  <2>1. /\ q \in Nat /\ q < StackPages
        /\ n = BootAllocate([m EXCEPT !.used = @ \cup {f}], a, PhysicalStart + f)
    BY <1>1, <1>4, AddressFacts DEF BootStep, BootPages
  <2>2. a \in Nat /\ a > LastPage - StackPages /\ a <= LastPage /\ a # 0 /\ LastPage - a = q
    BY <2>1, AddressFacts
  <2>3. <<Levels, a>> \notin DOMAIN m.entries
    BY <1>1, <2>2 DEF BootAt, StackTo
  <2>4. Result(a, PhysicalStart + f)
    BY <1>1, <2>1, <2>2, <2>3, BootStack
  <2> HIDE DEF n
  <2>5. Mapped(n, 0, 0)
    <3>1. 0 \in Nat \ {a} /\ i > 0 /\ Mapped(m, 0, 0)
      BY <1>4, <2>2, AddressFacts DEF BootAt
    <3> QED BY <3>1, <2>4 DEF Leaf
  <2>6. ASSUME NEW r \in 0..MemoryHigh PROVE Mapped(n, MemoryMap + r, r)
    <3>1. r < i - IdentityPages /\ MemoryMap + r \in Nat \ {a}
      BY <1>4, <2>2, AddressFacts
    <3>2. Mapped(m, MemoryMap + r, r)
      BY <3>1 DEF BootAt, MapTo
    <3> QED BY <3>1, <3>2, <2>4 DEF Leaf
  <2>7. ASSUME NEW v \in Nat, <<Levels, v>> \in DOMAIN n.entries, v > LastPage - StackPages
        PROVE  LastPage - v < i + 1 - IdentityPages - MemoryHigh - 1
    <3>1. CASE v = a
      BY <3>1, <2>1, <2>2, AddressFacts
    <3>2. CASE v # a
      <4>1. <<Levels, v>> \in DOMAIN m.entries
        BY <3>2, <2>4, <2>7 DEF Leaf
      <4>2. LastPage - v < i - IdentityPages - MemoryHigh - 1
        BY <4>1, <2>7, <1>1 DEF BootAt, StackTo
      <4> QED BY <4>2, AddressFacts
    <3> QED BY <3>1, <3>2
  <2>8. MapTo(n, i + 1) /\ StackTo(n, i + 1)
    <3> HIDE DEF a, p, q
    <3>1. MapTo(n, i + 1)
      BY <2>6 DEF MapTo
    <3>2. StackTo(n, i + 1)
      BY <2>7, AddressFacts DEF StackTo
    <3> QED BY <3>1, <3>2
  <2>9. BootAt(n, i + 1)
    BY <2>4, <2>5, <2>8 DEF BootAt
  <2> QED BY <2>4, <2>9 DEF n, Leaf
<1> QED
  BY <1>1, <1>2, <1>3, <1>4

-----------------------------------------------------------------------------
(* The invariant. *)

\* The pages of the heap are there up to the one where the next is to be assigned.
HeapMapped ==
    \A v \in HeapPage..HeapPage + highest \div PageLength - 1 :
        <<Levels, v>> \in DOMAIN memory.entries

\* That is as far into its page as the first header, and past the end of the list.
Backing ==
    /\ highest \in Nat /\ \E k \in Nat : highest = k * PageLength + Realign(0)
    /\ blocks # <<>> => end < highest

MemoryInv ==
    /\ booted \in Nat /\ Valid(memory, Frames(dma)) /\ BootAt(memory, booted)
    /\ booted <= BootPages => dma = <<>>
    /\ booted > BootPages => Ported(memory, dma)
    /\ HeapMapped /\ Backing

LEMMA AssignedFacts ==
  ASSUME NEW h \in Nat, NEW e \in Nat
  PROVE  /\ Assigned(h, e) \in Nat /\ h <= Assigned(h, e) /\ e < Assigned(h, e)
         /\ \E c \in Nat : Assigned(h, e) = c * PageLength + h
<1>1. PageLength \in Nat \ {0}
  BY HeapAssumption
<1>2. CASE h <= e
  <2> DEFINE d == e - h
             c == d \div PageLength + 1
  <2>1. d \in Nat
    BY <1>2
  <2> HIDE DEF d
  <2>2. c \in Nat \ {0} /\ d < c * PageLength
    BY <1>1, <2>1
  <2>3. Assigned(h, e) = h + PageLength * c
    BY <1>2 DEF Assigned, d
  <2> HIDE DEF c
  <2>4. PageLength * c = c * PageLength /\ c * PageLength \in Nat
    BY <1>1, <2>2
  <2>5. e < h + c * PageLength
    BY <2>1, <2>2, <2>4 DEF d
  <2> QED BY <2>2, <2>3, <2>4, <2>5
<1>3. CASE h > e
  <2>1. Assigned(h, e) = 0 * PageLength + h
    BY <1>1, <1>3 DEF Assigned
  <2> QED BY <2>1, <1>1, <1>3
<1> QED
  BY <1>2, <1>3

LEMMA BootKept ==
  ASSUME NEW n, NEW m, Kept(n, m), NEW i \in Nat, i >= BootPages, BootAt(m, i)
  PROVE  BootAt(n, i + 1) /\ (i > BootPages => BootAt(n, i)) /\ Mapped(m, 0, 0)
<1>1. i > 0 /\ Mapped(m, 0, 0) /\ i + 1 > BootPages
  BY AddressFacts DEF BootAt, BootPages
<1>2. \A p \in 0..MemoryHigh : p < i - IdentityPages
  BY AddressFacts DEF BootPages
<1>3. \A p \in 0..MemoryHigh : Mapped(n, MemoryMap + p, p)
  BY <1>2, MappedKept DEF BootAt, MapTo
<1>4. Mapped(n, 0, 0) /\ MapTo(n, i) /\ MapTo(n, i + 1)
  BY <1>1, <1>3, MappedKept DEF MapTo
<1>5. ~(i + 1 <= BootPages) /\ (i > BootPages => ~(i <= BootPages))
  BY AddressFacts DEF BootPages
<1> QED
  BY <1>1, <1>4, <1>5 DEF BootAt

LEMMA PortedKept ==
  ASSUME NEW m, NEW n, NEW q, Ported(m, q), Valid(n, Frames(q)), Kept(n, m)
  PROVE  Ported(n, q)
<1>1. Mapped(n, 0, 0)
  BY MappedKept DEF Ported
<1>2. ASSUME NEW i \in DOMAIN q, ~n.stuck PROVE Mapped(n, q[i], q[i])
  BY <1>2, MappedKept DEF Ported, Kept
<1> QED
  BY <1>1, <1>2 DEF Ported

LEMMA InitMemoryInv == InitMemory => MemoryInv
<1> SUFFICES ASSUME InitMemory PROVE MemoryInv
  OBVIOUS
<1>1. /\ memory = Fresh /\ dma = <<>> /\ booted = 0 /\ blocks = <<>> /\ highest = Realign(0)
  BY DEF InitMemory, Init
<1>2. DOMAIN Fresh.entries = {} /\ Fresh.used = {} /\ Fresh.stuck = FALSE
  BY DEF Fresh
<1>3. Fresh \in Memories
  <2> DEFINE e == <<>>
  <2>1. e \in [{} -> Nat]
    OBVIOUS
  <2>2. {} \in SUBSET Nat /\ {} \in SUBSET EntrySpace /\ IsFiniteSet({})
    BY FS_EmptySet
  <2>3. Fresh = [used |-> {}, entries |-> e, stuck |-> FALSE]
    BY DEF Fresh
  <2> HIDE DEF e
  <2> QED BY <2>1, <2>2, <2>3, MemoryIs
<1>4. Frames(dma) = {}
  BY <1>1 DEF Frames
<1>5. Valid(memory, {})
  BY <1>1, <1>2, <1>3 DEF Valid, Sound, OwnIn, LowTables, Identity
<1>6. BootAt(memory, 0)
  <2>1. Few(Fresh, {})
    BY <1>2, FS_EmptySet DEF Few, OwnIn
  <2>2. MapTo(Fresh, 0)
    BY AddressFacts DEF MapTo
  <2>3. StackTo(Fresh, 0)
    BY <1>2 DEF StackTo
  <2> QED BY <1>1, <1>2, <2>1, <2>2, <2>3 DEF BootAt
<1>7. Backing /\ highest < PageLength
  <2>1. Realign(0) \in Nat /\ Realign(0) = MemoryAlign - HeaderSize /\ MemoryAlign <= PageLength
    <3>1. /\ HeaderSize \in Nat \ {0} /\ MemoryAlign \in Nat \ {0} /\ PageLength \in Nat \ {0}
          /\ HeaderSize < MemoryAlign /\ PageLength % MemoryAlign = 0
      BY HeapAssumption
    <3>2. (0 + HeaderSize) % MemoryAlign = HeaderSize
      BY <3>1
    <3>3. MemoryAlign <= PageLength
      BY <3>1
    <3> QED BY <3>1, <3>2, <3>3 DEF Realign
  <2>2. Realign(0) = 0 * PageLength + Realign(0)
    BY <2>1, HeapAssumption
  <2> QED BY <1>1, <2>1, <2>2, HeapAssumption DEF Backing
<1>8. HeapMapped
  <2>1. highest \div PageLength = 0
    BY <1>7, HeapAssumption DEF Backing
  <2>2. \A v \in HeapPage..HeapPage + 0 - 1 : FALSE
    BY AddressFacts
  <2> QED BY <2>1, <2>2 DEF HeapMapped
<1>9. BootPages \in Nat
  BY AddressFacts DEF BootPages
<1>10. booted \in Nat /\ ~(booted > BootPages)
  BY <1>1, <1>9
<1>11. Valid(memory, Frames(dma)) /\ BootAt(memory, booted)
  BY <1>1, <1>4, <1>5, <1>6
<1> QED
  BY <1>1, <1>7, <1>8, <1>10, <1>11 DEF MemoryInv

\* A page of the boot's.
LEMMA BootPageStep == MemoryInv /\ BootPage => MemoryInv'
<1> SUFFICES ASSUME MemoryInv, BootPage PROVE MemoryInv'
  OBVIOUS
<1>1. /\ booted \in Nat /\ booted < BootPages /\ memory' = BootStep(memory, booted)
      /\ booted' = booted + 1 /\ UNCHANGED <<vars, dma>> /\ BootPages \in Nat
  BY AddressFacts DEF BootPage, MemoryInv, BootPages
<1>2. /\ Valid(memory', Frames(dma)) /\ BootAt(memory', booted + 1)
      /\ DOMAIN memory.entries \subseteq DOMAIN memory'.entries
  <2>1. Valid(memory, Frames(dma)) /\ BootAt(memory, booted)
    BY DEF MemoryInv
  <2> QED BY <2>1, <1>1, BootStepFacts
<1>3. HeapMapped' /\ Backing'
  BY <1>1, <1>2 DEF MemoryInv, HeapMapped, Backing, vars
<1>4. dma = <<>> /\ booted' \in Nat /\ ~(booted' > BootPages)
  BY <1>1 DEF MemoryInv
<1>5. Frames(dma)' = Frames(dma)
  BY <1>1 DEF Frames
<1> QED
  BY <1>1, <1>2, <1>3, <1>4, <1>5 DEF MemoryInv

\* The registers of the interrupt controller.
LEMMA ApicStep == MemoryInv /\ ApicInit => MemoryInv'
<1> SUFFICES ASSUME MemoryInv, ApicInit PROVE MemoryInv'
  OBVIOUS
<1>1. /\ booted \in Nat /\ booted = BootPages /\ memory' = IdentityMap(memory, ApicPage)
      /\ booted' = booted + 1 /\ UNCHANGED <<vars, dma>> /\ dma = <<>>
      /\ Valid(memory, Frames(dma)) /\ BootAt(memory, booted)
  BY DEF ApicInit, MemoryInv
<1>2. Mapped(memory, 0, 0)
  <2>1. booted > 0
    BY <1>1, AddressFacts DEF BootPages
  <2> QED BY <2>1, <1>1 DEF BootAt
<1>3. Valid(memory', Frames(dma)) /\ Kept(memory', memory)
  <2>1. ApicPage \in 0..HeapPage - 1
    BY MemoryAssumption, PagingAssumption
  <2> QED BY <2>1, <1>1, <1>2, IdentityMaps
<1>4. BootAt(memory', booted') /\ Mapped(memory', 0, 0)
  <2>1. booted >= BootPages
    BY <1>1
  <2> QED BY <2>1, <1>1, <1>2, <1>3, BootKept, MappedKept
<1>5. HeapMapped' /\ Backing'
  BY <1>1, <1>3 DEF MemoryInv, HeapMapped, Backing, vars, Kept
<1>6. booted' \in Nat /\ ~(booted' <= BootPages)
  BY <1>1
<1>7. Frames(dma)' = Frames(dma) /\ dma' = <<>>
  BY <1>1 DEF Frames
<1>8. Ported(memory', dma)
  <2>1. dma \in Seq(Nat) /\ DOMAIN dma = {}
    BY <1>1
  <2> QED BY <2>1, <1>3, <1>4 DEF Ported
<1> QED
  BY <1>1, <1>3, <1>4, <1>5, <1>6, <1>7, <1>8 DEF MemoryInv

LEMMA RunningFacts ==
  ASSUME MemoryInv, Running
  PROVE  /\ booted \in Nat /\ booted > BootPages /\ ~(booted <= BootPages)
         /\ Ported(memory, dma) /\ Valid(memory, Frames(dma)) /\ BootAt(memory, booted)
<1>1. booted \in Nat /\ booted > BootPages /\ BootPages \in Nat
  BY AddressFacts DEF MemoryInv, Running, BootPages
<1> QED
  BY <1>1 DEF MemoryInv

\* Whatever keeps the memory keeps what was known of the boot.
LEMMA LaterStep ==
  ASSUME MemoryInv, Running, booted' = booted, Ported(memory', dma'), Kept(memory', memory),
         HeapMapped', Backing'
  PROVE  MemoryInv'
<1>1. BootAt(memory', booted)
  <2>1. booted >= BootPages /\ booted \in Nat /\ booted > BootPages
    BY RunningFacts, AddressFacts DEF BootPages
  <2> QED BY <2>1, RunningFacts, BootKept
<1>2. Valid(memory', Frames(dma)')
  BY DEF Ported, Frames
<1> QED
  BY <1>1, <1>2, RunningFacts DEF MemoryInv

LEMMA GrowMappedStep ==
  ASSUME HeapInv, MemoryInv, Running, NEW size \in Nat, GrowMapped(size)
  PROVE  MemoryInv'
<1> DEFINE X == Frames(dma)
           a == highest \div PageLength
           b == highest' \div PageLength
<1>1. /\ Grow(size) /\ memory' = Extended(highest, highest') /\ ~memory'.stuck
      /\ UNCHANGED <<dma, booted>>
  BY DEF GrowMapped
<1>2. /\ highest \in Nat /\ end' \in Nat /\ highest' = Assigned(highest, end')
  <2>1. end' \in Nat
    BY <1>1, GrowStep DEF HeapInv, Types
  <2> QED BY <1>1, <2>1 DEF Grow, MemoryInv, Backing
<1>3. /\ highest' \in Nat /\ highest <= highest' /\ end' < highest'
      /\ \E c \in Nat : highest' = c * PageLength + highest
  BY <1>2, AssignedFacts
<1>4. /\ Valid(memory', X) /\ Kept(memory', memory)
      /\ \A v \in HeapPage + a..HeapPage + b - 1 : <<Levels, v>> \in DOMAIN memory'.entries
  BY <1>1, <1>2, <1>3, RunningFacts, ExtendedFacts
<1>5. Ported(memory', dma')
  BY <1>1, <1>4, RunningFacts, PortedKept
<1>6. HeapMapped'
  <2> SUFFICES ASSUME NEW v \in HeapPage..HeapPage + b - 1
               PROVE  <<Levels, v>> \in DOMAIN memory'.entries
    BY DEF HeapMapped
  <2>1. a \in Nat /\ b \in Nat /\ HeapPage \in Nat
    BY <1>2, <1>3, HeapAssumption, AddressFacts
  <2>2. CASE v < HeapPage + a
    <3>1. v \in HeapPage..HeapPage + a - 1
      BY <2>1, <2>2
    <3>2. <<Levels, v>> \in DOMAIN memory.entries
      BY <3>1 DEF MemoryInv, HeapMapped
    <3> QED BY <3>2, <1>4 DEF Kept
  <2>3. CASE ~(v < HeapPage + a)
    <3>1. v \in HeapPage + a..HeapPage + b - 1
      BY <2>1, <2>3
    <3> QED BY <3>1, <1>4
  <2> QED BY <2>2, <2>3
<1>7. Backing'
  <2>1. PICK k \in Nat : highest = k * PageLength + Realign(0)
    BY DEF MemoryInv, Backing
  <2>2. PICK c \in Nat : highest' = c * PageLength + highest
    BY <1>3
  <2>3. PageLength \in Nat /\ Realign(0) \in Nat
    BY HeapAssumption, RealignFacts
  <2>4. c + k \in Nat /\ highest' = (c + k) * PageLength + Realign(0)
    <3> DEFINE d == Realign(0)
    <3>1. d \in Nat /\ highest' = c * PageLength + (k * PageLength + d)
      BY <2>1, <2>2, <2>3
    <3> HIDE DEF d
    <3>2. c + k \in Nat /\ highest' = (c + k) * PageLength + d
      BY <3>1, <2>3
    <3> QED BY <3>2 DEF d
  <2> QED BY <2>4, <1>3 DEF Backing
<1> QED
  BY <1>1, <1>4, <1>5, <1>6, <1>7, LaterStep

LEMMA GrowStuckStep ==
  ASSUME HeapInv, MemoryInv, Running, NEW size \in Nat, GrowStuck(size)
  PROVE  MemoryInv'
<1> DEFINE to == Realign(end) + size + HeaderSize + 1
           last == Assigned(highest, to)
<1>1. memory' = Extended(highest, last) /\ UNCHANGED <<vars, dma, booted>>
  BY DEF GrowStuck
<1>2. highest \in Nat /\ to \in Nat
  <2>1. end \in Nat /\ HeaderSize \in Nat /\ highest \in Nat
    BY HeapAssumption DEF HeapInv, Types, MemoryInv, Backing
  <2>2. Realign(end) \in Nat
    BY <2>1, RealignFacts
  <2> QED BY <2>1, <2>2
<1> HIDE DEF to
<1>3. last \in Nat /\ highest <= last
  BY <1>2, AssignedFacts
<1> HIDE DEF last
<1>4. Valid(memory', Frames(dma)) /\ Kept(memory', memory)
  BY <1>1, <1>2, <1>3, RunningFacts, ExtendedFacts
<1>5. Ported(memory', dma')
  BY <1>1, <1>4, RunningFacts, PortedKept
<1>6. HeapMapped' /\ Backing'
  BY <1>1, <1>4 DEF MemoryInv, HeapMapped, Backing, vars, Kept
<1> QED
  BY <1>1, <1>4, <1>5, <1>6, LaterStep

LEMMA MakePortStep ==
  ASSUME MemoryInv, Running, MakePort
  PROVE  MemoryInv'
<1>1. Ported(memory', dma') /\ Kept(memory', memory)
  BY RunningFacts, MakePortFacts
<1>2. UNCHANGED <<vars, booted>>
  BY DEF MakePort
<1>3. HeapMapped' /\ Backing'
  BY <1>1, <1>2 DEF MemoryInv, HeapMapped, Backing, vars, Kept
<1> QED
  BY <1>1, <1>2, <1>3, LaterStep

\* What the heap does without pages.
LEMMA HeapOnlyStep ==
  ASSUME MemoryInv, UNCHANGED mvars, UNCHANGED <<end, highest>>, blocks' # <<>> => blocks # <<>>
  PROVE  MemoryInv'
BY DEF MemoryInv, mvars, HeapMapped, Backing, Frames

LEMMA StepMemory == HeapInv /\ MemoryInv /\ [NextMemory]_<<vars, mvars>> => MemoryInv'
<1> SUFFICES ASSUME HeapInv, MemoryInv, [NextMemory]_<<vars, mvars>> PROVE MemoryInv'
  OBVIOUS
<1>1. CASE UNCHANGED <<vars, mvars>>
  BY <1>1, HeapOnlyStep DEF vars
<1>2. CASE BootPage
  BY <1>2, BootPageStep
<1>3. CASE ApicInit
  BY <1>3, ApicStep
<1>4. ASSUME NEW size \in Request, Running, GrowMapped(size) PROVE MemoryInv'
  BY <1>4, GrowMappedStep, HeapAssumption
<1>5. ASSUME NEW size \in Request, Running, GrowStuck(size) PROVE MemoryInv'
  BY <1>5, GrowStuckStep, HeapAssumption
<1>6. \A i \in DOMAIN blocks : blocks # <<>>
  OBVIOUS
<1>7. ASSUME NEW size \in Request, Reuse(size), UNCHANGED mvars PROVE MemoryInv'
  BY <1>6, <1>7, HeapOnlyStep DEF Reuse
<1>8. ASSUME NEW p \in DOMAIN live, Free(p), UNCHANGED mvars PROVE MemoryInv'
  BY <1>6, <1>8, HeapOnlyStep DEF Free
<1>9. CASE AllocateNothing /\ UNCHANGED mvars
  BY <1>9, HeapOnlyStep DEF AllocateNothing, vars
<1>10. CASE Running /\ MakePort
  BY <1>10, MakePortStep
<1> QED
  BY <1>1, <1>2, <1>3, <1>4, <1>5, <1>7, <1>8, <1>9, <1>10 DEF NextMemory

\* From the boot on, the frames, the entries and the pages of heap and ports agree.
THEOREM SpecMemoryInv == SpecMemory => [](HeapInv /\ MemoryInv)
<1>1. SpecMemory => []HeapInv
  BY MemoryIsHeap, SpecHeapInv, PTL
<1> QED
  BY <1>1, InitMemoryInv, StepMemory, PTL DEF SpecMemory

-----------------------------------------------------------------------------
(* What it means for those who use the memory. *)

LEMMA InvReachable == MemoryInv => Reachable
<1> SUFFICES ASSUME MemoryInv, Running PROVE
      /\ \A i \in DOMAIN dma : MappedTo(dma[i], dma[i])
      /\ \A e \in Entries : e[1] < Levels =>
             MappedTo(MemoryMap + memory.entries[e], memory.entries[e])
  BY DEF Reachable
<1>1. /\ booted \in Nat /\ booted > BootPages
      /\ Ported(memory, dma) /\ Valid(memory, Frames(dma)) /\ BootAt(memory, booted)
  BY RunningFacts
<1>2. ASSUME NEW i \in DOMAIN dma PROVE MappedTo(dma[i], dma[i])
  BY <1>1 DEF Ported, Mapped, MappedTo, Entries, Running
<1>3. ASSUME NEW e \in Entries, e[1] < Levels
      PROVE  MappedTo(MemoryMap + memory.entries[e], memory.entries[e])
  <2> DEFINE p == memory.entries[e]
  <2>1. p \in Nat /\ p <= MemoryHigh
    BY <1>1, <1>3, MemoryFacts DEF Valid, LowTables, Entries
  <2> HIDE DEF p
  <2>2. p \in 0..MemoryHigh /\ p < booted - IdentityPages
    BY <1>1, <2>1, AddressFacts DEF BootPages
  <2> QED BY <1>1, <2>2 DEF BootAt, MapTo, Mapped, MappedTo, Entries, p
<1> QED
  BY <1>2, <1>3

\* Once the boot is over, a page given to a port is mapped to its own address, although
\* makePort() maps it without a look at what was there, and the walks of assign() find
\* every table through the map of physical memory that the boot made.
THEOREM SpecReachable == SpecMemory => []Reachable
BY SpecMemoryInv, InvReachable, PTL

\* What is taken from one set without repetition counts as much as what it is taken by.
LEMMA SameCount ==
  ASSUME NEW S, IsFiniteSet(S), NEW f, DOMAIN f = S,
         \A x, y \in S : x # y => f[x] # f[y]
  PROVE  /\ IsFiniteSet({f[x] : x \in S})
         /\ Cardinality({f[x] : x \in S}) = Cardinality(S)
<1> DEFINE T == {f[x] : x \in S}
           g == [x \in S |-> f[x]]
<1>1. g \in Surjection(S, T)
  BY DEF Surjection
<1>2. g \in Injection(S, T)
  BY DEF Injection, IsInjective
<1> HIDE DEF g, T
<1>3. IsFiniteSet(T) /\ Cardinality(T) = Cardinality(S)
  BY <1>1, <1>2, FS_Surjection
<1> QED
  BY <1>3 DEF T

LEMMA InvApart == MemoryInv => FramesApart
<1> SUFFICES ASSUME MemoryInv PROVE FramesApart
  OBVIOUS
<1> DEFINE given == {i \in DOMAIN dma : dma[i] # None}
           f == [e \in Own |-> memory.entries[e]]
           g == [i \in given |-> dma[i]]
           A == {memory.entries[e] : e \in Own}
           B == {dma[i] : i \in given}
<1>1. Valid(memory, Frames(dma)) /\ memory \in Memories /\ Sound(memory, Frames(dma))
  BY DEF MemoryInv, Valid
<1>2. Own = OwnIn(memory)
  BY DEF Own, OwnIn, Entries, IsOwn
<1>3. IsFiniteSet(Own)
  <2>1. IsFiniteSet(DOMAIN memory.entries) /\ Own \in SUBSET DOMAIN memory.entries
    BY <1>1, <1>2, MemoryFacts DEF OwnIn
  <2> QED BY <2>1, FS_Subset
<1>4. IsFiniteSet(A) /\ Cardinality(A) = Cardinality(Own)
  <2>1. \A x, y \in Own : x # y => f[x] # f[y]
    BY <1>1, <1>2 DEF Sound
  <2>2. DOMAIN f = Own /\ A = {f[e] : e \in Own}
    OBVIOUS
  <2> HIDE DEF f, A
  <2> QED BY <2>1, <2>2, <1>3, SameCount
<1>5. /\ dma \in Seq(Nat)
      /\ \A i, j \in DOMAIN dma : i # j /\ dma[i] # None => dma[i] # dma[j]
  <2>1. CASE dma = <<>>
    BY <2>1
  <2>2. CASE dma # <<>>
    <3>1. BootPages \in Nat /\ booted \in Nat
      BY AddressFacts DEF BootPages, MemoryInv
    <3> QED BY <2>2, <3>1 DEF MemoryInv, Ported
  <2> QED BY <2>1, <2>2
<1>6. IsFiniteSet(B) /\ Cardinality(B) = Cardinality(given) /\ IsFiniteSet(given)
  <2>1. \A x, y \in given : x # y => g[x] # g[y]
    BY <1>5
  <2>2. DOMAIN g = given /\ B = {g[i] : i \in given}
    OBVIOUS
  <2>3. IsFiniteSet(given)
    <3>1. Len(dma) \in Nat /\ DOMAIN dma = 1..Len(dma)
      BY <1>5, LenProperties
    <3>2. IsFiniteSet(1..Len(dma)) /\ given \in SUBSET (1..Len(dma))
      BY <3>1, FS_Interval
    <3> HIDE DEF given
    <3> QED BY <3>2, FS_Subset
  <2> HIDE DEF g, B, given
  <2> QED BY <2>1, <2>2, <2>3, SameCount
<1>7. A \cap B = {}
  <2> SUFFICES ASSUME NEW e \in Own, NEW i \in given, memory.entries[e] = dma[i] PROVE FALSE
    OBVIOUS
  <2>1. memory.entries[e] - PhysicalStart \notin Frames(dma)
    BY <1>1, <1>2 DEF Sound
  <2>2. dma[i] - PhysicalStart \in Frames(dma)
    BY DEF Frames
  <2> QED BY <2>1, <2>2
<1>8. Cardinality(A \cup B) = Cardinality(Own) + Cardinality(given)
  <2> HIDE DEF A, B, given
  <2>1. Cardinality(A \cup B) = Cardinality(A) + Cardinality(B) - 0
    BY <1>4, <1>6, <1>7, FS_Union, FS_EmptySet
  <2>2. Cardinality(A) \in Nat /\ Cardinality(B) \in Nat
    BY <1>4, <1>6, FS_CardinalityType
  <2> QED BY <2>1, <2>2, <1>4, <1>6
<1> QED
  BY <1>8 DEF FramesApart

\* No page is given twice, of those that the boot takes with its own look at the bitmap,
\* the walks of assign() for tables and heap, and the ports.
THEOREM SpecFramesApart == SpecMemory => []FramesApart
BY SpecMemoryInv, InvApart, PTL

-----------------------------------------------------------------------------
(* The bytes that have pages. *)

LEMMA Quotient ==
  ASSUME NEW n \in Nat \ {0}, NEW x \in Nat, x % n = 0
  PROVE  x \div n \in Nat /\ x = (x \div n) * n
OBVIOUS

\* Between two neighbouring multiples there is none.
LEMMA Multiples ==
  ASSUME NEW n \in Nat \ {0}, NEW x \in Nat, NEW y \in Nat, x % n = 0, y % n = 0, x < y + n
  PROVE  x <= y
<1> DEFINE q == x \div n
           r == y \div n
<1>1. q \in Nat /\ r \in Nat /\ x = q * n /\ y = r * n
  BY Quotient
<1> HIDE DEF q, r
<1>2. ~(q >= r + 1)
  <2> SUFFICES ASSUME q >= r + 1 PROVE FALSE
    OBVIOUS
  <2>1. q * n >= (r + 1) * n
    BY <1>1
  <2>2. (r + 1) * n = r * n + n
    BY <1>1
  <2> QED BY <2>1, <2>2, <1>1
<1>3. q <= r
  BY <1>1, <1>2
<1>4. q * n <= r * n
  BY <1>1, <1>3
<1> QED
  BY <1>1, <1>4

LEMMA MultipleSum ==
  ASSUME NEW n \in Nat \ {0}, NEW x \in Nat, NEW y \in Nat, x % n = 0, y % n = 0
  PROVE  (x + y) % n = 0
<1> DEFINE q == x \div n
           r == y \div n
<1>1. q \in Nat /\ r \in Nat /\ x = q * n /\ y = r * n
  BY Quotient
<1> HIDE DEF q, r
<1>2. q + r \in Int /\ x + y = (q + r) * n
  BY <1>1
<1> QED
  BY <1>2, Multiple

LEMMA MultipleThrough ==
  ASSUME NEW n \in Nat \ {0}, NEW m \in Nat \ {0}, NEW x \in Nat, m % n = 0, x % m = 0
  PROVE  x % n = 0
<1> DEFINE q == x \div m
           r == m \div n
<1>1. q \in Nat /\ r \in Nat /\ x = q * m /\ m = r * n
  BY Quotient
<1> HIDE DEF q, r
<1>2. q * r \in Int /\ x = (q * r) * n
  <2>1. q * (r * n) = (q * r) * n
    BY <1>1
  <2> QED BY <2>1, <1>1
<1> QED
  BY <1>2, Multiple

LEMMA FirstHeader ==
  /\ Realign(0) = MemoryAlign - HeaderSize /\ Realign(0) \in Nat \ {0}
  /\ MemoryAlign <= PageLength /\ Realign(0) < PageLength
<1>1. /\ HeaderSize \in Nat \ {0} /\ MemoryAlign \in Nat \ {0} /\ PageLength \in Nat \ {0}
      /\ HeaderSize < MemoryAlign /\ PageLength % MemoryAlign = 0
  BY HeapAssumption
<1>2. (0 + HeaderSize) % MemoryAlign = HeaderSize
  BY <1>1
<1>3. MemoryAlign <= PageLength
  BY <1>1
<1> QED
  BY <1>1, <1>2, <1>3 DEF Realign

\* The heap has pages for the first K bytes, whole pages, and ends a little later.
Paged(K) ==
    /\ K \in Nat /\ K % MemoryAlign = 0 /\ (blocks # <<>> => end < K + (MemoryAlign - HeaderSize))
    /\ \A a \in Nat : a < K =>
           \A v \in HeapPage..Page(a) : <<Levels, v>> \in DOMAIN memory.entries

LEMMA PagedFacts == MemoryInv => \E K : Paged(K)
<1> SUFFICES ASSUME MemoryInv PROVE \E K : Paged(K)
  OBVIOUS
<1>1. PICK k \in Nat : highest = k * PageLength + Realign(0)
  BY DEF MemoryInv, Backing
<1> DEFINE K == k * PageLength
           d == Realign(0)
<1>2. /\ PageLength \in Nat \ {0} /\ MemoryAlign \in Nat \ {0} /\ HeaderSize \in Nat
      /\ PageLength % MemoryAlign = 0 /\ HeapPage \in Nat
  BY HeapAssumption, MemoryAssumption
<1>3. d = MemoryAlign - HeaderSize /\ d \in Nat /\ d < PageLength
  BY FirstHeader
<1>4. K \in Nat /\ K % PageLength = 0
  BY <1>2, Multiple
<1>5. K % MemoryAlign = 0
  <2> HIDE DEF K
  <2> QED BY <1>2, <1>4, MultipleThrough
<1>6. highest \div PageLength = k
  <2> HIDE DEF d
  <2>1. highest = k * PageLength + d
    BY <1>1 DEF d
  <2> QED BY <2>1, <1>2, <1>3
<1>7. ASSUME NEW a \in Nat, a < K, NEW v \in HeapPage..Page(a)
      PROVE  <<Levels, v>> \in DOMAIN memory.entries
  <2> DEFINE c == a \div PageLength
  <2>1. c \in Nat /\ c * PageLength <= a
    BY <1>2
  <2> HIDE DEF c
  <2>2. ~(c >= k)
    <3> SUFFICES ASSUME c >= k PROVE FALSE
      OBVIOUS
    <3>1. c * PageLength >= k * PageLength
      BY <1>2, <2>1
    <3>2. c * PageLength \in Nat
      BY <1>2, <2>1
    <3> HIDE DEF K
    <3>3. c * PageLength >= K
      BY <3>1 DEF K
    <3> QED BY <3>2, <3>3, <2>1, <1>4, <1>7
  <2>3. Page(a) = HeapPage + c
    BY DEF Page, c
  <2>4. v \in HeapPage..HeapPage + highest \div PageLength - 1
    BY <2>1, <2>2, <2>3, <1>2, <1>6
  <2> QED BY <2>4 DEF MemoryInv, HeapMapped
<1>8. blocks # <<>> => end < K + (MemoryAlign - HeaderSize)
  <2> SUFFICES ASSUME blocks # <<>> PROVE end < K + (MemoryAlign - HeaderSize)
    OBVIOUS
  <2>1. end < highest
    BY DEF MemoryInv, Backing
  <2> QED BY <2>1, <1>1, <1>3
<1>9. Paged(K)
  <2> HIDE DEF K
  <2> QED BY <1>4, <1>5, <1>7, <1>8 DEF Paged
<1> QED
  BY <1>9

LEMMA InvBacked == HeapInv /\ MemoryInv => Backed
<1> SUFFICES ASSUME HeapInv, MemoryInv PROVE Backed
  OBVIOUS
<1>1. PICK K : Paged(K)
  BY PagedFacts
<1>2. /\ MemoryAlign \in Nat \ {0} /\ HeaderSize \in Nat \ {0} /\ HeaderSize < MemoryAlign
      /\ HeapPage \in Nat /\ PageLength \in Nat \ {0}
      /\ MemoryAlign % 8 = 0 /\ MemoryAlign - HeaderSize <= 8
  BY HeapAssumption, MemoryAssumption
<1>3. ASSUME NEW i \in DOMAIN blocks
      PROVE  /\ blocks[i].at \in Nat /\ blocks[i].size \in Nat \ {0}
             /\ blocks[i].at + HeaderSize <= K
             /\ (blocks[i].at + HeaderSize) % MemoryAlign = 0
             /\ blocks[i].at + HeaderSize + blocks[i].size < K + (MemoryAlign - HeaderSize)
  <2> DEFINE x == blocks[i].at
             n == blocks[i].size
  <2>1. x \in Nat /\ n \in Nat \ {0}
    <3>1. blocks \in Seq(Meta)
      BY DEF HeapInv, Types
    <3>2. blocks[i] \in Meta
      BY <3>1, ElementOfSeq, LenProperties
    <3> QED BY <3>2 DEF Meta
  <2>2. (x + HeaderSize) % MemoryAlign = 0
    BY DEF HeapInv, Placed, Aligned
  <2>3. x + HeaderSize + n < end /\ end \in Nat
    BY DEF HeapInv, Placed, Types, Bound
  <2>4. end < K + (MemoryAlign - HeaderSize) /\ K \in Nat /\ K % MemoryAlign = 0
    BY <1>1 DEF Paged
  <2> HIDE DEF x, n
  <2>5. x + HeaderSize + n < K + (MemoryAlign - HeaderSize)
    BY <2>1, <2>3, <2>4, <1>2
  <2>6. x + HeaderSize \in Nat /\ x + HeaderSize < K + MemoryAlign
    BY <2>1, <2>4, <2>5, <1>2
  <2>7. x + HeaderSize <= K
    BY <2>2, <2>4, <2>6, <1>2, Multiples
  <2> QED BY <2>1, <2>2, <2>5, <2>7 DEF x, n
<1>4. ASSUME NEW a \in Nat, a < K, NEW v \in HeapPage..Page(a) PROVE <<Levels, v>> \in Entries
  BY <1>1, <1>4 DEF Paged, Entries
<1>5. ASSUME NEW i \in DOMAIN blocks,
             NEW a \in {blocks[i].at, blocks[i].at + HeaderSize - 1}
      PROVE  <<Levels, Page(a)>> \in Entries
  <2>1. a \in Nat /\ a < K
    <3> DEFINE x == blocks[i].at
    <3>1. x \in Nat /\ x + HeaderSize <= K /\ K \in Nat
      BY <1>1, <1>3 DEF Paged
    <3>2. a = x \/ a = x + HeaderSize - 1
      BY <1>5
    <3> HIDE DEF x
    <3> QED BY <3>1, <3>2, <1>2
  <2>2. Page(a) \in HeapPage..Page(a)
    <3>1. a \div PageLength \in Nat
      BY <2>1, <1>2
    <3> QED BY <3>1, <1>2 DEF Page
  <2> QED BY <2>1, <2>2, <1>4
<1>6. ASSUME NEW p \in DOMAIN live, live[p] % 8 = 0, NEW v \in Page(p)..Page(p + live[p] - 1)
      PROVE  <<Levels, v>> \in Entries
  <2>1. PICK i \in DOMAIN blocks : Holds(blocks[i], p, live[p])
    BY DEF HeapInv, Given
  <2> DEFINE n == live[p]
  <2>2. n \in Nat /\ p = blocks[i].at + HeaderSize /\ n <= blocks[i].size
    <3>1. live \in [DOMAIN live -> Nat]
      BY DEF HeapInv, Types
    <3>2. n \in Nat
      BY <3>1
    <3> QED BY <3>2, <2>1 DEF Holds
  <2> HIDE DEF n
  <2>3. /\ p \in Nat \ {0} /\ p % MemoryAlign = 0 /\ p + n < K + 8 /\ K \in Nat
        /\ K % MemoryAlign = 0
    <3> DEFINE x == blocks[i].at
               s == blocks[i].size
    <3>1. /\ x \in Nat /\ s \in Nat /\ (x + HeaderSize) % MemoryAlign = 0
          /\ x + HeaderSize + s < K + (MemoryAlign - HeaderSize)
      BY <1>3
    <3>2. K \in Nat /\ K % MemoryAlign = 0
      BY <1>1 DEF Paged
    <3>3. p = x + HeaderSize /\ n <= s
      BY <2>2
    <3> HIDE DEF x, s
    <3> QED BY <3>1, <3>2, <3>3, <2>2, <1>2
  <2>4. p % 8 = 0 /\ K % 8 = 0
    <3>1. 8 \in Nat \ {0} /\ p \in Nat
      BY <2>3
    <3> QED BY <3>1, <1>2, <2>3, MultipleThrough
  <2>5. p + n <= K
    <3>1. (p + n) % 8 = 0
      <4>1. n % 8 = 0
        BY <1>6 DEF n
      <4> QED BY <4>1, <2>2, <2>3, <2>4, MultipleSum
    <3>2. p + n \in Nat /\ 8 \in Nat \ {0}
      BY <2>2, <2>3
    <3> QED BY <3>1, <3>2, <2>3, <2>4, Multiples
  <2>6. p + n - 1 \in Nat /\ p + n - 1 < K
    BY <2>2, <2>3, <2>5
  <2>7. v \in HeapPage..Page(p + n - 1)
    <3>1. p \div PageLength \in Nat /\ (p + n - 1) \div PageLength \in Int
      BY <1>2, <2>3, <2>6
    <3>2. Page(p) >= HeapPage /\ Page(p) \in Int /\ Page(p + n - 1) \in Int
      BY <3>1, <1>2 DEF Page
    <3> QED BY <3>2, <1>2, <1>6 DEF n
  <2> QED BY <2>6, <2>7, <1>4
<1> QED
  BY <1>5, <1>6 DEF Backed

\* Every header of the list and every byte of what callers hold, in sizes that are
\* multiples of 8, lies in a page that requestSpace() has had assigned, although it
\* starts to count pages at the first header and not at the start of its page.
THEOREM SpecBacked == SpecMemory => []Backed
BY SpecMemoryInv, InvBacked, PTL
=============================================================================
