------------------------- MODULE StorageCacheProofs -------------------------
(***************************************************************************)
(* The cache of an AHCI device, for every disk, every size of block, cache *)
(* and partition: its list and its map agree and stay within its size,     *)
(* what it holds is what was written, and to the file system it is a       *)
(* device that remembers, down to single bytes of calls that overlap.      *)
(***************************************************************************)
EXTENDS StorageCache, Minimum, TLAPS, FiniteSetTheorems, SequenceTheorems

-----------------------------------------------------------------------------
(* Bytes and blocks. *)

\* A byte's block and its place in the block determine it, and are determined.
LEMMA DivMod ==
  ASSUME NEW n \in Nat \ {0}, NEW a \in Nat
  PROVE  /\ a \div n \in Nat /\ a % n \in 0..n - 1
         /\ a = (a \div n) * n + (a % n)
<1>1. a \div n \in Int /\ a % n \in 0..n - 1
  OBVIOUS
<1>2. a = (a \div n) * n + (a % n)
  OBVIOUS
<1>3. ASSUME a \div n < 0 PROVE FALSE
  <2>1. (a \div n) * n <= -n
    BY <1>1, <1>3
  <2> QED BY <2>1, <1>1, <1>2
<1> QED BY <1>1, <1>2, <1>3

LEMMA DivUnique ==
  ASSUME NEW n \in Nat \ {0}, NEW b \in Nat, NEW i \in 0..n - 1
  PROVE  (b * n + i) \div n = b
  OBVIOUS

LEMMA ByteOf ==
  ASSUME NEW b \in Block, NEW i \in 0..BlockSize - 1
  PROVE  b * BlockSize + i \in Byte
<1>1. b * BlockSize + BlockSize <= Blocks * BlockSize
  <2>1. (b + 1) * BlockSize <= Blocks * BlockSize
    BY StorageAssumption DEF Block
  <2> QED BY <2>1, StorageAssumption DEF Block
<1>2. b * BlockSize \in Nat
  BY StorageAssumption DEF Block
<1> QED
  BY <1>1, <1>2, StorageAssumption DEF Byte

LEMMA BlockOf ==
  ASSUME NEW a \in Byte
  PROVE  a \div BlockSize \in Block
<1> DEFINE b == a \div BlockSize
<1>1. b \in Nat /\ b * BlockSize <= a
  BY DivMod, StorageAssumption DEF Byte
<1>2. a < Blocks * BlockSize
  BY StorageAssumption DEF Byte
<1>3. ASSUME b >= Blocks PROVE FALSE
  <2>1. b * BlockSize >= Blocks * BlockSize
    BY <1>1, <1>3, StorageAssumption
  <2> QED BY <2>1, <1>1, <1>2, StorageAssumption DEF Byte
<1> QED
  BY <1>1, <1>3, StorageAssumption DEF Block

LEMMA BlocksApart ==
  ASSUME NEW b \in Block, NEW c \in Block, b # c,
         NEW i \in 0..BlockSize - 1, NEW j \in 0..BlockSize - 1
  PROVE  b * BlockSize + i # c * BlockSize + j
  BY DivUnique, StorageAssumption DEF Block

-----------------------------------------------------------------------------
(* The list of the cache. *)

\* What Without() returns, place by place: k is where the element stands, or the
\* place behind the end.
LEMMA WithoutAt ==
  ASSUME NEW s \in Seq(Block), NEW b
  PROVE  \E k \in 1..Len(s) + 1 :
            /\ k <= Len(s) => s[k] = b /\ Len(Without(s, b)) = Len(s) - 1
            /\ k = Len(s) + 1 => b \notin ToSet(s) /\ Without(s, b) = s
            /\ Without(s, b) \in Seq(Block)
            /\ \A i \in 1..k - 1 : Without(s, b)[i] = s[i]
            /\ \A i \in k..Len(s) - 1 : Without(s, b)[i] = s[i + 1]
<1>1. CASE b \notin ToSet(s)
  <2>1. Without(s, b) = s
    BY <1>1 DEF Without
  <2>2. Len(s) + 1 \in 1..Len(s) + 1 /\ Len(s) \in Nat
    OBVIOUS
  <2> QED BY <1>1, <2>1, <2>2
<1>2. CASE b \in ToSet(s)
  <2> DEFINE k == CHOOSE i \in DOMAIN s : s[i] = b
             r == Without(s, b)
  <2>1. k \in 1..Len(s) /\ s[k] = b
    BY <1>2 DEF ToSet
  <2> DEFINE l == SubSeq(s, 1, k - 1)
             t == SubSeq(s, k + 1, Len(s))
  <2>2. r = l \o t
    BY <1>2 DEF Without, RemoveAt
  <2> HIDE DEF k
  <2>3. /\ l \in Seq(Block) /\ Len(l) = k - 1
        /\ t \in Seq(Block) /\ Len(t) = Len(s) - k
        /\ \A i \in 1..k - 1 : l[i] = s[i]
        /\ \A i \in 1..Len(s) - k : t[i] = s[k + i]
    BY <2>1
  <2> HIDE DEF l, t, r
  <2>4. /\ r \in Seq(Block) /\ Len(r) = Len(s) - 1
        /\ \A i \in 1..k - 1 : r[i] = s[i]
        /\ \A i \in k..Len(s) - 1 : r[i] = s[i + 1]
    <3>1. /\ r \in Seq(Block) /\ Len(r) = Len(l) + Len(t)
          /\ \A i \in 1..Len(l) + Len(t) : r[i] = IF i <= Len(l) THEN l[i] ELSE t[i - Len(l)]
      BY <2>2, <2>3, ConcatProperties
    <3>2. ASSUME NEW i \in 1..k - 1 PROVE r[i] = s[i]
      <4>1. i \in 1..Len(l) + Len(t) /\ i <= Len(l)
        BY <2>1, <2>3
      <4> QED BY <4>1, <2>3, <3>1
    <3>3. ASSUME NEW i \in k..Len(s) - 1 PROVE r[i] = s[i + 1]
      <4>1. r[i] = t[i - (k - 1)]
        BY <2>1, <2>3, <3>1
      <4>2. i - (k - 1) \in 1..Len(s) - k /\ k + (i - (k - 1)) = i + 1
        BY <2>1
      <4> QED BY <4>1, <4>2, <2>3
    <3> QED BY <3>1, <3>2, <3>3, <2>1, <2>3
  <2>5. k \in 1..Len(s) + 1 /\ k # Len(s) + 1
    BY <2>1
  <2> QED BY <2>1, <2>4, <2>5 DEF r
<1> QED BY <1>1, <1>2

\* Without() takes an element out of a sequence that has each element once.
LEMMA WithoutFacts ==
  ASSUME NEW s \in Seq(Block), IsInjective(s), NEW b
  PROVE  /\ Without(s, b) \in Seq(Block) /\ IsInjective(Without(s, b))
         /\ ToSet(Without(s, b)) = ToSet(s) \ {b}
<1>1. CASE b \notin ToSet(s)
  BY <1>1 DEF Without
<1>2. CASE b \in ToSet(s)
  <2> DEFINE r == Without(s, b)
  <2>1. PICK k \in 1..Len(s) : /\ s[k] = b
                               /\ r \in Seq(Block) /\ Len(r) = Len(s) - 1
                               /\ \A i \in 1..k - 1 : r[i] = s[i]
                               /\ \A i \in k..Len(s) - 1 : r[i] = s[i + 1]
    BY <1>2, WithoutAt
  <2> HIDE DEF r
    <2> DEFINE From(i) == IF i < k THEN i ELSE i + 1
  <2>2. \A i \in 1..Len(r) : From(i) \in 1..Len(s) /\ r[i] = s[From(i)] /\ From(i) # k
    BY <2>1
  <2>3. IsInjective(r)
    <3> SUFFICES ASSUME NEW i \in 1..Len(r), NEW j \in 1..Len(r), r[i] = r[j]
                 PROVE  i = j
      BY <2>1 DEF IsInjective
    <3>1. From(i) = From(j)
      BY <2>2 DEF IsInjective
    <3> QED BY <3>1, <2>1
  <2>4. ASSUME NEW e \in ToSet(r) PROVE e \in ToSet(s) \ {b}
    <3>1. PICK i \in 1..Len(r) : e = r[i]
      BY <2>1 DEF ToSet
    <3>2. From(i) \in 1..Len(s) /\ e = s[From(i)] /\ From(i) # k
      BY <3>1, <2>2
    <3> HIDE DEF From
    <3> QED BY <3>2, <2>1 DEF ToSet, IsInjective
  <2>5. ASSUME NEW e \in ToSet(s) \ {b} PROVE e \in ToSet(r)
    <3>1. PICK i \in 1..Len(s) : e = s[i]
      BY DEF ToSet
    <3>2. i # k
      BY <3>1, <2>1
    <3>3. CASE i < k
      BY <3>1, <3>3, <2>1 DEF ToSet
    <3>4. CASE i > k
      <4>1. i - 1 \in 1..Len(r) /\ r[i - 1] = e
        BY <3>1, <3>4, <2>1
      <4> QED BY <4>1, <2>1 DEF ToSet
    <3> QED BY <3>2, <3>3, <3>4, <2>1
  <2> QED BY <2>1, <2>3, <2>4, <2>5 DEF r
<1> QED BY <1>1, <1>2

\* An element in front of a sequence that does not have it.
LEMMA FrontFacts ==
  ASSUME NEW s \in Seq(Block), IsInjective(s), NEW b \in Block, b \notin ToSet(s)
  PROVE  /\ <<b>> \o s \in Seq(Block) /\ IsInjective(<<b>> \o s)
         /\ ToSet(<<b>> \o s) = ToSet(s) \cup {b}
         /\ Len(<<b>> \o s) = Len(s) + 1
         /\ s # <<>> => Last(<<b>> \o s) = Last(s)
<1> DEFINE r == <<b>> \o s
<1>1. /\ r \in Seq(Block) /\ Len(r) = Len(s) + 1 /\ r[1] = b
      /\ \A i \in 1..Len(s) : r[i + 1] = s[i]
  OBVIOUS
<1> HIDE DEF r
<1>2. \A i \in 1..Len(r) : r[i] = IF i = 1 THEN b ELSE s[i - 1]
  BY <1>1
<1>3. IsInjective(r)
  <2>1. ASSUME NEW i \in 1..Len(s) PROVE s[i] # b
    BY DEF ToSet
  <2>2. ASSUME NEW i \in 1..Len(r), NEW j \in 1..Len(r), r[i] = r[j], i # 1, j # 1 PROVE i = j
    <3>1. i - 1 \in 1..Len(s) /\ j - 1 \in 1..Len(s) /\ s[i - 1] = s[j - 1]
      BY <2>2, <1>1, <1>2
    <3>2. i - 1 = j - 1
      BY <3>1 DEF IsInjective
    <3> QED BY <3>2
  <2>3. ASSUME NEW i \in 1..Len(r), i # 1 PROVE r[i] # b
    <3>1. i - 1 \in 1..Len(s)
      BY <2>3, <1>1
    <3> QED BY <3>1, <2>1, <2>3, <1>2
  <2> QED BY <2>2, <2>3, <1>1 DEF IsInjective
<1>4. ToSet(r) = ToSet(s) \cup {b}
  <2>1. ASSUME NEW e \in ToSet(s) PROVE e \in ToSet(r)
    <3>1. PICK i \in 1..Len(s) : e = s[i]
      BY DEF ToSet
    <3>2. i + 1 \in 1..Len(r) /\ r[i + 1] = e
      BY <3>1, <1>1
    <3> QED BY <3>2, <1>1 DEF ToSet
  <2>2. b \in ToSet(r)
    BY <1>1 DEF ToSet
  <2>3. ASSUME NEW e \in ToSet(r) PROVE e \in ToSet(s) \cup {b}
    BY <1>1, <1>2 DEF ToSet
  <2> QED BY <2>1, <2>2, <2>3
<1>5. ASSUME s # <<>> PROVE Last(r) = Last(s)
  <2>1. Len(s) \in Nat \ {0}
    BY <1>5, EmptySeq
  <2> QED BY <2>1, <1>1 DEF Last
<1> QED BY <1>1, <1>3, <1>4, <1>5 DEF r

\* pop_back().
LEMMA BackFacts ==
  ASSUME NEW s \in Seq(Block), IsInjective(s), s # <<>>
  PROVE  /\ Front(s) \in Seq(Block) /\ IsInjective(Front(s))
         /\ ToSet(Front(s)) = ToSet(s) \ {Last(s)}
         /\ Len(Front(s)) = Len(s) - 1
<1> DEFINE r == Front(s)
<1>1. /\ r \in Seq(Block) /\ Len(r) = Len(s) - 1 /\ Len(s) \in Nat \ {0}
      /\ \A i \in 1..Len(r) : r[i] = s[i]
  <2>1. Len(s) \in Nat \ {0}
    BY EmptySeq
  <2>2. \A n \in 0..Len(s) :
           /\ SubSeq(s, 1, n) \in Seq(Block) /\ Len(SubSeq(s, 1, n)) = n
           /\ \A i \in 1..n : SubSeq(s, 1, n)[i] = s[i]
    OBVIOUS
  <2>3. Len(s) - 1 \in 0..Len(s) /\ r = SubSeq(s, 1, Len(s) - 1)
    BY <2>1 DEF Front
  <2> HIDE DEF r
  <2> QED BY <2>1, <2>2, <2>3
<1>2. Last(s) = s[Len(s)]
  BY DEF Last
<1> HIDE DEF r
<1>3. IsInjective(r)
  BY <1>1 DEF IsInjective
<1>4. ToSet(r) = ToSet(s) \ {Last(s)}
  <2>1. ASSUME NEW e \in ToSet(r) PROVE e \in ToSet(s) /\ e # Last(s)
    BY <1>1, <1>2 DEF ToSet, IsInjective
  <2>2. ASSUME NEW e \in ToSet(s), e # Last(s) PROVE e \in ToSet(r)
    <3>1. PICK i \in 1..Len(s) : e = s[i]
      BY DEF ToSet
    <3>2. i \in 1..Len(r)
      BY <3>1, <2>2, <1>1, <1>2
    <3> QED BY <3>1, <3>2, <1>1 DEF ToSet
  <2> QED BY <2>1, <2>2
<1> QED BY <1>1, <1>3, <1>4 DEF r

\* A sequence that has each element once is as long as its set is large.
LEMMA LenCardinality ==
  ASSUME NEW s \in Seq(Block), IsInjective(s)
  PROVE  IsFiniteSet(ToSet(s)) /\ Cardinality(ToSet(s)) = Len(s)
<1>1. s \in [1..Len(s) -> ToSet(s)] /\ Len(s) \in Nat
  BY DEF ToSet
<1>2. s \in Bijection(1..Len(s), ToSet(s))
  BY <1>1 DEF IsInjective, Bijection, Injection, Surjection, ToSet
<1>3. IsFiniteSet(1..Len(s)) /\ Cardinality(1..Len(s)) = Len(s)
  <2>1. 1 \in Int /\ Len(s) \in Int
    BY <1>1
  <2>2. /\ IsFiniteSet(1..Len(s))
        /\ Cardinality(1..Len(s)) = IF 1 > Len(s) THEN 0 ELSE Len(s) - 1 + 1
    BY <2>1, FS_Interval
  <2> QED BY <2>2, <1>1
<1> QED
  BY <1>2, <1>3, FS_Bijection DEF ExistsBijection

-----------------------------------------------------------------------------
(* The invariant. *)

\* The list is the map's keys in some order; nothing is said of the contents.
Caching ==
    /\ TypeOK
    /\ list \in Seq(Block) /\ IsInjective(list)

\* A call in progress lies on the disk and so does its next byte.
Calling ==
    \/ call = NoCall
    \/ /\ call \in Device!Calls
       /\ at \in Nat /\ call.from <= at /\ at < call.from + call.size

\* What the history variables hold.
Histories ==
    /\ latest \in [Byte -> Value]
    /\ used \subseteq Block /\ lost \subseteq Block
    /\ DOMAIN map \subseteq used

\* flush() has no call beside it and leaves nothing behind it.
Flushing ==
    /\ flushing \in Nat \cup {-1}
    /\ flushing # -1 =>
           /\ call = NoCall
           /\ \A b \in DOMAIN map : b < flushing => map[b].flushed

IInv == Caching /\ Calling /\ Histories /\ Remembers /\ Flushing

LEMMA EntryType ==
  ASSUME Caching, NEW b \in Block
  PROVE  Entry(b) \in [data : [0..BlockSize - 1 -> Value], flushed : BOOLEAN]
  BY StorageAssumption DEF Caching, TypeOK, Entry, NoCall

\* Looking a block up keeps the list and the map in step, and only a full cache
\* evicts, one block and never the one looked up.
LEMMA UseFacts ==
  ASSUME Caching, Histories, NEW b \in Block,
         NEW entry \in [data : [0..BlockSize - 1 -> Value], flushed : BOOLEAN],
         Use(b, entry)
  PROVE  /\ Caching'
         /\ used' \subseteq Block /\ lost' \subseteq Block /\ DOMAIN map' \subseteq used'
         /\ b \in DOMAIN map' /\ map'[b] = entry
         /\ \A c \in DOMAIN map' \ {b} : c \in DOMAIN map /\ map'[c] = map[c]
         /\ \A c \in DOMAIN map \ DOMAIN map' : c \in lost'
         /\ lost \subseteq lost' /\ lost' \subseteq lost \cup used'
         /\ lost' # lost => Cardinality(used') > CacheLength
<1>1. /\ list \in Seq(Block) /\ IsInjective(list) /\ ToSet(list) = DOMAIN map
      /\ DOMAIN map \subseteq Block /\ Cardinality(DOMAIN map) <= CacheLength
      /\ IsFiniteSet(DOMAIN map) /\ Cardinality(DOMAIN map) = Len(list)
  BY LenCardinality DEF Caching, TypeOK
<1>2. /\ map' = [c \in (DOMAIN map \ Evicted(b)) \cup {b} |-> IF c = b THEN entry ELSE map[c]]
      /\ list' = IF Evicted(b) = {} THEN Moved(b) ELSE Front(Moved(b))
      /\ used' = used \cup {b}
      /\ lost' = lost \cup Evicted(b)
  BY DEF Use
<1>3. b \notin Evicted(b)
  <2>1. CASE Evicted(b) = {}
    BY <2>1
  <2>2. CASE Evicted(b) # {}
    <3>1. b \notin DOMAIN map /\ Evicted(b) = {Last(list)} /\ Len(list) >= CacheLength
      BY <2>2, <1>1, StorageAssumption DEF Evicted
    <3>2. Last(list) \in ToSet(list)
      BY <3>1, <1>1, StorageAssumption DEF Last, ToSet
    <3> QED BY <3>1, <3>2, <1>1
  <2> QED BY <2>1, <2>2
<1>4. /\ Moved(b) \in Seq(Block) /\ IsInjective(Moved(b))
      /\ ToSet(Moved(b)) = DOMAIN map \cup {b}
  <2>1. /\ Without(list, b) \in Seq(Block) /\ IsInjective(Without(list, b))
        /\ ToSet(Without(list, b)) = DOMAIN map \ {b}
    BY <1>1, WithoutFacts
  <2> QED BY <2>1, FrontFacts DEF Moved
<1>5. /\ list' \in Seq(Block) /\ IsInjective(list')
      /\ ToSet(list') = DOMAIN map'
      /\ Len(list') <= CacheLength
      /\ Evicted(b) \subseteq DOMAIN map
      /\ Evicted(b) # {} => Len(list) >= CacheLength /\ b \notin DOMAIN map
  <2>1. CASE Evicted(b) = {}
    <3>1. IsFiniteSet(DOMAIN map \cup {b}) /\ Cardinality(DOMAIN map \cup {b}) <= CacheLength
      <4>1. b \in DOMAIN map \/ Cardinality(DOMAIN map) < CacheLength
        BY <2>1 DEF Evicted
      <4>2. /\ IsFiniteSet(DOMAIN map \cup {b})
            /\ Cardinality(DOMAIN map \cup {b}) =
                  IF b \in DOMAIN map THEN Cardinality(DOMAIN map)
                  ELSE Cardinality(DOMAIN map) + 1
        BY <1>1, FS_AddElement
      <4>3. Cardinality(DOMAIN map) \in Nat
        BY <1>1, FS_CardinalityType
      <4> QED BY <4>1, <4>2, <4>3, <1>1, StorageAssumption
    <3>2. DOMAIN map' = DOMAIN map \cup {b}
      BY <2>1, <1>2
    <3> QED BY <2>1, <3>1, <3>2, <1>2, <1>4, LenCardinality
  <2>2. CASE Evicted(b) # {}
    <3>1. b \notin DOMAIN map /\ Evicted(b) = {Last(list)} /\ Len(list) >= CacheLength
      BY <2>2, <1>1, StorageAssumption DEF Evicted
    <3>2. list # <<>> /\ Last(list) \in ToSet(list)
      BY <3>1, <1>1, StorageAssumption DEF Last, ToSet
    <3>3. Without(list, b) = list
      BY <3>1, <1>1 DEF Without
    <3>4. Len(Moved(b)) = Len(list) + 1 /\ Last(Moved(b)) = Last(list)
      BY <3>1, <3>2, <3>3, <1>1, FrontFacts DEF Moved
    <3>5. Moved(b) # <<>>
      BY <3>4, <1>1, <3>1, StorageAssumption
    <3>6. /\ list' \in Seq(Block) /\ IsInjective(list')
          /\ ToSet(list') = (DOMAIN map \cup {b}) \ {Last(list)}
          /\ Len(list') = Len(list)
      BY <2>2, <3>4, <3>5, <1>2, <1>4, <1>1, BackFacts
    <3>7. DOMAIN map' = (DOMAIN map \cup {b}) \ {Last(list)}
      BY <1>2, <1>3, <3>1
    <3> QED BY <3>1, <3>2, <3>6, <3>7, <1>1
  <2> QED BY <2>1, <2>2
<1>6. Caching'
  <2>1. Len(list') = Cardinality(DOMAIN map')
    BY <1>5, LenCardinality
  <2>2. map' \in [DOMAIN map' -> [data : [0..BlockSize - 1 -> Value], flushed : BOOLEAN]]
    <3>1. map \in [DOMAIN map -> [data : [0..BlockSize - 1 -> Value], flushed : BOOLEAN]]
      BY DEF Caching, TypeOK
    <3> QED BY <3>1, <1>2
  <2>3. DOMAIN map' \subseteq Block
    BY <1>1, <1>2
  <2> QED BY <2>1, <2>2, <2>3, <1>5 DEF Caching, TypeOK
<1>7. lost' # lost => Cardinality(used') > CacheLength
  <2> SUFFICES ASSUME lost' # lost PROVE Cardinality(used') > CacheLength
    OBVIOUS
  <2>1. Len(list) >= CacheLength /\ b \notin DOMAIN map
    BY <1>2, <1>5
  <2>2. IsFiniteSet(used')
    <3>1. used' \subseteq Block /\ IsFiniteSet(Block)
      <4>1. 0 \in Int /\ Blocks - 1 \in Int
        BY StorageAssumption
      <4>2. IsFiniteSet(Block)
        BY <4>1, FS_Interval DEF Block
      <4> QED BY <4>2, <1>2 DEF Histories
    <3> QED BY <3>1, FS_Subset
  <2>3. DOMAIN map \cup {b} \subseteq used'
    BY <1>2 DEF Histories
  <2>4. Cardinality(DOMAIN map \cup {b}) = Len(list) + 1
    BY <1>1, <2>1, FS_AddElement
  <2>5. Cardinality(used') \in Nat /\ Cardinality(DOMAIN map \cup {b}) <= Cardinality(used')
    BY <2>2, <2>3, FS_Subset, FS_CardinalityType
  <2> QED BY <2>1, <2>4, <2>5, <1>1, StorageAssumption
<1>8. \A c \in DOMAIN map' \ {b} : c \in DOMAIN map /\ map'[c] = map[c]
  BY <1>2
<1>9. b \in DOMAIN map' /\ map'[b] = entry
  BY <1>2
<1>10. /\ used' \subseteq Block /\ lost' \subseteq Block /\ DOMAIN map' \subseteq used'
       /\ \A c \in DOMAIN map \ DOMAIN map' : c \in lost'
       /\ lost \subseteq lost' /\ lost' \subseteq lost \cup used'
  BY <1>1, <1>2, <1>5 DEF Histories
<1> QED BY <1>6, <1>7, <1>8, <1>9, <1>10

\* The two modules count alike.
LEMMA SameCardinality ==
  ASSUME NEW S
  PROVE  Device!Cardinality(S) = Cardinality(S)
  BY Zenon DEF Device!Cardinality, Cardinality

\* What a call in progress is.
LEMMA CallFacts ==
  ASSUME Calling, call # NoCall
  PROVE  /\ call.from \in Byte /\ call.size \in 1..Blocks * BlockSize
         /\ call.from + call.size <= Blocks * BlockSize
         /\ call.kind \in {"read", "write"} /\ call.data \in [0..BlockSize - 1 -> Value]
         /\ at \in Byte /\ call.from <= at /\ at < call.from + call.size
<1>1. /\ call \in [kind : {"read", "write"}, from : Byte, size : 1..Blocks * BlockSize,
                   data : [0..BlockSize - 1 -> Value]]
      /\ call.from + call.size <= Blocks * BlockSize
      /\ at \in Nat /\ call.from <= at /\ at < call.from + call.size
  BY DEF Calling, Device!Calls, Device!Byte, Byte
<1>2. call.from \in Byte /\ call.size \in 1..Blocks * BlockSize
  BY <1>1
<1>3. at \in Byte
  BY <1>1, <1>2, StorageAssumption DEF Byte
<1> QED BY <1>1, <1>2, <1>3

\* The part of a call that one step moves: some bytes of one block, the last of
\* them still in the call.
LEMMA SegmentFacts ==
  ASSUME Calling, call # NoCall, NEW s, s = Segment
  PROVE  /\ s.block \in Block /\ s.block = at \div BlockSize
         /\ s.lo \in 0..BlockSize - 1 /\ s.hi \in 1..BlockSize /\ s.lo < s.hi
         /\ s.hi - s.lo \in 1..BlockSize
         /\ s.block * BlockSize \in Nat /\ at = s.block * BlockSize + s.lo
         /\ at + (s.hi - s.lo) = s.block * BlockSize + s.hi
         /\ at + (s.hi - s.lo) <= call.from + call.size
         /\ (at + (s.hi - s.lo) - 1) \div BlockSize = at \div BlockSize
<1> DEFINE b == at \div BlockSize
           left == call.from + call.size - b * BlockSize
           S == {BlockSize, left}
<1>1. /\ at \in Byte /\ call.from \in Nat /\ call.size \in Nat
      /\ call.from <= at /\ at < call.from + call.size
  BY CallFacts, StorageAssumption DEF Byte
<1>2. b \in Block
  BY <1>1, BlockOf
<1>3. /\ b * BlockSize \in Nat /\ at % BlockSize \in 0..BlockSize - 1
      /\ at = b * BlockSize + (at % BlockSize)
  BY <1>1, <1>2, DivMod, StorageAssumption DEF Byte, Block
<1>4. left \in Nat /\ left > at % BlockSize
  <2> HIDE DEF b
  <2>1. left = call.from + call.size - b * BlockSize
    OBVIOUS
  <2> QED BY <2>1, <1>1, <1>3, StorageAssumption DEF Byte
<1>5. s.block = b /\ s.lo = at % BlockSize /\ s.hi = Min(S)
  BY DEF Segment
<1>6. s.hi \in S /\ s.hi <= BlockSize /\ s.hi <= left
  <2>1. S \subseteq Nat /\ S # {}
    BY <1>4, StorageAssumption
  <2>2. Min(S) \in S /\ \A y \in S : Min(S) <= y
    BY <2>1, MinFact
  <2> QED BY <2>2, <1>5
<1>7. s.hi \in 1..BlockSize /\ s.lo < s.hi /\ s.hi - s.lo \in 1..BlockSize
  BY <1>3, <1>4, <1>5, <1>6, StorageAssumption
<1>8. (at + (s.hi - s.lo) - 1) \div BlockSize = b
  <2>1. at + (s.hi - s.lo) - 1 = b * BlockSize + (s.hi - 1) /\ s.hi - 1 \in 0..BlockSize - 1
    BY <1>1, <1>3, <1>5, <1>7, StorageAssumption DEF Byte
  <2>2. b \in Nat /\ BlockSize \in Nat \ {0}
    BY <1>2, StorageAssumption DEF Block
  <2> HIDE DEF b
  <2>3. \A i \in 0..BlockSize - 1 : (b * BlockSize + i) \div BlockSize = b
    BY <2>2, DivUnique
  <2> QED BY <2>1, <2>3
<1> HIDE DEF b
<1>9. at + (s.hi - s.lo) = b * BlockSize + s.hi
  BY <1>1, <1>3, <1>5, <1>7, StorageAssumption DEF Byte
<1>10. b * BlockSize + s.hi <= call.from + call.size
  BY <1>1, <1>3, <1>6, <1>7, StorageAssumption DEF Byte
<1> QED BY <1>2, <1>3, <1>5, <1>7, <1>8, <1>9, <1>10 DEF b

\* One turn of a call's loop: the invariant holds afterwards, and the device has
\* moved the bytes of the segment.
LEMMA BlockStep ==
  ASSUME IInv, ReadBlock \/ WriteBlock
  PROVE  IInv' /\ Device!Move(Segment.hi - Segment.lo)
<1> DEFINE s == Segment
           b == s.block
           n == s.hi - s.lo
<1>1. call # NoCall
  BY DEF ReadBlock, WriteBlock, NoCall
<1>2. /\ b \in Block /\ b = at \div BlockSize
      /\ s.lo \in 0..BlockSize - 1 /\ s.hi \in 1..BlockSize /\ s.lo < s.hi
      /\ n \in 1..BlockSize
      /\ b * BlockSize \in Nat /\ at = b * BlockSize + s.lo
      /\ at + n = b * BlockSize + s.hi /\ at + n <= call.from + call.size
      /\ (at + n - 1) \div BlockSize = at \div BlockSize
  BY <1>1, SegmentFacts DEF IInv
<1>3. /\ call.from \in Byte /\ call.size \in 1..Blocks * BlockSize
      /\ call.kind \in {"read", "write"} /\ call.data \in [0..BlockSize - 1 -> Value]
      /\ at \in Byte /\ call.from <= at
  BY <1>1, CallFacts DEF IInv
<1>4. Entry(b) \in [data : [0..BlockSize - 1 -> Value], flushed : BOOLEAN]
  BY <1>2, EntryType DEF IInv
<1>5. Advanced(s)
  BY DEF ReadBlock, WriteBlock
<1>f. Flushing'
  BY <1>1 DEF ReadBlock, WriteBlock, Flushing, IInv
<1> HIDE DEF s
<1>6. /\ at' = at + n
      /\ call' = IF at' = call.from + call.size THEN NoCall ELSE call
  BY <1>2, <1>5 DEF Advanced
<1>7. Calling'
  <2>1. CASE at' = call.from + call.size
    BY <2>1, <1>6 DEF Calling
  <2>2. CASE at' # call.from + call.size
    <3>1. call' = call /\ at' \in Nat /\ call.from <= at' /\ at' < call.from + call.size
      <4>1. /\ at' = at + n /\ n \in Nat /\ at + n <= call.from + call.size
            /\ at \in Nat /\ call.from \in Nat /\ call.size \in Nat /\ call.from <= at
        <5>1. at \in Nat /\ call.from \in Nat /\ call.size \in Nat
          BY <1>3 DEF Byte
        <5>2. n \in Nat
          BY <1>2
        <5> QED BY <5>1, <5>2, <1>2, <1>3, <1>6
      <4> HIDE DEF n
      <4> QED BY <2>2, <4>1, <1>6
    <3>2. call \in Device!Calls
      BY <1>1 DEF IInv, Calling
    <3> QED BY <3>1, <3>2 DEF Calling
  <2> QED BY <2>1, <2>2
<1>8. \A i \in s.lo..s.hi - 1 : Buffer(s, i) \in Value
  <2> SUFFICES ASSUME NEW i \in s.lo..s.hi - 1 PROVE Buffer(s, i) \in Value
    OBVIOUS
  <2> DEFINE c == b * BlockSize
  <2>1. (c + i) - call.from \in Nat
    <3>1. c \in Nat /\ at = c + s.lo /\ at \in Nat /\ call.from \in Nat /\ call.from <= at
      BY <1>2, <1>3, StorageAssumption DEF Byte
    <3> HIDE DEF c
    <3> QED BY <3>1, <1>2
  <2>2. ((b * BlockSize + i) - call.from) % BlockSize \in 0..BlockSize - 1
    BY <2>1, DivMod, StorageAssumption
  <2> QED BY <2>2, <1>3 DEF Buffer
<1>9. CASE ReadBlock
  <2> DEFINE entry == [Entry(b) EXCEPT !.flushed = ReadFlag(s)]
  <2>1. Use(b, entry) /\ call.kind = "read" /\ got' = Copied(s) /\ latest' = latest
    BY <1>9 DEF ReadBlock, s
  <2>2. entry \in [data : [0..BlockSize - 1 -> Value], flushed : BOOLEAN]
    BY <1>2, <1>4 DEF ReadFlag, Caching, TypeOK, IInv
  <2>3. entry.data = Entry(b).data
    BY <1>4
  <2> HIDE DEF entry
  <2>4. /\ Caching' /\ used' \subseteq Block /\ lost' \subseteq Block /\ DOMAIN map' \subseteq used'
        /\ b \in DOMAIN map' /\ map'[b] = entry
        /\ \A c \in DOMAIN map' \ {b} : c \in DOMAIN map /\ map'[c] = map[c]
        /\ \A c \in DOMAIN map \ DOMAIN map' : c \in lost'
        /\ lost \subseteq lost' /\ lost' \subseteq lost \cup used'
        /\ lost' # lost => Cardinality(used') > CacheLength
    BY <1>2, <2>1, <2>2, UseFacts DEF IInv
  <2>5. \A c \in Block \ lost' : Contents(c)' = Contents(c)
    BY <2>3, <2>4 DEF Contents, Entry
  <2>6. Remembers'
    BY <2>1, <2>4, <2>5 DEF Remembers, IInv
  <2>7. /\ got' \in [1..n -> Value]
        /\ b \notin lost' => \A i \in 1..n : got'[i] = latest[at + i - 1]
    <3>1. got' = [i \in 1..n |-> Entry(b).data[s.lo + i - 1]]
      BY <2>1 DEF Copied
    <3>2. ASSUME NEW i \in 1..n PROVE s.lo + i - 1 \in 0..BlockSize - 1
      BY <1>2, StorageAssumption
    <3>3. ASSUME NEW i \in 1..n, b \notin lost' PROVE got'[i] = latest[at + i - 1]
      <4>1. Contents(b)[s.lo + i - 1] = latest[b * BlockSize + (s.lo + i - 1)]
        BY <1>2, <2>4, <3>2, <3>3 DEF IInv, Remembers
      <4>2. b * BlockSize + (s.lo + i - 1) = at + i - 1
        BY <1>2
      <4>3. Contents(b) = Entry(b).data
        BY DEF Contents, Entry
      <4> QED BY <3>1, <4>1, <4>2, <4>3
    <3> QED BY <3>1, <3>2, <3>3, <1>4
  <2>8. used' = used \cup {b}
    BY <2>1 DEF Use
  <2>9. Device!Move(n)
    <3> HIDE DEF n
    <3> QED BY <1>1, <1>2, <1>6, <2>1, <2>4, <2>7, <2>8, SameCardinality, Zenon
            DEF Device!Move, Device!NoCall, NoCall
  <2> QED BY <1>f, <1>7, <2>1, <2>4, <2>6, <2>9 DEF IInv, Histories, s
<1>10. CASE WriteBlock
  <2> DEFINE entry == Written(s)
  <2>1. /\ Use(b, entry) /\ call.kind = "write" /\ got' = <<>>
        /\ latest' = [a \in Byte |->
               IF a \in at..b * BlockSize + s.hi - 1
               THEN call.data[(a - call.from) % BlockSize] ELSE latest[a]]
    BY <1>10 DEF WriteBlock, s
  <2>2. /\ entry \in [data : [0..BlockSize - 1 -> Value], flushed : BOOLEAN]
        /\ \A i \in 0..BlockSize - 1 :
               entry.data[i] = IF i \in s.lo..s.hi - 1 THEN Buffer(s, i) ELSE Entry(b).data[i]
    BY <1>4, <1>8 DEF Written
  <2> HIDE DEF entry
  <2>3. /\ Caching' /\ used' \subseteq Block /\ lost' \subseteq Block /\ DOMAIN map' \subseteq used'
        /\ b \in DOMAIN map' /\ map'[b] = entry
        /\ \A c \in DOMAIN map' \ {b} : c \in DOMAIN map /\ map'[c] = map[c]
        /\ \A c \in DOMAIN map \ DOMAIN map' : c \in lost'
        /\ lost \subseteq lost' /\ lost' \subseteq lost \cup used'
        /\ lost' # lost => Cardinality(used') > CacheLength
    BY <1>2, <2>1, <2>2, UseFacts DEF IInv
  <2>4. latest' \in [Byte -> Value]
    <3> SUFFICES ASSUME NEW a \in Byte, a \in at..b * BlockSize + s.hi - 1
                 PROVE  call.data[(a - call.from) % BlockSize] \in Value
      BY <2>1 DEF IInv, Histories
    <3>1. a - call.from \in Nat
      BY <1>3 DEF Byte
    <3>2. (a - call.from) % BlockSize \in 0..BlockSize - 1
      BY <3>1, DivMod, StorageAssumption
    <3> QED BY <3>2, <1>3
  <2>5. Remembers'
    <3> SUFFICES ASSUME NEW c \in Block \ lost', NEW i \in 0..BlockSize - 1
                 PROVE  Contents(c)'[i] = latest'[c * BlockSize + i]
      BY DEF Remembers
    <3>1. Contents(c)[i] = latest[c * BlockSize + i]
      BY <2>3 DEF IInv, Remembers
    <3>2. c * BlockSize + i \in Byte
      BY ByteOf
    <3>3. CASE c = b
      <4>1. Contents(c)' = entry.data
        BY <2>3, <3>3 DEF Contents
      <4>2. Contents(c) = Entry(b).data
        BY <3>3 DEF Contents, Entry
      <4>3. i \in s.lo..s.hi - 1 <=> c * BlockSize + i \in at..b * BlockSize + s.hi - 1
        <5> DEFINE d == b * BlockSize
        <5>1. d \in Nat /\ at = d + s.lo
          BY <1>2
        <5> HIDE DEF d
        <5>2. i \in s.lo..s.hi - 1 <=> d + i \in at..d + s.hi - 1
          BY <5>1, <1>2, StorageAssumption
        <5> QED BY <5>2, <3>3 DEF d
      <4>4. latest'[c * BlockSize + i] =
               IF c * BlockSize + i \in at..b * BlockSize + s.hi - 1
               THEN call.data[((c * BlockSize + i) - call.from) % BlockSize]
               ELSE latest[c * BlockSize + i]
        <5> DEFINE a == c * BlockSize + i
        <5>1. a \in Byte
          BY <3>2
        <5> HIDE DEF a
        <5>2. latest'[a] = IF a \in at..b * BlockSize + s.hi - 1
                           THEN call.data[(a - call.from) % BlockSize] ELSE latest[a]
          BY <5>1, <2>1
        <5> QED BY <5>2 DEF a
      <4>5. Buffer(s, i) = call.data[((c * BlockSize + i) - call.from) % BlockSize]
        BY <3>3 DEF Buffer
      <4>6. entry.data[i] = IF i \in s.lo..s.hi - 1 THEN Buffer(s, i) ELSE Entry(b).data[i]
        BY <2>2
      <4> QED BY <3>1, <4>1, <4>2, <4>3, <4>4, <4>5, <4>6
    <3>4. CASE c # b
      <4>1. Contents(c)' = Contents(c)
        BY <2>3, <3>4 DEF Contents
      <4>2. c * BlockSize + i \notin at..b * BlockSize + s.hi - 1
        <5> DEFINE d == b * BlockSize
                   a == c * BlockSize + i
        <5>1. \A j \in 0..BlockSize - 1 : a # d + j
          BY <1>2, <3>4, BlocksApart
        <5>2. d \in Nat /\ at = d + s.lo /\ a \in Int
          BY <1>2, <3>2 DEF Byte
        <5> HIDE DEF a, d
        <5>3. ASSUME a \in at..d + s.hi - 1 PROVE FALSE
          <6>1. a - d \in 0..BlockSize - 1 /\ a = d + (a - d)
            BY <5>2, <5>3, <1>2, StorageAssumption
          <6> QED BY <6>1, <5>1
        <5> QED BY <5>3 DEF a, d
      <4> QED BY <2>1, <3>1, <3>2, <4>1, <4>2
    <3> QED BY <3>3, <3>4
  <2>6. used' = used \cup {b}
    BY <2>1 DEF Use
  <2>7. latest' = [a \in Byte |-> IF a \in at..at + n - 1
                                  THEN call.data[(a - call.from) % BlockSize] ELSE latest[a]]
    <3>1. b * BlockSize + s.hi - 1 = at + n - 1
      BY <1>2
    <3> QED BY <3>1, <2>1
  <2>8. Device!Move(n)
    <3> HIDE DEF n
    <3> QED BY <1>1, <1>2, <1>6, <2>1, <2>3, <2>6, <2>7, SameCardinality, Zenon
            DEF Device!Move, Device!NoCall, NoCall, Device!Byte, Byte
  <2> QED BY <1>f, <1>7, <2>3, <2>4, <2>5, <2>8 DEF IInv, Histories, s
<1> QED BY <1>9, <1>10

-----------------------------------------------------------------------------
(* The other steps. *)

LEMMA InitInv == Init => IInv /\ Device!Init
<1> SUFFICES ASSUME Init PROVE IInv /\ Device!Init
  OBVIOUS
<1>1. Caching
  <2>1. DOMAIN map = {} /\ ToSet(list) = {} /\ Len(list) = 0 /\ list = <<>>
    BY DEF Init, ToSet
  <2>2. Cardinality(DOMAIN map) = 0
    BY <2>1, FS_EmptySet
  <2>3. map \in [DOMAIN map -> [data : [0..BlockSize - 1 -> Value], flushed : BOOLEAN]]
    BY DEF Init
  <2>4. list \in Seq(Block) /\ IsInjective(list)
    BY <2>1 DEF IsInjective
  <2> QED BY <2>1, <2>2, <2>3, <2>4, StorageAssumption DEF Caching, TypeOK
<1>2. Calling
  BY DEF Init, Calling
<1>3. Histories
  BY StorageAssumption DEF Init, Histories
<1>4. Remembers
  <2> SUFFICES ASSUME NEW b \in Block, NEW i \in 0..BlockSize - 1
               PROVE  Contents(b)[i] = latest[b * BlockSize + i]
    BY DEF Remembers
  <2>1. b * BlockSize + i \in Byte
    BY ByteOf
  <2>2. Contents(b)[i] = Zero
    BY DEF Init, Contents, NoCall
  <2> QED BY <2>1, <2>2 DEF Init
<1>5. Flushing
  BY DEF Init, Flushing
<1>6. Device!Init
  BY DEF Init, Device!Init, Device!Byte, Byte, Device!NoCall, NoCall
<1> QED BY <1>1, <1>2, <1>3, <1>4, <1>5, <1>6 DEF IInv

\* A call within the partition is one within the disk.
LEMMA StartStep ==
  ASSUME IInv, NEW kind \in {"read", "write"}, NEW byteOffset \in Nat,
         NEW size \in Nat \ {0}, byteOffset + size <= PartitionLength,
         NEW data \in [0..BlockSize - 1 -> Value], Start(kind, byteOffset, size, data)
  PROVE  IInv' /\ Device!Begin
<1> DEFINE c == [kind |-> kind, from |-> PartitionOffset + byteOffset, size |-> size,
                 data |-> data]
<1>1. /\ call = NoCall /\ call' = c /\ at' = PartitionOffset + byteOffset /\ got' = <<>>
      /\ UNCHANGED <<map, list, flushing, perished, latest, recent, used, lost>>
      /\ flushing = -1
  BY DEF Start, Idle
<1>2. /\ PartitionOffset + byteOffset \in Byte /\ size \in 1..Blocks * BlockSize
      /\ PartitionOffset + byteOffset + size <= Blocks * BlockSize
  <2> DEFINE end == Blocks * BlockSize
  <2>1. /\ PartitionOffset \in 0..end - 1 /\ PartitionLength \in Nat \ {0}
        /\ PartitionOffset + PartitionLength <= end /\ end \in Int
    BY StorageAssumption DEF Byte
  <2> HIDE DEF end
  <2>2. /\ PartitionOffset + byteOffset \in 0..end - 1 /\ size \in 1..end
        /\ PartitionOffset + byteOffset + size <= end
    BY <2>1
  <2> QED BY <2>2 DEF Byte, end
<1>3. c \in Device!Calls
  BY <1>2 DEF Device!Calls, Device!Byte, Byte
<1>4. Calling'
  BY <1>1, <1>2, <1>3 DEF Calling, Byte
<1>5. Caching' /\ Histories' /\ Remembers' /\ Flushing'
  BY <1>1 DEF IInv, Caching, TypeOK, Histories, Remembers, Contents, Flushing
<1>6. Device!Begin
  BY <1>1, <1>3 DEF Device!Begin, Device!NoCall, NoCall
<1> QED BY <1>4, <1>5, <1>6 DEF IInv

LEMMA BeginStep ==
  ASSUME IInv, Begin
  PROVE  IInv' /\ (Device!Begin \/ UNCHANGED Device!vars)
<1>1. ASSUME NEW size \in 1..PartitionLength, NEW byteOffset \in 0..PartitionLength - size,
             Read(size, byteOffset)
      PROVE  IInv' /\ Device!Begin
  <2>1. NoCall.data \in [0..BlockSize - 1 -> Value]
    BY StorageAssumption DEF NoCall
  <2>2. /\ size \in Nat \ {0} /\ byteOffset \in Nat
        /\ byteOffset + size <= PartitionLength
    BY StorageAssumption
  <2> QED BY <1>1, <2>1, <2>2, StartStep DEF Read
<1>2. ASSUME NEW size \in 1..PartitionLength, NEW byteOffset \in 0..PartitionLength - size,
             NEW data \in [0..BlockSize - 1 -> Value], Write(data, size, byteOffset)
      PROVE  IInv' /\ Device!Begin
  <2>1. /\ size \in Nat \ {0} /\ byteOffset \in Nat
        /\ byteOffset + size <= PartitionLength
    BY StorageAssumption
  <2> QED BY <1>2, <2>1, StartStep DEF Write
<1>3. ASSUME Clear PROVE IInv' /\ Device!Begin
  <2>1. PICK zeroes \in [0..BlockSize - 1 -> Value] : Start("write", 0, PartitionLength, zeroes)
    BY <1>3 DEF Clear
  <2>2. 0 + PartitionLength <= PartitionLength /\ PartitionLength \in Nat \ {0}
    BY StorageAssumption
  <2> QED BY <2>1, <2>2, StartStep
<1>4. ASSUME Flush PROVE IInv' /\ UNCHANGED Device!vars
  <2>1. Flushing'
    BY <1>4 DEF Flush, Idle, Flushing, IInv, Caching, TypeOK, Block
  <2>2. Caching' /\ Calling' /\ Histories' /\ Remembers'
    BY <1>4 DEF Flush, IInv, Caching, TypeOK, Calling, Histories, Remembers, Contents
  <2> QED BY <1>4, <2>1, <2>2 DEF IInv, Flush, Device!vars
<1> QED BY <1>1, <1>2, <1>3, <1>4 DEF Begin

\* The shell's new device remembers nothing of what the old one held.
LEMMA SelectStep ==
  ASSUME IInv, SelectPartition
  PROVE  IInv' /\ Device!Replace
<1>1. /\ call = NoCall /\ map' = <<>> /\ list' = <<>> /\ used' = {} /\ lost' = lost \cup used
      /\ UNCHANGED <<call, at, got, flushing, latest>>
  BY DEF SelectPartition, Idle
<1>2. Caching'
  <2>1. DOMAIN map' = {} /\ ToSet(list') = {} /\ Len(list') = 0
    BY <1>1 DEF ToSet
  <2>2. Cardinality(DOMAIN map') = 0
    BY <2>1, FS_EmptySet
  <2>3. map' \in [DOMAIN map' -> [data : [0..BlockSize - 1 -> Value], flushed : BOOLEAN]]
    BY <1>1
  <2>4. list' \in Seq(Block) /\ IsInjective(list')
    BY <1>1 DEF IsInjective
  <2> QED BY <2>1, <2>2, <2>3, <2>4, StorageAssumption DEF Caching, TypeOK
<1>3. Calling' /\ Histories' /\ Flushing'
  BY <1>1 DEF IInv, Calling, Histories, Flushing
<1>4. Remembers'
  <2> SUFFICES ASSUME NEW b \in Block \ lost', NEW i \in 0..BlockSize - 1
               PROVE  Contents(b)'[i] = latest'[b * BlockSize + i]
    BY DEF Remembers
  <2>1. b \notin lost /\ b \notin DOMAIN map
    BY <1>1 DEF IInv, Histories
  <2>2. Contents(b) = NoCall.data /\ Contents(b)' = NoCall.data
    BY <2>1, <1>1 DEF Contents
  <2>3. Contents(b)[i] = latest[b * BlockSize + i]
    BY <2>1 DEF IInv, Remembers
  <2> QED BY <2>2, <2>3, <1>1
<1>5. Device!Replace
  BY <1>1 DEF Device!Replace, Device!NoCall, NoCall
<1> QED BY <1>2, <1>3, <1>4, <1>5 DEF IInv

\* The entry that flush() comes to next is the first that it has not passed.
LEMMA AheadFacts ==
  ASSUME IInv, flushing >= 0, Ahead # {}
  PROVE  /\ Min(Ahead) \in DOMAIN map /\ Min(Ahead) \in Nat /\ Min(Ahead) >= flushing
         /\ \A b \in DOMAIN map : b >= flushing => b >= Min(Ahead)
<1>1. Ahead \subseteq Nat /\ DOMAIN map \subseteq Nat
  BY DEF Ahead, IInv, Caching, TypeOK, Block
<1>2. Min(Ahead) \in Ahead /\ \A b \in Ahead : Min(Ahead) <= b
  BY <1>1, MinFact
<1> QED BY <1>1, <1>2 DEF Ahead, IInv, Flushing

\* flush() changes nothing that a caller can see.
LEMMA FlushStep ==
  ASSUME IInv, FlushClean \/ FlushFailed \/ FlushWritten \/ FlushEnd
  PROVE  IInv' /\ UNCHANGED Device!vars
<1> DEFINE b == Min(Ahead)
<1>1. UNCHANGED <<list, call, at, got, latest, used, lost>>
  BY DEF FlushClean, FlushFailed, FlushWritten, FlushEnd
<1>2. DOMAIN map \subseteq Block /\ Block \subseteq Nat /\ flushing \in Nat \cup {-1}
  BY DEF IInv, Caching, TypeOK, Flushing, Block
<1>3. CASE FlushFailed
  <2>1. /\ flushing >= 0 /\ Ahead # {} /\ flushing' = b + 1
        /\ map' = [map EXCEPT ![b].flushed = TRUE]
    BY <1>3 DEF FlushFailed
  <2>2. b \in DOMAIN map /\ b \in Nat /\ \A c \in DOMAIN map : c >= flushing => c >= b
    BY <2>1, AheadFacts
  <2> HIDE DEF b
  <2>3. /\ DOMAIN map' = DOMAIN map
        /\ map \in [DOMAIN map -> [data : [0..BlockSize - 1 -> Value], flushed : BOOLEAN]]
    BY <2>1 DEF IInv, Caching, TypeOK
  <2>4. \A c \in DOMAIN map :
           /\ map'[c] \in [data : [0..BlockSize - 1 -> Value], flushed : BOOLEAN]
           /\ map'[c].data = map[c].data
           /\ map'[c].flushed = (c = b \/ map[c].flushed)
    BY <2>1, <2>2, <2>3
  <2>5. map' \in [DOMAIN map' -> [data : [0..BlockSize - 1 -> Value], flushed : BOOLEAN]]
    BY <2>1, <2>3, <2>4
  <2>6. Flushing'
    BY <1>1, <1>2, <2>1, <2>2, <2>3, <2>4 DEF IInv, Flushing
  <2>7. Caching' /\ Calling' /\ Histories'
    BY <1>1, <2>3, <2>5 DEF IInv, Caching, TypeOK, Calling, Histories
  <2>8. Remembers'
    BY <1>1, <2>3, <2>4 DEF IInv, Remembers, Contents
  <2> QED BY <1>1, <2>6, <2>7, <2>8 DEF IInv, Device!vars
<1>4. CASE FlushClean \/ FlushWritten \/ FlushEnd
  <2>1. map' = map
    BY <1>4 DEF FlushClean, FlushWritten, FlushEnd
  <2>2. Flushing'
    <3>1. CASE FlushClean
      <4>1. flushing >= 0 /\ Ahead # {} /\ map[b].flushed /\ flushing' = b + 1
        BY <3>1 DEF FlushClean
      <4>2. b \in DOMAIN map /\ b \in Nat /\ \A c \in DOMAIN map : c >= flushing => c >= b
        BY <4>1, AheadFacts
      <4> HIDE DEF b
      <4>3. ASSUME NEW c \in DOMAIN map, c < b + 1 PROVE map[c].flushed
        <5>1. c = b \/ c < flushing
          <6>1. c \in Nat /\ b \in Nat /\ flushing \in Nat /\ (c >= flushing => c >= b)
            <7>1. c \in Nat
              BY <1>2
            <7>2. flushing \in Nat
              BY <1>2, <4>1
            <7> QED BY <7>1, <7>2, <4>2
          <6> QED BY <6>1, <4>3
        <5> QED BY <5>1, <4>1 DEF IInv, Flushing
      <4>4. flushing' \in Nat /\ call = NoCall
        BY <4>1, <4>2, <1>2 DEF IInv, Flushing
      <4> QED BY <1>1, <2>1, <4>1, <4>3, <4>4 DEF Flushing
    <3>2. CASE FlushWritten
      BY <1>1, <2>1, <3>2 DEF FlushWritten, IInv, Flushing
    <3>3. CASE FlushEnd
      BY <3>3 DEF FlushEnd, Flushing
    <3> QED BY <1>4, <3>1, <3>2, <3>3
  <2>3. Caching' /\ Calling' /\ Histories' /\ Remembers'
    BY <1>1, <2>1 DEF IInv, Caching, TypeOK, Calling, Histories, Remembers, Contents
  <2> QED BY <1>1, <2>2, <2>3 DEF IInv, Device!vars
<1> QED BY <1>3, <1>4

-----------------------------------------------------------------------------
(* Theorems. *)

LEMMA NextStep ==
  IInv /\ [Next]_vars => IInv' /\ [Device!Next]_Device!vars
<1> SUFFICES ASSUME IInv, [Next]_vars PROVE IInv' /\ [Device!Next]_Device!vars
  OBVIOUS
<1>1. CASE Begin
  BY <1>1, BeginStep DEF Device!Next
<1>2. CASE SelectPartition
  BY <1>2, SelectStep DEF Device!Next
<1>3. CASE ReadBlock \/ WriteBlock
  <2>1. IInv' /\ Device!Move(Segment.hi - Segment.lo)
    BY <1>3, BlockStep
  <2>2. Segment.hi - Segment.lo \in 1..BlockSize
    <3>1. call # NoCall
      BY <1>3 DEF ReadBlock, WriteBlock, NoCall
    <3> QED BY <3>1, SegmentFacts DEF IInv
  <2> QED BY <2>1, <2>2 DEF Device!Next
<1>4. CASE FlushClean \/ FlushFailed \/ FlushWritten \/ FlushEnd
  BY <1>4, FlushStep
<1>5. CASE UNCHANGED vars
  BY <1>5 DEF vars, Device!vars, IInv, Caching, TypeOK, Calling, Histories, Remembers,
              Contents, Flushing
<1> QED BY <1>1, <1>2, <1>3, <1>4, <1>5 DEF Next

THEOREM Invariance == Spec => []IInv
<1>1. Init => IInv
  BY InitInv
<1>2. IInv /\ [Next]_vars => IInv'
  BY NextStep
<1> QED BY <1>1, <1>2, PTL DEF Spec

\* The list and the map of Cache agree and never hold more than maxSize blocks,
\* through every order of look-ups and evictions.
THEOREM CacheBounded == Spec => []TypeOK
<1>1. IInv => TypeOK
  BY DEF IInv, Caching
<1> QED BY <1>1, Invariance, PTL

\* A block that was never evicted reads as it was last written, although
\* readCache() and writeCache() move parts of blocks.
THEOREM CacheRemembers == Spec => []Remembers
<1>1. IInv => Remembers
  BY DEF IInv
<1> QED BY <1>1, Invariance, PTL

LEMMA MinOfTwo ==
  ASSUME NEW a \in Nat, NEW b \in Nat
  PROVE  Min({a, b}) = IF a <= b THEN a ELSE b
<1>1. Min({a, b}) \in {a, b} /\ \A y \in {a, b} : Min({a, b}) <= y
  BY MinFact
<1> QED BY <1>1

\* operator[] moves the block to the front of both orders, and ensureSpace() takes
\* the last one of the cache's.
LEMMA KeepsStep ==
  ASSUME Caching, recent \in Seq(Block), IsInjective(recent), KeepsRecent,
         NEW b \in Block, NEW entry, Use(b, entry)
  PROVE  recent' \in Seq(Block) /\ IsInjective(recent') /\ KeepsRecent'
<1> DEFINE R == Without(recent, b)
           L == Without(list, b)
           n == Len(recent)
           m == Min({CacheLength, n})
<1>1. /\ recent' = <<b>> \o R
      /\ list' = IF Evicted(b) = {} THEN <<b>> \o L ELSE Front(<<b>> \o L)
  BY DEF Use, Moved
<1>2. /\ R \in Seq(Block) /\ IsInjective(R) /\ ToSet(R) = ToSet(recent) \ {b}
      /\ n \in Nat /\ CacheLength \in Nat \ {0} /\ list = SubSeq(recent, 1, m)
  BY WithoutFacts, StorageAssumption DEF KeepsRecent
<1>3. recent' \in Seq(Block) /\ IsInjective(recent') /\ Len(recent') = Len(R) + 1
  BY <1>1, <1>2, FrontFacts
<1>4. m = IF CacheLength <= n THEN CacheLength ELSE n
  BY <1>2, MinOfTwo
<1> HIDE DEF R, L, n, m
<1>5. /\ list \in Seq(Block) /\ Len(list) = m /\ \A i \in 1..m : list[i] = recent[i]
      /\ ToSet(list) = DOMAIN map /\ Cardinality(DOMAIN map) = m
  <2>1. m \in 0..Len(recent)
    BY <1>2, <1>4 DEF n
  <2>2. /\ SubSeq(recent, 1, m) \in Seq(Block) /\ Len(SubSeq(recent, 1, m)) = m
        /\ \A i \in 1..m : SubSeq(recent, 1, m)[i] = recent[i]
    BY <2>1
  <2> QED BY <2>2, <1>2 DEF Caching, TypeOK
<1>6. PICK k \in 1..n + 1 :
         /\ k <= n => recent[k] = b /\ Len(R) = n - 1
         /\ k = n + 1 => b \notin ToSet(recent) /\ R = recent
         /\ \A i \in 1..k - 1 : R[i] = recent[i]
         /\ \A i \in k..n - 1 : R[i] = recent[i + 1]
  BY WithoutAt DEF R, n
<1>7. /\ recent'[1] = b
      /\ \A i \in 1..Len(R) : recent'[i + 1] = R[i]
  BY <1>1, <1>2
<1> DEFINE m2 == Min({CacheLength, Len(recent')})
<1>8. m2 = IF CacheLength <= Len(recent') THEN CacheLength ELSE Len(recent')
  BY <1>2, <1>3, MinOfTwo
<1> HIDE DEF m2
<1>9. SUFFICES /\ list' \in Seq(Block) /\ Len(list') = m2
               /\ \A i \in 1..m2 : list'[i] = recent'[i]
  <2>1. m2 \in 0..Len(recent')
    BY <1>2, <1>3, <1>8
  <2>2. /\ SubSeq(recent', 1, m2) \in Seq(Block) /\ Len(SubSeq(recent', 1, m2)) = m2
        /\ \A i \in 1..m2 : SubSeq(recent', 1, m2)[i] = recent'[i]
    BY <2>1, <1>3
  <2>3. list' = SubSeq(recent', 1, m2)
    BY <1>9, <2>2, SeqEqual
  <2> QED BY <2>3, <1>3 DEF KeepsRecent, m2
<1>10. CASE k <= m
  <2>1. k \in 1..n /\ list[k] = b /\ Len(R) = n - 1
    BY <1>10, <1>2, <1>4, <1>5, <1>6
  <2>2. b \in ToSet(list) /\ Evicted(b) = {}
    <3>1. b \in ToSet(list)
      BY <2>1, <1>5, <1>10 DEF ToSet
    <3> QED BY <3>1, <1>5 DEF Evicted
  <2>3. PICK j \in 1..m : /\ list[j] = b
                          /\ L \in Seq(Block) /\ Len(L) = m - 1
                          /\ \A i \in 1..j - 1 : L[i] = list[i]
                          /\ \A i \in j..m - 1 : L[i] = list[i + 1]
    <3>1. PICK j \in 1..Len(list) + 1 :
             /\ j <= Len(list) => list[j] = b /\ Len(L) = Len(list) - 1
             /\ j = Len(list) + 1 => b \notin ToSet(list) /\ L = list
             /\ L \in Seq(Block)
             /\ \A i \in 1..j - 1 : L[i] = list[i]
             /\ \A i \in j..Len(list) - 1 : L[i] = list[i + 1]
      BY <1>5, WithoutAt DEF L
    <3>2. j # m + 1
      BY <3>1, <2>2, <1>5
    <3>3. j \in 1..m /\ m \in Nat
      BY <3>2, <1>2, <1>4, <1>5
    <3> QED BY <3>1, <3>3, <1>5
  <2>4. j = k
    <3>1. j \in 1..Len(recent) /\ k \in 1..Len(recent) /\ recent[j] = recent[k]
      BY <2>1, <2>3, <1>2, <1>4, <1>5, <1>6 DEF n
    <3> QED BY <3>1 DEF IsInjective
  <2>5. /\ list' \in Seq(Block) /\ Len(list') = m /\ list'[1] = b
        /\ \A i \in 1..m - 1 : list'[i + 1] = L[i]
    BY <2>2, <2>3, <1>1, <1>5
  <2>6. m2 = m /\ m \in Nat
    BY <2>1, <1>2, <1>3, <1>4, <1>8
  <2>7. ASSUME NEW i \in 1..m - 1 PROVE L[i] = R[i]
    <3>1. CASE i < k
      BY <3>1, <2>1, <2>3, <2>4, <1>4, <1>5, <1>6
    <3>2. CASE i >= k
      <4>1. L[i] = list[i + 1] /\ list[i + 1] = recent[i + 1]
        BY <3>2, <2>3, <2>4, <1>5
      <4>2. i \in k..n - 1
        BY <3>2, <2>7, <1>2, <1>4
      <4> QED BY <4>1, <4>2, <1>6
    <3> QED BY <3>1, <3>2, <2>1
  <2>8. ASSUME NEW i \in 1..m, i # 1 PROVE list'[i] = recent'[i]
    <3>1. i - 1 \in 1..m - 1 /\ i - 1 \in 1..Len(R) /\ (i - 1) + 1 = i
      BY <2>8, <2>1, <1>2, <1>4
    <3> QED BY <3>1, <2>5, <2>7, <1>7
  <2> QED BY <2>5, <2>6, <2>8, <1>7
<1>11. CASE k > m
  <2>1. b \notin ToSet(list) /\ L = list
    <3>1. ASSUME NEW i \in 1..m PROVE list[i] # b
      <4>1. i \in 1..Len(recent) /\ i # k
        BY <1>11, <1>2, <1>4 DEF n
      <4>2. CASE k <= n
        <5>1. recent[k] = b /\ k \in 1..Len(recent)
          BY <4>2, <1>6 DEF n
        <5>2. recent[i] # recent[k]
          BY <4>1, <5>1 DEF IsInjective
        <5> QED BY <5>1, <5>2, <1>5
      <4>3. CASE k = n + 1
        BY <4>1, <4>3, <1>5, <1>6 DEF ToSet
      <4>4. k <= n \/ k = n + 1
        <5>1. k \in 1..n + 1
          OBVIOUS
        <5> QED BY <5>1, <1>2
      <4> QED BY <4>2, <4>3, <4>4
    <3>2. b \notin ToSet(list)
      BY <3>1, <1>5 DEF ToSet
    <3> QED BY <3>2 DEF L, Without
  <2>2. /\ <<b>> \o list \in Seq(Block) /\ Len(<<b>> \o list) = m + 1 /\ (<<b>> \o list)[1] = b
        /\ \A i \in 1..m : (<<b>> \o list)[i + 1] = list[i]
    BY <1>5
  <2>3. CASE m < CacheLength
    <3>1. m = n /\ k = n + 1 /\ R = recent /\ Len(R) = m
      BY <2>3, <1>2, <1>4, <1>6, <1>11 DEF n
    <3>2. list' = <<b>> \o list
      BY <2>1, <2>3, <1>1, <1>2, <1>5 DEF Evicted
    <3>3. m2 = m + 1
      BY <3>1, <2>3, <1>2, <1>3, <1>8
    <3>4. ASSUME NEW i \in 1..m + 1, i # 1 PROVE list'[i] = recent'[i]
      <4>1. i - 1 \in 1..m /\ (i - 1) + 1 = i
        BY <3>4, <1>2, <3>1
      <4> QED BY <4>1, <3>1, <3>2, <2>2, <1>5, <1>7
    <3> QED BY <2>2, <3>2, <3>3, <3>4, <1>7
  <2>4. CASE m = CacheLength
    <3>1. Evicted(b) # {}
      BY <2>1, <2>4, <1>2, <1>5 DEF Evicted
    <3>2. m \in Nat \ {0} /\ m <= n /\ m <= Len(R) + 1
      BY <2>4, <1>2, <1>4, <1>6 DEF n
    <3>3. list' = SubSeq(<<b>> \o list, 1, m)
      BY <3>1, <2>1, <2>2, <1>1, <3>2 DEF Front
    <3>4. /\ list' \in Seq(Block) /\ Len(list') = m
          /\ \A i \in 1..m : list'[i] = (<<b>> \o list)[i]
      BY <3>2, <3>3, <2>2
    <3>5. m2 = m
      BY <3>2, <2>4, <1>2, <1>3, <1>8
    <3>6. ASSUME NEW i \in 1..m, i # 1 PROVE list'[i] = recent'[i]
      <4>1. i - 1 \in 1..m /\ i - 1 < k /\ (i - 1) + 1 = i /\ i - 1 \in 1..Len(R)
        BY <3>2, <3>6, <1>11
      <4>2. list'[i] = recent[i - 1]
        BY <4>1, <3>4, <2>2, <1>5
      <4>3. recent'[i] = R[i - 1] /\ R[i - 1] = recent[i - 1]
        BY <4>1, <1>6, <1>7
      <4> QED BY <4>2, <4>3
    <3>7. list'[1] = recent'[1]
      BY <3>2, <3>4, <2>2, <1>7
    <3> QED BY <3>4, <3>5, <3>6, <3>7
  <2> QED BY <2>3, <2>4, <1>2, <1>4
<1> QED BY <1>10, <1>11, <1>2, <1>4

\* The cache holds the blocks used last, in that order: list.erase() and
\* push_front() in moveFront(), and list.back() in ensureSpace(), are those of the
\* order in which operator[] was called.
THEOREM CacheKeepsRecent == Spec => []KeepsRecent
<1> DEFINE K == recent \in Seq(Block) /\ IsInjective(recent) /\ KeepsRecent
<1>1. Init => K
  <2> SUFFICES ASSUME Init PROVE K
    OBVIOUS
  <2>1. list = <<>> /\ recent = <<>>
    BY DEF Init
  <2>2. Min({CacheLength, Len(recent)}) = 0
    BY <2>1, MinOfTwo, StorageAssumption, Len(recent) = 0
  <2> QED BY <2>1, <2>2 DEF KeepsRecent, IsInjective
<1>2. IInv /\ K /\ [Next]_vars => K'
  <2> SUFFICES ASSUME IInv, K, [Next]_vars PROVE K'
    OBVIOUS
  <2>1. CASE UNCHANGED <<list, recent>>
    BY <2>1 DEF KeepsRecent
  <2>2. CASE SelectPartition
    <3>1. list' = <<>> /\ recent' = <<>>
      BY <2>2 DEF SelectPartition
    <3>2. Min({CacheLength, Len(recent')}) = 0
      BY <3>1, MinOfTwo, StorageAssumption, Len(recent') = 0
    <3> QED BY <3>1, <3>2 DEF KeepsRecent, IsInjective
  <2>3. CASE ReadBlock \/ WriteBlock
    <3>1. call # NoCall
      BY <2>3 DEF ReadBlock, WriteBlock, NoCall
    <3>2. Segment.block \in Block
      BY <3>1, SegmentFacts DEF IInv
    <3>3. \E entry : Use(Segment.block, entry)
      BY <2>3 DEF ReadBlock, WriteBlock
    <3> QED BY <3>2, <3>3, KeepsStep DEF IInv
  <2>4. CASE Begin \/ FlushClean \/ FlushFailed \/ FlushWritten \/ FlushEnd
    <3>1. UNCHANGED <<list, recent>>
      BY <2>4 DEF Begin, Read, Write, Clear, Start, Flush, FlushClean, FlushFailed,
                  FlushWritten, FlushEnd
    <3> QED BY <3>1, <2>1
  <2>5. CASE UNCHANGED vars
    BY <2>5, <2>1 DEF vars
  <2> QED BY <2>2, <2>3, <2>4, <2>5 DEF Next
<1>3. K => KeepsRecent
  OBVIOUS
<1> QED BY <1>1, <1>2, <1>3, Invariance, PTL DEF Spec

\* writeCache() leaves what it changes to be flushed, and nothing else changes
\* what a block holds.
THEOREM ChangesAreDirty == Spec => ChangedIsDirty
<1> DEFINE A == \A b \in DOMAIN map' : map'[b].data # Contents(b) => ~map'[b].flushed
<1>1. IInv /\ [Next]_vars => [A]_vars
  <2> SUFFICES ASSUME IInv, Next, NEW c \in DOMAIN map', map'[c].data # Contents(c)
               PROVE  ~map'[c].flushed
    OBVIOUS
  <2>1. CASE Begin \/ FlushClean \/ FlushWritten \/ FlushEnd
    <3>1. map' = map
      BY <2>1 DEF Begin, Read, Write, Clear, Flush, Start, FlushClean, FlushWritten, FlushEnd
    <3> QED BY <3>1 DEF Contents
  <2>2. CASE SelectPartition
    BY <2>2 DEF SelectPartition
  <2>3. CASE FlushFailed
    <3>1. map' = [map EXCEPT ![Min(Ahead)].flushed = TRUE]
      BY <2>3 DEF FlushFailed
    <3>2. map \in [DOMAIN map -> [data : [0..BlockSize - 1 -> Value], flushed : BOOLEAN]]
      BY DEF IInv, Caching, TypeOK
    <3> QED BY <3>1, <3>2 DEF Contents
  <2>4. CASE ReadBlock \/ WriteBlock
    <3> DEFINE b == Segment.block
               entry == IF ReadBlock
                        THEN [Entry(b) EXCEPT !.flushed = ReadFlag(Segment)]
                        ELSE Written(Segment)
    <3>1. Use(b, entry)
      BY <2>4 DEF ReadBlock, WriteBlock
    <3>2. call # NoCall
      BY <2>4 DEF ReadBlock, WriteBlock, NoCall
    <3>3. b \in Block
      BY <3>2, SegmentFacts DEF IInv
    <3>4. Entry(b) \in [data : [0..BlockSize - 1 -> Value], flushed : BOOLEAN]
      BY <3>3, EntryType DEF IInv
    <3>5. map' = [d \in (DOMAIN map \ Evicted(b)) \cup {b} |-> IF d = b THEN entry ELSE map[d]]
      BY <3>1 DEF Use
    <3>6. c = b
      BY <3>5 DEF Contents
    <3>7. map'[c] = entry
      BY <3>5, <3>6
    <3>8. CASE ReadBlock
      <4>1. entry.data = Entry(b).data
        BY <3>4, <3>8
      <4> QED BY <4>1, <3>6, <3>7 DEF Contents, Entry
    <3>9. CASE ~ReadBlock
      BY <3>7, <3>9 DEF Written
    <3> QED BY <3>8, <3>9
  <2> QED BY <2>1, <2>2, <2>3, <2>4 DEF Next
<1> QED BY <1>1, Invariance, PTL DEF Spec, ChangedIsDirty

\* flush() passes no entry by, whatever the port answers.
THEOREM FlushesAll == Spec => FlushIsComplete
<1> DEFINE A == flushing >= 0 /\ flushing' = -1 => \A b \in DOMAIN map' : map'[b].flushed
<1>1. IInv /\ [Next]_vars => [A]_vars
  <2> SUFFICES ASSUME IInv, Next, flushing >= 0, flushing' = -1, NEW b \in DOMAIN map'
               PROVE  map'[b].flushed
    OBVIOUS
  <2>1. flushing \in Nat /\ DOMAIN map \subseteq Nat
    BY DEF IInv, Flushing, Caching, TypeOK, Block
  <2>2. ~Begin /\ ~SelectPartition
    BY <2>1 DEF Begin, Read, Write, Clear, Flush, Start, SelectPartition, Idle
  <2>3. ~ReadBlock /\ ~WriteBlock /\ ~FlushWritten
    BY <2>1 DEF ReadBlock, WriteBlock, FlushWritten
  <2>4. ~FlushClean /\ ~FlushFailed
    <3>1. ASSUME FlushClean \/ FlushFailed PROVE FALSE
      <4>1. Ahead # {} /\ flushing' = Min(Ahead) + 1
        BY <3>1 DEF FlushClean, FlushFailed
      <4>2. Min(Ahead) \in Nat
        BY <4>1, AheadFacts
      <4> QED BY <4>1, <4>2
    <3> QED BY <3>1
  <2>5. FlushEnd
    BY <2>2, <2>3, <2>4 DEF Next
  <2>6. map' = map /\ b < flushing
    BY <2>1, <2>5 DEF FlushEnd, Ahead
  <2> QED BY <2>1, <2>6 DEF IInv, Flushing
<1> QED BY <1>1, Invariance, PTL DEF Spec, FlushIsComplete

\* To its callers the cache of every partition is a device that remembers.
THEOREM Refinement == Spec => ImplementsDevice
<1>1. Init => Device!Init
  BY InitInv
<1>2. IInv /\ [Next]_vars => [Device!Next]_Device!vars
  BY NextStep
<1> QED BY <1>1, <1>2, Invariance, PTL DEF Spec, ImplementsDevice, Device!Spec
=============================================================================
