------------------------------ MODULE Minimum ------------------------------
(* Least elements, which the models pick wherever the code searches upwards, *)
(* and by them what a fold computes, which stands for the code's loops.      *)
EXTENDS Integers, FiniteSets, FiniteSetsExt, TLAPS, FiniteSetTheorems, WellFoundedInduction

\* A non-empty set of naturals has a least element (findFreeBlock() returns
\* the first block; readDir() lists slots in order).
LEMMA NatMin ==
  ASSUME NEW S, S \subseteq Nat, S # {}
  PROVE  \E x \in S : \A y \in S : x <= y
<1> DEFINE T == {0..x : x \in S}
<1>1. T \subseteq FiniteSubsetsOf(Nat) /\ T # {}
  <2>1. ASSUME NEW x \in S PROVE 0..x \in FiniteSubsetsOf(Nat)
    <3>1. x \in Int /\ 0..x \subseteq Nat
      BY <2>1
    <3>2. IsFiniteSet(0..x)
      BY <3>1, FS_Interval
    <3> QED BY <3>1, <3>2 DEF FiniteSubsetsOf
  <2> QED BY <2>1
<1>2. PICK X \in T : \A Y \in T : ~(<<Y, X>> \in StrictSubsetOrdering(Nat))
  <2> HIDE DEF T
  <2> QED BY <1>1, FS_StrictSubsetOrderingWellFounded, WFMin
<1>3. PICK x \in S : X = 0..x
  OBVIOUS
<1>4. ASSUME NEW y \in S, y < x PROVE FALSE
  <2>1. 0..y \in T /\ 0..y \subseteq X /\ 0..y # X
    <3>1. x \in 0..x /\ x \notin 0..y
      BY <1>4
    <3> QED BY <1>3, <1>4, <3>1
  <2>2. 0..y \in SUBSET Nat /\ X \in SUBSET Nat
    BY <1>3
  <2>3. <<0..y, X>> \in StrictSubsetOrdering(Nat)
    BY <2>1, <2>2 DEF StrictSubsetOrdering
  <2> QED BY <1>2, <2>1, <2>3
<1> QED
  BY <1>4

\* The operator of the library picks it (getCommandSlot() takes the first free
\* slot, flush() the next block of the map).
LEMMA MinFact ==
  ASSUME NEW S, S \subseteq Nat, S # {}
  PROVE  Min(S) \in S /\ \A y \in S : Min(S) <= y
<1>1. \E x \in S : \A y \in S : x <= y
  BY NatMin
<1> QED
  BY <1>1, Zenon DEF Min

\* The greatest element of a bounded set (read() asks for as many blocks at once
\* as it can).
LEMMA MaxFact ==
  ASSUME NEW n \in Nat, NEW S, S \subseteq 0..n, S # {}
  PROVE  Max(S) \in S /\ \A y \in S : Max(S) >= y
<1> DEFINE T == {n - x : x \in S}
<1>1. T \subseteq Nat /\ T # {}
  <2>1. \A x \in S : n - x \in Nat
    OBVIOUS
  <2>2. PICK x : x \in S
    OBVIOUS
  <2> QED BY <2>1, <2>2
<1>2. PICK t \in T : \A y \in T : t <= y
  BY <1>1, NatMin
<1>3. PICK x \in S : t = n - x
  BY <1>2
<1>4. \A y \in S : x >= y
  <2> SUFFICES ASSUME NEW y \in S PROVE x >= y
    OBVIOUS
  <2>1. n - y \in T /\ t <= n - y
    BY <1>2
  <2> HIDE DEF T
  <2> QED BY <2>1, <1>3
<1>5. \E z \in S : \A y \in S : z >= y
  BY <1>4
<1> QED
  BY <1>5, Zenon DEF Max

-----------------------------------------------------------------------------
(* Folds.  FoldLeft() of the library is a function on the sets of indices, of *)
(* which only the first n matter; F[<<i, d>>] is the state after the i-th     *)
(* turn of the loop, in the state d before it.                                *)

\* Each of n turns leads from a state in D to a state in D.
Turns(n, D, F) == \A i \in 1..n, d \in D : F[<<i, d>>] \in D

\* The library's function, ...
Folds(it, n, D, base, F) ==
    \A s \in SUBSET (1..n) :
        it[s] \in D /\ it[s] = IF s = {} THEN base ELSE F[<<Max(s), it[s \ {Max(s)}]>>]

\* ... or one that agrees with it while the states are in D, ...
Follows(it, n, D, base, F) ==
    /\ it[{}] = base
    /\ \A s \in SUBSET (1..n) : s # {} /\ it[s \ {Max(s)}] \in D =>
           it[s] = F[<<Max(s), it[s \ {Max(s)}]>>]

\* ... and the states it goes through, the last being the result.
States(R, n, D, base, F, result) ==
    /\ R \in [0..n -> D] /\ R[0] = base /\ R[n] = result
    /\ \A i \in 1..n : R[i] = F[<<i, R[i - 1]>>]

\* The function exists if a turn leads from a state to a state.
LEMMA FoldExists ==
  ASSUME NEW n \in Nat, NEW D, NEW base \in D, NEW F, Turns(n, D, F)
  PROVE  \E it : it = [s \in SUBSET (1..n) |-> it[s]] /\ Folds(it, n, D, base, F)
<1> USE DEF Turns
<1> DEFINE Turn(it, s) == IF s = {} THEN base ELSE F[<<Max(s), it[s \ {Max(s)}]>>]
           Solves(it, m) == /\ it \in [SUBSET (1..m) -> D]
                            /\ \A s \in SUBSET (1..m) : it[s] = Turn(it, s)
           Unsolved == {m \in 0..n : ~ \E it : Solves(it, m)}
<1>1. Unsolved = {}
  <2> SUFFICES ASSUME Unsolved # {} PROVE FALSE
    OBVIOUS
  <2>1. PICK m \in Unsolved : \A k \in Unsolved : m <= k
    <3>1. Unsolved \subseteq Nat
      OBVIOUS
    <3> HIDE DEF Unsolved
    <3> QED BY <3>1, NatMin
  <2>2. CASE m = 0
    <3> DEFINE it == [s \in SUBSET (1..0) |-> base]
    <3>1. 1..0 = {}
      OBVIOUS
    <3>2. Solves(it, 0)
      BY <3>1
    <3> HIDE DEF Solves, it
    <3> QED BY <2>1, <2>2, <3>2
  <2>3. CASE m # 0
    <3>1. m \in 1..n /\ m - 1 \in 0..n /\ m - 1 \notin Unsolved
      <4>1. m \in 0..n
        BY <2>1
      <4> HIDE DEF Unsolved
      <4> QED BY <4>1, <2>1, <2>3
    <3>2. PICK it : Solves(it, m - 1)
      BY <3>1
    <3> DEFINE it2 == [s \in SUBSET (1..m) |->
                          IF m \in s THEN F[<<m, it[s \ {m}]>>] ELSE it[s]]
    <3>3. ASSUME NEW s \in SUBSET (1..m)
          PROVE  it2[s] \in D /\ it2[s] = Turn(it2, s)
      <4>1. \A r \in SUBSET (1..m) : m \notin r => r \in SUBSET (1..m - 1) /\ it2[r] = it[r]
        BY <3>1
      <4>2. CASE m \in s
        <5>1. Max(s) = m
          <6>1. s \subseteq 0..m /\ s # {}
            BY <4>2
          <6>2. Max(s) \in s /\ \A y \in s : Max(s) >= y
            <7>1. m \in Nat
              BY <3>1
            <7> HIDE DEF it2
            <7> QED BY ONLY <6>1, <7>1, MaxFact
          <6>3. m \in Nat
            BY <3>1
          <6>4. Max(s) \in 0..m /\ Max(s) >= m
            BY <6>1, <6>2, <4>2
          <6> HIDE DEF Max
          <6> QED BY <6>3, <6>4
        <5>2. s \ {m} \in SUBSET (1..m - 1) /\ it2[s \ {m}] = it[s \ {m}]
          BY <4>1
        <5>3. it[s \ {m}] \in D
          BY <5>2, <3>2
        <5>4. it2[s] = F[<<m, it[s \ {m}]>>]
          BY <4>2
        <5> HIDE DEF it2
        <5> QED BY <5>1, <5>2, <5>3, <5>4, <4>2, <3>1
      <4>3. CASE m \notin s
        <5>1. s \in SUBSET (1..m - 1) /\ it2[s] = it[s]
          BY <4>1, <4>3
        <5>2. it[s] \in D /\ it[s] = Turn(it, s)
          BY <5>1, <3>2
        <5>3. m \notin s \ {Max(s)} /\ it2[s \ {Max(s)}] = it[s \ {Max(s)}]
          BY <4>1, <4>3
        <5> HIDE DEF it2
        <5> QED BY <5>1, <5>2, <5>3
      <4> QED BY <4>2, <4>3
    <3>4. Solves(it2, m)
      <4>1. it2 \in [SUBSET (1..m) -> D]
        <5>1. \A s \in SUBSET (1..m) : it2[s] \in D
          BY <3>3
        <5> QED BY <5>1
      <4> HIDE DEF it2, Turn
      <4> QED BY <3>3, <4>1
    <3> HIDE DEF Solves, it2
    <3> QED BY <3>4, <2>1
  <2> QED BY <2>2, <2>3
<1>2. PICK it : Solves(it, n)
  <2>1. n \in 0..n
    OBVIOUS
  <2> HIDE DEF Solves
  <2> QED BY <1>1, <2>1
<1>3. it = [s \in SUBSET (1..n) |-> it[s]] /\ Folds(it, n, D, base, F)
  BY <1>2 DEF Folds
<1> HIDE DEF Solves
<1> QED
  BY <1>3

\* Such a function goes through the states one by one.  What it does in a
\* state that no turn leads to need not be known.
LEMMA FoldStates ==
  ASSUME NEW n \in Nat, NEW D, NEW base \in D, NEW F, NEW it, Turns(n, D, F),
         Follows(it, n, D, base, F)
  PROVE  \E R : States(R, n, D, base, F, it[1..n])
<1> USE DEF Turns, Follows
<1>1. ASSUME NEW i \in 1..n, it[1..i - 1] \in D
      PROVE  it[1..i] = F[<<i, it[1..i - 1]>>]
  <2>1. 1..i \in SUBSET (1..n) /\ 1..i # {} /\ 1..i \subseteq 0..i /\ i \in Nat
    OBVIOUS
  <2>2. Max(1..i) = i
    <3>1. Max(1..i) \in 1..i /\ \A y \in 1..i : Max(1..i) >= y
      BY ONLY <2>1, MaxFact
    <3> HIDE DEF Max
    <3> QED BY <3>1, <2>1
  <2>3. (1..i) \ {i} = 1..i - 1
    OBVIOUS
  <2> QED BY <1>1, <2>1, <2>2, <2>3
<1> DEFINE Outside == {i \in 0..n : it[1..i] \notin D}
<1>2. Outside = {}
  <2> SUFFICES ASSUME Outside # {} PROVE FALSE
    OBVIOUS
  <2>1. PICK i \in Outside : \A k \in Outside : i <= k
    <3>1. Outside \subseteq Nat
      OBVIOUS
    <3> HIDE DEF Outside
    <3> QED BY <3>1, NatMin
  <2>2. i # 0
    <3>1. 1..0 = {}
      OBVIOUS
    <3> QED BY <2>1, <3>1
  <2>3. i \in 1..n /\ i - 1 \in 0..n /\ i - 1 \notin Outside
    <3>1. i \in 0..n
      BY <2>1
    <3> HIDE DEF Outside
    <3> QED BY <3>1, <2>1, <2>2
  <2>4. it[1..i - 1] \in D
    BY <2>3
  <2> QED BY <2>1, <2>3, <2>4, <1>1
<1> DEFINE R == [i \in 0..n |-> it[1..i]]
<1>3. R \in [0..n -> D] /\ R[0] = base /\ R[n] = it[1..n]
  <2>1. 1..0 = {}
    OBVIOUS
  <2> QED BY <1>2, <2>1
<1>4. \A i \in 1..n : R[i] = F[<<i, R[i - 1]>>]
  <2> SUFFICES ASSUME NEW i \in 1..n PROVE R[i] = F[<<i, R[i - 1]>>]
    OBVIOUS
  <2>1. i \in 0..n /\ i - 1 \in 0..n
    OBVIOUS
  <2> QED BY <2>1, <1>1, <1>2
<1>5. States(R, n, D, base, F, it[1..n])
  BY <1>3, <1>4 DEF States
<1> QED
  BY <1>5
=============================================================================
