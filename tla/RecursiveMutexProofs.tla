------------------------ MODULE RecursiveMutexProofs ------------------------
(***************************************************************************)
(* RecursiveMutex does what its name and its assertions say for any number *)
(* of threads, provided that each has an identifier of its own and that a  *)
(* thread takes a mutex it holds by try_lock() only.                       *)
(***************************************************************************)
EXTENDS RecursiveMutex, TLAPS

\* What Threading.h means identifiers to be.
Distinct ==
    \A t \in Thread : ThreadID(t) # 0 /\ \A u \in Thread : ThreadID(t) = ThreadID(u) => t = u

Types ==
    /\ locked \in BOOLEAN /\ owner \in Nat /\ depth \in Nat
    /\ pc \in [Thread -> {"idle", "spin", "won", "halted"}]
    /\ held \in [Thread -> Nat]

\* In lock()'s window, between the exchange and the section that names the
\* owner, the mutex is locked and owned by nobody; the thread in the window or
\* the one that holds the mutex is alone.
Window ==
    \A t \in Thread : pc[t] = "won" =>
        /\ locked /\ owner = 0 /\ held[t] = 0
        /\ \A u \in Thread : u # t => pc[u] # "won" /\ held[u] = 0
Holding ==
    \A t \in Thread : held[t] > 0 =>
        /\ pc[t] = "idle" /\ locked /\ Mine(t) /\ depth = held[t]
        /\ \A u \in Thread : u # t => held[u] = 0

IInv == Types /\ Window /\ Holding /\ NoAssertionFails /\ NoOrphan /\ (~locked => owner = 0)

THEOREM InitInvariant == Init => IInv
<1> SUFFICES ASSUME Init PROVE IInv
  OBVIOUS
<1> USE DEF Init
<1>1. Types
  BY DEF Types
<1>2. Window /\ NoAssertionFails /\ NoOrphan
  BY DEF Window, NoAssertionFails, NoOrphan
<1>3. Holding
  BY DEF Holding
<1> QED
  BY <1>1, <1>2, <1>3 DEF IInv

-----------------------------------------------------------------------------
(* Each operation keeps the invariant. *)

LEMMA LockStep ==
  ASSUME Distinct, ~Reenter, IInv, NEW t \in Thread, Lock(t)
  PROVE  IInv'
<1>1. held[t] = 0
  BY DEF Lock, IInv, Types
<1>2. ~(~locked /\ Mine(t))
  BY DEF Distinct, IInv, Mine
<1>3. Section(t, "idle", "spin") /\ UNCHANGED <<locked, owner, depth, held>>
  BY <1>2 DEF Lock
<1> QED
  BY <1>1, <1>3 DEF Section, IInv, Types, Window, Holding, NoAssertionFails, NoOrphan,
       Holders, Mine

LEMMA ExchangeStep ==
  ASSUME IInv, NEW t \in Thread, Exchange(t)
  PROVE  IInv'
BY DEF Exchange, IInv, Types, Window, Holding, NoAssertionFails, NoOrphan, Holders, Mine

LEMMA OwnStep ==
  ASSUME IInv, NEW t \in Thread, Own(t)
  PROVE  IInv'
<1>1. /\ pc[t] = "won" /\ pc' = [pc EXCEPT ![t] = "idle"] /\ held' = [held EXCEPT ![t] = 1]
      /\ owner' = ThreadID(t) /\ depth' = 1 /\ locked' = locked /\ locked
      /\ held[t] = 0 /\ \A u \in Thread : u # t => pc[u] # "won" /\ held[u] = 0
  <2>1. pc[t] = "won" /\ pc' = [pc EXCEPT ![t] = "idle"] /\ Deeper(t)
    BY DEF Own, Section
  <2>2. locked /\ held[t] = 0 /\ \A u \in Thread : u # t => pc[u] # "won" /\ held[u] = 0
    BY <2>1 DEF IInv, Window
  <2>3. held' = [held EXCEPT ![t] = 1]
    BY <2>1, <2>2 DEF Deeper
  <2> QED BY <2>1, <2>2, <2>3 DEF Own
<1>2. ThreadID(t) \in Nat
  BY ConstantsAssumption
<1> QED
  BY <1>1, <1>2 DEF IInv, Types, Window, Holding, NoAssertionFails, NoOrphan, Holders, Mine

LEMMA TryLockStep ==
  ASSUME Distinct, IInv, NEW t \in Thread, TryLock(t)
  PROVE  IInv'
<1> USE DEF IInv, Types, Window, Holding, NoAssertionFails, NoOrphan, Holders, Mine
<1>1. pc[t] = "idle" /\ pc' = pc
  BY DEF TryLock, Section
<1>2. CASE locked /\ Mine(t) /\ Deeper(t) /\ depth' = depth + 1 /\ UNCHANGED <<locked, owner>>
  <2>1. held[t] > 0 /\ \A u \in Thread : u # t => held[u] = 0 /\ pc[u] # "won"
    BY <1>1, <1>2 DEF Distinct
  <2> QED BY <1>1, <1>2, <2>1 DEF Deeper
<1>3. CASE ~locked /\ Deeper(t) /\ locked' = TRUE /\ owner' = ThreadID(t) /\ depth' = 1
  <2>1. \A u \in Thread : held[u] = 0 /\ pc[u] # "won"
    BY <1>3
  <2> QED BY <1>1, <1>3, <2>1, ConstantsAssumption DEF Deeper
<1>4. CASE UNCHANGED <<locked, owner, depth, held>>
  BY <1>1, <1>4
<1> QED
  BY <1>2, <1>3, <1>4 DEF TryLock

\* The release of a thread that holds the mutex.
LEMMA ReleaseStep ==
  ASSUME IInv, NEW t \in Thread, held[t] > 0, pc' = pc, Higher(t), Release
  PROVE  IInv'
<1> USE DEF IInv, Types, Window, Holding, NoAssertionFails, NoOrphan, Holders, Mine
<1>1. /\ locked /\ Mine(t) /\ depth = held[t] /\ held[t] \in Nat
      /\ \A u \in Thread : (u # t => held[u] = 0) /\ pc[u] # "won"
  OBVIOUS
<1>2. held' = [held EXCEPT ![t] = held[t] - 1]
  BY DEF Higher
<1>3. CASE depth = 1
  <2>1. locked' = FALSE /\ owner' = 0 /\ depth' = 0
    BY <1>3 DEF Release
  <2>2. held' \in [Thread -> Nat] /\ \A u \in Thread : held'[u] = 0
    BY <1>1, <1>2, <1>3
  <2>3. Types' /\ (~locked => owner = 0)'
    BY <2>1, <2>2
  <2>4. Window' /\ NoAssertionFails'
    BY <1>1
  <2>5. Holding'
    BY <2>2
  <2>6. NoOrphan'
    BY <2>1
  <2> QED BY <2>3, <2>4, <2>5, <2>6
<1>4. CASE depth # 1
  BY <1>1, <1>2, <1>4 DEF Release
<1> QED
  BY <1>3, <1>4

LEMMA UnlockStep ==
  ASSUME IInv, NEW t \in Thread, Unlock(t) \/ TryUnlock(t)
  PROVE  IInv'
<1>1. held[t] > 0 /\ locked /\ Mine(t) /\ depth > 0
  BY DEF Unlock, TryUnlock, IInv, Holding
<1>2. Section(t, "idle", "idle") /\ Higher(t) /\ Release
  <2>1. ~(depth <= 0)
    BY <1>1 DEF IInv, Types
  <2> QED BY <1>1, <2>1 DEF Unlock, TryUnlock
<1>3. pc' = pc
  BY <1>2 DEF Section, IInv, Types
<1> QED
  BY <1>1, <1>2, <1>3, ReleaseStep

\* Every operation, by a thread with an identifier of its own that does not
\* call lock() again on a mutex it holds, keeps the invariant.
THEOREM StepInvariant == Distinct /\ ~Reenter /\ IInv /\ [Next]_vars => IInv'
<1> SUFFICES ASSUME Distinct, ~Reenter, IInv, [Next]_vars PROVE IInv'
  OBVIOUS
<1>1. CASE Next
  BY <1>1, LockStep, ExchangeStep, OwnStep, TryLockStep, UnlockStep DEF Next
<1>2. CASE UNCHANGED vars
  BY <1>2 DEF vars, IInv, Types, Window, Holding, NoAssertionFails, NoOrphan, Holders, Mine
<1> QED
  BY <1>1, <1>2

-----------------------------------------------------------------------------
(* The theorems. *)

\* The invariant holds throughout.
LEMMA Invariance == Distinct /\ ~Reenter => (Spec => []IInv)
<1> SUFFICES ASSUME Distinct, ~Reenter PROVE Spec => []IInv
  OBVIOUS
<1>1. IInv /\ [Next]_vars => IInv'
  BY StepInvariant
<1> QED
  BY <1>1, InitInvariant, PTL DEF Spec

\* Threads with identifiers of their own exclude each other: lock() and try_lock()
\* let in one of them at a time.
THEOREM Exclusion == Distinct /\ ~Reenter => (Spec => []MutualExclusion)
<1> SUFFICES ASSUME Distinct, ~Reenter PROVE Spec => []MutualExclusion
  OBVIOUS
<1>1. IInv => MutualExclusion
  BY DEF IInv, Types, Holding, MutualExclusion, Holders
<1> QED
  BY <1>1, Invariance, PTL

\* The depth and the owner are those of the thread that holds the mutex, so that
\* unlock() frees it at the last release and not before.
THEOREM Depth == Distinct /\ ~Reenter => (Spec => []DepthCounts)
<1> SUFFICES ASSUME Distinct, ~Reenter PROVE Spec => []DepthCounts
  OBVIOUS
<1>1. IInv => DepthCounts
  BY DEF IInv, Types, Holding, DepthCounts
<1> QED
  BY <1>1, Invariance, PTL

\* No assertion of unlock() or try_unlock() fails.
THEOREM Assertions == Distinct /\ ~Reenter => (Spec => []NoAssertionFails)
<1> SUFFICES ASSUME Distinct, ~Reenter PROVE Spec => []NoAssertionFails
  OBVIOUS
<1>1. IInv => NoAssertionFails
  BY DEF IInv
<1> QED
  BY <1>1, Invariance, PTL

\* The mutex is never left locked with nobody to unlock it.
THEOREM NoOrphans == Distinct /\ ~Reenter => (Spec => []NoOrphan)
<1> SUFFICES ASSUME Distinct, ~Reenter PROVE Spec => []NoOrphan
  OBVIOUS
<1>1. IInv => NoOrphan
  BY DEF IInv
<1> QED
  BY <1>1, Invariance, PTL
=============================================================================
