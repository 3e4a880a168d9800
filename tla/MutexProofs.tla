---------------------------- MODULE MutexProofs ----------------------------
(***************************************************************************)
(* Mutual exclusion of Mutex for any set of threads.                       *)
(***************************************************************************)
EXTENDS Mutex, TLAPS

\* Until a destructor strays, the flag tells whether a thread is inside.
IInv ==
    /\ TypeOK
    /\ ~strayed => (locked <=> Inside # {})
    /\ MutualExclusion

THEOREM InitInvariant == Init => IInv
BY DEF Init, IInv, TypeOK, MutualExclusion, Inside

\* Every step of a guard keeps the invariant.
THEOREM StepInvariant == IInv /\ [Next]_vars => IInv'
<1> SUFFICES ASSUME IInv, [Next]_vars PROVE IInv'
  OBVIOUS
<1> USE DEF IInv, TypeOK, MutualExclusion, Inside
<1>1. ASSUME NEW t \in Thread, Get(t) PROVE IInv'
  BY <1>1 DEF Get, Goto
<1>2. ASSUME NEW t \in Thread, Exchange(t) PROVE IInv'
  BY <1>2 DEF Exchange, Goto
<1>3. ASSUME NEW t \in Thread, Unlock(t) PROVE IInv'
  BY <1>3 DEF Unlock, Goto
<1>4. ASSUME NEW t \in Thread, Destroy(t) PROVE IInv'
  BY <1>4 DEF Destroy, Goto
<1>5. ASSUME NEW t \in Thread, Relock(t) PROVE IInv'
  BY <1>5 DEF Relock, Goto
<1>6. ASSUME NEW t \in Thread, Abandon(t) PROVE IInv'
  BY <1>6 DEF Abandon, Goto
<1>7. CASE UNCHANGED vars
  BY <1>7 DEF vars
<1> QED
  BY <1>1, <1>2, <1>3, <1>4, <1>5, <1>6, <1>7 DEF Next, Proceed

\* At most one thread is inside, whatever the number of threads, unless a
\* guard that did not hold the mutex was destroyed while another one did.
THEOREM Exclusion == Spec => []MutualExclusion
<1>1. IInv => MutualExclusion
  BY DEF IInv
<1> QED
  BY <1>1, InitInvariant, StepInvariant, PTL DEF Spec
=============================================================================
