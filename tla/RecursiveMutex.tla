--------------------------- MODULE RecursiveMutex ---------------------------
(***************************************************************************)
(* RecursiveMutex (src/include/Mutex.h), which protects the process table  *)
(* (src/include/Kernel.h).  What its operations do between taking and      *)
(* releasing the submutex is one step: no other section runs meanwhile,    *)
(* and the exchange in lock() only competes for a mutex that is free.      *)
(***************************************************************************)
EXTENDS Integers, FiniteSets

CONSTANTS
  Thread,
  ThreadID(_),   \* what currentThreadID() returns to a thread; 0 if never set
  MaxHeld,       \* bound: locks that a thread holds at once
  Reenter        \* threads may call lock() on a mutex they hold

ASSUME ConstantsAssumption ==
    /\ MaxHeld \in Nat \ {0} /\ Reenter \in BOOLEAN
    /\ \A t \in Thread : ThreadID(t) \in Nat

VARIABLES
  locked, owner, depth,   \* the fields of the mutex
  pc,     \* "idle" between calls; in lock(), "spin" at the exchange and "won"
          \* after it; "halted" by an assertion, which keeps the submutex
  held    \* how many of its calls to lock() and try_lock() a thread has not
          \* undone

vars == <<locked, owner, depth, pc, held>>

Holders == {t \in Thread : held[t] > 0}
Mine(t) == owner = ThreadID(t)

\* A section under the submutex of a thread that is at `from`.
Section(t, from, to) ==
    /\ pc[t] = from /\ \A u \in Thread : pc[u] # "halted"
    /\ pc' = [pc EXCEPT ![t] = to]
Deeper(t) == held' = [held EXCEPT ![t] = @ + 1]
Higher(t) == held' = [held EXCEPT ![t] = @ - 1]

\* lock(), up to its loop.
Lock(t) ==
    /\ held[t] < MaxHeld /\ (held[t] > 0 => Reenter)
    /\ \/ /\ ~locked /\ Mine(t)
          /\ Section(t, "idle", "idle") /\ Deeper(t)
          /\ depth' = depth + 1
          /\ UNCHANGED <<locked, owner>>
       \/ /\ ~(~locked /\ Mine(t))
          /\ Section(t, "idle", "spin")
          /\ UNCHANGED <<locked, owner, depth, held>>

\* Variant: lock() stores and does not look at what was there.
ExchangeBlindly(t) ==
    /\ pc[t] = "spin"
    /\ pc' = [pc EXCEPT ![t] = "won"]
    /\ locked' = TRUE
    /\ UNCHANGED <<owner, depth, held>>

\* The exchange that finds the mutex free.
Exchange(t) ==
    /\ pc[t] = "spin" /\ ~locked
    /\ pc' = [pc EXCEPT ![t] = "won"]
    /\ locked' = TRUE
    /\ UNCHANGED <<owner, depth, held>>

\* The end of lock().
Own(t) ==
    /\ Section(t, "won", "idle") /\ Deeper(t)
    /\ owner' = ThreadID(t) /\ depth' = 1
    /\ UNCHANGED locked

\* Variant: try_lock() does not say whose the mutex is.
TryLockUnowned(t) ==
    /\ held[t] < MaxHeld /\ Section(t, "idle", "idle")
    /\ ~locked
    /\ Deeper(t) /\ locked' = TRUE /\ depth' = 1
    /\ UNCHANGED owner

TryLock(t) ==
    /\ held[t] < MaxHeld /\ Section(t, "idle", "idle")
    /\ \/ /\ locked /\ Mine(t)
          /\ Deeper(t) /\ depth' = depth + 1
          /\ UNCHANGED <<locked, owner>>
       \/ /\ ~locked
          /\ Deeper(t) /\ locked' = TRUE /\ owner' = ThreadID(t) /\ depth' = 1
       \/ /\ locked /\ ~Mine(t)
          /\ UNCHANGED <<locked, owner, depth, held>>

\* Variant: every release frees the mutex.
ReleaseAtOnce == locked' = FALSE /\ owner' = 0 /\ depth' = depth - 1

\* The last release frees the mutex, an earlier one only counts down.
Release ==
    IF depth = 1 THEN locked' = FALSE /\ owner' = 0 /\ depth' = 0
    ELSE depth' = depth - 1 /\ UNCHANGED <<locked, owner>>

\* unlock(), with its assertions.
Unlock(t) ==
    /\ held[t] > 0
    /\ \/ /\ locked /\ Mine(t) /\ depth > 0
          /\ Section(t, "idle", "idle") /\ Higher(t) /\ Release
       \/ /\ ~(locked /\ Mine(t) /\ depth > 0)
          /\ Section(t, "idle", "halted")
          /\ UNCHANGED <<locked, owner, depth, held>>

\* try_unlock(), which a Lock's destructor calls.
TryUnlock(t) ==
    /\ held[t] > 0
    /\ \/ /\ locked /\ Mine(t) /\ depth > 0
          /\ Section(t, "idle", "idle") /\ Higher(t) /\ Release
       \/ /\ locked /\ Mine(t) /\ depth <= 0
          /\ Section(t, "idle", "halted")
          /\ UNCHANGED <<locked, owner, depth, held>>
       \/ /\ ~(locked /\ Mine(t))
          /\ Section(t, "idle", "idle") /\ Higher(t)
          /\ UNCHANGED <<locked, owner, depth>>

Init ==
    /\ locked = FALSE /\ owner = 0 /\ depth = 0
    /\ pc = [t \in Thread |-> "idle"]
    /\ held = [t \in Thread |-> 0]

Next ==
    \E t \in Thread :
        Lock(t) \/ Exchange(t) \/ Own(t) \/ TryLock(t) \/ Unlock(t) \/ TryUnlock(t)

Spec == Init /\ [][Next]_vars

-----------------------------------------------------------------------------
(* Properties. *)

\* Threads with identifiers of their own exclude each other, although lock()
\* claims the mutex in one step and names its owner in another.
MutualExclusion == \A t, u \in Holders : t = u

\* The count says how often the owner holds the mutex, in lock()'s window too,
\* so that the last unlock and no other frees it.
DepthCounts ==
    \A t \in Thread : held[t] > 0 /\ pc[t] = "idle" =>
        locked /\ Mine(t) /\ depth = held[t]

\* The assertions of unlock() and try_unlock() hold (Mutex.h:84, :90 and :93,
\* "RecursiveMutex is locked"): a thread that called lock() or try_lock() with
\* success may undo it.
NoAssertionFails == \A t \in Thread : pc[t] # "halted"

\* Nobody waits for a mutex that nobody will unlock: it is locked only while a
\* thread holds it, or is about to in lock().
NoOrphan == locked => Holders # {} \/ \E t \in Thread : pc[t] = "won"
=============================================================================
