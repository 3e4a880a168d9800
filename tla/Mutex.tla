------------------------------- MODULE Mutex -------------------------------
(***************************************************************************)
(* Mutex and the Lock guard (src/include/Mutex.h), as the kernel uses them *)
(* around the pager (src/src/hardware/AHCI.cpp, src/src/memory/Memory.cpp):*)
(* a thread gets a guard, may unlock and lock it again in between, and the *)
(* guard's destructor calls try_unlock() whether or not it holds the mutex.*)
(***************************************************************************)
EXTENDS FiniteSets

CONSTANT Thread

VARIABLES
  locked,   \* Mutex::locked
  pc,       \* where each thread is: "idle" without a guard, "spin" in lock(),
            \* "inside" with the mutex, "outside" with an unlocked guard
  strayed   \* some destructor has released the mutex of another thread

vars == <<locked, pc, strayed>>

Inside == {t \in Thread : pc[t] = "inside"}

Goto(t, from, to) == pc[t] = from /\ pc' = [pc EXCEPT ![t] = to]

\* Locked::get() makes a guard, which calls lock().
Get(t) == Goto(t, "idle", "spin") /\ UNCHANGED <<locked, strayed>>

\* Variant: lock() stores and does not look at what was there.
ExchangeBlindly(t) ==
    Goto(t, "spin", "inside") /\ locked' = TRUE /\ UNCHANGED strayed

\* The turn of lock()'s loop that finds the mutex free.
Exchange(t) ==
    /\ Goto(t, "spin", "inside")
    /\ ~locked
    /\ locked' = TRUE
    /\ UNCHANGED strayed

\* Lock::unlock() before the end of the scope.
Unlock(t) == Goto(t, "inside", "outside") /\ locked' = FALSE /\ UNCHANGED strayed

\* Lock::lock() of an unlocked guard.
Relock(t) == Goto(t, "outside", "spin") /\ UNCHANGED <<locked, strayed>>

\* Variant: the destructor forgets the mutex.
DestroyOnly(t) == Goto(t, "inside", "idle") /\ UNCHANGED <<locked, strayed>>

\* The guard's destructor.
Destroy(t) == Goto(t, "inside", "idle") /\ locked' = FALSE /\ UNCHANGED strayed

\* Port's constructor returns with an unlocked guard when the device is not
\* present: its destructor calls try_unlock() all the same.
Abandon(t) ==
    /\ Goto(t, "outside", "idle")
    /\ locked' = FALSE
    /\ strayed' = (strayed \/ Inside # {})

Init ==
    /\ locked = FALSE
    /\ pc = [t \in Thread |-> "idle"]
    /\ strayed = FALSE

\* What a thread does of its own accord once it has asked for the mutex.
Proceed(t) == Exchange(t) \/ Unlock(t) \/ Destroy(t) \/ Relock(t) \/ Abandon(t)

Next == \E t \in Thread : Get(t) \/ Proceed(t)

Fairness == \A t \in Thread : WF_vars(Proceed(t))

Spec == Init /\ [][Next]_vars /\ Fairness

-----------------------------------------------------------------------------
(* Properties. *)

\* The forms that the code of Mutex and Lock relies on.
TypeOK ==
    /\ locked \in BOOLEAN
    /\ pc \in [Thread -> {"idle", "spin", "inside", "outside"}]
    /\ strayed \in BOOLEAN

\* One thread at a time works on the pager, as long as no constructor has left
\* with an unlocked guard while another thread held the mutex: the destructors
\* that call try_unlock() without asking are harmless in every other case.
MutualExclusion == ~strayed => \A t, u \in Inside : t = u

\* While threads keep waiting for the mutex, threads keep getting it: no guard
\* is destroyed, and no constructor returns, with the mutex left locked.
SomeoneEnters ==
    <>[](\E t \in Thread : pc[t] = "spin") => []<><<\E t \in Thread : Exchange(t)>>_vars
=============================================================================
