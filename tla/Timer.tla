------------------------------- MODULE Timer -------------------------------
(***************************************************************************)
(* Kernel::wait() (src/src/arch/x86_64/APIC.cpp) and the handler of the    *)
(* timer's interrupt (isr_32 in src/asm/interrupts.S), which comes between *)
(* any two of its steps.  The four variables that wait() sets up are not   *)
(* volatile: the compiler may store them in any order.                     *)
(***************************************************************************)
EXTENDS Integers

CONSTANT
  MaxTicks  \* bound: ticks stands still here, beyond what any wait asks for

ASSUME TimerAssumption == MaxTicks \in Nat /\ MaxTicks > 1

VARIABLES
  waiting, ticks,
  timer_max,   \* -1 until the first wait()
  timer_addr,  \* whether it points to wait()'s callback or is still null
  ticking,     \* the timer is set to periodic interrupts
  goal,        \* num_ticks
  todo,        \* the stores of the set-up that wait() has not made
  step,        \* where wait() is: "out", "setup", "test", "sleep" (about to hlt),
               \* "hlt", "disable"
  waits,       \* history: none, one or more calls of wait() so far
  fault        \* the handler has called a null pointer

tvars == <<waiting, ticks, timer_max, timer_addr, ticking, goal, todo, step, waits, fault>>

Stores == {"waiting", "ticks", "timer_max", "timer_addr"}

-----------------------------------------------------------------------------
(* wait(), for whoever calls it while it is out. *)

Call(num_ticks) ==
    /\ goal' = num_ticks
    /\ todo' = Stores
    /\ step' = "setup"
    /\ waits' = IF waits = 0 THEN 1 ELSE 2
    /\ UNCHANGED <<waiting, ticks, timer_max, timer_addr, ticking, fault>>

Store(name) ==
    /\ name \in todo /\ ~fault
    /\ ticking \/ todo # Stores
    /\ todo' = todo \ {name}
    /\ UNCHANGED <<ticking, goal, step, waits, fault>>

SetWaiting == Store("waiting") /\ waiting' = TRUE /\ UNCHANGED <<ticks, timer_max, timer_addr>>

ZeroTicks == Store("ticks") /\ ticks' = 0 /\ UNCHANGED <<waiting, timer_max, timer_addr>>

SetMax == Store("timer_max") /\ timer_max' = goal /\ UNCHANGED <<waiting, ticks, timer_addr>>

SetAddr == Store("timer_addr") /\ timer_addr' = TRUE /\ UNCHANGED <<waiting, ticks, timer_max>>

\* The same four stores when the timer is off: nobody sees them apart.
SetUp ==
    /\ todo = Stores /\ ~ticking
    /\ waiting' = TRUE /\ ticks' = 0 /\ timer_max' = goal /\ timer_addr' = TRUE
    /\ todo' = {}
    /\ UNCHANGED <<ticking, goal, step, waits, fault>>

\* initTimer(), calibrated already when the kernel has come this far.
InitTimer ==
    /\ step = "setup" /\ todo = {} /\ ~fault
    /\ ticking' = TRUE
    /\ step' = "test"
    /\ UNCHANGED <<waiting, ticks, timer_max, timer_addr, goal, todo, waits, fault>>

\* if (waiting)
Test ==
    /\ step = "test"
    /\ step' = IF waiting THEN "sleep" ELSE "disable"
    /\ UNCHANGED <<waiting, ticks, timer_max, timer_addr, ticking, goal, todo, waits, fault>>

\* An interrupt that came after the test is over by now and wakes nobody.
Halt ==
    /\ step = "sleep"
    /\ step' = "hlt"
    /\ UNCHANGED <<waiting, ticks, timer_max, timer_addr, ticking, goal, todo, waits, fault>>

\* Variant: disableTimer() leaves the interrupt on.
DisableNot ==
    /\ step = "disable"
    /\ ticks' = 0
    /\ step' = "out"
    /\ UNCHANGED <<waiting, timer_max, timer_addr, ticking, goal, todo, waits, fault>>

Disable ==
    /\ step = "disable"
    /\ ticking' = FALSE /\ ticks' = 0
    /\ step' = "out"
    /\ UNCHANGED <<waiting, timer_max, timer_addr, goal, todo, waits, fault>>

Waiter ==
    \/ SetWaiting \/ ZeroTicks \/ SetMax \/ SetAddr \/ SetUp
    \/ InitTimer \/ Test \/ Halt \/ Disable

-----------------------------------------------------------------------------
(* Interrupts, each of which ends a hlt that the processor has come to. *)

Counted == IF ticks < MaxTicks THEN ticks + 1 ELSE ticks

Woken == IF step = "hlt" THEN "test" ELSE step

\* timer_max is compared with the count that is stored, so that a count that
\* has gone past it never matches again.
Rings == timer_max # -1 /\ ticks' = timer_max

\* Variant: the timer's mode is one-shot.
TickOnce ==
    /\ ticking /\ ~fault
    /\ ticks' = Counted
    /\ waiting' = (waiting /\ ~(Rings /\ timer_addr))
    /\ fault' = (Rings /\ ~timer_addr)
    /\ step' = Woken
    /\ ticking' = FALSE
    /\ UNCHANGED <<timer_max, timer_addr, goal, todo, waits>>

Tick ==
    /\ ticking /\ ~fault
    /\ ticks' = Counted
    /\ waiting' = (waiting /\ ~(Rings /\ timer_addr))
    /\ fault' = (Rings /\ ~timer_addr)
    /\ step' = Woken
    /\ UNCHANGED <<timer_max, timer_addr, ticking, goal, todo, waits>>

\* The keyboard's, for instance.
OtherInterrupt ==
    /\ step = "hlt"
    /\ step' = "test"
    /\ UNCHANGED <<waiting, ticks, timer_max, timer_addr, ticking, goal, todo, waits, fault>>

-----------------------------------------------------------------------------
\* The kernel has just called initTimer(2).
TimerInit ==
    /\ waiting = TRUE /\ ticks = 0 /\ timer_max = -1 /\ timer_addr = FALSE
    /\ ticking = TRUE
    /\ goal = 0 /\ todo = {} /\ step = "out"
    /\ waits = 0 /\ fault = FALSE

\* A wait that will never end: the boot's timer has got ahead of its set-up.
Mishap == fault \/ (step \in {"test", "sleep", "hlt"} /\ waiting /\ ticks >= timer_max)

-----------------------------------------------------------------------------
(* Properties. *)

\* Only the first wait() of the kernel can go wrong, because the boot leaves the
\* timer running: no later one calls a null pointer, ends before its ticks have
\* come, or lets the count pass its goal and waits for ever.
LaterWaitsSound ==
    waits = 2 =>
        /\ ~Mishap
        /\ step = "disable" => ticks >= goal
=============================================================================
