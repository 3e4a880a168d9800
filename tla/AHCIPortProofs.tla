--------------------------- MODULE AHCIPortProofs ---------------------------
(***************************************************************************)
(* The port of an AHCI controller, for every disk, every number of slots   *)
(* and turns, and every device that keeps to the order of its commands:    *)
(* what a successful call says it has moved has been moved, and the waits  *)
(* between two looks at the registers end when they should.                *)
(***************************************************************************)
EXTENDS AHCIPort, Minimum, TLAPS

-----------------------------------------------------------------------------
(* The invariant. *)

\* wait(): only the first one is set up while the timer ticks, and a later one
\* that has been set up rings at its goal.
TimerInv ==
    /\ ticks \in Nat /\ goal \in Nat /\ waits \in 0..2
    /\ step \in {"out", "setup", "test", "sleep", "hlt", "disable"}
    /\ todo \subseteq Stores /\ (step # "setup" => todo = {})
    /\ waits = 0 => step = "out"
    /\ waits # 0 => goal # 0
    /\ waits # 0 /\ step = "out" => ~ticking
    /\ waits = 2 =>
           /\ ~fault
           /\ step = "setup" =>
                  /\ ~ticking
                  /\ \/ todo = Stores
                     \/ todo = {} /\ waiting /\ ticks = 0 /\ timer_max = goal /\ timer_addr
           /\ step \in {"test", "sleep", "hlt", "disable"} => timer_addr /\ timer_max = goal
           /\ step \in {"test", "sleep", "hlt"} => (waiting <=> ticks < goal)
           /\ step = "disable" => ticks >= goal

\* The forms of what access() and its callers keep.
Typed ==
    /\ disk \in [Block -> Value] /\ buffer \in [1..BufferBlocks -> Value]
    /\ done \in Nat /\ moved \in Nat /\ mixed \in BOOLEAN /\ data \in Seq(Value)
    /\ phase \in {"idle", "access", "ready", "issued", "settle", "stop"}
    /\ phase # "idle" =>
           /\ call \in [kind : {"read", "readBytes", "write"}, lba : Nat, count : Nat \ {0},
                        data : Seq(Value)]
           /\ call.lba + call.count <= Blocks /\ done < call.count
           /\ call.kind = "write" => Len(call.data) = call.count

\* Only one command is with the device, and it is busy with it until it fails.
DeviceInv ==
    /\ DOMAIN table = ci
    /\ \A s \in ci : /\ table[s].lba \in Nat /\ table[s].count \in 1..BufferBlocks
                     /\ table[s].lba + table[s].count <= Blocks
    /\ run # NoSlot => ci = {run} /\ busy /\ ~halted
    /\ run = NoSlot /\ ~halted => ci = {}

\* Where access() is tells what the device may be working at.
Place ==
    /\ phase \in {"ready", "issued"} => slot \in 0..Slots - 1
    /\ phase = "issued" => /\ run \in {NoSlot, slot}
                           /\ run = slot => table[slot] = Command /\ moved <= Count
    /\ phase \in {"settle", "stop"} => run = NoSlot
    /\ phase = "stop" => status \in {"none", "Hung", "DiskError"}
    /\ phase \in {"access", "ready"} /\ done > 0 => run = NoSlot
    /\ phase = "ready" /\ call.kind = "write" /\ ~mixed => run = NoSlot

\* The first n blocks of the access are on both sides.
Transferred(n) ==
    \A i \in 1..n : disk[call.lba + done + i - 1] =
                        IF call.kind = "write" THEN call.data[done + i] ELSE buffer[i]

\* What the call has moved so far.
Progress ==
    phase # "idle" /\ (call.kind = "write" => ~mixed) =>
        /\ \A i \in 1..done : disk[call.lba + i - 1] =
                                  IF call.kind = "write" THEN call.data[i] ELSE data[i]
        /\ call.kind # "write" => Len(data) = done
        /\ call.kind = "write" /\ phase \in {"ready", "issued"} => buffer[1] = call.data[done + 1]
        /\ phase = "issued" /\ run = slot => Transferred(moved)
        /\ \/ phase = "issued" /\ slot \notin ci
           \/ phase = "settle"
           \/ phase = "stop" /\ status = "none"
           => Transferred(Count)

\* A successful call has left no command behind that could undo it.
Results ==
    /\ phase = "idle" /\ result.kind # "none" /\ result.status = "Success"
    /\ result.kind = "write" => ~mixed
    => run = NoSlot /\ result.data = Slice(result)

PortInv == Typed /\ DeviceInv /\ Place /\ Progress /\ Results

IInv == TimerInv /\ PortInv

-----------------------------------------------------------------------------
(* wait(). *)

LEMMA TimerUnchanged == TimerInv /\ UNCHANGED tvars => TimerInv'
  BY DEF TimerInv, tvars

LEMMA CallStep ==
  ASSUME TimerInv, step = "out", ~fault, Call(1)
  PROVE  TimerInv'
  BY DEF TimerInv, Call

LEMMA TickStep ==
  ASSUME TimerInv, Tick
  PROVE  TimerInv'
<1>1. /\ ticks' \in Nat /\ ticks' >= ticks /\ ticks' <= ticks + 1
      /\ goal' = goal /\ waits' = waits /\ todo' = todo /\ ticking' = ticking /\ ticking
      /\ timer_max' = timer_max /\ timer_addr' = timer_addr
  BY DEF TimerInv, Tick, Counted
<1>2. step' = IF step = "hlt" THEN "test" ELSE step
  BY DEF Tick, Woken
<1>3. fault' = (Rings /\ ~timer_addr) /\ waiting' = (waiting /\ ~(Rings /\ timer_addr))
  BY DEF Tick
<1>4. CASE waits = 2
  <2>1. step \in {"test", "sleep", "hlt", "disable"} /\ timer_addr /\ timer_max = goal /\ goal \in Nat
    BY <1>1, <1>4 DEF TimerInv
  <2>2. Rings <=> ticks' = goal
    BY <1>1, <2>1 DEF Rings
  <2>3. ~fault'
    BY <1>3, <2>1
  <2>4. ASSUME step \in {"test", "sleep", "hlt"} PROVE waiting' <=> ticks' < goal
    <3>1. waiting <=> ticks < goal
      BY <1>4, <2>4 DEF TimerInv
    <3>2. waiting' <=> ticks < goal /\ ticks' # goal
      BY <3>1, <1>3, <2>1, <2>2
    <3> QED BY <3>2, <1>1, <2>1 DEF TimerInv
  <2>5. step = "disable" => ticks' >= goal
    BY <1>1, <1>4, <2>1 DEF TimerInv
  <2> QED BY <1>1, <1>2, <1>4, <2>1, <2>3, <2>4, <2>5 DEF TimerInv
<1>5. CASE waits # 2
  BY <1>1, <1>2, <1>5 DEF TimerInv
<1> QED BY <1>4, <1>5

LEMMA WaiterStep ==
  ASSUME TimerInv, Waiter \/ OtherInterrupt
  PROVE  TimerInv'
<1>1. CASE SetWaiting \/ ZeroTicks \/ SetMax \/ SetAddr
  <2>1. PICK name : Store(name)
    BY <1>1 DEF SetWaiting, ZeroTicks, SetMax, SetAddr
  <2>2. step = "setup" /\ waits # 2
    BY <2>1 DEF Store, TimerInv
  <2>3. /\ todo' \subseteq todo /\ step' = step /\ waits' = waits
        /\ goal' = goal /\ ticking' = ticking
    BY <2>1 DEF Store
  <2>4. ticks' \in Nat
    BY <1>1 DEF TimerInv, SetWaiting, ZeroTicks, SetMax, SetAddr
  <2> QED BY <2>2, <2>3, <2>4 DEF TimerInv
<1>2. CASE SetUp
  BY <1>2 DEF TimerInv, SetUp, Stores
<1>3. CASE InitTimer
  BY <1>3 DEF TimerInv, InitTimer, Stores
<1>4. CASE Test
  BY <1>4 DEF TimerInv, Test
<1>5. CASE Halt
  BY <1>5 DEF TimerInv, Halt
<1>6. CASE Disable
  BY <1>6 DEF TimerInv, Disable
<1>7. CASE OtherInterrupt
  BY <1>7 DEF TimerInv, OtherInterrupt
<1> QED BY <1>1, <1>2, <1>3, <1>4, <1>5, <1>6, <1>7 DEF Waiter

-----------------------------------------------------------------------------
(* What access() works with. *)

\* A call asks for no more blocks at once than are left and the buffer holds.
LEMMA CountFacts ==
  ASSUME Typed, phase # "idle"
  PROVE  /\ Count \in 1..call.count - done /\ Count <= BufferBlocks
         /\ call.kind = "write" => Count = 1
<1>1. call.count - done \in Nat \ {0} /\ BufferBlocks \in Nat \ {0}
  BY PortAssumption DEF Typed
<1>2. CASE call.kind = "read"
  <2> DEFINE S == {n \in RunSizes : n <= call.count - done}
  <2>1. S \subseteq 0..BufferBlocks /\ S # {}
    <3>1. RunSizes \subseteq 1..BufferBlocks /\ 1 \in RunSizes
      BY PortAssumption
    <3>2. 1 <= call.count - done
      BY <1>1
    <3>3. 1 \in S
      BY <3>1, <3>2
    <3>4. 1..BufferBlocks \subseteq 0..BufferBlocks
      BY <1>1
    <3> QED BY <3>1, <3>3, <3>4
  <2>2. Max(S) \in S
    BY <1>1, <2>1, MaxFact
  <2>3. Count = Max(S)
    BY <1>2 DEF Count
  <2>4. Max(S) \in RunSizes /\ Max(S) <= call.count - done
    BY <2>2
  <2>5. RunSizes \subseteq 1..BufferBlocks
    BY PortAssumption
  <2> HIDE DEF S
  <2>6. Count \in 1..BufferBlocks /\ Count <= call.count - done
    BY <2>3, <2>4, <2>5
  <2> QED BY <1>1, <1>2, <2>6
<1>3. CASE call.kind # "read"
  BY <1>1, <1>3 DEF Count
<1> QED BY <1>2, <1>3

\* The slot that getCommandSlot() finds.
LEMMA SlotFacts ==
  ASSUME FreeSlots # {}
  PROVE  Min(FreeSlots) \in 0..Slots - 1 /\ Min(FreeSlots) \notin ci
<1>1. FreeSlots \subseteq Nat
  BY DEF FreeSlots
<1>2. Min(FreeSlots) \in FreeSlots
  BY <1>1, MinFact
<1> QED BY <1>2 DEF FreeSlots

\* write() puts its next block into the buffer.
LEMMA FilledFacts ==
  ASSUME Typed, phase # "idle"
  PROVE  /\ Filled \in [1..BufferBlocks -> Value]
         /\ call.kind = "write" => Filled[1] = call.data[done + 1]
<1>1. 1 \in 1..BufferBlocks
  BY PortAssumption
<1>2. ASSUME call.kind = "write" PROVE call.data[done + 1] \in Value
  <2>1. done + 1 \in 1..Len(call.data) /\ call.data \in Seq(Value)
    BY <1>2 DEF Typed
  <2> QED BY <2>1
<1> QED BY <1>1, <1>2 DEF Filled, Typed

-----------------------------------------------------------------------------
(* read(), readBytes() and write(). *)

LEMMA BeginStep ==
  ASSUME IInv, NEW kind \in {"read", "readBytes", "write"}, NEW lba \in Nat,
         NEW count \in Nat \ {0}, lba + count <= Blocks, NEW blocks \in Seq(Value),
         kind = "write" => Len(blocks) = count, Begin(kind, lba, count, blocks)
  PROVE  IInv'
<1>1. /\ call' = [kind |-> kind, lba |-> lba, count |-> count, data |-> blocks]
      /\ done' = 0 /\ data' = <<>> /\ phase' = "access" /\ mixed' = FALSE
      /\ UNCHANGED tvars /\ buffer' = buffer
      /\ UNCHANGED <<disk, ci, table, run, moved, busy, tfes, halted>>
  BY DEF Begin, device
<1>2. Typed'
  <2>1. /\ call' \in [kind : {"read", "readBytes", "write"}, lba : Nat, count : Nat \ {0},
                      data : Seq(Value)]
        /\ call'.kind = kind /\ call'.lba = lba /\ call'.count = count /\ call'.data = blocks
    BY <1>1
  <2>2. data' \in Seq(Value) /\ done' \in Nat /\ done' < count
    BY <1>1
  <2> QED BY <1>1, <2>1, <2>2 DEF IInv, PortInv, Typed
<1>3. DeviceInv' /\ Place' /\ Results'
  BY <1>1 DEF IInv, PortInv, DeviceInv, Place, Results
<1>4. Progress'
  BY <1>1 DEF Progress
<1>5. TimerInv'
  BY <1>1, TimerUnchanged DEF IInv
<1> QED BY <1>2, <1>3, <1>4, <1>5 DEF IInv, PortInv

LEMMA RequestStep ==
  ASSUME IInv, Request
  PROVE  IInv'
<1>1. PICK lba \in Block :
        \/ \E count \in ReadCounts : Within(lba, count) /\ Read(lba, count)
        \/ \E count \in ReadBytesCounts : Within(lba, count) /\ ReadBytes(lba, count)
        \/ \E count \in WriteCounts : \E blocks \in [1..count -> Value] :
               Within(lba, count) /\ Write(lba, count, blocks)
  BY DEF Request
<1>2. lba \in Nat /\ <<>> \in Seq(Value)
  BY DEF Block
<1>3. ASSUME NEW count \in ReadCounts, Within(lba, count), Read(lba, count) PROVE IInv'
  <2>1. count \in Nat \ {0} /\ lba + count <= Blocks
    BY <1>3, PortAssumption DEF Within
  <2> QED BY <1>2, <1>3, <2>1, BeginStep DEF Read
<1>4. ASSUME NEW count \in ReadBytesCounts, Within(lba, count), ReadBytes(lba, count) PROVE IInv'
  <2>1. count \in Nat \ {0} /\ lba + count <= Blocks
    BY <1>4, PortAssumption DEF Within
  <2> QED BY <1>2, <1>4, <2>1, BeginStep DEF ReadBytes
<1>5. ASSUME NEW count \in WriteCounts, NEW blocks \in [1..count -> Value],
             Within(lba, count), Write(lba, count, blocks)
      PROVE  IInv'
  <2>1. count \in Nat \ {0} /\ lba + count <= Blocks
    BY <1>5, PortAssumption DEF Within
  <2>2. blocks \in Seq(Value) /\ Len(blocks) = count
    BY <2>1
  <2> QED BY <1>2, <1>5, <2>1, <2>2, BeginStep DEF Write
<1> QED BY <1>1, <1>3, <1>4, <1>5

\* The end of access(): if it says so, the blocks of the access have been moved
\* and nothing is left with the device.
LEMMA EndStep ==
  ASSUME PortInv, phase # "idle", NEW code, AccessEnds(code), mixed' = mixed,
         UNCHANGED device, buffer' \in [1..BufferBlocks -> Value],
         code = "Success" => /\ buffer' = buffer /\ run = NoSlot
                             /\ (call.kind = "write" => ~mixed) => Transferred(Count)
  PROVE  PortInv'
<1>1. UNCHANGED <<disk, ci, table, run, moved, busy, tfes, halted>>
  BY DEF device
<1>2. /\ call \in [kind : {"read", "readBytes", "write"}, lba : Nat, count : Nat \ {0},
                   data : Seq(Value)]
      /\ call.lba + call.count <= Blocks /\ done \in Nat /\ done < call.count
      /\ call.kind = "write" => Len(call.data) = call.count
      /\ data \in Seq(Value)
  BY DEF PortInv, Typed
<1>3. DeviceInv'
  BY <1>1 DEF PortInv, DeviceInv
<1>4. CASE code # "Success"
  <2>1. /\ done' = done /\ data' = data /\ phase' = "idle"
    BY <1>4 DEF AccessEnds, Return
  <2>2. result'.status # "Success"
    <3>1. result'.status = IF call.kind = "write" THEN code ELSE "DiskError"
      BY <1>4 DEF AccessEnds, Return
    <3> QED BY <3>1, <1>4
  <2>3. Typed'
    BY <1>1, <2>1 DEF PortInv, Typed
  <2> QED BY <1>3, <2>1, <2>2, <2>3 DEF PortInv, Place, Progress, Results
<1>5. CASE code = "Success"
  <2> DEFINE n == Count
  <2>1. /\ done' = done + n
        /\ data' = IF call.kind = "write" THEN data ELSE data \o SubSeq(buffer, 1, n)
        /\ IF done' = call.count THEN Return(code) ELSE phase' = "access" /\ call' = call
    BY <1>5 DEF AccessEnds
  <2>2. /\ n \in 1..call.count - done /\ n <= BufferBlocks /\ n \in Nat
        /\ call.kind = "write" => n = 1
    <3>1. Count \in 1..call.count - done /\ Count <= BufferBlocks
          /\ (call.kind = "write" => Count = 1)
      BY CountFacts DEF PortInv
    <3> QED BY <3>1
  <2>3. (call.kind = "write" => ~mixed) => Transferred(n)
    BY <1>5
  <2> HIDE DEF n
  <2>4. /\ data' \in Seq(Value)
        /\ call.kind # "write" =>
               /\ Len(data') = Len(data) + n
               /\ \A i \in 1..Len(data) : data'[i] = data[i]
               /\ \A i \in 1..n : data'[Len(data) + i] = buffer[i]
    <3>1. CASE call.kind = "write"
      BY <1>2, <2>1, <3>1
    <3>2. CASE call.kind # "write"
      <4> DEFINE t == SubSeq(buffer, 1, n)
      <4>1. buffer \in Seq(Value) /\ Len(buffer) = BufferBlocks
        BY PortAssumption DEF PortInv, Typed
      <4>2. t \in Seq(Value) /\ Len(t) = n /\ \A i \in 1..n : t[i] = buffer[i]
        BY <2>2, <4>1
      <4>3. data' = data \o t
        BY <2>1, <3>2
      <4> HIDE DEF t
      <4> QED BY <1>2, <2>2, <4>2, <4>3
    <3> QED BY <3>1, <3>2
  <2>5. done' \in Nat /\ done' <= call.count /\ done' > 0
    BY <1>2, <2>1, <2>2
  <2>6. ASSUME call.kind = "write" => ~mixed
        PROVE  /\ \A i \in 1..done' : disk[call.lba + i - 1] =
                                  IF call.kind = "write" THEN call.data[i] ELSE data'[i]
               /\ call.kind # "write" => Len(data') = done'
    <3>1. /\ \A i \in 1..done : disk[call.lba + i - 1] =
                                    IF call.kind = "write" THEN call.data[i] ELSE data[i]
          /\ call.kind # "write" => Len(data) = done
      BY <2>6 DEF PortInv, Progress
    <3>2. \A i \in 1..n : disk[call.lba + done + i - 1] =
                              IF call.kind = "write" THEN call.data[done + i] ELSE buffer[i]
      BY <2>3, <2>6 DEF Transferred
    <3>3. ASSUME NEW i \in 1..done'
          PROVE  disk[call.lba + i - 1] =
                     IF call.kind = "write" THEN call.data[i] ELSE data'[i]
      <4>1. CASE i <= done
        <5>1. disk[call.lba + i - 1] = IF call.kind = "write" THEN call.data[i] ELSE data[i]
          BY <1>2, <3>1, <3>3, <4>1
        <5>2. call.kind # "write" => data'[i] = data[i]
          BY <1>2, <3>1, <3>3, <4>1, <2>4
        <5> QED BY <5>1, <5>2
      <4>2. CASE i > done
        <5>1. i - done \in 1..n /\ done + (i - done) = i
              /\ call.lba + done + (i - done) - 1 = call.lba + i - 1
          BY <1>2, <2>1, <2>2, <4>2
        <5>2. disk[call.lba + i - 1] =
                  IF call.kind = "write" THEN call.data[i] ELSE buffer[i - done]
          BY <5>1, <3>2
        <5>3. call.kind # "write" => data'[i] = buffer[i - done]
          BY <5>1, <2>4, <3>1
        <5> QED BY <5>2, <5>3
      <4> QED BY <4>1, <4>2, <1>2, <2>5
    <3> QED BY <3>1, <3>3, <2>1, <2>4
  <2>7. CASE done' = call.count
    <3> Return(code)
      BY <2>1, <2>7
    <3>1. phase' = "idle"
      BY DEF Return
    <3>2. /\ result'.kind = call.kind /\ result'.lba = call.lba /\ result'.count = call.count
          /\ result'.data = IF call.kind = "write" THEN call.data ELSE data'
      BY DEF Return
    <3>3. ASSUME call.kind = "write" => ~mixed
          PROVE  result'.data = Slice(result)'
      <4>1. Slice(result)' = [i \in 1..call.count |-> disk[call.lba + i - 1]]
        BY <1>1, <3>2 DEF Slice
      <4>2. /\ result'.data \in Seq(Value) /\ Len(result'.data) = call.count
            /\ \A i \in 1..call.count : result'.data[i] = disk[call.lba + i - 1]
        <5>1. CASE call.kind = "write"
          BY <1>2, <2>6, <2>7, <3>2, <3>3, <5>1
        <5>2. CASE call.kind # "write"
          BY <2>4, <2>6, <2>7, <3>2, <5>2
        <5> QED BY <5>1, <5>2
      <4>3. result'.data = [i \in 1..call.count |-> result'.data[i]]
        BY <4>2
      <4> QED BY <4>1, <4>2, <4>3
    <3>4. Typed'
      BY <1>1, <2>4, <2>5, <3>1 DEF PortInv, Typed
    <3>5. Results'
      BY <1>1, <1>5, <3>2, <3>3 DEF Results
    <3> QED BY <1>3, <3>1, <3>4, <3>5 DEF PortInv, Place, Progress
  <2>8. CASE done' # call.count
    <3>1. phase' = "access" /\ call' = call
      BY <2>1, <2>8
    <3>2. Typed'
      BY <1>1, <1>2, <2>4, <2>5, <2>8, <3>1 DEF PortInv, Typed
    <3>3. Place'
      BY <1>1, <1>5, <3>1 DEF Place
    <3>4. Progress'
      BY <1>1, <2>6, <3>1 DEF Progress
    <3> QED BY <1>3, <3>1, <3>2, <3>3, <3>4 DEF PortInv, Results
  <2> QED BY <2>7, <2>8
<1> QED BY <1>4, <1>5

-----------------------------------------------------------------------------
(* access(). *)

LEMMA BadSlotStep ==
  ASSUME PortInv, BadSlot
  PROVE  PortInv'
<1>1. phase # "idle" /\ AccessEnds("BadSlot") /\ buffer' = Filled
  BY DEF BadSlot, At
<1>2. UNCHANGED device /\ mixed' = mixed
  BY DEF BadSlot
<1>3. buffer' \in [1..BufferBlocks -> Value]
  BY <1>1, FilledFacts DEF PortInv
<1> QED BY <1>1, <1>2, <1>3, EndStep

LEMMA PrepareStep ==
  ASSUME PortInv, Prepare
  PROVE  PortInv'
<1>1. /\ phase = "access" /\ phase' = "ready" /\ buffer' = Filled
      /\ slot' = Min(FreeSlots) /\ FreeSlots # {}
      /\ mixed' = (mixed \/ (call.kind = "write" /\ run # NoSlot))
      /\ UNCHANGED <<call, done, data, result>>
      /\ UNCHANGED <<disk, ci, table, run, moved, busy, tfes, halted>>
  BY DEF Prepare, At, device
<1>2. /\ Filled \in [1..BufferBlocks -> Value]
      /\ call.kind = "write" => Filled[1] = call.data[done + 1]
  BY <1>1, FilledFacts DEF PortInv
<1>3. slot' \in 0..Slots - 1
  BY <1>1, SlotFacts
<1>4. Typed'
  BY <1>1, <1>2 DEF PortInv, Typed
<1>5. DeviceInv' /\ Results'
  BY <1>1 DEF PortInv, DeviceInv, Results
<1>6. Place'
  <2>1. phase' = "ready" /\ (done' > 0 => run' = NoSlot)
    BY <1>1 DEF PortInv, Place
  <2>2. call'.kind = "write" /\ ~mixed' => run' = NoSlot
    BY <1>1 DEF PortInv, Typed
  <2> QED BY <1>3, <2>1, <2>2 DEF Place
<1>7. Progress'
  BY <1>1, <1>2 DEF PortInv, Typed, Progress
<1> QED BY <1>4, <1>5, <1>6, <1>7 DEF PortInv

\* Neither the turns of a polling loop nor the timer touch what the port keeps.
LEMMA PortUnchanged ==
  ASSUME PortInv, UNCHANGED <<device, buffer, caller, phase, slot, status>>
  PROVE  PortInv'
<1>1. /\ UNCHANGED <<disk, ci, table, run, moved, busy, tfes, halted>>
      /\ UNCHANGED <<call, done, data, result, mixed>>
      /\ UNCHANGED <<buffer, phase, slot, status>>
  BY DEF device, caller
<1>2. Typed' /\ DeviceInv'
  BY <1>1 DEF PortInv, Typed, DeviceInv
<1>3. Count' = Count /\ Command' = Command /\ Slice(result)' = Slice(result)
  BY <1>1 DEF Count, Command, Slice
<1>4. Place' /\ Results'
  BY <1>1, <1>3 DEF PortInv, Place, Results
<1>5. Progress'
  BY <1>1, <1>3 DEF PortInv, Progress, Transferred
<1> QED BY <1>2, <1>4, <1>5 DEF PortInv

LEMMA SleepStep ==
  ASSUME IInv, ReadyTurn \/ IssuedTurn \/ SettleTurn \/ StopTurn
  PROVE  IInv'
<1>1. Sleep /\ step = "out" /\ ~fault
  BY DEF ReadyTurn, IssuedTurn, SettleTurn, StopTurn, At
<1>2. Call(1) /\ UNCHANGED <<device, buffer, caller, phase, slot, status>>
  BY <1>1 DEF Sleep
<1> QED BY <1>1, <1>2, CallStep, PortUnchanged DEF IInv

LEMMA HungStep ==
  ASSUME PortInv, Hung
  PROVE  PortInv'
<1>1. phase # "idle" /\ AccessEnds("Hung") /\ buffer' = buffer
  BY DEF Hung, At
<1>2. UNCHANGED device /\ mixed' = mixed
  BY DEF Hung
<1>3. buffer' \in [1..BufferBlocks -> Value]
  BY <1>1 DEF PortInv, Typed
<1> QED BY <1>1, <1>2, <1>3, EndStep

\* A device that is not busy works at nothing, so that the new command is its
\* only one unless it has halted.
LEMMA IssueStep ==
  ASSUME PortInv, Issue
  PROVE  PortInv'
<1>1. /\ phase = "ready" /\ phase' = "issued" /\ ~busy
      /\ ci' = ci \cup {slot}
      /\ table' = [s \in ci' |-> IF s = slot THEN Command ELSE table[s]]
      /\ IF halted \/ run # NoSlot THEN UNCHANGED <<run, moved, busy>>
         ELSE run' = slot /\ moved' = 0 /\ busy' = TRUE
      /\ UNCHANGED <<call, done, data, result, mixed>>
      /\ UNCHANGED <<disk, halted, buffer, slot>>
  BY DEF Issue, At, caller
<1>2. run = NoSlot /\ slot \in 0..Slots - 1 /\ NoSlot \notin 0..Slots - 1
  BY <1>1 DEF PortInv, DeviceInv, Place, NoSlot
<1>3. moved' \in Nat /\ (run' = slot => moved' = 0)
  BY <1>1, <1>2 DEF PortInv, Typed
<1>4. Typed'
  BY <1>1, <1>3 DEF PortInv, Typed
<1>5. DeviceInv'
  <2>1. /\ DOMAIN table' = ci'
        /\ \A s \in ci' : /\ table'[s].lba \in Nat /\ table'[s].count \in 1..BufferBlocks
                          /\ table'[s].lba + table'[s].count <= Blocks
    <3>1. /\ Count \in 1..call.count - done /\ Count <= BufferBlocks
          /\ call.lba \in Nat /\ done \in Nat /\ call.count \in Nat
          /\ call.lba + call.count <= Blocks /\ Blocks \in Nat /\ BufferBlocks \in Nat
      BY <1>1, CountFacts, PortAssumption DEF PortInv, Typed
    <3>2. /\ Command.lba = call.lba + done /\ Command.count = Count
      BY DEF Command
    <3>3. /\ Command.lba \in Nat /\ Command.count \in 1..BufferBlocks
          /\ Command.lba + Command.count <= Blocks
      BY <3>1, <3>2
    <3>4. DOMAIN table' = ci' /\ \A s \in ci' : table'[s] = IF s = slot THEN Command ELSE table[s]
      BY <1>1
    <3> QED BY <1>1, <3>3, <3>4 DEF PortInv, DeviceInv
  <2>2. CASE halted
    BY <1>1, <1>2, <2>1, <2>2 DEF PortInv, DeviceInv
  <2>3. CASE ~halted
    <3>1. ci = {}
      BY <1>2, <2>3 DEF PortInv, DeviceInv
    <3> QED BY <1>1, <1>2, <2>1, <2>3, <3>1 DEF DeviceInv
  <2> QED BY <2>2, <2>3
<1>6. Count' = Count /\ Command' = Command /\ Count \in Nat
  <2>1. Count' = Count /\ Command' = Command
    BY <1>1 DEF Count, Command
  <2>2. Count \in 1..call.count - done
    BY <1>1, CountFacts DEF PortInv
  <2> QED BY <2>1, <2>2
<1>7. Place'
  <2>1. run' \in {NoSlot, slot} /\ table'[slot] = Command
    BY <1>1, <1>2
  <2> QED BY <1>1, <1>2, <1>3, <1>6, <2>1 DEF Place
<1>8. Progress'
  <2>1. \A i \in 1..0 : FALSE
    OBVIOUS
  <2>2. run' = slot => Transferred(moved)'
    BY <1>3, <2>1 DEF Transferred
  <2>3. slot \in ci'
    BY <1>1
  <2> QED BY <1>1, <2>2, <2>3 DEF PortInv, Progress
<1>9. Results'
  BY <1>1 DEF Results
<1> QED BY <1>4, <1>5, <1>7, <1>8, <1>9 DEF PortInv

LEMMA StopStep ==
  ASSUME PortInv, NEW code \in {"none", "Hung", "DiskError"}, Stop(code), phase \in {"issued", "settle"},
         code = "none" => phase = "settle"
  PROVE  PortInv'
<1>1. /\ phase' = "stop" /\ status' = code /\ slot' = slot
      /\ ci' = {} /\ table' = <<>> /\ run' = NoSlot /\ moved' = 0 /\ halted' = FALSE
      /\ UNCHANGED <<call, done, data, result, mixed>>
      /\ UNCHANGED <<disk, busy, buffer>>
  BY DEF Stop, caller
<1>2. Typed' /\ DeviceInv' /\ Place' /\ Results'
  BY <1>1 DEF PortInv, Typed, DeviceInv, Place, Results
<1>3. Count' = Count
  BY <1>1 DEF Count
<1>4. Progress'
  BY <1>1, <1>3 DEF PortInv, Progress, Transferred
<1> QED BY <1>2, <1>4 DEF PortInv

LEMMA IssuedDoneStep ==
  ASSUME PortInv, IssuedDone
  PROVE  PortInv'
<1>1. /\ phase = "issued" /\ phase' = "settle" /\ slot \notin ci
      /\ UNCHANGED <<call, done, data, result, mixed>>
      /\ UNCHANGED <<disk, ci, table, run, moved, busy, tfes, halted>>
      /\ UNCHANGED <<buffer, slot, status>>
  BY DEF IssuedDone, At, device, caller
<1>2. run = NoSlot
  BY <1>1 DEF PortInv, DeviceInv, Place
<1>3. Typed' /\ DeviceInv' /\ Place' /\ Results'
  BY <1>1, <1>2 DEF PortInv, Typed, DeviceInv, Place, Results
<1>4. Count' = Count
  BY <1>1 DEF Count
<1>5. Progress'
  BY <1>1, <1>4 DEF PortInv, Progress, Transferred
<1> QED BY <1>3, <1>5 DEF PortInv

LEMMA StoppedStep ==
  ASSUME PortInv, Stopped
  PROVE  PortInv'
<1> DEFINE code == IF status # "none" THEN status ELSE IF tfes THEN "DiskError" ELSE "Success"
<1>1. phase = "stop" /\ AccessEnds(code) /\ buffer' = buffer
  BY DEF Stopped, At
<1>2. UNCHANGED device /\ mixed' = mixed
  BY DEF Stopped
<1>3. buffer' \in [1..BufferBlocks -> Value]
  BY <1>1 DEF PortInv, Typed
<1>4. run = NoSlot
  BY <1>1 DEF PortInv, Place
<1>5. ASSUME code = "Success", call.kind = "write" => ~mixed PROVE Transferred(Count)
  <2>1. status = "none"
    BY <1>1, <1>5 DEF PortInv, Place
  <2> QED BY <1>1, <1>5, <2>1 DEF PortInv, Progress
<1> HIDE DEF code
<1> QED BY <1>1, <1>2, <1>3, <1>4, <1>5, EndStep

LEMMA AccessStep ==
  ASSUME IInv, Access
  PROVE  IInv'
<1>1. CASE ReadyTurn \/ IssuedTurn \/ SettleTurn \/ StopTurn
  BY <1>1, SleepStep
<1>2. CASE BadSlot \/ Prepare \/ Hung \/ Issue \/ IssuedError \/ IssuedDone \/ Settled \/ Stopped
  <2>1. UNCHANGED tvars
    BY <1>2 DEF BadSlot, Prepare, Hung, Issue, IssuedError, IssuedDone, Settled, Stop, Stopped
  <2>2. PortInv
    BY DEF IInv
  <2>3. ASSUME IssuedError PROVE PortInv'
    <3>1. Stop("DiskError") /\ phase = "issued"
      BY <2>3 DEF IssuedError, At
    <3> QED BY <2>2, <3>1, StopStep
  <2>4. ASSUME Settled PROVE PortInv'
    <3>1. phase = "settle" /\ Stop(IF spin = 0 THEN "Hung" ELSE "none")
      BY <2>4 DEF Settled, At
    <3>2. CASE spin = 0
      BY <2>2, <3>1, <3>2, StopStep
    <3>3. CASE spin # 0
      BY <2>2, <3>1, <3>3, StopStep
    <3> QED BY <3>2, <3>3
  <2>5. PortInv'
    BY <1>2, <2>2, <2>3, <2>4, BadSlotStep, PrepareStep, HungStep, IssueStep,
       IssuedDoneStep, StoppedStep
  <2> QED BY <2>1, <2>5, TimerUnchanged DEF IInv
<1> QED BY <1>1, <1>2 DEF Access

-----------------------------------------------------------------------------
(* The device. *)

\* One block of the command the device works at. While access() waits for it, it
\* is the access's own; in any other phase it is one that was given up, and the
\* call has moved nothing yet.
LEMMA MoveStep ==
  ASSUME PortInv, Move
  PROVE  PortInv'
<1>1. /\ run # NoSlot /\ moved < table[run].count /\ moved' = moved + 1
      /\ UNCHANGED <<ci, table, run, busy, tfes, halted>>
      /\ UNCHANGED <<call, done, data, result, mixed>>
      /\ UNCHANGED <<phase, slot, spin, status>>
  BY DEF Move, caller, access
<1>2. IF table[run].write
      THEN disk' = [disk EXCEPT ![table[run].lba + moved] = buffer[moved + 1]] /\ buffer' = buffer
      ELSE buffer' = [buffer EXCEPT ![moved + 1] = disk[table[run].lba + moved]] /\ disk' = disk
  BY DEF Move
<1>3. DeviceInv'
  BY <1>1 DEF PortInv, DeviceInv
<1>4. Count' = Count /\ Command' = Command
  BY <1>1 DEF Count, Command
<1> DEFINE l == table[run].lba + moved
<1>5. /\ moved \in Nat /\ moved + 1 \in 1..BufferBlocks /\ l \in Block
  <2>1. /\ table[run].lba \in Nat /\ table[run].count \in 1..BufferBlocks
        /\ table[run].lba + table[run].count <= Blocks
    BY <1>1 DEF PortInv, DeviceInv
  <2>2. moved \in Nat /\ BufferBlocks \in Nat /\ Blocks \in Nat
    BY PortAssumption DEF PortInv, Typed
  <2> QED BY <1>1, <2>1, <2>2 DEF Block
<1>6. Typed'
  <2>1. disk' \in [Block -> Value] /\ buffer' \in [1..BufferBlocks -> Value]
    BY <1>2, <1>5 DEF PortInv, Typed
  <2> QED BY <1>1, <1>5, <2>1 DEF PortInv, Typed
<1>7. CASE phase = "issued"
  <2>1. /\ run = slot /\ table[run] = Command /\ moved < Count
    BY <1>1, <1>7 DEF PortInv, Place, Command
  <2>2. l = call.lba + done + moved /\ table[run].write = (call.kind = "write")
    BY <2>1 DEF Command
  <2>3. Place'
    <3>1. moved + 1 <= Count
      <4>1. Count \in 1..call.count - done
        BY <1>7, CountFacts DEF PortInv
      <4> QED BY <2>1, <1>5, <4>1
    <3> QED BY <1>1, <1>4, <1>7, <2>1, <3>1 DEF PortInv, Place
  <2>4. Progress'
    <3> SUFFICES ASSUME call.kind = "write" => ~mixed
                 PROVE  Progress'
      BY <1>1 DEF Progress
    <3>1. /\ \A i \in 1..done : disk[call.lba + i - 1] =
                                    IF call.kind = "write" THEN call.data[i] ELSE data[i]
          /\ call.kind # "write" => Len(data) = done
          /\ call.kind = "write" => buffer[1] = call.data[done + 1]
          /\ Transferred(moved)
      BY <1>7, <2>1 DEF PortInv, Progress
    <3>2. call.lba \in Nat /\ done \in Nat /\ moved \in Nat
      BY <1>5, <1>7 DEF PortInv, Typed
    <3>3. CASE call.kind = "write"
      <4>1. /\ disk' = [disk EXCEPT ![l] = buffer[moved + 1]] /\ buffer' = buffer
        BY <1>2, <2>2, <3>3
      <4>2. moved = 0
        <5>1. Count = 1
          BY <1>7, <3>3, CountFacts DEF PortInv
        <5> QED BY <2>1, <3>2, <5>1
      <4>3. l = call.lba + done /\ disk'[l] = call.data[done + 1]
        BY <1>5, <2>2, <3>1, <3>2, <3>3, <4>1, <4>2 DEF PortInv, Typed
      <4> HIDE DEF l
      <4>4. \A i \in 1..done : disk'[call.lba + i - 1] = disk[call.lba + i - 1]
        BY <3>2, <4>1, <4>3
      <4>5. Transferred(moved)'
        <5>1. \A i \in 1..1 : i = 1 /\ call.lba + done + i - 1 = l /\ done + i = done + 1
          BY <3>2, <4>3
        <5> QED BY <1>1, <3>3, <4>2, <4>3, <5>1 DEF Transferred
      <4> QED BY <1>1, <1>7, <2>1, <3>1, <3>3, <4>1, <4>4, <4>5 DEF Progress, PortInv, DeviceInv
    <3>4. CASE call.kind # "write"
      <4>1. /\ buffer' = [buffer EXCEPT ![moved + 1] = disk[l]] /\ disk' = disk
        BY <1>2, <2>2, <3>4
      <4>2. Transferred(moved)'
        <5> SUFFICES ASSUME NEW i \in 1..moved + 1
                     PROVE  disk[call.lba + done + i - 1] = buffer'[i]
          BY <1>1, <3>4, <4>1 DEF Transferred
        <5>1. CASE i = moved + 1
          <6>1. call.lba + done + i - 1 = l
            BY <2>2, <3>2, <5>1
          <6>2. buffer'[i] = disk[l]
            BY <1>5, <4>1, <5>1 DEF PortInv, Typed
          <6> QED BY <6>1, <6>2
        <5>2. CASE i # moved + 1
          <6>1. i \in 1..moved
            BY <3>2, <5>2
          <6>2. buffer'[i] = buffer[i]
            BY <4>1, <5>2, <6>1, <1>5 DEF PortInv, Typed
          <6> QED BY <3>1, <3>4, <6>1, <6>2 DEF Transferred
        <5> QED BY <5>1, <5>2
      <4> QED BY <1>1, <1>7, <2>1, <3>1, <3>4, <4>1, <4>2 DEF Progress, PortInv, DeviceInv
    <3> QED BY <3>3, <3>4
  <2>5. Results'
    BY <1>1, <1>7 DEF Results
  <2> QED BY <1>3, <1>6, <2>3, <2>4, <2>5 DEF PortInv
<1>8. CASE phase # "issued"
  <2>1. phase \in {"idle", "access", "ready"} /\ (phase # "idle" => done = 0)
    BY <1>1, <1>8 DEF PortInv, Place, Typed
  <2>2. ~(phase = "ready" /\ call.kind = "write" /\ ~mixed)
    BY <1>1 DEF PortInv, Place
  <2>3. Place'
    BY <1>1, <1>8, <2>1 DEF PortInv, Place
  <2>4. Progress'
    <3>1. \A i \in 1..0 : FALSE
      OBVIOUS
    <3> QED BY <1>1, <1>8, <2>1, <2>2, <3>1 DEF PortInv, Progress
  <2>5. Results'
    BY <1>1 DEF PortInv, Results
  <2> QED BY <1>3, <1>6, <2>3, <2>4, <2>5 DEF PortInv
<1> QED BY <1>7, <1>8

LEMMA CompleteStep ==
  ASSUME PortInv, Complete
  PROVE  PortInv'
<1>1. /\ run # NoSlot /\ moved = table[run].count
      /\ ci' = ci \ {run} /\ table' = [s \in ci' |-> table[s]] /\ moved' = 0
      /\ UNCHANGED <<call, done, data, result, mixed>>
      /\ UNCHANGED <<disk, halted, buffer, phase, slot, status>>
  BY DEF Complete, caller, access
<1>2. ci = {run} /\ ci' = {} /\ ~halted
  BY <1>1 DEF PortInv, DeviceInv
<1>3. run' = NoSlot /\ DOMAIN table' = {}
  BY <1>1, <1>2 DEF Complete
<1>4. Count' = Count
  BY <1>1 DEF Count
<1>5. Typed' /\ DeviceInv' /\ Results'
  BY <1>1, <1>2, <1>3 DEF PortInv, Typed, DeviceInv, Results
<1>6. Place'
  BY <1>1, <1>3 DEF PortInv, Place, NoSlot
<1>7. ASSUME phase = "issued" PROVE run = slot /\ moved = Count
  <2>1. run = slot /\ table[run] = Command
    BY <1>1, <1>7 DEF PortInv, Place
  <2> QED BY <1>1, <2>1 DEF Command
<1>8. Progress'
  <2> SUFFICES ASSUME phase # "idle", call.kind = "write" => ~mixed PROVE Progress'
    BY <1>1 DEF Progress
  <2>1. phase = "issued" => Transferred(Count)
    BY <1>7 DEF PortInv, Progress
  <2>2. Transferred(Count)' = Transferred(Count)
    BY <1>1, <1>4 DEF Transferred
  <2>3. run' = slot' => FALSE \/ phase # "issued"
    BY <1>1, <1>3 DEF PortInv, Place, NoSlot
  <2> QED BY <1>1, <1>3, <2>1, <2>2, <2>3 DEF PortInv, Progress
<1> QED BY <1>5, <1>6, <1>8 DEF PortInv

LEMMA SettleStep ==
  ASSUME PortInv, Settle
  PROVE  PortInv'
<1>1. /\ run = NoSlot
      /\ UNCHANGED <<call, done, data, result, mixed>>
      /\ UNCHANGED <<disk, ci, table, run, moved, halted, buffer, phase, slot, status>>
  BY DEF Settle, caller, access
<1>2. Count' = Count /\ Command' = Command
  BY <1>1 DEF Count, Command
<1>3. Typed' /\ DeviceInv'
  BY <1>1 DEF PortInv, Typed, DeviceInv
<1>4. Place'
  BY <1>1, <1>2 DEF PortInv, Place
<1>5. Results'
  BY <1>1 DEF PortInv, Results, Slice
<1>6. Progress'
  BY <1>1, <1>2 DEF PortInv, Progress, Transferred
<1> QED BY <1>3, <1>4, <1>5, <1>6 DEF PortInv

\* A command that fails stays in PxCI, and the device does nothing more.
LEMMA FailStep ==
  ASSUME PortInv, Fail
  PROVE  PortInv'
<1>1. /\ run # NoSlot /\ run' = NoSlot /\ moved' = 0 /\ halted' = TRUE
      /\ UNCHANGED <<call, done, data, result, mixed>>
      /\ UNCHANGED <<disk, ci, table, buffer, phase, slot, status>>
  BY DEF Fail, caller, access
<1>2. ci = {run}
  BY <1>1 DEF PortInv, DeviceInv
<1>3. Count' = Count /\ Command' = Command
  BY <1>1 DEF Count, Command
<1>4. Typed' /\ DeviceInv' /\ Results'
  BY <1>1 DEF PortInv, Typed, DeviceInv, Results
<1>5. Place'
  BY <1>1, <1>3 DEF PortInv, Place, NoSlot
<1>6. Progress'
  <2>1. phase = "issued" => slot \in ci /\ run' # slot
    BY <1>1, <1>2 DEF PortInv, Place, NoSlot
  <2>2. Transferred(Count)' = Transferred(Count)
    BY <1>1, <1>3 DEF Transferred
  <2> QED BY <1>1, <2>1, <2>2 DEF PortInv, Progress
<1> QED BY <1>4, <1>5, <1>6 DEF PortInv

-----------------------------------------------------------------------------
(* Theorems. *)

LEMMA InitInv == Init => IInv
<1> SUFFICES ASSUME Init PROVE IInv
  OBVIOUS
<1>1. TimerInv
  BY DEF Init, TimerInit, TimerInv, Stores
<1>2. Typed
  <2>1. <<>> \in Seq(Value)
    OBVIOUS
  <2> QED BY <2>1 DEF Init, Typed
<1>3. DeviceInv /\ Place /\ Progress /\ Results
  BY DEF Init, DeviceInv, Place, Progress, Results, NoCall
<1> QED BY <1>1, <1>2, <1>3 DEF IInv, PortInv

LEMMA NextInv == IInv /\ [Next]_vars => IInv'
<1> SUFFICES ASSUME IInv, [Next]_vars PROVE IInv'
  OBVIOUS
<1>1. CASE Request
  BY <1>1, RequestStep
<1>2. CASE Access
  BY <1>2, AccessStep
<1>3. CASE Device
  <2>1. PortInv'
    BY <1>3, MoveStep, CompleteStep, SettleStep, FailStep DEF Device, IInv
  <2>2. UNCHANGED tvars
    BY <1>3 DEF Device, Move, Complete, Settle, Fail
  <2> QED BY <2>1, <2>2, TimerUnchanged DEF IInv
<1>4. CASE Asleep \/ Timed
  <2>1. UNCHANGED <<device, buffer, caller, phase, slot, status>>
    BY <1>4 DEF Asleep, Timed, access
  <2>2. TimerInv'
    BY <1>4, WaiterStep, TickStep DEF Asleep, Timed, IInv
  <2> QED BY <2>1, <2>2, PortUnchanged DEF IInv
<1>5. CASE UNCHANGED vars
  <2>1. UNCHANGED tvars /\ UNCHANGED <<device, buffer, caller, phase, slot, status>>
    BY <1>5 DEF vars, access
  <2> QED BY <2>1, TimerUnchanged, PortUnchanged DEF IInv
<1> QED BY <1>1, <1>2, <1>3, <1>4, <1>5 DEF Next

THEOREM Invariance == Spec => []IInv
  BY InitInv, NextInv, PTL DEF Spec

\* wait() is sound from its second call on: no null pointer, no tick too few and
\* none that is waited for in vain.
THEOREM WaitsSound == Spec => []LaterWaitsSound
<1>1. IInv => LaterWaitsSound
  BY DEF IInv, TimerInv, LaterWaitsSound, Mishap
<1> QED BY <1>1, Invariance, PTL

\* access() never issues a command to a device that still works at another.
THEOREM NoQueue == Spec => []OneAtATime
<1>1. IInv => OneAtATime
  BY DEF IInv, PortInv, DeviceInv, OneAtATime
<1> QED BY <1>1, Invariance, PTL

\* What read() and readBytes() deliver as a success is what the disk holds.
THEOREM ReadsDeliver == Spec => []ReadDelivers
<1>1. IInv => ReadDelivers
  BY DEF IInv, PortInv, Results, ReadDelivers
<1> QED BY <1>1, Invariance, PTL

\* What write() was given is on the disk when it says so, unless the device was
\* still at a command that had been given up.
THEOREM WritesStore == Spec => []WriteStored
<1>1. IInv => WriteStored
  BY DEF IInv, PortInv, Results, WriteStored
<1> QED BY <1>1, Invariance, PTL

\* While access() waits for its own command, the device changes the block that
\* the command names and gives it the data of the call.
THEOREM OnlyTheWriteChanges == Spec => DiskChanges
<1> DEFINE A == \A b \in Block : disk'[b] # disk[b] =>
          \/ phase # "issued" \/ run # slot \/ mixed
          \/ call.kind = "write" /\ b = call.lba + done /\ disk'[b] = call.data[done + 1]
<1>1. IInv /\ [Next]_vars => [A]_vars
  <2> SUFFICES ASSUME IInv, Next, NEW b \in Block, disk'[b] # disk[b],
                      phase = "issued", run = slot, ~mixed
               PROVE  call.kind = "write" /\ b = call.lba + done /\ disk'[b] = call.data[done + 1]
    OBVIOUS
  <2>1. Move
    <3>1. ~Request
      BY DEF Request, Read, ReadBytes, Write, Begin, device
    <3>2. ~Access
      BY DEF Access, BadSlot, Prepare, ReadyTurn, Hung, Issue, IssuedTurn, IssuedError,
             IssuedDone, SettleTurn, Settled, StopTurn, Stopped, Sleep, Stop, device
    <3>3. ~Asleep /\ ~Timed
      BY DEF Asleep, Timed, device
    <3>4. ~Complete /\ ~Settle /\ ~Fail
      BY DEF Complete, Settle, Fail
    <3> QED BY <3>1, <3>2, <3>3, <3>4 DEF Next, Device
  <2>2. /\ run # NoSlot /\ moved < table[run].count /\ table[run] = Command
    BY <2>1 DEF Move, IInv, PortInv, Place
  <2>3. /\ table[run].write
        /\ disk' = [disk EXCEPT ![table[run].lba + moved] = buffer[moved + 1]]
    BY <2>1 DEF Move
  <2>4. call.kind = "write"
    <3>1. Command.write = (call.kind = "write")
      BY Zenon DEF Command
    <3> QED BY <2>2, <2>3, <3>1
  <2>5. moved = 0
    <3>1. Count = 1 /\ moved \in Nat
      BY <2>4, CountFacts DEF IInv, PortInv, Typed
    <3> QED BY <2>2, <3>1 DEF Command
  <2>6. table[run].lba + moved = call.lba + done
    BY <2>2, <2>5 DEF Command, IInv, PortInv, Typed
  <2>7. buffer[1] = call.data[done + 1]
    BY <2>4 DEF IInv, PortInv, Progress
  <2> QED BY <2>3, <2>4, <2>5, <2>6, <2>7 DEF IInv, PortInv, Typed
<1> QED BY <1>1, Invariance, PTL DEF Spec, DiskChanges
=============================================================================
