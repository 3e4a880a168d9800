------------------------------ MODULE AHCIPort ------------------------------
(***************************************************************************)
(* One port of the AHCI driver (src/src/hardware/AHCI.cpp) with its device.*)
(* access() polls the registers and sleeps with Kernel::wait() between two *)
(* looks; the device moves data whenever it likes, late or never.  A read  *)
(* or write is cut into accesses that all go through physicalBuffers[1].   *)
(* The device is external: it works at one command at a time, and stops at *)
(* an error until the driver clears ST.                                    *)
(***************************************************************************)
EXTENDS Timer, FiniteSets, SequencesExt, FiniteSetsExt

CONSTANTS
  Blocks,       \* blocks of the disk
  Value,        \* what a block may hold
  BufferBlocks, \* blocks in one of the physicalBuffers: 8
  RunSizes,     \* how many blocks read() asks for at once: {8, 2, 1}
  Slots,        \* command_slots of getCommandSlot()
  SPIN_COUNT,
  ReadCounts, ReadBytesCounts, WriteCounts  \* how many blocks callers ask for

ASSUME PortAssumption ==
    /\ Blocks \in Nat \ {0} /\ Value # {}
    /\ BufferBlocks \in Nat \ {0} /\ RunSizes \subseteq 1..BufferBlocks /\ 1 \in RunSizes
    /\ Slots \in Nat \ {0} /\ SPIN_COUNT \in Nat \ {0}
    /\ (ReadCounts \cup ReadBytesCounts \cup WriteCounts) \subseteq Nat \ {0}

VARIABLES
  disk,    \* what the device holds
  buffer,  \* physicalBuffers[1], in blocks
  ci,      \* PxCI: the slots whose commands the device has not finished
  table,   \* slot of ci |-> its command
  run,     \* the slot the device works at, or NoSlot
  moved,   \* how many blocks of it are done
  busy,    \* PxTFD: BSY or DRQ
  tfes,    \* PxIS: the task file error
  halted,  \* the device has stopped at an error
  call,    \* the read or write in progress
  done,    \* how many of its blocks are done
  data,    \* what it has read so far
  result,  \* what the last call returned
  phase,   \* where access() is
  slot, spin,
  status,  \* what access() returns after stop(), as far as it is decided
  mixed    \* history: the device was still at a given-up command when the call
           \* copied a block to the buffer

device == <<disk, ci, table, run, moved, busy, tfes, halted>>
caller == <<call, done, data, result, mixed>>
access == <<phase, slot, spin, status>>
vars   == <<tvars, device, buffer, caller, access>>

Block  == 0..Blocks - 1
NoSlot == -1
NoCall == [kind |-> "none", lba |-> 0, count |-> 0, data |-> <<>>]

\* The driver is at this point and not inside wait().
At(p) == phase = p /\ step = "out" /\ ~fault

-----------------------------------------------------------------------------
(* read(), readBytes() and write(): a call and the next of its accesses. *)

Begin(kind, lba, count, blocks) ==
    /\ At("idle")
    /\ call' = [kind |-> kind, lba |-> lba, count |-> count, data |-> blocks]
    /\ done' = 0 /\ data' = <<>>
    /\ phase' = "access"
    /\ result' = NoCall /\ mixed' = FALSE
    /\ UNCHANGED <<tvars, device, buffer, slot, spin, status>>

Read(lba, count) == Begin("read", lba, count, <<>>)

ReadBytes(lba, count) == Begin("readBytes", lba, count, <<>>)

Write(lba, count, blocks) == Begin("write", lba, count, blocks)

\* 8 blocks as long as so many are left, then 2, then 1; readBytes() and write()
\* take them one by one.
Count == IF call.kind = "read" THEN Max({n \in RunSizes : n <= call.count - done}) ELSE 1

Return(code) ==
    /\ result' = [kind |-> call.kind, lba |-> call.lba, count |-> call.count,
                  data |-> IF call.kind = "write" THEN call.data ELSE data', status |-> code]
    /\ call' = NoCall
    /\ phase' = "idle"

\* Variant: the blocks of a read are taken from the buffer although it failed.
AccessEndsBlindly(code) ==
    /\ done' = done + Count
    /\ data' = IF call.kind = "write" THEN data ELSE data \o SubSeq(buffer, 1, Count)
    /\ IF done' = call.count THEN Return("Success")
       ELSE phase' = "access" /\ UNCHANGED <<call, result>>
    /\ slot' = NoSlot /\ spin' = 0 /\ status' = "none"

\* access() returns: its caller copies the buffer and goes on, or gives up.
AccessEnds(code) ==
    /\ IF code = "Success"
       THEN /\ done' = done + Count
            /\ data' = IF call.kind = "write" THEN data ELSE data \o SubSeq(buffer, 1, Count)
            /\ IF done' = call.count THEN Return(code)
               ELSE phase' = "access" /\ UNCHANGED <<call, result>>
       ELSE /\ UNCHANGED <<done, data>>
            /\ Return(IF call.kind = "write" THEN code ELSE "DiskError")
    /\ slot' = NoSlot /\ spin' = 0 /\ status' = "none"

-----------------------------------------------------------------------------
(* access(). *)

\* getCommandSlot().
FreeSlots == (0..Slots - 1) \ ci

\* Variant: write() does not move on in its caller's data.
FilledFromFirst == IF call.kind = "write" THEN [buffer EXCEPT ![1] = call.data[1]] ELSE buffer

\* What write() copies before it calls access().
Filled == IF call.kind = "write" THEN [buffer EXCEPT ![1] = call.data[done + 1]] ELSE buffer

BadSlot ==
    /\ At("access") /\ FreeSlots = {}
    /\ buffer' = Filled
    /\ AccessEnds("BadSlot")
    /\ UNCHANGED <<tvars, device, mixed>>

\* The command header and its table are filled.
Prepare ==
    /\ At("access") /\ FreeSlots # {}
    /\ buffer' = Filled
    /\ slot' = Min(FreeSlots)
    /\ spin' = SPIN_COUNT
    /\ phase' = "ready"
    /\ mixed' = (mixed \/ (call.kind = "write" /\ run # NoSlot))
    /\ UNCHANGED <<tvars, device, call, done, data, result, status>>

\* The body of a polling loop.
Sleep ==
    /\ spin > 0
    /\ spin' = spin - 1
    /\ Call(1)
    /\ UNCHANGED <<device, buffer, caller, phase, slot, status>>

ReadyTurn == At("ready") /\ busy /\ Sleep

\* spin <= 0: also when the device has got ready at the last turn.
Hung ==
    /\ At("ready") \/ At("issued")
    /\ spin = 0
    /\ AccessEnds("Hung")
    /\ UNCHANGED <<tvars, device, buffer, mixed>>

\* Variant: the block address stays where the call began.
CommandAtFirst == [lba |-> call.lba, count |-> Count, write |-> call.kind = "write"]

Command == [lba |-> call.lba + done, count |-> Count, write |-> call.kind = "write"]

\* Variant: the command goes out without a look at the task file register.
IssueAtOnce ==
    /\ At("ready") /\ spin > 0
    /\ ci' = ci \cup {slot}
    /\ table' = [s \in ci' |-> IF s = slot THEN Command ELSE table[s]]
    /\ tfes' = FALSE
    /\ IF halted \/ run # NoSlot THEN UNCHANGED <<run, moved, busy>>
       ELSE run' = slot /\ moved' = 0 /\ busy' = TRUE
    /\ spin' = SPIN_COUNT
    /\ phase' = "issued"
    /\ UNCHANGED <<tvars, disk, halted, buffer, caller, slot, status>>

\* PxIS is cleared, start(), PxCI: unless it has halted, the device sets to work.
Issue ==
    /\ At("ready") /\ ~busy /\ spin > 0
    /\ ci' = ci \cup {slot}
    /\ table' = [s \in ci' |-> IF s = slot THEN Command ELSE table[s]]
    /\ tfes' = FALSE
    /\ IF halted \/ run # NoSlot THEN UNCHANGED <<run, moved, busy>>
       ELSE run' = slot /\ moved' = 0 /\ busy' = TRUE
    /\ spin' = SPIN_COUNT
    /\ phase' = "issued"
    /\ UNCHANGED <<tvars, disk, halted, buffer, caller, slot, status>>

IssuedTurn == At("issued") /\ slot \in ci /\ ~tfes /\ Sleep

\* stop(): the device forgets its commands when ST is cleared.
Stop(code) ==
    /\ ci' = {} /\ table' = <<>> /\ run' = NoSlot /\ moved' = 0 /\ halted' = FALSE
    /\ spin' = SPIN_COUNT
    /\ phase' = "stop" /\ status' = code
    /\ UNCHANGED <<tvars, disk, busy, tfes, buffer, caller, slot>>

IssuedError == At("issued") /\ spin > 0 /\ slot \in ci /\ tfes /\ Stop("DiskError")

IssuedDone ==
    /\ At("issued") /\ spin > 0 /\ slot \notin ci
    /\ spin' = SPIN_COUNT
    /\ phase' = "settle"
    /\ UNCHANGED <<tvars, device, buffer, caller, slot, status>>

SettleTurn == At("settle") /\ busy /\ Sleep

Settled ==
    /\ At("settle")
    /\ spin = 0 \/ ~busy
    /\ Stop(IF spin = 0 THEN "Hung" ELSE "none")

\* The command list and the FIS engine are still running, for all the driver
\* can read.
StopTurn == At("stop") /\ Sleep

Stopped ==
    /\ At("stop")
    /\ AccessEnds(IF status # "none" THEN status ELSE IF tfes THEN "DiskError" ELSE "Success")
    /\ UNCHANGED <<tvars, device, buffer, mixed>>

Access ==
    \/ BadSlot \/ Prepare
    \/ ReadyTurn \/ Hung \/ Issue
    \/ IssuedTurn \/ IssuedError \/ IssuedDone
    \/ SettleTurn \/ Settled
    \/ StopTurn \/ Stopped

-----------------------------------------------------------------------------
(* The device. *)

\* One block goes from or to the buffer.
Move ==
    LET lba == table[run].lba + moved
    IN  /\ run # NoSlot /\ moved < table[run].count
        /\ moved' = moved + 1
        /\ IF table[run].write
           THEN disk' = [disk EXCEPT ![lba] = buffer[moved + 1]] /\ buffer' = buffer
           ELSE buffer' = [buffer EXCEPT ![moved + 1] = disk[lba]] /\ disk' = disk
        /\ UNCHANGED <<tvars, ci, table, run, busy, tfes, halted, caller, access>>

\* The command is done; the device may stay busy a little longer.
Complete ==
    /\ run # NoSlot /\ moved = table[run].count
    /\ ci' = ci \ {run}
    /\ table' = [s \in ci' |-> table[s]]
    /\ moved' = 0
    /\ IF ci' = {} THEN run' = NoSlot /\ busy' \in BOOLEAN
       ELSE run' \in ci' /\ busy' = TRUE
    /\ UNCHANGED <<tvars, disk, tfes, halted, buffer, caller, access>>

Settle ==
    /\ busy /\ run = NoSlot
    /\ busy' = FALSE
    /\ UNCHANGED <<tvars, disk, ci, table, run, moved, tfes, halted, buffer, caller, access>>

Fail ==
    /\ run # NoSlot
    /\ tfes' = TRUE /\ halted' = TRUE
    /\ run' = NoSlot /\ moved' = 0
    /\ busy' \in BOOLEAN
    /\ UNCHANGED <<tvars, disk, ci, table, buffer, caller, access>>

\* wait() and the device share nothing, so that it is enough to let the device
\* act before or after it.
Device == step = "out" /\ (Move \/ Complete \/ Settle \/ Fail)

-----------------------------------------------------------------------------
Init ==
    /\ TimerInit
    /\ disk \in [Block -> Value]
    /\ \E v \in Value : buffer = [i \in 1..BufferBlocks |-> v]
    /\ ci = {} /\ table = <<>> /\ run = NoSlot /\ moved = 0
    /\ busy = FALSE /\ tfes = FALSE /\ halted = FALSE
    /\ call = NoCall /\ done = 0 /\ data = <<>> /\ result = NoCall
    /\ phase = "idle" /\ slot = NoSlot /\ spin = 0 /\ status = "none"
    /\ mixed = FALSE

Within(lba, count) == lba + count <= Blocks

Request ==
    \E lba \in Block :
        \/ \E count \in ReadCounts : Within(lba, count) /\ Read(lba, count)
        \/ \E count \in ReadBytesCounts : Within(lba, count) /\ ReadBytes(lba, count)
        \/ \E count \in WriteCounts : \E blocks \in [1..count -> Value] :
               Within(lba, count) /\ Write(lba, count, blocks)

Asleep == (Waiter \/ OtherInterrupt) /\ UNCHANGED <<device, buffer, caller, access>>

Timed == Tick /\ UNCHANGED <<device, buffer, caller, access>>

Next == Request \/ Access \/ Device \/ Asleep \/ Timed

\* The processor goes on, and the timer keeps ticking once it is set.
Fairness ==
    /\ WF_vars(Access)
    /\ WF_vars(Waiter /\ UNCHANGED <<device, buffer, caller, access>>)
    /\ WF_vars(Timed)

Spec == Init /\ [][Next]_vars /\ Fairness

-----------------------------------------------------------------------------
(* Properties. *)

Slice(r) == [i \in 1..r.count |-> disk[r.lba + i - 1]]

\* Between two calls, what the last successful read delivered is what the disk
\* holds, run by run, even if commands that the driver had given up were still
\* under way when it began and moved their blocks through the same buffer.
ReadDelivers ==
    phase = "idle" /\ result.kind \in {"read", "readBytes"} /\ result.status = "Success"
        => result.data = Slice(result)

\* Between two calls, what the last successful write was given is on the disk:
\* no command from before it reaches its blocks any more.
WriteStored ==
    phase = "idle" /\ result.kind = "write" /\ result.status = "Success" /\ ~mixed
        => result.data = Slice(result)

\* The device never has a second command behind the one it works at, whatever
\* the driver has given up, so that the eight command tables are enough for it.
OneAtATime == run # NoSlot => ci = {run}

\* Only the write in progress changes the disk, its next block and to its own
\* data; the exception is a write that the driver has given up as hung, which
\* stores whatever the shared buffer holds by then.
DiskChanges ==
    [][\A b \in Block : disk'[b] # disk[b] =>
          \/ phase # "issued" \/ run # slot \/ mixed
          \/ call.kind = "write" /\ b = call.lba + done /\ disk'[b] = call.data[done + 1]]_vars

\* Every call returns, even if the device never answers: all polling is bounded,
\* and the tick that wait() was to wait for may come between its test of
\* `waiting` and its hlt and be slept through, but the timer is periodic, and
\* its next tick ends the hlt.
CallsReturn == call # NoCall ~> (call = NoCall \/ Mishap)
=============================================================================
