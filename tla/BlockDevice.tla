---------------------------- MODULE BlockDevice ----------------------------
(***************************************************************************)
(* What StorageDeviceBase (src/include/device/Storage.h) promises the file *)
(* system: bytes that read back as they were last written, from zero, for  *)
(* as long as no more blocks are in use than the device can remember.  A   *)
(* call moves its bytes in order, some of one block at a time.             *)
(***************************************************************************)
EXTENDS Integers, FiniteSets

CONSTANTS
  Blocks,     \* how many blocks the device has
  BlockSize,  \* bytes in a block
  Capacity,   \* how many blocks it remembers at least
  Value, Zero \* what a byte may hold, and what it holds at first

Block == 0..Blocks - 1
Byte  == 0..Blocks * BlockSize - 1

VARIABLES
  mem,   \* what each byte was last written with
  used,  \* the blocks touched since the device was attached
  lost,  \* the blocks whose contents are no longer promised
  call,  \* the call in progress: [kind, from, size, data], its data repeating
         \* every BlockSize bytes; or NoCall
  at,    \* the next byte it moves
  got    \* the bytes its last step delivered

vars == <<mem, used, lost, call, at, got>>

NoCall == [kind |-> "none", from |-> 0, size |-> 0, data |-> [i \in 0..BlockSize - 1 |-> Zero]]

Calls == {c \in [kind : {"read", "write"}, from : Byte, size : 1..Blocks * BlockSize,
                 data : [0..BlockSize - 1 -> Value]] : c.from + c.size <= Blocks * BlockSize}

Begin ==
    /\ call = NoCall
    /\ call' \in Calls
    /\ at' = call'.from
    /\ got' = <<>>
    /\ UNCHANGED <<mem, used, lost>>

\* The call's next n bytes, all of one block, are moved; the call returns after
\* the last of them.
Move(n) ==
    LET b == at \div BlockSize
    IN  /\ call # NoCall
        /\ (at + n - 1) \div BlockSize = b
        /\ at + n <= call.from + call.size
        /\ used' = used \cup {b}
        /\ lost \subseteq lost' /\ lost' \subseteq lost \cup used'
        /\ lost' # lost => Cardinality(used') > Capacity
        /\ at' = at + n
        /\ call' = IF at' = call.from + call.size THEN NoCall ELSE call
        /\ \/ /\ call.kind = "read"
              /\ mem' = mem
              /\ got' \in [1..n -> Value]
              /\ b \notin lost' => \A i \in 1..n : got'[i] = mem[at + i - 1]
           \/ /\ call.kind = "write"
              /\ mem' = [a \in Byte |-> IF a \in at..at + n - 1
                                        THEN call.data[(a - call.from) % BlockSize]
                                        ELSE mem[a]]
              /\ got' = <<>>

\* Another device object takes over: what the last one has not passed on is gone.
Replace ==
    /\ call = NoCall
    /\ lost' = lost \cup used /\ used' = {}
    /\ UNCHANGED <<mem, call, at, got>>

Init ==
    /\ mem = [a \in Byte |-> Zero]
    /\ used = {} /\ lost = {}
    /\ call = NoCall /\ at = 0 /\ got = <<>>

Next == Begin \/ Replace \/ \E n \in 1..BlockSize : Move(n)

Spec == Init /\ [][Next]_vars
=============================================================================
