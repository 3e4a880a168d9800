---------------------------- MODULE StorageCache ----------------------------
(***************************************************************************)
(* A partition on an AHCI device: Partition adds its offset (src/src/fs/   *)
(* Partition.cpp), AHCIDevice answers from its cache of blocks (src/src/   *)
(* device/AHCIDevice.cpp), and Cache keeps the blocks used last (src/      *)
(* include/Cache.h).  A step is one turn of a call's loop over the blocks. *)
(* Nothing ever fills the cache from the disk: where the code means to, it *)
(* calls read(), which finds the block it has just made.  Callers keep     *)
(* within the partition and ask for at least one byte.                     *)
(***************************************************************************)
EXTENDS Integers, FiniteSets, SequencesExt, FiniteSetsExt

CONSTANTS
  Blocks, BlockSize,
  CacheLength,       \* StorageCache's size
  Value, Zero,       \* the values of a byte; a new cache entry is Zero
  PartitionOffset, PartitionLength

Block == 0..Blocks - 1
Byte  == 0..Blocks * BlockSize - 1

ASSUME StorageAssumption ==
    /\ Blocks \in Nat \ {0} /\ BlockSize \in Nat \ {0} /\ CacheLength \in Nat \ {0}
    /\ Zero \in Value
    /\ PartitionOffset \in Byte /\ PartitionLength \in Nat \ {0}
    /\ PartitionOffset % BlockSize = 0
    /\ PartitionOffset + PartitionLength <= Blocks * BlockSize

VARIABLES
  map,       \* Cache::map: cached block |-> [data, flushed]
  list,      \* Cache::list: the cached blocks, the one used last first
  call,      \* the call in progress, as in BlockDevice
  at,        \* its next byte
  got,       \* what its last step copied to the caller
  flushing,  \* the block flush() comes to next, or -1 outside flush()
  perished,  \* Kernel::perish() was called
  latest,    \* history: what each byte was last written with
  recent,    \* history: the blocks used with this device, the one used last first
  used,      \* history: their set
  lost       \* history: the blocks that were evicted or whose device was deleted

vars == <<map, list, call, at, got, flushing, perished, latest, recent, used, lost>>

NoCall == [kind |-> "none", from |-> 0, size |-> 0, data |-> [i \in 0..BlockSize - 1 |-> Zero]]

Idle == call = NoCall /\ flushing = -1 /\ ~perished

-----------------------------------------------------------------------------
(* Partition and Cache. *)

Start(kind, from, size, data) ==
    /\ Idle
    /\ call' = [kind |-> kind, from |-> PartitionOffset + from, size |-> size, data |-> data]
    /\ at' = PartitionOffset + from
    /\ got' = <<>>
    /\ UNCHANGED <<map, list, flushing, perished, latest, recent, used, lost>>

Read(size, byteOffset) == Start("read", byteOffset, size, NoCall.data)

Write(data, size, byteOffset) == Start("write", byteOffset, size, data)

\* The array of zeroes that clear() writes block by block is not initialised.
Clear == \E zeroes \in [0..BlockSize - 1 -> Value] : Start("write", 0, PartitionLength, zeroes)

\* Cache::operator[]: a block that is not there is made.
Entry(b) ==
    IF b \in DOMAIN map THEN map[b]
    ELSE [data |-> NoCall.data, flushed |-> FALSE]

\* Variant: the new entry is not counted.
EvictedLate(b) ==
    IF b \in DOMAIN map \/ Cardinality(DOMAIN map) <= CacheLength THEN {} ELSE {Last(list)}

\* ensureSpace(): what gives way to a new block of a full cache.
Evicted(b) ==
    IF b \in DOMAIN map \/ Cardinality(DOMAIN map) < CacheLength THEN {} ELSE {Last(list)}

Without(s, b) == IF b \in ToSet(s) THEN RemoveAt(s, CHOOSE i \in DOMAIN s : s[i] = b) ELSE s

\* Variant: a block that is found keeps its place.
MovedNot(b) == IF b \in DOMAIN map THEN list ELSE <<b>> \o list

\* moveFront(), or push_front() for a new block.
Moved(b) == <<b>> \o Without(list, b)

\* The block is looked up, and its entry becomes the one given.
Use(b, entry) ==
    /\ map' = [c \in (DOMAIN map \ Evicted(b)) \cup {b} |-> IF c = b THEN entry ELSE map[c]]
    /\ list' = IF Evicted(b) = {} THEN Moved(b) ELSE Front(Moved(b))
    /\ recent' = <<b>> \o Without(recent, b)
    /\ used' = used \cup {b}
    /\ lost' = lost \cup Evicted(b)

-----------------------------------------------------------------------------
(* readCache() and writeCache(): the part of a call that lies in the block *)
(* of its next byte, lo..hi - 1 of that block.                             *)

Segment ==
    LET b == at \div BlockSize
    IN  [block |-> b,
         lo    |-> at % BlockSize,
         hi    |-> Min({BlockSize, call.from + call.size - b * BlockSize})]

Whole(s) == s.lo = 0 /\ s.hi = BlockSize

\* advance(), and the return when nothing is left.
Advanced(s) ==
    /\ at' = s.block * BlockSize + s.hi
    /\ call' = IF at' = call.from + call.size THEN NoCall ELSE call

\* A whole block is marked as not flushed although it is only read; a part of a
\* block that had to be made is marked as flushed.
ReadFlag(s) ==
    /\ ~Whole(s)
    /\ s.block \notin DOMAIN map \/ map[s.block].flushed

\* Variant: a part of a block is copied from the block's start.
CopiedFromStart(s) == [i \in 1..s.hi - s.lo |-> Entry(s.block).data[i - 1]]

\* What memmove() puts into the caller's buffer.
Copied(s) == [i \in 1..s.hi - s.lo |-> Entry(s.block).data[s.lo + i - 1]]

ReadBlock ==
    LET s == Segment
    IN  /\ call.kind = "read"
        /\ Use(s.block, [Entry(s.block) EXCEPT !.flushed = ReadFlag(s)])
        /\ got' = Copied(s)
        /\ Advanced(s)
        /\ UNCHANGED <<flushing, perished, latest>>

\* What the caller's buffer holds for byte i of the block.
Buffer(s, i) == call.data[((s.block * BlockSize + i) - call.from) % BlockSize]

\* Variant: a part of a block starts from zeroes.
WrittenOver(s) ==
    [data    |-> [i \in 0..BlockSize - 1 |-> IF i \in s.lo..s.hi - 1 THEN Buffer(s, i) ELSE Zero],
     flushed |-> FALSE]

\* Variant: a part of a block leaves the flag as it was.
WrittenQuietly(s) ==
    [data    |-> [i \in 0..BlockSize - 1 |->
                      IF i \in s.lo..s.hi - 1 THEN Buffer(s, i) ELSE Entry(s.block).data[i]],
     flushed |-> ~Whole(s) /\ Entry(s.block).flushed]

Written(s) ==
    [data    |-> [i \in 0..BlockSize - 1 |->
                      IF i \in s.lo..s.hi - 1 THEN Buffer(s, i) ELSE Entry(s.block).data[i]],
     flushed |-> FALSE]

WriteBlock ==
    LET s == Segment
    IN  /\ call.kind = "write"
        /\ Use(s.block, Written(s))
        /\ latest' = [a \in Byte |->
               IF a \in at..s.block * BlockSize + s.hi - 1
               THEN call.data[(a - call.from) % BlockSize] ELSE latest[a]]
        /\ got' = <<>>
        /\ Advanced(s)
        /\ UNCHANGED <<flushing, perished>>

-----------------------------------------------------------------------------
(* flush(): the entries in the order of their blocks. *)

Flush ==
    /\ Idle
    /\ flushing' = 0
    /\ UNCHANGED <<map, list, call, at, got, perished, latest, recent, used, lost>>

Ahead == {b \in DOMAIN map : b >= flushing}

FlushClean ==
    /\ flushing >= 0 /\ ~perished
    /\ Ahead # {}
    /\ map[Min(Ahead)].flushed
    /\ flushing' = Min(Ahead) + 1
    /\ UNCHANGED <<map, list, call, at, got, perished, latest, recent, used, lost>>

\* Variant: a failure ends flush().
GiveUp ==
    /\ flushing >= 0 /\ ~perished
    /\ Ahead # {}
    /\ ~map[Min(Ahead)].flushed
    /\ flushing' = -1
    /\ UNCHANGED <<map, list, call, at, got, perished, latest, recent, used, lost>>

\* The port's write() returns an error: the test of its status takes every
\* status but Success for success, so that the entry counts as flushed.
FlushFailed ==
    /\ flushing >= 0 /\ ~perished
    /\ Ahead # {}
    /\ ~map[Min(Ahead)].flushed
    /\ map' = [map EXCEPT ![Min(Ahead)].flushed = TRUE]
    /\ flushing' = Min(Ahead) + 1
    /\ UNCHANGED <<list, call, at, got, perished, latest, recent, used, lost>>

\* The port's write() returns Success: the kernel halts.
FlushWritten ==
    /\ flushing >= 0 /\ ~perished
    /\ Ahead # {}
    /\ ~map[Min(Ahead)].flushed
    /\ perished' = TRUE
    /\ UNCHANGED <<map, list, call, at, got, flushing, latest, recent, used, lost>>

FlushEnd ==
    /\ flushing >= 0 /\ ~perished
    /\ Ahead = {}
    /\ flushing' = -1
    /\ UNCHANGED <<map, list, call, at, got, perished, latest, recent, used, lost>>

-----------------------------------------------------------------------------
\* The shell selects a partition: it deletes the device, whose cache nobody has
\* flushed, and makes a new one.
SelectPartition ==
    /\ Idle
    /\ map' = <<>> /\ list' = <<>> /\ recent' = <<>>
    /\ used' = {} /\ lost' = lost \cup used
    /\ UNCHANGED <<call, at, got, flushing, perished, latest>>

Init ==
    /\ map = <<>> /\ list = <<>>
    /\ call = NoCall /\ at = 0 /\ got = <<>>
    /\ flushing = -1 /\ perished = FALSE
    /\ latest = [a \in Byte |-> Zero]
    /\ recent = <<>> /\ used = {} /\ lost = {}

Begin ==
    \/ \E size \in 1..PartitionLength : \E byteOffset \in 0..PartitionLength - size :
           \/ Read(size, byteOffset)
           \/ \E data \in [0..BlockSize - 1 -> Value] : Write(data, size, byteOffset)
    \/ Clear
    \/ Flush

Next ==
    \/ Begin \/ SelectPartition
    \/ ReadBlock \/ WriteBlock
    \/ FlushClean \/ FlushFailed \/ FlushWritten \/ FlushEnd

Spec == Init /\ [][Next]_vars

-----------------------------------------------------------------------------
(* Properties. *)

\* The forms that Cache's code relies on: its list holds the keys of its map,
\* each once, and never more than maxSize.
TypeOK ==
    /\ map \in [DOMAIN map -> [data : [0..BlockSize - 1 -> Value], flushed : BOOLEAN]]
    /\ DOMAIN map \subseteq Block /\ Cardinality(DOMAIN map) <= CacheLength
    /\ ToSet(list) = DOMAIN map /\ Len(list) = Cardinality(DOMAIN map)

\* The cache holds the blocks that were used last, as many as fit: a block gives
\* way only if CacheLength others were used after it, whatever parts of blocks
\* the calls have read and written.
KeepsRecent == list = SubSeq(recent, 1, Min({CacheLength, Len(recent)}))

\* What a byte reads as: nothing is known of a block that is not cached.
Contents(b) == IF b \in DOMAIN map THEN map[b].data ELSE NoCall.data

\* Whatever parts of blocks were written in whatever order, every block that was
\* never evicted reads as it was last written: no write disturbs the bytes beside
\* it, and a read or a flush disturbs none.
Remembers ==
    \A b \in Block \ lost : \A i \in 0..BlockSize - 1 :
        Contents(b)[i] = latest[b * BlockSize + i]

\* A step that changes what a block holds leaves it to be flushed, so that no
\* write is taken for one that has reached the disk, even if it falls on an
\* entry that had been flushed or was just made.
ChangedIsDirty ==
    [][\A b \in DOMAIN map' : map'[b].data # Contents(b) => ~map'[b].flushed]_vars

\* When flush() returns it has offered every block of the cache to the port,
\* whichever of the writes have failed.
FlushIsComplete ==
    [][flushing >= 0 /\ flushing' = -1 => \A b \in DOMAIN map' : map'[b].flushed]_vars

\* The device behind the cache: a memory of all that was written since the
\* kernel has started, which may forget only the blocks that were evicted.
Device == INSTANCE BlockDevice WITH Capacity <- CacheLength, mem <- latest

\* The cache implements the device: what a call delivers is what was written,
\* block by block, as long as no more blocks are used than the cache holds;
\* flush() changes nothing a caller can see.
ImplementsDevice == Device!Spec
=============================================================================
