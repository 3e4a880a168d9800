SPECIFICATION Spec
CONSTANTS
  Blocks = 3
  Value = {0, 1}
  BufferBlocks = 2
  RunSizes = {1, 2}
  Slots = 2
  SPIN_COUNT = 2
  ReadCounts = {1, 3}
  ReadBytesCounts = {2}
  WriteCounts = {2}
  MaxTicks = 2
INVARIANTS
  LaterWaitsSound
  ReadDelivers
  WriteStored
  OneAtATime
PROPERTIES
  DiskChanges
  CallsReturn
\* The kernel stops when the timer's handler calls a null pointer.
CHECK_DEADLOCK FALSE
