SPECIFICATION Spec
CONSTANTS
  Blocks = 4
  BlockSize = 2
  CacheLength = 2
  Value = {0, 1}
  Zero = 0
  PartitionOffset = 2
  PartitionLength = 5
INVARIANTS
  TypeOK
  KeepsRecent
  Remembers
PROPERTIES
  ChangedIsDirty
  FlushIsComplete
  ImplementsDevice
\* flush() halts the kernel after its first successful write.
CHECK_DEADLOCK FALSE
