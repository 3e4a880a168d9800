SPECIFICATION SpecMemory
CONSTANTS
  HeaderSize = 24
  MemoryAlign = 32
  PageLength = 128
  Request = {0, 33, 40, 104}
  MaxEnd = 310
  Levels = 3
  Fanout = 4
  PhysicalStart = 1
  MemoryHigh = 27
  WordBits = 4
  BootBits = 2
  IdentityPages = 8
  StackPages = 1
  ApicPage = 29
  HeapPage = 32
  PortFrames = 2
  MaxPorts = 3
INVARIANTS
  LiveIntact
  Accounted
  Coalesced
  Backed
  FramesApart
  Reachable
CHECK_DEADLOCK FALSE
