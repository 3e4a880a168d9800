SPECIFICATION MCFreshSpec
CONSTANTS
  BlockCount = 7
  FatBlocks = 1
  EntriesPerBlock = 5
  Data = {d1}
  Cleared <- Zeroes
  TailWord = 0
  Name <- Names
  Path <- FreshPaths
  Sizes = {0}
  Extents <- FreshExtents
  Careful = TRUE
  MaxCalls = 5
INVARIANTS
  TypeOK
  TableReserved
  MetadataUntouched
  StoredSound
  UniqueNames
  ChainsDisjoint
PROPERTY
  StoredStays
CHECK_DEADLOCK FALSE
