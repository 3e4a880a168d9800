SPECIFICATION MCSpec
CONSTANTS
  BlockCount = 8
  FatBlocks = 1
  EntriesPerBlock = 4
  Data = {d1}
  Cleared = d1
  TailWord = 0
  Name <- Names
  Path <- FilePaths
  Sizes = {0, 4, 12}
  Extents <- FileExtents
  Careful = TRUE
  MaxCalls = 6
INVARIANTS
  ChainsDisjoint
  ChainsSound
PROPERTIES
  NoLeakOnSuccess
  TreeSpec
CHECK_DEADLOCK FALSE
