SPECIFICATION MCFreshSpec
CONSTANTS
  BlockCount = 7
  FatBlocks = 1
  EntriesPerBlock = 5
  Data = {d1}
  Cleared <- Zeroes
  TailWord = 0
  Name <- Names
  Path <- FilePaths
  Sizes = {}
  Extents = {}
  Careful = TRUE
  MaxCalls = 5
INVARIANT
  RemountFindsRoot
CHECK_DEADLOCK FALSE
