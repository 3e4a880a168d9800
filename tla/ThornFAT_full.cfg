SPECIFICATION MCSpec
CONSTANTS
  BlockCount = 7
  FatBlocks = 1
  EntriesPerBlock = 2
  Data = {d1}
  Cleared = d1
  TailWord = 0
  Name <- Names
  Path <- FilePaths
  Sizes = {}
  Extents = {}
  Careful = TRUE
  MaxCalls = 6
INVARIANT
  GrownDirectoryReadable
CHECK_DEADLOCK FALSE
