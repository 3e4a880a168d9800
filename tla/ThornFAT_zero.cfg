SPECIFICATION MCSpec
CONSTANTS
  BlockCount = 7
  FatBlocks = 1
  EntriesPerBlock = 4
  Data = {d1}
  Cleared = d1
  TailWord = 0
  Name <- Names
  Path <- FilePaths
  Sizes = {3}
  Extents <- ZeroExtents
  Careful = TRUE
  MaxCalls = 6
PROPERTY
  TruncateIsLocal
CHECK_DEADLOCK FALSE
