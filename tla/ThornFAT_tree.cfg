SPECIFICATION MCSpec
CONSTANTS
  BlockCount = 7
  FatBlocks = 1
  EntriesPerBlock = 4
  Data = {d1}
  Cleared = d1
  TailWord = 0
  Name <- Names
  Path <- TreePaths
  Sizes = {}
  Extents = {}
  Careful = TRUE
  MaxCalls = 6
INVARIANTS
  ChainsDisjoint
  ChainsSound
  RootCoherent
  DirectoriesHeaded
PROPERTIES
  NoLeakOnSuccess
  TreeSpec
CHECK_DEADLOCK FALSE
