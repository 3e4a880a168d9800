SPECIFICATION Spec
CONSTANTS
  Thread = {1, 2, 3, 4}
  ThreadID <- OwnID
  MaxHeld = 3
  Reenter = FALSE
INVARIANTS
  MutualExclusion
  DepthCounts
  NoAssertionFails
