SPECIFICATION FairSpec
CONSTANTS
  g1 = g1
  g2 = g2
  g3 = g3
  Group <- LiveGroup
  Parts <- LiveParts
  EndMarked = {g1}
  Inode = {1, 2, 3}
  Chunk = 4
  Keep = 2
  Faults = {}
  MaxRotate = 2
  MaxTruncate = 1
  MaxBoot = 2
  MaxGap = 2
INVARIANTS
  NoSilentGap
PROPERTIES
  NoUncountedRewind
  CatchesUp
CHECK_DEADLOCK FALSE
