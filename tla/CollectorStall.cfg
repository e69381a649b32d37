SPECIFICATION FairSpec
CONSTANTS
  g1 = g1
  g2 = g2
  g3 = g3
  Group <- MCGroup
  Parts <- MCParts
  EndMarked = {g1}
  Inode = {1, 2, 3}
  Chunk = 2
  Keep = 2
  Faults = {}
  MaxRotate = 0
  MaxTruncate = 0
  MaxBoot = 1
  MaxGap = 2
PROPERTIES
  CatchesUp
CHECK_DEADLOCK FALSE
