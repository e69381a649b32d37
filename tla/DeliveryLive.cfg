SPECIFICATION SceneSpec
CONSTANTS
  e1 = e1
  e2 = e2
  e3 = e3
  Event <- SpoolEvent
  time <- SceneTime
  size <- SceneSize
  Oversized <- SceneOver
  Limit = 3
  BatchMax = 2
  BatchBytes = 2
  Skew = 1
  Retentions = {1, 2}
  CleanupMax = 1
  MaxChunk = 1
  MaxGap = 1
  MaxToken = 1
  MaxLate = 1
  MaxNow = 2
PROPERTIES
  HeldIsRecorded
  RetentionIsEnforced
  GapWarningSticks
