SPECIFICATION SpoolSpec
CONSTANTS
  e1 = e1
  e2 = e2
  e3 = e3
  Event <- SpoolEvent
  time <- SpoolTime
  size <- SpoolSize
  Oversized = {}
  Limit = 3
  BatchMax = 2
  BatchBytes = 2
  Skew = 1
  Retentions = {2}
  CleanupMax = 1
  MaxChunk = 2
  MaxGap = 1
  MaxToken = 0
  MaxLate = 1
  MaxNow = 1
INVARIANTS
  TypeOK
  QueueWithinLimit
  LossIsCounted
  RequestsAreBackedUp
PROPERTIES
  ImplementsAuditTrail
