SPECIFICATION FairSpec
CONSTANTS
  s1 = s1
  s2 = s2
  Session <- TwoSessions
  number <- SameNumber
  BatchMax = 1
  Can = {TRUE}
  Ages = {}
  MaxCmd = 1
  MaxLate = 0
  MaxBoot = 2
PROPERTIES
  KillsOnlyAsked
  GoneIsNotShownActive
  ImplementsSessionRegister
