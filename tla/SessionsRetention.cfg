SPECIFICATION Spec
CONSTANTS
  s1 = s1
  s2 = s2
  Session <- OneSession
  number <- OneNumber
  BatchMax = 1
  Can = {TRUE}
  Ages = {"start","end","result","cmd"}
  MaxCmd = 1
  MaxLate = 1
  MaxBoot = 1
INVARIANTS
  TablesAreTrue
  SucceededIsEnded
PROPERTIES
  AnswerIsFinal
  NeverReopened
