SPECIFICATION WfSpec
CONSTANTS
  WfSteps = 3
  WfShapes <- PlainShapes
  WfRetry = 0
  WfEvery = 1
  WfMaxCalls = 2
INVARIANT WfResumesNear
CHECK_DEADLOCK FALSE
