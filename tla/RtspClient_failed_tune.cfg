SPECIFICATION Spec
CONSTANTS
  LoopSteps = 3
  FailedTunes <- AnyTime
PROPERTY FailedTuneSurvived
CHECK_DEADLOCK FALSE
