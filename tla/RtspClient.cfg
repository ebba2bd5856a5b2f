SPECIFICATION FairSpec
CONSTANTS
  LoopSteps = 10
  FailedTunes <- WhilePaused
INVARIANT ThreadsApart
INVARIANT PauseAgrees
PROPERTY CallsReturn
CHECK_DEADLOCK FALSE
