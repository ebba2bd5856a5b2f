SPECIFICATION Spec
CONSTANTS
  Channels = {c1, c2, c3}
  Streams = {s1, s2}
  Recording = rec
  None = none
  Faults <- AllFaults
  RtspModes <- BothModes
INVARIANT TimesAreSafe
INVARIANT StreamIsCurrent
INVARIANT NothingLeftBehind
PROPERTY TuneReadsItsChannel
CHECK_DEADLOCK FALSE
