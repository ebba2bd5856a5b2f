SPECIFICATION Spec
CONSTANTS
  Callers = {k1, k2, k3}
  Creator = k1
  Pollers = {k2, k3}
  Bg = bg
  None = none
  MaxRetries = 1
  Faults <- AllFaults
  MaxFaults = 2
  MaxLate = 1
  Benign = FALSE
  TimeshiftAtExit = TRUE
INVARIANT OneOnTheWire
INVARIANT ThreadIsJoined
INVARIANT HandshakeMeetsOnlyTheLate
PROPERTY NoCloseUnderReader
CHECK_DEADLOCK FALSE
