SPECIFICATION Spec
CONSTANTS
  Callers = {k1}
  Creator = k1
  Pollers <- NoPollers
  Bg = bg
  None = none
  MaxRetries = 1
  Faults <- PluginCloses
  MaxFaults = 1
  MaxLate = 1
  Benign = FALSE
  TimeshiftAtExit = FALSE
INVARIANT NoThreadWaitsForItself
CHECK_DEADLOCK FALSE
