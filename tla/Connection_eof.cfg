SPECIFICATION FairSpec
CONSTANTS
  Callers = {k1}
  Creator = k1
  Pollers <- NoPollers
  Bg = bg
  None = none
  MaxRetries = 1
  Faults <- PluginCloses
  MaxFaults = 1
  MaxLate = 1
  Benign = TRUE
  TimeshiftAtExit = FALSE
PROPERTY CallsReturn
CHECK_DEADLOCK FALSE
