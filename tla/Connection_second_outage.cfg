SPECIFICATION FairSpec
CONSTANTS
  Callers = {k1}
  Creator = k1
  Pollers <- NoPollers
  Bg = bg
  None = none
  MaxRetries = 1
  Faults <- HostFails
  MaxFaults = 2
  MaxLate = 1
  Benign = TRUE
  TimeshiftAtExit = FALSE
PROPERTY OutageEnds
CHECK_DEADLOCK FALSE
