SPECIFICATION FairSpec
CONSTANTS
  Callers = {k1}
  Creator = k1
  Pollers <- NoPollers
  Bg = bg
  None = none
  MaxRetries = 2
  Faults <- HostFails
  MaxFaults = 1
  MaxLate = 1
  Benign = TRUE
  TimeshiftAtExit = TRUE
PROPERTY CallsReturn
PROPERTY OutageEnds
CHECK_DEADLOCK FALSE
