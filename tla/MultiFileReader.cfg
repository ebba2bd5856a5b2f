SPECIFICATION FairSpec
CONSTANTS
  MaxFiles = 5
  Lengths <- SomeLengths
  Keep = 2
  Names = 4
  RollsPerCall = 1
  Requests = {2}
  Moves <- SomeMoves
  MaxMoves = 1
  Tries = 2
  MaxFaults = 1
INVARIANT ListIsTrue
 
PROPERTY ZapLands
PROPERTY CatchesUp
CHECK_DEADLOCK FALSE
