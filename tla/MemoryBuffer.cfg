SPECIFICATION FairSpec
CONSTANTS
  Capacity = 4
  MaxChunk = 3
  StreamLength = 11
  Requests <- AllRequests
INVARIANT CountIsRight
PROPERTY ReadEnds
PROPERTY FifoSpec
CHECK_DEADLOCK FALSE
