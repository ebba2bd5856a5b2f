SPECIFICATION InputSpec
CONSTANTS
  Servers = {"s1", "s2"}
  Subsessions = 2
  WithBody = {"DESCRIBE", "SETUP"}
  MaxRequests = 6
  Sockets = {"s1", "s2", "s3"}
  FewSockets = {"s1"}
  Tasks = {"t1", "t2", "t3"}
  Delays = {0, 1, 2}
  MaxClock = 2
  FewTasks = {"t1"}
  FewDelays = {1}
  ShortClock = 1
  Half = 4
  InitialSeq = 6
  fThresholdTime = 1
  MaxSent = 5
  SSRC = {s1, s2}
  FirstIntervals = {1, 3}
  Intervals = {2, 4}
  membershipReapPeriod = 2
  MaxCount = 5
  MaxByes = 2
  PacketLen = 4
  Bytes = 24
  Reads = {1, 2, 3, 4, 5, 7, 9, 12}
  Look = {2, 5, 11, 13}
  Places = {0, 3, 10}
  Payload = 16
  MaxLoops = 6
  MaxSections = 4
  Totals = {12, 14, 17, 45}
  Contents <- TheContents
  MaxLost = 2
  Channels <- TheChannels
  Versions = 16
  MaxTunes = 3
  Descriptions <- TheDescriptions
  Ports = {2, 3, 4, 5, 6}
  MaxOpens = 2
  TransportPacketSize = 2
  BufferSize = 5
  Payloads <- ThePayloads
  MaxAtOnce = 2
  MaxPayloads = 4
  Key = {1, 2, 3, 5}
  Value = {v1, v2}
  NULL = NULL
  SmallHashTableSize = 1
  RebuildMultiplier = 1
  Hash <- TheHash
CHECK_DEADLOCK FALSE
INVARIANT ResultIsTheServers
INVARIANT TasksInTime
INVARIANT NoSocketStarves
INVARIANT RightAcrossTheWrap
INVARIANT NobodyIsForgotten
INVARIANT PacketsIntact
INVARIANT SectionsArrive
INVARIANT TablesAreTheChannels
INVARIANT PortsAreRight
INVARIANT DataReachesBuffer
PROPERTY TableIsDictionary
