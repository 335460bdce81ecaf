SPECIFICATION FairSpec
CONSTANTS
  SegmentFrames = 2
  QueueCapacity = 1
  Slots = 1
  Users = {"user"}
  Strays = {"stray"}
  MaxEpoch = 2
  MaxFaults = 1
  MaxCalls = 1
INVARIANT SessionsApart
PROPERTIES UnsafeFreezes StopCompletes
CHECK_DEADLOCK FALSE
