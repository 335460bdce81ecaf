SPECIFICATION Spec
CONSTANTS
  SegmentFrames = 2
  QueueCapacity = 2
  Slots = 2
  Users = {"user"}
  Strays = {}
  MaxEpoch = 1
  MaxFaults = 0
  MaxCalls = 1
INVARIANT StopRaceRejectsInput
CHECK_DEADLOCK FALSE
