SPECIFICATION MCSpec
CONSTANTS
  Producers = {p1, p2}
  Workers = {w1}
  Capacity = 2
  TicketMod = 4
  MaxSample = 6
  Firsts = {0, 5}
  Wiped = Wiped
  SegmentFrames = 2
  QueueCapacity = 1
  FreeSlots = 2
  Users = {"user"}
  Strays = {"stray"}
  MaxEpoch = 1
  MaxFaults = 1
  MaxCalls = 1
INVARIANTS QueueSafe StreamExact StopAdmitsAtMostOne FramesCovered SavedExactly
PROPERTY FenceIsFinal
SYMMETRY ProducerSymmetry
