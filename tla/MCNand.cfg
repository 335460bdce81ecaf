CONSTANTS
  Rows = 2
  Polls = 2
  Selects = 2
  MaxFaults = 2
  Jobs = {"id", "features", "page0", "marker", "backup", "qualify"}
  MaxBoots = 1
  PhyFaults = 2
  PhyResets = 1
SPECIFICATION MCSpec
INVARIANTS RestoredOrHeld PhyAtRest PhyHonest
PROPERTIES ErasedWithConsent ReleasedOnCleanEnd
CHECK_DEADLOCK FALSE
