\* Two connections and two windows, each scene with its share of the rest.
CONSTANTS
  Peers = {"phone"}
  MaxConns = 2
  MaxWindows = 2
  MaxFaults = 1
  Restarts = TRUE
  Chunks = 1
  MaxJobs = 1
  Modes = {"RECORD", "ARM_RECORD", "POWER", "EXTERNAL", "BLE"}
  Played = {"admission", "shell", "clip", "restart", "windows"}
SPECIFICATION MCSpec
INVARIANTS Exclusive ClipsAreConsented OwnerIsBond
PROPERTY WindowLastsItsMinute
