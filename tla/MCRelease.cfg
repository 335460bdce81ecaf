\* Clips over the air and captures of the shell, under fairness.
CONSTANTS
  Peers = {"phone"}
  MaxConns = 2
  MaxWindows = 1
  MaxFaults = 1
  Restarts = TRUE
  Chunks = 1
  MaxJobs = 1
  Modes = {"RECORD", "ARM_RECORD", "POWER", "EXTERNAL", "BLE"}
  Played = {"capture", "clip"}
SPECIFICATION MCFairSpec
PROPERTIES DeviceReleased NothingLeaks
