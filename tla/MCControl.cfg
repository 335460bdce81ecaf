CONSTANTS
  Ops = {1}
  Conns = {c1}
  Events = {"FULL"}
  LocalBase = 10
  MaxTickets = 2
  MaxRequests = 2
  MaxTaps = 1
  MaxMaint = 1
  MaxTries = 1
SPECIFICATION MCSpec
INVARIANTS StartedOnce ToldIsKept DeviceOwned
PROPERTIES RepliesToAsker TapActsOnPress
