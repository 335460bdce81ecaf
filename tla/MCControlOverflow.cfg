CONSTANTS
  Ops = {1}
  Conns = {c1}
  Events = {"OVERFLOW"}
  LocalBase = 10
  MaxTickets = 1
  MaxRequests = 0
  MaxTaps = 1
  MaxMaint = 0
  MaxTries = 1
SPECIFICATION Spec
INVARIANT OverflowPrefixSealed
