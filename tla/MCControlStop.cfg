CONSTANTS
  Ops = {1}
  Conns = {c1}
  Events = {}
  LocalBase = 10
  MaxTickets = 1
  MaxRequests = 1
  MaxTaps = 1
  MaxMaint = 0
  MaxTries = 0
SPECIFICATION FairSpec
PROPERTY StopEnds
