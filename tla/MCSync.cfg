CONSTANTS
  MaxNonces = 2
  BrokerConns = 2
  MaxWrites = 2
  MaxSeq = 2
  MaxFaults = 1
  N = 2
  MaxConns = 3
  MaxOps = 2
  MaxCrashes = 1
SPECIFICATION MCSpec
INVARIANTS BrokerSound AnsweredInFull PhoneTruth
PROPERTIES SessionRetires Transfers
CHECK_DEADLOCK FALSE
