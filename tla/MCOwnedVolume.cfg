SPECIFICATION Spec
CONSTANTS
  MapBlocks = {0, 1}
  PagesPerBlock = 2
  BankSlots = 2
  MaxEpoch = 9
  MaxLease = 9
  MinGood = 1
  MaxBoots = 1
INVARIANTS DurableAcrossResets LayersHonest LeaseFresh
PROPERTY RetirementIsFinal
CHECK_DEADLOCK FALSE
