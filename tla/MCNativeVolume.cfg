SPECIFICATION Spec
CONSTANTS
  Recs = {r1, r2}
  Ops = {o1, o2}
  Roots = 2
  Slots = 3
  DataPages = 1
  SlotsPerPage = 2
  TombPages = 2
  TombsPerPage = 1
  MaxBoots = 1
  MaxKeyResets = 1
SYMMETRY Symmetry
INVARIANTS
  Mountable
  PromisesKept
  RamAgrees
  DeleteOnce
  ReceiptsHonest
CHECK_DEADLOCK FALSE
