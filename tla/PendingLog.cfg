CONSTANTS
  Sessions = {"s1"}
  Branches = {"heads/b1"}
  Slots = {x1, x2}
  SessionOf <- OneSession
  Generations = {0, 1}
  Answers = {"success"}
  Directions = {"unknown-reconciled"}
  MaxOpen = 2
  MaxRecent = 1
  MaxMint = 3
  MaxHeads = 1
  MaxEpoch = 2
  MaxClock = 1
  MaxEffects = 3
SPECIFICATION Spec
SYMMETRY SlotSymmetry
INVARIANTS UnsettledNamed RecordsTruthful
CHECK_DEADLOCK FALSE
