CONSTANTS
  Slots = {"s1"}
  Payloads = {p1}
  Branches = {b1, b2}
  Times = {0, 1}
  MaxDeletes = 20
  MaxPrune = 1
  MaxContents = 4
  MaxMoves = 3
  MaxWork = 6
SPECIFICATION Spec
CONSTRAINT Small
SYMMETRY StoreSymmetry
INVARIANTS StoreIntact ReflogExplains MergeKeepsEdits
PROPERTIES InUseKept
CHECK_DEADLOCK FALSE
