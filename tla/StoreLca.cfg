CONSTANTS
  Slots = {"s1"}
  Payloads = {p1}
  Branches = {b1}
  Times = {0}
  MaxDeletes = 20
  MaxPrune = 1
  MaxContents = 4
  MaxMoves = 2
  MaxWork = 6
SPECIFICATION Spec
CONSTRAINT Small
INVARIANT FastForwardComplete
CHECK_DEADLOCK FALSE
