CONSTANTS
  Tasks = {1, 2, 3}
  Workers = {w1, w2}
  Priority <- LateIsUrgent
  MaxDeps = 2
  MaxGen = 4
SPECIFICATION Spec
SYMMETRY WorkerSymmetry
INVARIANTS TopologicalOrder StartsAfterPrereqs NeverWedged FinishAttributed
CHECK_DEADLOCK FALSE
