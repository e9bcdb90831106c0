SPECIFICATION Spec
CONSTANTS
  w1 = w1
  w2 = w2
  Writers = {w1, w2}
  Times = {1, 2}
  Limit = 2
  MaxRows = 4
  Pinned = 1
  MaxReplays = 2
SYMMETRY MCSymmetry
INVARIANTS TypeOK PruningInvisible ReplaysExplained
CHECK_DEADLOCK FALSE
