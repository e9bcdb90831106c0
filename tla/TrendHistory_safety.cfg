SPECIFICATION TrendSpec
CONSTANTS
  w1 = w1
  w2 = w2
  w3 = w3
  Writers = {w1, w2, w3}
  Times = {1, 2, 3, 4, 5}
  Limit = 2
  MaxRows = 6
SYMMETRY MCSymmetry
INVARIANTS OvershootBounded OneRowPerTime
CHECK_DEADLOCK FALSE
