SPECIFICATION Spec
CONSTANTS
  j1 = j1
  j2 = j2
  Jobs = {j1, j2}
  MaxRuns = 2
  MaxCrashes = 1
  NoTraining = NoTraining
  Nothing = Nothing
SYMMETRY MCSymmetry
CHECK_DEADLOCK FALSE
INVARIANTS ServedIsOneTraining CacheIsCurrent IdleMeansLoadable
