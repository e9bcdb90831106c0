SPECIFICATION MCSpec
CONSTANTS
  r1 = r1
  r2 = r2
  r3 = r3
  k1 = k1
  NoKey = NoKey
  Nothing = Nothing
  Requests <- MCRequests
  Keys = {k1}
  MaxExpiries = 0
INVARIANT KeyHonoured
CHECK_DEADLOCK FALSE
