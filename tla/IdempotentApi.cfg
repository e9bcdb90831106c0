SPECIFICATION MCLiveSpec
CONSTANTS
  r1 = r1
  r2 = r2
  r3 = r3
  k1 = k1
  NoKey = NoKey
  Nothing = Nothing
  Requests <- MCRequests
  Keys = {k1}
  MaxExpiries = 1
INVARIANTS OneRunPerHour AnswersRestOnRuns
PROPERTY EveryCallAnswered
CHECK_DEADLOCK FALSE
