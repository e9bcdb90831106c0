SPECIFICATION Spec
CONSTANTS
  c1 = c1
  c2 = c2
  w1 = w1
  w2 = w2
  w3 = w3
  NoConn = NoConn
  Conns = {c1, c2}
  Writers = {w1, w2, w3}
  MinConn = 1
  MaxConn = 2
  MaxPools = 1
  MaxOutages = 1
  MaxAttempts = 2
  Statements = 1
SYMMETRY MCSymmetry
INVARIANTS AnswerAgreesWithStore RestartSurvived ExclusiveConnections ConnectionsComeBack
CHECK_DEADLOCK FALSE
