SPECIFICATION LiveSpec
CONSTANTS
  r1 = r1
  r2 = r2
  Requests = {r1, r2}
  MaxWorkers = 1
  Stricts = {r2}
  Unpersisted = {r2}
  EvalStatuses = {"OK", "FAIL"}
INVARIANTS NoAbandonedWorkQueued DecisionRestsOnItsStages HydrologyRestsOnTma
PROPERTIES AnswerIsFinal SeverityNeverDrops ImplementsService
CHECK_DEADLOCK FALSE
