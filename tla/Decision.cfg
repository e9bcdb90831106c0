SPECIFICATION Spec
CONSTANTS
  MaxP = 9
  TrendFloor = 3
  ReviewCeiling = 7
  Evidence <- MCEvidence
INVARIANTS AlarmsAreHeard InvalidNeverActs SoundRequestsAnswered AutomationNeedsOK CapOnlyByFloor RiverNeverLowers
CHECK_DEADLOCK FALSE
