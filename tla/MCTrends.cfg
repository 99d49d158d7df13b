SPECIFICATION TrendSpec
CONSTANTS
  p = p
  NoTarget = NoTarget
  PointerKeys = {p}
  OutcomeTurns = 2
  RollingTurns = 2
  MaxRecords = 5
  TrendTurns = 2
  MinimumBaseline = 1
  Inflations = {"good","bad"}
  MaxEpoch = 1
CHECK_DEADLOCK FALSE
INVARIANTS
  ReferencesAreSettledOnce
  TrendsFollowTheHistory
PROPERTIES
  ResetClearsBaseline
  CrossingsAreReportedOnce
