SPECIFICATION CalibrationSpec
CONSTANTS
  a = a
  b = b
  Ids = {a, b}
  Project <- MCProject
  HashOrder <- MCHashOrder
  Parity <- MCParity
  PerProject = 0
  MaxBytes = 2
  Families = {"obligation", "recovery", "pollution"}
  WritePaths = {"f"}
  MaxSession = 6
  UnitCount = 4
  BatchSize = 3
  FilePlace <- MCFilePlace
  Vocabulary = {"directive", "unlabelable"}
  Records = {"r"}
  Spans <- MCSpans
  Classes = {"directive", "description"}
  Positives = {"directive"}
  MaxLabels = 2
  MaxPredictions = 3
INVARIANTS
  ScoresKeepTheirSubject
  UnitsShowTheirCycle
  ShortfallIsKnown
  ScoreIsOfTheJudgements
CHECK_DEADLOCK FALSE
