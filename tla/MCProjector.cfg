SPECIFICATION ProjectorSpec
CONSTANTS
  s = s
  f = f
  NoContent = NoContent
  NoKey = NoKey
  Nil = Nil
  Sentences = {s}
  ScopeSentences = {s}
  ContentKeys = {}
  ContentOf <- MCContentOf
  Caps = {"released"}
  MaxCandidates = 1
  Paths = {f}
  FileKeys = {f}
  Durability = 2
  OutcomeTurns = 2
  RollingTurns = 2
  MinimumBaseline = 1
  ThrashDepth = 2
  RepeatedWarn = 1
  DriftWindow = 2
  MaxRecords = 4
  MaxEpoch = 1
CHECK_DEADLOCK FALSE
INVARIANTS
  RecoveryMeansOpenEpisode
  ViolationHasItsEpisode
  OneCorrectionMarkPerTurn
PROPERTIES
  NothingOutlivesItsEpoch
