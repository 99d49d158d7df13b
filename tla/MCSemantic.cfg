SPECIFICATION SemanticSpec
CONSTANTS
  k = k
  watch = watch
  second = second
  model = model
  another = another
  Turns <- MCTurns
  Keys = {k}
  MaxBytes = 3
  Answers <- MCAnswers
  Identities = {model, another}
  Observers = {watch, second}
  Live = "live"
  Other = "other"
  PriorTurns = 1
  MaxRecords = 2
SYMMETRY Symmetry
CHECK_DEADLOCK FALSE
INVARIANTS
  AnswersFitTheTurn
  ReplayRestsOnTheLog
PROPERTIES
  EvidenceSurvives
