SPECIFICATION SemanticSpec
CONSTANTS
  k = k
  watch = watch
  second = second
  model = model
  another = another
  Turns <- MCTurns
  Keys = {k}
  MaxBytes = 3
  Answers <- MCAnswers
  Identities = {model, another}
  Observers = {watch}
  Live = "live"
  Other = "other"
  PriorTurns = 1
  MaxRecords = 2
CHECK_DEADLOCK FALSE
INVARIANTS
  ReplaysUnderAnotherStream
