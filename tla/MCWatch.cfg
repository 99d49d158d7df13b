SPECIFICATION FairWatchSpec
CONSTANT
  MaxLines = 3
CHECK_DEADLOCK FALSE
INVARIANTS
  NoLineSkipped
PROPERTIES
  LinesAreProjected
  CanceledWatchReturns
  RowCatchesUp
