SPECIFICATION FairWorkerSpec
CONSTANTS
  w1 = w1
  w2 = w2
  Workers = {w1, w2}
  Queue = 1
  MaxJobs = 3
  MaxWatches = 2
CHECK_DEADLOCK FALSE
INVARIANTS
  PendingIsWork
  ClosingIsOrderly
PROPERTIES
  WatchEnds
  JobsAreSettled
