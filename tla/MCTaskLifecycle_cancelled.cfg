CONSTANTS
  t1 = t1
  Tasks <- MCTasks
  MaxRuns = 1
SPECIFICATION FairSpec
PROPERTIES
  CancelledIsFinal
CHECK_DEADLOCK FALSE
