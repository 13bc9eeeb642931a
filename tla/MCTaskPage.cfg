SPECIFICATION PageSpec
CONSTANTS
  Task = t1
  t1 = t1
  docx = docx
  pptx = pptx
  Tasks <- MCTasks
  MaxRuns = 2
  Formats <- MCFormats
  Requested <- MCRequested
  MaxLoads = 2
  MaxPolls = 2
  MaxFailures = 1
INVARIANTS
  SingleRun
  ServesLatestRun
PROPERTIES
  CancelBeforeStartHolds
  ImplementsContract
  NewerExportsStay
  RunningIsFollowed
  
CHECK_DEADLOCK FALSE
