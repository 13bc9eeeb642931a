CONSTANTS
  intro = intro
  findings = findings
  extra = extra
  MaxIter = 5
  ToolAttempts = 2
  Planned <- MCPlanned
  Titles <- MCTitles
  Estimate = 6
SPECIFICATION FairLoopSpec
INVARIANTS
  OutputAttempted
  SectionsAccounted
PROPERTY
  RunEnds
CHECK_DEADLOCK FALSE
