SPECIFICATION FairSpec
CONSTANTS
  d1 = d1
  c1 = c1
  c2 = c2
  Docs <- MCDocs
  Clients <- MCClients
  MaxRuns = 3
  MaxFaults = 1
INVARIANTS
  ReadyHasNewestChunks
  ReadyIsReadable
  NoOrphanChunks
PROPERTY
  DocumentSettles
CHECK_DEADLOCK FALSE
