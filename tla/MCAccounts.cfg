SPECIFICATION FairSpec
CONSTANTS
  root = root
  boss = boss
  ann = ann
  bob = bob
  g1 = g1
  g2 = g2
  p1 = p1
  p2 = p2
  p3 = p3
  p4 = p4
  Nobody = Nobody
  Users <- MCUsers
  Groups <- MCGroups
  ProjectIds <- MCProjectIds
  MaxRequests = 2
  InitialRole <- MCInitialRole
  InitialMembers <- MCInitialMembers
  InitialProjects <- MCInitialProjects
  Asked <- MCAsked
  proxy_max_retries = 1
  MaxTimeouts = 1
  MaxStops = 1
  SigningIn = {ann}
INVARIANTS
  AdmittedRoleSuffices
  CreatedOnce
  ListsAgree
PROPERTIES
  NoLostUpdates
  TokensCatchUp
  RequestsAreAudited
CHECK_DEADLOCK FALSE
