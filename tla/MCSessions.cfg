CONSTANTS
  MaxRequests = 2
  Roles <- MCRoles
  FirstRole = "project_admin"
  MaxPairs = 2
  MaxEvents = 1
SPECIFICATION FairSpec
INVARIANTS
  OneRefresh
PROPERTIES
  NewTokensMatchAccount
  RefreshEnds
  LoggedOutIsRefused
