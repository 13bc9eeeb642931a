SPECIFICATION ListsSpec
CONSTANTS
  Kinds <- MCKinds
  PageNumbers = {1, 2}
  Filters <- MCFilters
  MaxActions = 2
  MaxChanges = 2
  MaxPolls = 2
  MaxFailures = 1
INVARIANT
  OwnChangesAreShown
PROPERTY
  ChangesAppear
CHECK_DEADLOCK FALSE
