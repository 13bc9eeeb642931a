SPECIFICATION Spec
CONSTANTS
  r1 = r1
  r2 = r2
  Requests <- MCTwoRequests
  Threshold = 2
  Recovery = 2
  Max429 = 2
  Max5xx = 1
SYMMETRY Symmetry
INVARIANTS
  ClosedBelowThreshold
  AttemptsBounded
PROPERTY
  FollowsAutomaton
