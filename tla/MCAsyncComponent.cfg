SPECIFICATION Spec
CONSTANTS
  o1 = o1
  o2 = o2
  Owners <- MCOwners
  None = None
  MaxRequests = 3
INVARIANTS LatestWins LoadingForAll
PROPERTIES SettlesOnce TimeoutSettles
CHECK_DEADLOCK FALSE
