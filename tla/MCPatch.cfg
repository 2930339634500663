SPECIFICATION Spec
CONSTANTS
  div = div
  p = p
  Undefined = Undefined
  Kinds <- MCKinds
  Leaving = {div}
  FirstLists <- MCFirstLists
  MaxLen = 4
  MaxLeaving = 1
  MaxPatches = 1
INVARIANTS ChildrenInOrder RemovedOrReused
PROPERTIES StayInPlace
CHECK_DEADLOCK FALSE
