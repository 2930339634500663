SPECIFICATION Spec
CONSTANTS
  vm = vm
  ox = ox
  oy = oy
  list = list
  count = count
  tick = tick
  state = state
  c1 = c1
  c2 = c2
  s1 = s1
  w1 = w1
  DepsOf <- MCDepsOf
  Done = Done
  Hole = Hole
  None = None
  RootData = vm
  Objects <- MCObjects
  Plain <- MCPlain
  InitialData <- Made
  TouchedBy <- Touches
  ValueIn <- ValueOf
  AfterRead <- Read
  CanMutate <- Possible
  MutatedBy <- Mutated
  Deps <- MCDeps
  Mutations <- MCMutations
  Lazy = {c1, c2}
  Sync = {s1}
  Async = {w1}
  WithCallback = {s1, w1}
  Deep = {s1}
  NextSource <- Getter
  ReadsMidway = FALSE
  MaxOps = 3
INVARIANTS SubscribedToDeps NothingStale
PROPERTIES CallbackOnlyIfActive ChangesReachReaders
CHECK_DEADLOCK FALSE
