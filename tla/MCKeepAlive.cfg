SPECIFICATION Spec
CONSTANTS
  a1 = a1
  b1 = b1
  c1 = c1
  x1 = x1
  z1 = z1
  top = top
  None = None
  Kinds <- MCKinds
  Tag <- MCTag
  Shows <- MCShows
  Limit <- MCLimit
  Together = FALSE
  Redirects = FALSE
  MaxOps = 5
INVARIANTS NoneLost ActiveIffShown
CHECK_DEADLOCK FALSE
