SPECIFICATION Spec
CONSTANTS
  a = a
  b = b
  p1 = p1
  y1 = y1
  e1 = e1
  q1 = q1
  s1 = s1
  s2 = s2
  s3 = s3
  s4 = s4
  main = main
  Own = main
  ScopeOrder <- MCScopes
  ParentOf <- MCParentOf
  Detached = {}
  ScopeOf <- MCScopeOf
  Disposes = {s2}
  Initial = Initial
  Free = Free
  Refs = {a, b}
  Values = {0, 1}
  Watchers = {p1, y1, e1, q1}
  Effects = {e1, q1}
  Immediate = {y1}
  Deep = {}
  Pre = {p1}
  Post = {e1, q1}
  Sync = {y1}
  SourceOf <- Source
  CreatedIn = {"setup", "mounted", "job"}
  StopsMidway = FALSE
  Reenters = FALSE
  MaxOps = 4
INVARIANTS SeesCurrentValue ScopeStopsAll
PROPERTIES OldIsLast CleanedBeforeRerun NeverAfterStop
CHECK_DEADLOCK FALSE
