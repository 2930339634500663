SPECIFICATION Spec
CONSTANTS
  Views <- MCViews
  Options <- MCOptions
  Reactions <- MCReactions
  Servers <- MCServers
  MaxSteps = 5
INVARIANTS TreeIsCurrent HooksInOrder RefsAndDirectives
CHECK_DEADLOCK FALSE
