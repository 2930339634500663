SPECIFICATION Spec
CONSTANTS
  Raws = {"base", "test", "plain", "empty", "late"}
  Written <- MCWritten
  Extendable = {"base", "test"}
  Mixable = {"plain", "empty", "late"}
  Attached = "spy"
  MaxCtors = 3
  MaxOps = 5
  None = None
INVARIANTS HooksOnceInOrder NothingLost
CHECK_DEADLOCK FALSE
