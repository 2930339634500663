SPECIFICATION Spec
CONSTANTS
  None = None
  Views = {"a", "b", "c"}
  Configs <- MCConfigs
  MaxToggles = 3
INVARIANTS SettlesAsWanted HooksPaired
CHECK_DEADLOCK FALSE
