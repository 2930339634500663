SPECIFICATION Spec
CONSTANTS
  None = None
  Components <- MCComponents
  Definition <- MCDefinition
  Pages = {"home", "list", "weak", "shut", "lost", "void", "rash"}
  Requests = {"a", "b"}
  CacheKinds <- MCCacheKinds
  Sizes = {4}
  MAX_STACK_DEPTH = 3
  MaxEvictions = 1
INVARIANTS RightHtml CacheIsRight NobodyIsStuck
CHECK_DEADLOCK FALSE
