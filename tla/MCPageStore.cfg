SPECIFICATION Spec
CONSTANTS
  Page = {1, 2, 3, 4}
  PageSize = 2
  MaxSize = 5
  Reader = {"r1"}
  Scenarios <- MCScenarios
INVARIANTS ReadsCommitted  CacheSound
CHECK_DEADLOCK FALSE
