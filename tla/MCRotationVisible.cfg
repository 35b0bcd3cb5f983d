SPECIFICATION Spec
CONSTANTS
  Absent = Absent
  BatchSize = 2
  TidyOperator = TRUE
  SyncErrors = FALSE
  CrashKinds = {}
  MaxUpdates = 3
  MaxAttempts = 3
  MaxFailures = 0
  MaxCrashes = 0
INVARIANTS RowsVisible
CHECK_DEADLOCK FALSE
