SPECIFICATION FairSpec
CONSTANTS
  Absent = Absent
  BatchSize = 2
  TidyOperator = TRUE
  SyncErrors = FALSE
  CrashKinds = {"power"}
  MaxUpdates = 3
  MaxAttempts = 3
  MaxFailures = 1
  MaxCrashes = 2
INVARIANTS WholeDatabase RetiredStaysRetired OldFilesKept
PROPERTIES MarkerResolved
CHECK_DEADLOCK FALSE
