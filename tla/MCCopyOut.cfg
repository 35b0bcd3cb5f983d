SPECIFICATION FairSpec
CONSTANTS
  Absent = Absent
  Empty = Empty
  NoCheckpoint = NoCheckpoint
  None = None
  NoCall = NoCall
  Key = {1, 2, 3, 4}
  LogKey = {1}
  Owner <- MCOwner
  BatchSize = 2
  MaxEdits = 3
  MaxFailures = 2
  MaxCrashes = 2
INVARIANTS WholeCopy CheckpointTrue
PROPERTIES MigrationEnds
