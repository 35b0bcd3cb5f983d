SPECIFICATION Spec
CONSTANTS
  Coord = {1}
  Tag = {"t"}
  Label = {"l"}
  Pruner = {"p1", "p2"}
  MaxDelete = 3
  SubBatch = 1
  ClockStepsBack = FALSE
  MaxCommits = 4
  MaxOps = 2
  MaxClock = 1
  MaxRoots = 0
INVARIANTS SnapshotsStable HeadIndexComplete TimeTravelLatest
PROPERTIES VersionsImmutable
