SPECIFICATION FairSpec
CONSTANTS
  Worker = {"w1", "w2"}
  FlushLimit = 3
  Scenarios <- MCScenarios
INVARIANTS NoMutationLost NoPhantomFrame NothingSkipped CommitOrder OutboxBounded OpenAccepts
PROPERTIES CursorMonotone Projected
