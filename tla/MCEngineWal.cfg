SPECIFICATION FairSpec
CONSTANTS
  Page = {1, 2}
  WalSlots = 3
  Scenarios <- MCScenarios
  MaxPending = 2
INVARIANTS ReadersSeeCommitted RootPinned AckedIsDurable WriteOrder
PROPERTIES Refinement Answered
CHECK_DEADLOCK FALSE
