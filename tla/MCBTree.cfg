SPECIFICATION Spec
CONSTANTS
  Key = {1, 2, 3, 4, 5, 6}
  None = None
  LeafCap = 3
  NodeCap = 2
  OverflowPages = 2
  InlineFree = 1
  FreePageCap = 2
  ReuseModes = {TRUE, FALSE}
  Loads <- MCLoads
  MaxOps = 4
INVARIANTS ContentKept TreeShape PagesPartitioned
CHECK_DEADLOCK FALSE
