CONSTANTS
  None = None
  M = 2
  EfC = 5
  LayerOf <- Crowded
  Coords = {1, 2, 3, 4, 5}
  Scenarios <- CrowdedScenario
SPECIFICATION Spec
INVARIANT DeletedIsUnlinked
CHECK_DEADLOCK FALSE
