CONSTANTS
  None = None
  M = 2
  EfC = 5
  LayerOf <- Layers
  Coords = {1, 2, 3, 4}
  Scenarios <- MCScenarios
SPECIFICATION Spec
INVARIANT SearchExact
PROPERTY PublishesCurrent
CHECK_DEADLOCK FALSE
