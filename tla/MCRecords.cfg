SPECIFICATION Spec
CONSTANTS
  None = None
  Scenarios <- MCScenarios
  Queries <- MCQueries
  Contexts <- MCContexts
  Centers <- MCCenters
INVARIANTS IndexesExact ChangesReplay QueryPlanIndependent EarlierFacetsGone LoadersAgree EdgePathShortest
CHECK_DEADLOCK FALSE
