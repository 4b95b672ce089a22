SPECIFICATION BudgetSpec
CONSTANTS
  MaxWrites = 2
  MaxEvents = 3
  BurstSize = 2
INVARIANTS
  ListFresh
  MarkerSettles
PROPERTIES
  Reattaches
  JobsShown
CHECK_DEADLOCK FALSE
