SPECIFICATION Spec
CONSTANTS
  MaxToggles = 5
  MaxFailures = 2
INVARIANTS
  SimulatesUnlinked
CHECK_DEADLOCK FALSE
