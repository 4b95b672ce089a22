SPECIFICATION FairSpec
CONSTANTS
  MaxToggles = 5
  MaxFailures = 2
INVARIANTS
  QuietOffline
PROPERTIES
  TracksOnline
CHECK_DEADLOCK FALSE
