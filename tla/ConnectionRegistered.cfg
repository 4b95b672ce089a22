SPECIFICATION Spec
CONSTANTS
  p1 = p1
  d1 = d1
  Phones <- OnePhone
  Drivers <- OneDriver
  DriverOf <- Own
  MaxBuffer = 2
  MaxBatch = 1
  MaxSockets = 3
  MaxPings = 0
  MaxBreaks = 1
  MaxUnmounts = 0
  MaxFailures = 0
INVARIANTS
  ActiveRegistered
CHECK_DEADLOCK FALSE
