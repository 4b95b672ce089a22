SPECIFICATION BudgetSpec
CONSTANTS
  p1 = p1
  d1 = d1
  Phones <- OnePhone
  Drivers <- OneDriver
  DriverOf <- Own
  MaxBuffer = 2
  MaxBatch = 1
  MaxSockets = 3
  MaxPings = 3
  MaxBreaks = 1
  MaxUnmounts = 1
  MaxFailures = 1
INVARIANTS
  PingsAccounted
  OneSocket
  HeartbeatRuns
  WillReconnect
  RowAgrees
  PingsInOrder
PROPERTIES
  Reconnects
  PingsLeave
CHECK_DEADLOCK FALSE
