SPECIFICATION Spec
CONSTANTS
  p1 = p1
  p2 = p2
  p3 = p3
  p4 = p4
  p5 = p5
  d1 = d1
  d2 = d2
  m1 = m1
  m2 = m2
  m3 = m3
  Drivers <- MCDrivers
  Strangers = {}
  Pings <- MCPings
  Owner <- MCOwner
  Rejected = {}
  Unparsable = {}
  Messages <- MCMessages
  Payload <- MCPayload
  BatchSize = 2
  None = None
  MaxFailures = 0
  MaxStops = 0
INVARIANTS
  MicroBatches
