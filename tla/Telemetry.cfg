SPECIFICATION FairSpec
CONSTANTS
  p1 = p1
  p2 = p2
  p3 = p3
  p4 = p4
  p5 = p5
  d1 = d1
  d2 = d2
  m1 = m1
  m2 = m2
  m3 = m3
  Drivers <- MCDrivers
  Strangers = {d2}
  Pings <- MixedPings
  Owner <- MCOwner
  Rejected = {p5}
  Unparsable = {p2}
  Messages <- MixedMessages
  Payload <- MixedPayload
  BatchSize = 2
  None = None
  MaxFailures = 1
  MaxStops = 1
INVARIANTS
  NothingForgotten
  NeverTwice
  AckedIsStored
  BatchBounded
  GeoAgrees
  RowsLatest
PROPERTIES
  PingsStored
  ShutdownEnds
