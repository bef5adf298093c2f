\* Two trading sessions of two orders, one failure anywhere.
CONSTANTS
  LastDate = 2
  OrderIds = {o1, o2}
  Requested = 2
  SweepCap = 1
  MaxFailures = 1
  NoOrder = NoOrder
SPECIFICATION FairSpec
INVARIANTS
  TypeOK
  LiveRowsOwn
  FilledIsComplete
PROPERTIES
  CaptureIsExact
  SweepDrains
CHECK_DEADLOCK FALSE
