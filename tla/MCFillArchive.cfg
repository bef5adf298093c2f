\* Two sessions that use the same order id; nothing fails.
CONSTANTS
  LastDate = 2
  OrderIds = {o1}
  Requested = 2
  SweepCap = 3
  MaxFailures = 0
  NoOrder = NoOrder
SPECIFICATION Spec
INVARIANT RowsOwn
CHECK_DEADLOCK FALSE
