\* Crashes and restarts with a broker that answers.
CONSTANTS
  Tickers = {t1, t2}
  HeldBefore = {t2}
  Lot = 2
  MaxOrderRetries = 3
  Bracket = FALSE
  Faults = {"db", "gate", "unqualified"}
  MaxCrashes = 2
  MaxReplans = 0
  NoTicker = NoTicker
SPECIFICATION FairSpec
INVARIANTS
  TypeOK
  AtMostOneExposedOrder
  EveryOrderAccounted
PROPERTIES
  InDoubtResolves
  KeepsPromise
CHECK_DEADLOCK FALSE
