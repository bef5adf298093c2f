\* Nothing fails: a bracket entry meets a market order that is slow to fill.
CONSTANTS
  Tickers = {t1}
  HeldBefore = {}
  Lot = 2
  MaxOrderRetries = 3
  Bracket = TRUE
  Faults = {}
  MaxCrashes = 0
  MaxReplans = 0
  NoTicker = NoTicker
SPECIFICATION Spec
PROPERTY NoRetryOfLiveOrder
CHECK_DEADLOCK FALSE
