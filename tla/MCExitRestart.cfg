\* Two urgent exits and one crash: nothing else fails.
CONSTANTS
  t1 = t1
  t2 = t2
  Tickers = {t1, t2}
  Longs = {0, 2}
  Shorts = {}
  Lot = 1
  MaxUrgents = 2
  MaxOrderRetries = 2
  FaultSets = {{"crash", "several"}}
  MaxCrashes = 1
  MaxBlind = 2
  NoExit = NoExit
SPECIFICATION Spec
INVARIANTS
  NeverShort
CHECK_DEADLOCK FALSE
