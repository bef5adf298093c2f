\* One name through one crash, under every fault, or two names without a crash.
CONSTANTS
  t1 = t1
  t2 = t2
  Tickers = {t1, t2}
  Longs = {0, 1, 2, 3}
  Shorts = {1}
  Lot = 2
  MaxUrgents = 2
  MaxOrderRetries = 2
  FaultSets = {{"crash", "unqualified", "connlost"}, {"crash", "topup"}, {"crash", "dropped"},
               {"crash", "silent"}, {"crash", "partial_cancel"}, {"crash", "blind"}, {"unqualified", "connlost"}, {"topup"},
               {"crash", "slow_entry"}, {"slow_entry"}}
  MaxCrashes = 1
  MaxBlind = 2
  NoExit = NoExit
SPECIFICATION SafeSpec
INVARIANTS
  TypeOK
  NeverOversold
PROPERTIES
  WatchEndsWithSale
  Phase0Ends
CHECK_DEADLOCK FALSE
