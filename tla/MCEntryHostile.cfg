\* Everything may fail but the trades database; a planner re-runs mid-session.
CONSTANTS
  Tickers = {t1}
  HeldBefore = {}
  Lot = 2
  MaxOrderRetries = 2
  Bracket = TRUE
  Faults = {"silent", "partial_cancel", "unqualified", "unreadable", "connlost", "gate"}
  MaxCrashes = 1
  MaxReplans = 1
  NoTicker = NoTicker
SPECIFICATION Spec
PROPERTIES
  LoggedFillNotRebought
CHECK_DEADLOCK FALSE
