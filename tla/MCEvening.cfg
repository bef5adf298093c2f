\* Four sessions of strikes and audits, one revised close and one failure; and
\* two sessions of books with at most one event no sleeve explains.
CONSTANTS
  LastDay = 4
  Window = 3
  Fallback = 2
  Moves = {1, 2, 5}
  Tolerance = 1
  MaxCorrection = 3
  MaxNav = 6
  MaxRevisions = 1
  MaxFailures = 1
  Faults = {"crash", "closes", "feed", "breach", "gap", "retry", "report"}
  lively = lively
  quiet = quiet
  Tickers = {lively, quiet}
  Stories <- MCStories
  Sessions = 2
  MaxOddities = 1
  Leak = 7
  Error = 9
  Materiality = 4
  CorrectionBound = 60
  ResidualFloor = 3
  GateTolerance = 12
  ResidualBound = 6
  CumulativeBound = 9
  BasisBound = 25
SPECIFICATION EveningSpec
INVARIANTS
  EveningTypeOK
  AuditConverges
  CorrectionsCascade
  ReturnsOverPrior
  JournaledUnlessFailed
  ReleasedOnce
  MailedOnce
  ResidualIsNamed
  CorrectionMovesBoth
  MarksTrusted
  NavErrorNotExcused
  HeldThroughIsOwed
  IdleCashIsCash
CHECK_DEADLOCK FALSE
