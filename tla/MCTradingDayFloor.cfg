CONSTANTS
  x = x
  y = y
  fund = fund
  h = h
  c = c
  rival = rival
  spy = spy
  Names = {h, c, rival, spy}
  Spy = spy
  Stories <- MCStories
  Settings <- MCSettings
  MaxTrades = 1
  MaxRuns = 2
  MaxFills = 1
  Fund = fund
  Cash = cash
  Assets = {x, y}
  Asks <- MCAsks
  Grid = 400
  DayNames = {x}
  Scores <- MCScores
  Mornings <- MCMornings
  Ranged = {x}
  Tiers = {4, 2, 1}
  Targets = {0, 40}
  MaxResolves = 1
  MaxStarts = 2
  ReadNames = {h, c, rival}
  Stores <- MCStores
  Changes <- MCChanges
  TopDefault = 2
  MaxChanges = 2
SPECIFICATION DaySpec
PROPERTIES
  HardRiskSurvives
CHECK_DEADLOCK FALSE
