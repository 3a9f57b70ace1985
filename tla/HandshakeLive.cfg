SPECIFICATION FairSpec
CONSTANTS
  c1 = c1
  c2 = c2
  Cand <- OneCand
  NoCand = NoCand
  QueueCap = 1
  WireCap = 3
  MaxAttempts = 2
  Faults = FALSE
  ReuseAfterError = FALSE
PROPERTIES
  UpgradeReturns
  ServerFollows
CHECK_DEADLOCK FALSE
