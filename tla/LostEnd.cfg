SPECIFICATION FairSpec
CONSTANTS
  c1 = c1
  c2 = c2
  Cand <- OneCand
  NoCand = NoCand
  QueueCap = 3
  WireCap = 4
  MaxAttempts = 1
  Faults = FALSE
  ReuseAfterError = FALSE
PROPERTY ClientUpgrades
CHECK_DEADLOCK FALSE
