SPECIFICATION Spec
CONSTANTS
  c1 = c1
  c2 = c2
  Cand <- TwoCands
  NoCand = NoCand
  QueueCap = 2
  WireCap = 4
  MaxAttempts = 2
  Faults = TRUE
  ReuseAfterError = TRUE
SYMMETRY CandSymmetry
INVARIANTS
  TypeOK
  WireTypesAgree
  OwnAnswer
  ServerLosesNothing
PROPERTY ExchangeSpec
CHECK_DEADLOCK FALSE
