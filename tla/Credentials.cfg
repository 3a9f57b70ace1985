SPECIFICATION Spec
CONSTANTS
  p1 = p1
  p2 = p2
  p3 = p3
  Server <- ThreeServers
  Creators <- TwoCreators
  MaxPairs = 2
  Absent = Absent
  Torn = Torn
SYMMETRY ServerSymmetry
INVARIANTS
  TypeOK
  IdentityIsStable
  FailureIsExplained
  ClientsAccepted
CHECK_DEADLOCK FALSE
