SPECIFICATION FairSpec
CONSTANTS
  k1 = k1
  k2 = k2
  k3 = k3
  Conn <- ThreeConns
  Silent <- OneSilent
  NoConn = NoConn
  Panics = TRUE
INVARIANTS
  TypeOK
  NoTaskOutlivesRun
  NoPeerLeaked
PROPERTIES
  CloseReturns
  EventuallyAccepted
CHECK_DEADLOCK FALSE
