SPECIFICATION FairSpec
CONSTANTS
  Objects <- MCObjects
  Enc <- MCEnc
  ReadSize = 7
  MaxSends = 3
INVARIANTS
  TypeOK
  PrefixDelivery
  NoStrandedFrame
  EofLosesNothing
PROPERTIES
  ChannelSpec
  EventualDelivery
CHECK_DEADLOCK FALSE
