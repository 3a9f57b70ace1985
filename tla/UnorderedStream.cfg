SPECIFICATION UnorderedSpec
CONSTANTS
  Objects <- MCObjects
  Enc <- MCEnc
  ReadSize = 7
  MaxSends = 1
INVARIANT OnlySentObjects
CHECK_DEADLOCK FALSE
