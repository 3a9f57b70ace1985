SPECIFICATION FairSpec
CONSTANTS
  init = init
  web = web
  dns = dns
  sock = sock
  Chan <- WebOnly
  Protocol <- MCProtocol
  Config <- MCConfig
  Qualities <- WebQualities
  Talkative <- NoChan
  ChanCap = 1
  BytesCap = 2
  MaxMsgs <- WebMaxMsgs
  Failures = FALSE
PROPERTIES
  ForwardsReceived
CHECK_DEADLOCK FALSE
