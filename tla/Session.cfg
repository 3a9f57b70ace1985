SPECIFICATION FairSpec
CONSTANTS
  init = init
  web = web
  dns = dns
  sock = sock
  Chan <- AllChans
  Protocol <- MCProtocol
  Config <- MCConfig
  Qualities <- MCQualities
  Talkative <- MCTalkative
  ChanCap = 1
  BytesCap = 1
  MaxMsgs <- MCMaxMsgs
  Failures = TRUE
INVARIANTS
  TypeOK
  NoGap
  OnlyConfigured
PROPERTIES
  EveryChannelServed
CHECK_DEADLOCK FALSE
