SPECIFICATION FairSpec
CONSTANTS
  http = http
  domain = domain
  sock = sock
  web1 = web1
  web2 = web2
  dns = dns
  NoUser = NoUser
  Port <- ThreePorts
  Configs <- AllConfigs
  User <- AllUsers
  PortOf <- MCPortOf
  NeverOpens <- SecondNeverOpens
  BindResults <- BothResults
  OutCap = 1
  ReplyCap = 2
  MaxInput <- MCMaxInput
  MaxReplies = 3
  Faults = TRUE
INVARIANTS
  TypeOK
  NoReplyLost
  ClosesOnlyOnCtrlC
PROPERTIES
  CtrlCReturns
  FailureReturns
  ConnectionServed
  DatagramPlaced
CHECK_DEADLOCK FALSE
