SPECIFICATION FairSpec
CONSTANTS
  http = http
  domain = domain
  sock = sock
  web1 = web1
  web2 = web2
  dns = dns
  NoUser = NoUser
  Port <- ThreePorts
  Configs <- UdpOnly
  User <- AllUsers
  PortOf <- MCPortOf
  NeverOpens <- None
  BindResults <- Refused
  OutCap = 1
  ReplyCap = 2
  MaxInput <- MCMaxInput
  MaxReplies = 3
  Faults = FALSE
PROPERTY Forwards
CHECK_DEADLOCK FALSE
