---------------------------- MODULE MCTunnelClient ----------------------------
(***************************************************************************)
(* web1 and web2 are connections to a TCP port, dns an address that sends  *)
(* to a UDP port; in the third configuration a LocalSocket is beside the   *)
(* TCP port.                                                               *)
(***************************************************************************)
EXTENDS TunnelClient, TLC

CONSTANTS http, domain, sock, web1, web2, dns
ThreePorts == {http, domain, sock}
Config(h, d, s) == (http :> h) @@ (domain :> d) @@ (sock :> s)
TcpOnly == {Config("tcp", "absent", "absent")}
UdpOnly == {Config("absent", "udp", "absent")}
AllConfigs == TcpOnly \union UdpOnly \union {Config("tcp", "absent", "local")}
AllUsers == {web1, web2, dns}
MCPortOf == (web1 :> http) @@ (web2 :> http) @@ (dns :> domain)
MCMaxInput == (web1 :> 1) @@ (web2 :> 1) @@ (dns :> 3)
SecondNeverOpens == {web2}
None == {}
BothResults == BOOLEAN
Refused == {FALSE}
=============================================================================
