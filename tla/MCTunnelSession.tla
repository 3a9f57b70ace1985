---------------------------- MODULE MCTunnelSession ----------------------------
(***************************************************************************)
(* The data channels: init, which the client makes for the offer and which *)
(* has no protocol; web, remapped, whose local service is silent; dns,     *)
(* whose port two entries of the configuration share; and sock, for a      *)
(* local socket.                                                           *)
(***************************************************************************)
EXTENDS TunnelSession, TLC

CONSTANTS init, web, dns, sock
AllChans == {init, web, dns, sock}
MCProtocol == (init :> 0) @@ (web :> 8080) @@ (dns :> 53) @@ (sock :> 9)
MCConfig == <<[kind |-> "tcp", port |-> 443, remap |-> 8080],
              [kind |-> "tcp", port |-> 53, remap |-> 0],
              [kind |-> "udp", port |-> 53, remap |-> 0],
              [kind |-> "local", port |-> 9, remap |-> 0]>>
MCQualities == {(init :> "TCP") @@ (web :> "TCP") @@ (dns :> q) @@ (sock :> "TCP") :
                  q \in {"UDP", "ReliableUnordered"}}
MCTalkative == {dns}
MCMaxMsgs == (init :> 0) @@ (web :> 2) @@ (dns :> 2) @@ (sock :> 0)

\* one TCP channel
WebOnly == {web}
WebQualities == {web :> "TCP"}
WebMaxMsgs == web :> 2
NoChan == {}
=============================================================================
