----------------------------- MODULE ObjectChannel -----------------------------
(***************************************************************************)
(* What UpgradeTransport (upgrade2webrtc/src/transport.rs:12-27) promises  *)
(* to its callers, and what UpgradeHandshake takes for granted of each     *)
(* direction of a connection: a FIFO channel of objects on which nothing   *)
(* is lost, doubled, changed or overtaken, and whose end is reported only  *)
(* after every object whose send_obj returned Ok.                          *)
(***************************************************************************)
EXTENDS Naturals, Sequences

CONSTANT Objects

VARIABLES
  sent, acked,  \* the objects passed to send_obj; how many calls returned Ok
  received,     \* the objects that recv_obj returned
  end           \* the error that recv_obj returned last, or "open"

vars == <<sent, acked, received, end>>

Init == sent = <<>> /\ acked = 0 /\ received = <<>> /\ end = "open"

\* One send_obj at a time
Send(o) ==
  /\ acked = Len(sent) /\ end # "eof"
  /\ sent' = Append(sent, o)
  /\ UNCHANGED <<acked, received, end>>
Return ==
  /\ acked < Len(sent) /\ end # "eof"
  /\ acked' = acked + 1
  /\ UNCHANGED <<sent, received, end>>

Receive ==
  /\ Len(received) < Len(sent) /\ end = "open"
  /\ received' = Append(received, sent[Len(received) + 1])
  /\ UNCHANGED <<sent, acked, end>>
Fail ==
  /\ end = "open"
  /\ \/ end' = "io_error"
     \/ end' = "eof" /\ Len(received) >= acked
  /\ UNCHANGED <<sent, acked, received>>

Next == (\E o \in Objects : Send(o)) \/ Return \/ Receive \/ Fail
Spec == Init /\ [][Next]_vars
=============================================================================
