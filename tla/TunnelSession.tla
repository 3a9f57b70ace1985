----------------------------- MODULE TunnelSession -----------------------------
(***************************************************************************)
(* The tunnel's server after an upgrade: the on_success callback of        *)
(* webrtc-tunnel/src/server.rs takes the data channels its client opens,   *)
(* one after the other, and connects each to the local port its protocol   *)
(* names.  The on_data_channel callback that hands them over is that of    *)
(* upgrade2webrtc/src/server.rs.                                           *)
(*                                                                         *)
(* The messages a client sends on a data channel are numbered from 1.      *)
(***************************************************************************)
EXTENDS Integers, Sequences

CONSTANTS
  Chan,        \* the data channels the client opens
  Protocol,    \* the protocol field of each
  Config,      \* the configured channels: kind, port and remap (0: none)
  Qualities,   \* the qualities the client's configuration may give them
  Talkative,   \* channels whose local service sends something, or closes
  ChanCap,     \* capacity of the mpsc channel of data channels (1 in the code)
  BytesCap,    \* capacity of the mpsc channel of messages (2 in the code)
  MaxMsgs,     \* bound: how many messages the client sends on each channel
  Failures     \* whether sockets and the peer connection may fail

ASSUME SessionAssumption ==
  /\ Config \in Seq([kind : {"udp", "tcp", "local"}, port : Nat, remap : Nat])
  /\ Qualities \subseteq [Chan -> {"UDP", "TCP", "ReliableUnordered"}] /\ Talkative \subseteq Chan
  /\ ChanCap \in Nat \ {0} /\ BytesCap \in Nat \ {0} /\ MaxMsgs \in [Chan -> Nat]
  /\ Failures \in BOOLEAN

VARIABLES
  quality,   \* the quality of each data channel
  stage,     \* what became of each data channel
  chanQ,     \* channels_recv
  session,   \* on_success: in channels_recv.recv(), busy, ended or panicked
  gone,      \* whether the peer connection is closed
  wire,      \* messages of each data channel that its read loop has not dispatched
  bytesQ,    \* bytes_recv of each
  sent,      \* history: how many messages the client has sent on each
  written,   \* history: the messages written to the local socket
  lost       \* history: the messages that were received and dropped

dataVars == <<wire, bytesQ, sent, written, lost>>
vars == <<quality, stage, chanQ, session, gone, dataVars>>

-----------------------------------------------------------------------------
(* allowed_channels: a later entry replaces an earlier one with its key     *)

Key(entry) == IF entry.remap = 0 THEN entry.port ELSE entry.remap
Matches(p) == {i \in DOMAIN Config : Key(Config[i]) = p}
Entry(p) == Config[CHOOSE i \in Matches(p) : \A j \in Matches(p) : j <= i]

\* mutant: what has no entry is taken for a TCP port
TcpByDefault(ch) == IF Matches(Protocol[ch]) = {} THEN "tcp" ELSE Entry(Protocol[ch]).kind
Kind(ch) == IF Matches(Protocol[ch]) = {} THEN "unknown" ELSE Entry(Protocol[ch]).kind

\* Quality's RTCDataChannelInit: whether messages stay in order, and whether they
\* are sent again when lost
Ordered(ch) == quality[ch] = "TCP"
Reliable(ch) == quality[ch] # "UDP"

Init ==
  /\ quality \in Qualities
  /\ stage = [ch \in Chan |-> "unopened"]
  /\ chanQ = <<>> /\ session = "recv" /\ gone = FALSE
  /\ wire = [ch \in Chan |-> <<>>] /\ bytesQ = [ch \in Chan |-> <<>>]
  /\ sent = [ch \in Chan |-> 0] /\ written = [ch \in Chan |-> <<>>] /\ lost = [ch \in Chan |-> {}]

Goto(ch, st) == stage' = [stage EXCEPT ![ch] = st]

-----------------------------------------------------------------------------
(* The client and the peer connection (webrtc-rs) *)

\* A data channel arrives, and the on_data_channel callback is called for it
OpenChannel(ch) ==
  /\ stage[ch] = "unopened" /\ ~gone
  /\ Goto(ch, "callback")
  /\ UNCHANGED <<quality, chanQ, session, gone, dataVars>>

ClientSends(ch) ==
  /\ stage[ch] # "unopened" /\ ~gone /\ sent[ch] < MaxMsgs[ch]
  /\ sent' = [sent EXCEPT ![ch] = @ + 1]
  /\ wire' = [wire EXCEPT ![ch] = Append(@, sent[ch] + 1)]
  /\ UNCHANGED <<quality, stage, chanQ, session, gone, bytesQ, written, lost>>

\* What may arrive next: on an unordered channel, any of the messages
Arriving(ch) == IF Ordered(ch) THEN DOMAIN wire[ch] \intersect {1} ELSE DOMAIN wire[ch]
Remove(ch, i) ==
  wire' = [wire EXCEPT ![ch] = SubSeq(@, 1, i - 1) \o SubSeq(@, i + 1, Len(@))]

\* The network loses a message of a channel that does not retransmit
NetworkLoses(ch) ==
  /\ ~Reliable(ch)
  /\ \E i \in DOMAIN wire[ch] : Remove(ch, i)
  /\ UNCHANGED <<quality, stage, chanQ, session, gone, bytesQ, sent, written, lost>>

\* mutant: the handler does not wait for room
Unbounded(ch) == TRUE
HasRoom(ch) == Len(bytesQ[ch]) < BytesCap

\* mutant: try_send for send().await, which drops what finds no room
DropsAlso(ch) == stage[ch] # "transfer" \/ Len(bytesQ[ch]) = BytesCap
NoReceiver(ch) == stage[ch] # "transfer"

\* The read loop of a data channel dispatches a message: to the handler, which
\* waits for room, or to nobody, before the handler is set and after its
\* receiver is dropped
Dispatch(ch) ==
  \E i \in Arriving(ch) :
    /\ Remove(ch, i)
    /\ \/ /\ stage[ch] = "transfer" /\ HasRoom(ch)
          /\ bytesQ' = [bytesQ EXCEPT ![ch] = Append(@, wire[ch][i])]
          /\ UNCHANGED lost
       \/ /\ NoReceiver(ch)
          /\ lost' = [lost EXCEPT ![ch] = @ \union {wire[ch][i]}]
          /\ UNCHANGED bytesQ
    /\ UNCHANGED <<quality, stage, chanQ, session, gone, sent, written>>

\* mutant: try_send in on_data_channel
GoneOrFull == session \in {"ended", "panicked"} \/ Len(chanQ) = ChanCap
SessionGone == session \in {"ended", "panicked"}

\* on_data_channel's callback: once the data channel is open, or failed to
\* open, it is sent to on_success, which may be gone
QueueChannel(ch) ==
  /\ stage[ch] = "callback"
  /\ \/ /\ ~SessionGone /\ Len(chanQ) < ChanCap
        /\ chanQ' = Append(chanQ, ch) /\ Goto(ch, "queued")
     \/ /\ SessionGone
        /\ Goto(ch, "dropped") /\ UNCHANGED chanQ
  /\ UNCHANGED <<quality, session, gone, dataVars>>

\* The client is gone: its data channels end and nothing more arrives
PeerCloses ==
  /\ Failures /\ ~gone
  /\ gone' = TRUE
  /\ UNCHANGED <<quality, stage, chanQ, session, dataVars>>

-----------------------------------------------------------------------------
(* on_success *)

\* channels_recv.recv() returns a data channel: one without an entry in
\* allowed_channels is closed, one for a local socket forgotten
TakeChannel ==
  /\ session = "recv" /\ chanQ # <<>>
  /\ chanQ' = Tail(chanQ)
  /\ LET ch == Head(chanQ) IN
     \/ Kind(ch) = "unknown" /\ Goto(ch, "closed") /\ UNCHANGED session
     \/ Kind(ch) = "local" /\ Goto(ch, "forgotten") /\ UNCHANGED session
     \/ Kind(ch) \in {"udp", "tcp"} /\ Goto(ch, "connecting") /\ session' = "busy"
  /\ UNCHANGED <<quality, gone, dataVars>>

\* The local socket is connected; only now on_message is set
Connected(ch) ==
  /\ stage[ch] = "connecting"
  /\ Goto(ch, "transfer")
  /\ UNCHANGED <<quality, chanQ, session, gone, dataVars>>

\* The end of a channel's only transfer: the socket and bytes_recv are dropped
EndTransfer(ch, rest) ==
  /\ Goto(ch, "done") /\ session' = "recv"
  /\ lost' = [lost EXCEPT ![ch] = @ \union {rest[i] : i \in DOMAIN rest}]
  /\ bytesQ' = [bytesQ EXCEPT ![ch] = <<>>]
  /\ UNCHANGED <<quality, chanQ, gone, wire, sent>>

\* select!, one branch: a message from the client is written to the socket
TransferIn(ch) ==
  /\ stage[ch] = "transfer" /\ bytesQ[ch] # <<>>
  /\ written' = [written EXCEPT ![ch] = Append(@, Head(bytesQ[ch]))]
  /\ EndTransfer(ch, Tail(bytesQ[ch]))

\* the other branch: what the socket returned, or its end, is sent to the client
TransferOut(ch) ==
  /\ stage[ch] = "transfer"
  /\ EndTransfer(ch, bytesQ[ch])
  /\ UNCHANGED written

\* bind, connect, a read or a write fails, or the data channel's send: on_success
\* panics, and what it held is dropped
SocketFails(ch) ==
  /\ Failures /\ stage[ch] \in {"connecting", "transfer"}
  /\ session' = "panicked" /\ chanQ' = <<>>
  /\ stage' = [c \in Chan |-> IF c = ch \/ stage[c] = "queued" THEN "dropped" ELSE stage[c]]
  /\ lost' = [lost EXCEPT ![ch] = @ \union {bytesQ[ch][i] : i \in DOMAIN bytesQ[ch]}]
  /\ bytesQ' = [bytesQ EXCEPT ![ch] = <<>>]
  /\ UNCHANGED <<quality, gone, wire, sent, written>>

\* recv() returns None: the callback, which holds the sender, is gone
SessionEnds ==
  /\ session = "recv" /\ chanQ = <<>> /\ gone /\ \A ch \in Chan : stage[ch] # "callback"
  /\ session' = "ended"
  /\ UNCHANGED <<quality, stage, chanQ, gone, dataVars>>

-----------------------------------------------------------------------------
Next ==
  \/ PeerCloses \/ TakeChannel \/ SessionEnds
  \/ \E ch \in Chan :
       \/ OpenChannel(ch) \/ ClientSends(ch) \/ Dispatch(ch) \/ NetworkLoses(ch)
       \/ QueueChannel(ch)
       \/ Connected(ch) \/ TransferIn(ch) \/ TransferOut(ch) \/ SocketFails(ch)
Spec == Init /\ [][Next]_vars

\* tokio runs on_success, the callbacks and the read loops; callbacks waiting
\* for room are served in turn; a Talkative service ends the transfer
Fairness ==
  /\ WF_vars(TakeChannel)
  /\ \A ch \in Chan :
       /\ SF_vars(QueueChannel(ch)) /\ WF_vars(Connected(ch))
       /\ WF_vars(Dispatch(ch)) /\ WF_vars(TransferIn(ch))
  /\ \A ch \in Talkative : WF_vars(TransferOut(ch))
FairSpec == Spec /\ Fairness

-----------------------------------------------------------------------------
Stages == {"unopened", "callback", "queued", "connecting", "transfer", "done", "closed",
           "forgotten", "dropped"}

\* The state is well formed, and both mpsc channels within their capacities
\* (upgrade2webrtc server.rs:176-197, webrtc-tunnel server.rs:59-186).
TypeOK ==
  /\ quality \in Qualities
  /\ stage \in [Chan -> Stages]
  /\ chanQ \in Seq(Chan) /\ Len(chanQ) <= ChanCap
  /\ session \in {"recv", "busy", "ended", "panicked"} /\ gone \in BOOLEAN
  /\ \A ch \in Chan :
       /\ wire[ch] \in Seq(1..MaxMsgs[ch]) /\ sent[ch] \in 0..MaxMsgs[ch]
       /\ bytesQ[ch] \in Seq(1..MaxMsgs[ch]) /\ Len(bytesQ[ch]) <= BytesCap
       /\ written[ch] \in Seq(1..MaxMsgs[ch]) /\ lost[ch] \subseteq 1..MaxMsgs[ch]

\* While the transfer of an ordered channel waits, it holds the client's latest messages
\* without a gap, however many came at once, and what it writes is the first
\* of them: only what came before the handler is lost (webrtc-tunnel
\* server.rs:86-94, 113-126, 142-151, 170-180).
NoGap ==
  \A ch \in Chan : Ordered(ch) =>
    LET held == bytesQ[ch] \o wire[ch] IN
    /\ stage[ch] = "transfer" => \A i \in DOMAIN held : held[i] = sent[ch] - Len(held) + i
    /\ written[ch] # <<>> => 1..(written[ch][1] - 1) \subseteq lost[ch]

\* Whatever the client puts into a data channel's protocol, a local port is
\* contacted only for a protocol with an entry of the configuration
\* (webrtc-tunnel server.rs:68-71).
OnlyConfigured ==
  \A ch \in Chan : stage[ch] \in {"connecting", "transfer", "done"} =>
    \E i \in DOMAIN Config : Key(Config[i]) = Protocol[ch] /\ Config[i].kind \in {"udp", "tcp"}

\* A data channel the client opened is taken up, unless on_success panicked or
\* is waiting for ever on an earlier one whose two ends stay silent
\* (webrtc-tunnel server.rs:64-185, upgrade2webrtc server.rs:180-197).
EveryChannelServed ==
  \A ch \in Chan :
    (stage[ch] = "callback") ~>
      \/ stage[ch] \in {"transfer", "done", "closed", "forgotten"}
      \/ session = "panicked"
      \/ \E c \in Chan \ Talkative : stage[c] = "transfer"

-----------------------------------------------------------------------------
(* What the tool's description says and the code does not do *)

\* "A tool to form peer-to-peer port forwarding over WebRTC"
\* (webrtc-tunnel/Cargo.toml:6): with nothing failing, a message that has reached
\* its handler is written to the local port.
ForwardsReceived ==
  \A ch \in Chan : \A k \in 1..MaxMsgs[ch] :
    (\E i \in DOMAIN bytesQ[ch] : bytesQ[ch][i] = k) ~> (\E i \in DOMAIN written[ch] : written[ch][i] = k)
=============================================================================
