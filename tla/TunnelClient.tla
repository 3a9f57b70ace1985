----------------------------- MODULE TunnelClient -----------------------------
(***************************************************************************)
(* client_command of webrtc-tunnel/src/client.rs: once the connection is   *)
(* upgraded, one forwarder task per configured port takes the TCP          *)
(* connections or UDP datagrams of local programs, opens a data channel    *)
(* for each connection or source address, and spawns a link task that      *)
(* carries bytes and replies.  The main task waits for Ctrl-C or for a     *)
(* forwarder that ends.                                                    *)
(*                                                                         *)
(* A user is a TCP connection, or a source address of UDP datagrams.  What *)
(* it sends (a byte, a datagram) is numbered from 1, and so are the        *)
(* replies on its data channel in the order in which they arrive.          *)
(***************************************************************************)
EXTENDS Integers, Sequences

CONSTANTS
  Port,         \* the ports
  Configs,      \* the configurations to consider: the kind of each port
  User, PortOf, \* local programs and the port each of them uses
  NoUser,
  NeverOpens,   \* users whose data channel never opens
  BindResults,  \* whether bind succeeds on an address the forwarder has bound
  OutCap,       \* capacity of an address's channel of datagrams (3 in the code)
  ReplyCap,     \* capacity of a link's channel of replies (2 in the code)
  MaxInput,     \* bound: how much each user sends
  MaxReplies,   \* bound: the replies on a data channel
  Faults        \* whether sockets and WebRTC calls may fail

ASSUME ClientAssumption ==
  /\ PortOf \in [User -> Port] /\ NeverOpens \subseteq User /\ NoUser \notin User
  /\ Configs \subseteq [Port -> {"tcp", "udp", "local", "absent"}]
  /\ BindResults \in SUBSET BOOLEAN \ {{}} /\ Faults \in BOOLEAN
  /\ OutCap \in Nat \ {0} /\ ReplyCap \in Nat \ {0} /\ MaxInput \in [User -> Nat] /\ MaxReplies \in Nat

VARIABLES
  kind,       \* the kind of each port
  main,       \* client_command: in its select!, closing, joining, returned
  ctrlC,      \* the ctrl_c future; "broken" once it returned an error
  peer,       \* the peer connection
  fwd,        \* each forwarder
  serving,    \* the user it is busy with
  entry,      \* the users in existing_channel_senders
  dc,         \* each user's data channel
  link,       \* its link task, or where the connection is before that
  outQ,       \* listener_bytes_receiver
  todo,       \* the bytes that the link task has read and not sent
  replies,    \* webrtc_bytes_recv; history: how many arrived, which were written
  input,      \* history: how much the user has sent
  taken,      \* history: how much of it the code has read
  forwarded   \* history: which of it was sent on the data channel

mainVars == <<kind, main, ctrlC, peer>>
fwdVars == <<fwd, serving, entry>>
sendVars == <<outQ, todo, taken, forwarded>>
vars == <<mainVars, fwdVars, dc, link, sendVars, replies, input>>

Ended == {"failed", "aborted", "finished"}
Alive(u) == link[u] \in {"select", "sending"}
Configured == {p \in Port : kind[p] # "absent"}
UsersOf(k) == {u \in User : kind[PortOf[u]] = k}
\* The process ends when client_command returns, and every task with it
Running == main \notin {"ok", "err"}
NoReplies == [queue |-> <<>>, arrived |-> 0, written |-> <<>>]

Init ==
  /\ kind \in Configs
  /\ main = "setup" /\ ctrlC = "armed" /\ peer = "none"
  /\ fwd = [p \in Port |-> "none"] /\ serving = [p \in Port |-> NoUser] /\ entry = {}
  /\ dc = [u \in User |-> "none"] /\ link = [u \in User |-> "none"]
  /\ outQ = [u \in User |-> <<>>] /\ todo = [u \in User |-> <<>>]
  /\ replies = [u \in User |-> NoReplies] /\ input = [u \in User |-> 0]
  /\ taken = [u \in User |-> 0] /\ forwarded = [u \in User |-> {}]

-----------------------------------------------------------------------------
(* The local programs and the peer connection *)

\* A program connects, or sends something to a port
UserSends(u) ==
  /\ Running /\ main # "setup" /\ input[u] < MaxInput[u] /\ u \in UsersOf("tcp") \union UsersOf("udp")
  /\ input' = [input EXCEPT ![u] = @ + 1]
  /\ link' = [link EXCEPT ![u] = IF @ = "none" /\ u \in UsersOf("tcp") THEN "backlog" ELSE @]
  /\ UNCHANGED <<mainVars, fwdVars, dc, sendVars, replies>>

\* A data channel opens, and the on_open handler of a TCP forwarder is called
ChannelOpens(u) ==
  /\ Running /\ dc[u] = "connecting" /\ u \notin NeverOpens
  /\ dc' = [dc EXCEPT ![u] = "open"]
  /\ link' = [link EXCEPT ![u] = IF @ = "accepted" THEN "opened" ELSE @]
  /\ UNCHANGED <<mainVars, fwdVars, sendVars, replies, input>>

ChannelCloses(u) ==
  /\ Running /\ Faults /\ dc[u] = "open"
  /\ dc' = [dc EXCEPT ![u] = "closed"]
  /\ UNCHANGED <<mainVars, fwdVars, link, sendVars, replies, input>>

\* mutant: try_send for send().await, which drops what finds no room
DropsAlso(u) == ~Alive(u) \/ Len(replies[u].queue) = ReplyCap
NoReceiver(u) == ~Alive(u)

\* mutant: an unbounded channel
Unbounded(u) == TRUE
HasRoom(u) == Len(replies[u].queue) < ReplyCap

\* A reply arrives: on_message waits for room.  The handler is set when the link
\* task is spawned; before, and once the task is gone, the reply is dropped.
Reply(u) ==
  LET n == replies[u].arrived + 1 IN
  /\ Running /\ dc[u] = "open" /\ n <= MaxReplies
  /\ \/ /\ Alive(u) /\ HasRoom(u)
        /\ replies' = [replies EXCEPT ![u].arrived = n, ![u].queue = Append(@, n)]
     \/ /\ NoReceiver(u)
        /\ replies' = [replies EXCEPT ![u].arrived = n]
  /\ UNCHANGED <<mainVars, fwdVars, dc, link, sendVars, input>>

-----------------------------------------------------------------------------
(* Forwarders *)

\* Forwarder p is done with its user, whose connection it drops or has handed on
Becomes(p, st) == fwd' = [fwd EXCEPT ![p] = st] /\ serving' = [serving EXCEPT ![p] = NoUser]
Dropped(p) == [u \in User |-> IF u = serving[p] /\ link[u] \in {"accepted", "opened"}
                                THEN "dropped" ELSE link[u]]

\* The listener is bound; LocalSocket is todo!()
StartForwarder(p) ==
  /\ Running /\ fwd[p] = "start"
  /\ Becomes(p, IF kind[p] = "local" THEN "failed" ELSE "listen")
  /\ UNCHANGED <<mainVars, entry, dc, link, sendVars, replies, input>>

\* The quality is missing, or bind, accept, recv or create_data_channel fails
ForwarderFails(p) ==
  /\ Running /\ fwd[p] \in {"start", "listen", "accepted", "datagram"} /\ (Faults \/ peer = "closed")
  /\ Becomes(p, "failed") /\ link' = Dropped(p)
  /\ UNCHANGED <<mainVars, entry, dc, sendVars, replies, input>>

\* accept returns a connection, or recv_buf_from a datagram
TakeUser(u) ==
  LET p == PortOf[u] IN
  /\ Running /\ fwd[p] = "listen"
  /\ serving' = [serving EXCEPT ![p] = u]
  /\ \/ /\ link[u] = "backlog"
        /\ fwd' = [fwd EXCEPT ![p] = "accepted"] /\ link' = [link EXCEPT ![u] = "accepted"]
        /\ UNCHANGED taken
     \/ /\ u \in UsersOf("udp") /\ taken[u] < input[u]
        /\ fwd' = [fwd EXCEPT ![p] = "datagram"] /\ taken' = [taken EXCEPT ![u] = @ + 1]
        /\ UNCHANGED link
  /\ UNCHANGED <<mainVars, entry, dc, outQ, todo, forwarded, replies, input>>

\* TCP: create_data_channel; the loop waits for it to open
CreateChannel(p) ==
  /\ Running /\ fwd[p] = "accepted" /\ peer = "open"
  /\ fwd' = [fwd EXCEPT ![p] = "opening"]
  /\ dc' = [dc EXCEPT ![serving[p]] = "connecting"]
  /\ UNCHANGED <<mainVars, serving, entry, link, sendVars, replies, input>>

\* mutant: the connection is served in the loop, not in a task of its own
ServeInline == "serving"
AcceptNext == "listen"

\* TCP: the channel opened: on_message is set and the link task spawned
SpawnLink(p) ==
  /\ Running /\ fwd[p] = "opening" /\ link[serving[p]] = "opened"
  /\ link' = [link EXCEPT ![serving[p]] = "select"]
  /\ Becomes(p, AcceptNext)
  /\ UNCHANGED <<mainVars, entry, dc, sendVars, replies, input>>

\* TCP: the on_open handler is dropped without having been called
OpenFails(p) ==
  /\ Running /\ Faults /\ fwd[p] = "opening" /\ link[serving[p]] = "accepted"
  /\ Becomes(p, "listen") /\ link' = Dropped(p)
  /\ dc' = [dc EXCEPT ![serving[p]] = "closed"]
  /\ UNCHANGED <<mainVars, entry, sendVars, replies, input>>

\* What is forwarded of a datagram: recv_buf_from appends it to buf, behind the
\* zeros that buf begins with, and the code takes the first n bytes
Front(d) == 0

\* UDP, known address: send().await on its channel
QueueDatagram(p) ==
  LET u == serving[p] IN
  /\ Running /\ fwd[p] = "datagram" /\ u \in entry /\ Alive(u) /\ Len(outQ[u]) < OutCap
  /\ outQ' = [outQ EXCEPT ![u] = Append(@, Front(taken[u]))]
  /\ Becomes(p, "listen")
  /\ UNCHANGED <<mainVars, entry, dc, link, todo, taken, forwarded, replies, input>>

\* mutant: the end of the link task is not noticed
Unnoticed(u) == FALSE
LinkGone(u) == ~Alive(u)

\* UDP, address whose link task is gone: the datagram is lost
ForgetAddress(p) ==
  /\ Running /\ fwd[p] = "datagram" /\ serving[p] \in entry /\ LinkGone(serving[p])
  /\ entry' = entry \ {serving[p]}
  /\ Becomes(p, "listen")
  /\ UNCHANGED <<mainVars, dc, link, sendVars, replies, input>>

\* UDP, new address: a second socket on the listener's address, a data channel,
\* on_message, and a link task that does not wait for the channel to open
NewAddress(p) ==
  LET u == serving[p] IN
  /\ Running /\ fwd[p] = "datagram" /\ u \notin entry /\ peer = "open" /\ TRUE \in BindResults
  /\ Becomes(p, "listen") /\ entry' = entry \union {u}
  /\ \E st \in {"connecting", "open"} : dc' = [dc EXCEPT ![u] = st]
  /\ link' = [link EXCEPT ![u] = "select"]
  /\ outQ' = [outQ EXCEPT ![u] = <<Front(taken[u])>>]
  /\ replies' = [replies EXCEPT ![u] = NoReplies]
  /\ UNCHANGED <<mainVars, todo, taken, forwarded, input>>

BindRefused(p) ==
  /\ Running /\ fwd[p] = "datagram" /\ serving[p] \notin entry /\ FALSE \in BindResults
  /\ Becomes(p, "failed")
  /\ UNCHANGED <<mainVars, entry, dc, link, sendVars, replies, input>>

-----------------------------------------------------------------------------
(* Link tasks *)

\* select!, one branch: bytes read from the stream, or a datagram from outQ.  At
\* the end of the stream read returns 0 bytes, again and again.
TakeBytes(u) ==
  /\ Running /\ link[u] = "select"
  /\ link' = [link EXCEPT ![u] = "sending"]
  /\ \/ /\ u \in UsersOf("tcp") /\ taken[u] < input[u]
        /\ todo' = [todo EXCEPT ![u] = [i \in 1..(input[u] - taken[u]) |-> taken[u] + i]]
        /\ taken' = [taken EXCEPT ![u] = input[u]]
        /\ UNCHANGED outQ
     \/ /\ outQ[u] # <<>>
        /\ todo' = [todo EXCEPT ![u] = <<Head(outQ[u])>>]
        /\ outQ' = [outQ EXCEPT ![u] = Tail(@)]
        /\ UNCHANGED taken
  /\ UNCHANGED <<mainVars, fwdVars, dc, forwarded, replies, input>>

\* What one send takes of n bytes: bytes.slice(n..) for TCP, which is empty,
\* bytes.slice(sent_n..) for UDP
Slice(u) == IF u \in UsersOf("tcp") THEN <<>> ELSE todo[u]

\* while sent_n < n: an empty slice leaves the loop where it is
SendSlice(u) ==
  /\ Running /\ link[u] = "sending" /\ dc[u] = "open"
  /\ forwarded' = [forwarded EXCEPT ![u] = @ \union {Slice(u)[i] : i \in DOMAIN Slice(u)}]
  /\ todo' = [todo EXCEPT ![u] = SubSeq(@, Len(Slice(u)) + 1, Len(@))]
  /\ link' = [link EXCEPT ![u] = IF Len(Slice(u)) = Len(todo[u]) THEN "select" ELSE "sending"]
  /\ UNCHANGED <<mainVars, fwdVars, dc, outQ, taken, replies, input>>

\* The other branch: a reply is written to the stream or socket
WriteReply(u) ==
  /\ Running /\ link[u] = "select" /\ replies[u].queue # <<>>
  /\ replies' = [replies EXCEPT ![u].written = Append(@, Head(replies[u].queue)),
                                ![u].queue = Tail(@)]
  /\ UNCHANGED <<mainVars, fwdVars, dc, link, sendVars, input>>

\* unwrap panics: the data channel is not open (or not yet), or a socket fails
LinkPanics(u) ==
  /\ Running
  /\ \/ link[u] = "sending" /\ dc[u] # "open"
     \/ Faults /\ link[u] = "select"
  /\ link' = [link EXCEPT ![u] = "panicked"]
  /\ UNCHANGED <<mainVars, fwdVars, dc, sendVars, replies, input>>

\* UDP: the forwarder is gone, and its senders with it
LinkEnds(u) ==
  /\ Running /\ u \in entry /\ fwd[PortOf[u]] \in Ended /\ link[u] = "select" /\ outQ[u] = <<>>
  /\ link' = [link EXCEPT ![u] = "ended"]
  /\ UNCHANGED <<mainVars, fwdVars, dc, sendVars, replies, input>>

-----------------------------------------------------------------------------
(* The main task *)

MainTo(st) ==
  /\ main' = st
  /\ UNCHANGED <<kind, ctrlC, serving, entry, link, sendVars, replies, input>>

\* Configuration, connection, TLS and upgrade; the init channel is closed and
\* the forwarders are spawned
Setup ==
  /\ main = "setup" /\ Configured # {}
  /\ MainTo("select")
  /\ peer' = "open" /\ fwd' = [p \in Port |-> IF p \in Configured THEN "start" ELSE "none"]
  /\ UNCHANGED dc
SetupFails ==
  /\ main = "setup" /\ (Faults \/ Configured = {})
  /\ MainTo("err")
  /\ UNCHANGED <<peer, fwd, dc>>

\* The user presses Ctrl-C; if waiting for it fails, nothing ever will
CtrlC ==
  /\ ctrlC = "armed" /\ main = "select"
  /\ ctrlC' \in {"pressed"} \union (IF Faults THEN {"broken"} ELSE {})
  /\ UNCHANGED <<kind, main, peer, fwdVars, dc, link, sendVars, replies, input>>

\* select!, one branch: Ctrl-C.  abort_all, then peer.close()
Interrupt ==
  /\ main = "select" /\ ctrlC = "pressed"
  /\ MainTo("closing")
  /\ UNCHANGED <<peer, fwd, dc>>
PeerClosed ==
  /\ main = "closing"
  /\ MainTo("joining")
  /\ peer' = "closed" /\ dc' = [u \in User |-> IF dc[u] = "none" THEN "none" ELSE "closed"]
  /\ UNCHANGED fwd

\* mutant: abort_all is not called
NotAborted == FALSE
Aborting == main \in {"closing", "joining"}

\* An aborted forwarder is dropped at its next await
Abort(p) ==
  /\ Aborting /\ p \in Configured /\ fwd[p] \notin Ended
  /\ Becomes(p, "aborted") /\ link' = Dropped(p)
  /\ UNCHANGED <<mainVars, entry, dc, sendVars, replies, input>>

\* mutant: end_sender does not live longer than the loop that spawns the forwarders
DroppedEarly == main # "setup"
EndDropped == main = "joining"

\* A forwarder in its select! ends with Ok when end_sender is gone
EndReceived(p) ==
  /\ Running /\ EndDropped /\ fwd[p] = "listen"
  /\ Becomes(p, "finished")
  /\ UNCHANGED <<mainVars, entry, dc, link, sendVars, replies, input>>

\* join_next has returned every forwarder
AllEnded == \A p \in Configured : fwd[p] \in Ended

Joined ==
  /\ main = "joining" /\ AllEnded
  /\ MainTo("ok")
  /\ UNCHANGED <<peer, fwd, dc>>

\* mutant: what join_next returns is ignored
Ignored == {}
Results == {fwd[p] : p \in Port} \intersect {"failed", "finished"}

\* select!, the other branch: join_next.  The error or panic of a forwarder is
\* returned at once, and the process ends with the other tasks; after an Ok the
\* client goes on as after Ctrl-C.
ForwarderEnded ==
  /\ main = "select"
  /\ \E r \in Results : MainTo(IF r = "failed" THEN "err" ELSE "closing")
  /\ UNCHANGED <<peer, fwd, dc>>

-----------------------------------------------------------------------------
MainStep == Interrupt \/ PeerClosed \/ Joined \/ ForwarderEnded
ForwarderStep(p) ==
  \/ StartForwarder(p) \/ CreateChannel(p) \/ SpawnLink(p)
  \/ QueueDatagram(p) \/ ForgetAddress(p) \/ NewAddress(p) \/ BindRefused(p)
  \/ \E u \in User : PortOf[u] = p /\ TakeUser(u)
LinkStep(u) == TakeBytes(u) \/ SendSlice(u) \/ WriteReply(u) \/ LinkEnds(u)
Failures(p) == ForwarderFails(p) \/ OpenFails(p)
Outside(u) == UserSends(u) \/ ChannelOpens(u) \/ ChannelCloses(u) \/ Reply(u)

Next ==
  \/ Setup \/ SetupFails \/ CtrlC \/ MainStep
  \/ \E p \in Port : ForwarderStep(p) \/ Failures(p) \/ Abort(p) \/ EndReceived(p)
  \/ \E u \in User : Outside(u) \/ LinkStep(u) \/ LinkPanics(u)
Spec == Init /\ [][Next]_vars

\* tokio runs every task that can go on: the main task, each forwarder, each link
\* task, and the cancellation of aborted ones.  Data channels open except those
\* of NeverOpens.  Nothing is assumed of the users, of Ctrl-C or of failures.
Fairness ==
  /\ WF_vars(MainStep)
  /\ \A p \in Port : WF_vars(ForwarderStep(p)) /\ WF_vars(Abort(p))
  /\ \A u \in User : /\ WF_vars(ChannelOpens(u))
                     /\ WF_vars(LinkStep(u) \/ (link[u] = "sending" /\ LinkPanics(u)))
FairSpec == Spec /\ Fairness

-----------------------------------------------------------------------------
\* The state is well formed, and the channels of datagrams and replies within
\* their capacities (client.rs:162, 170, 235).
TypeOK ==
  /\ main \in {"setup", "select", "closing", "joining", "ok", "err"}
  /\ ctrlC \in {"armed", "pressed", "broken"} /\ peer \in {"none", "open", "closed"}
  /\ fwd \in [Port -> Ended \union {"none", "start", "listen", "accepted", "opening", "datagram"}]
  /\ serving \in [Port -> User \union {NoUser}] /\ entry \subseteq User
  /\ dc \in [User -> {"none", "connecting", "open", "closed"}]
  /\ link \in [User -> {"none", "backlog", "accepted", "opened", "dropped", "select", "sending",
                        "panicked", "ended"}]
  /\ \A u \in User : /\ Len(outQ[u]) <= OutCap /\ Len(replies[u].queue) <= ReplyCap
                     /\ taken[u] \in 0..input[u]

\* No reply that came after on_message was set is lost or overtaken as long as
\* the link task lives, however many come at once: what it has written and what
\* it holds are the latest replies without a gap, and on UDP, where the handler
\* is set before the channel can open, all of them (client.rs:170-178, 235-243).
NoReplyLost ==
  \A u \in User : Alive(u) =>
    LET kept == replies[u].written \o replies[u].queue IN
    /\ \A i \in DOMAIN kept : kept[i] = replies[u].arrived - Len(kept) + i
    /\ u \in UsersOf("udp") => Len(kept) = replies[u].arrived

\* The client closes a working connection and returns Ok only when Ctrl-C was
\* pressed, as it logs then: no forwarder ends with Ok before, which would be
\* taken for it (client.rs:202, 270, 294-310).
ClosesOnlyOnCtrlC == main \in {"closing", "joining", "ok"} => ctrlC = "pressed"

\* Ctrl-C ends the client, also while a forwarder waits for a data channel
\* that never opens or for room in a channel (client.rs:286-317).
CtrlCReturns == (ctrlC = "pressed") ~> ~Running

\* A forwarder that fails ends the whole client, even when Ctrl-C no longer
\* works (client.rs:294-309).
FailureReturns == (\E p \in Port : fwd[p] = "failed") ~> ~Running

\* A connection is served or dropped, unless the client stops or its forwarder
\* waits for ever for the data channel of an earlier one (client.rs:213-270).
ConnectionServed ==
  \A u \in User :
    (link[u] = "backlog") ~>
      \/ link[u] \notin {"backlog", "accepted", "opened"}
      \/ ~Running
      \/ serving[PortOf[u]] \in NeverOpens

\* A datagram does not hold up its forwarder for ever, whatever became of the
\* link task of its address (client.rs:153-198).
DatagramPlaced == \A p \in Port : (fwd[p] = "datagram") ~> (fwd[p] # "datagram" \/ ~Running)

-----------------------------------------------------------------------------
(* What the tool's description says and the code does not do *)

\* "A tool to form peer-to-peer port forwarding over WebRTC"
\* (webrtc-tunnel/Cargo.toml:6): with nothing failing, what was read from a
\* local program is sent on its data channel, unless Ctrl-C was pressed.
Forwards ==
  \A u \in User : \A k \in 1..MaxInput[u] :
    (taken[u] >= k) ~> (k \in forwarded[u] \/ ctrlC = "pressed")
=============================================================================
