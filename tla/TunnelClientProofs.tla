-------------------------- MODULE TunnelClientProofs --------------------------
(***************************************************************************)
(* For any ports, configuration, local programs, capacities and numbers of *)
(* replies: a link task loses and reorders no reply (NoReplyLost), a       *)
(* connection that was accepted is in its forwarder's hands until a link   *)
(* task serves it or it is dropped (NoneOrphaned), and client_command      *)
(* closes the connection and returns Ok only when Ctrl-C was pressed       *)
(* (ClosesOnlyOnCtrlC).                                                    *)
(***************************************************************************)
EXTENDS TunnelClient, SequenceLemmas, TLAPS

\* Main task, forwarders and links.
ControlTyped ==
  /\ kind \in Configs /\ main \in {"setup", "select", "closing", "joining", "ok", "err"}
  /\ ctrlC \in {"armed", "pressed", "broken"} /\ peer \in {"none", "open", "closed"}
  /\ fwd \in [Port -> Ended \union {"none", "start", "listen", "accepted", "opening", "datagram"}]
  /\ serving \in [Port -> User \union {NoUser}] /\ entry \subseteq User
  /\ dc \in [User -> {"none", "connecting", "open", "closed"}]
  /\ link \in [User -> {"none", "backlog", "accepted", "opened", "dropped", "select", "sending",
                        "panicked", "ended"}]

\* Forwarders are spawned by the setup, and end with Ok only once end_sender is
\* dropped, which is after the select! of the main task.
MainOrder ==
  /\ main = "setup" => \A p \in Port : fwd[p] = "none"
  /\ \A p \in Port : fwd[p] = "finished" => main \in {"joining", "ok"}
  /\ ClosesOnlyOnCtrlC

\* A forwarder that is past accept or recv_buf_from has a user of its port.
BusyWith(p) ==
  fwd[p] \in {"accepted", "opening", "datagram"} => serving[p] \in User /\ PortOf[serving[p]] = p

\* A connection that was accepted and has no link task yet is the one that its
\* forwarder is busy with (client.rs:213-270).
NoneOrphaned ==
  \A u \in User : link[u] \in {"accepted", "opened"} =>
    serving[PortOf[u]] = u /\ fwd[PortOf[u]] \in {"accepted", "opening"}

\* Connections are made to TCP ports only.
TcpConnections ==
  \A u \in User : link[u] \in {"backlog", "accepted", "opened"} => u \in UsersOf("tcp")

ControlInv ==
  ControlTyped /\ MainOrder /\ (\A p \in Port : BusyWith(p)) /\ NoneOrphaned /\ TcpConnections

\* What was read, and the datagrams that wait for a link task.
Datagrams == outQ \in [User -> Seq(Nat)] /\ \A u \in User : Len(outQ[u]) <= OutCap
Consumed ==
  input \in [User -> Nat] /\ taken \in [User -> Nat] /\ \A u \in User : taken[u] <= input[u]
SentInv == Datagrams /\ Consumed

\* The replies that a link task has written and holds are the latest, and of
\* the earlier ones, which came before on_message was set, UDP has none.
Passed(u) == replies[u].arrived - Len(replies[u].queue) - Len(replies[u].written)
Latest(u) ==
  /\ Passed(u) \in Nat
  /\ Follow(replies[u].written, Passed(u))
  /\ Follow(replies[u].queue, Passed(u) + Len(replies[u].written))
  /\ u \in UsersOf("udp") => Passed(u) = 0

\* Without a link task nothing is held or written yet.
Early(u) == link[u] \in {"none", "backlog", "accepted", "opened"}
ReplyRecord == [queue : Seq(Nat), arrived : Nat, written : Seq(Nat)]
RepliesInv(u) ==
  /\ replies[u] \in ReplyRecord /\ Len(replies[u].queue) <= ReplyCap
  /\ Early(u) => replies[u].queue = <<>> /\ replies[u].written = <<>>
  /\ Alive(u) => Latest(u)

AllReplies == replies = [u \in User |-> replies[u]] /\ \A u \in User : RepliesInv(u)

\* The inductive invariant.
IInv == ControlInv /\ SentInv /\ AllReplies

-----------------------------------------------------------------------------
LEMMA InitIInv == Init => IInv
<1> SUFFICES ASSUME Init PROVE IInv
  OBVIOUS
<1>1. ControlInv
  BY ClientAssumption DEF Init, ControlInv, ControlTyped, MainOrder, BusyWith, NoneOrphaned,
     TcpConnections, ClosesOnlyOnCtrlC
<1>2. SentInv
  BY ClientAssumption DEF Init, SentInv, Datagrams, Consumed
<1>3. ASSUME NEW u \in User PROVE RepliesInv(u)
  <2>1. replies[u] = NoReplies /\ ~Alive(u)
    BY <1>3 DEF Init, Alive
  <2> QED
    BY <2>1, ClientAssumption DEF RepliesInv, NoReplies, ReplyRecord
<1>4. replies = [u \in User |-> replies[u]]
  BY DEF Init
<1> QED
  BY <1>1, <1>2, <1>3, <1>4 DEF IInv, AllReplies

LEMMA MainControl ==
  ASSUME ControlInv, Setup \/ SetupFails \/ CtrlC \/ MainStep
  PROVE  ControlInv'
<1> USE DEF ControlInv, ControlTyped, MainOrder, BusyWith, NoneOrphaned, TcpConnections,
        ClosesOnlyOnCtrlC, UsersOf, Configured, Ended, fwdVars
<1>1. CASE Setup
  <2>1. \A u \in User : PortOf[u] \in Port /\ link[u] \notin {"accepted", "opened"}
    BY <1>1, ClientAssumption DEF Setup
  <2>2. ControlTyped'
    BY <1>1 DEF Setup, MainTo
  <2>3. MainOrder' /\ \A p \in Port : BusyWith(p)'
    BY <1>1 DEF Setup, MainTo
  <2>4. NoneOrphaned' /\ TcpConnections'
    BY <1>1, <2>1 DEF Setup, MainTo
  <2> QED
    BY <2>2, <2>3, <2>4
<1>2. CASE SetupFails
  BY <1>2 DEF SetupFails, MainTo
<1>3. CASE CtrlC
  BY <1>3 DEF CtrlC
<1>4. CASE Interrupt
  BY <1>4 DEF Interrupt, MainTo
<1>5. CASE PeerClosed
  BY <1>5 DEF PeerClosed, MainTo
<1>6. CASE Joined
  BY <1>6 DEF Joined, MainTo, AllEnded
<1>7. CASE ForwarderEnded
  <2>1. Results \subseteq {"failed"}
    BY <1>7 DEF ForwarderEnded, Results
  <2> QED
    BY <1>7, <2>1 DEF ForwarderEnded, MainTo
<1> QED
  BY <1>1, <1>2, <1>3, <1>4, <1>5, <1>6, <1>7 DEF MainStep

LEMMA ForwarderControl ==
  ASSUME ControlInv, NEW p \in Port,
         ForwarderStep(p) \/ Failures(p) \/ Abort(p) \/ EndReceived(p)
  PROVE  ControlInv'
<1> USE ClientAssumption DEF ControlInv, ControlTyped, MainOrder, BusyWith, NoneOrphaned,
        TcpConnections, ClosesOnlyOnCtrlC, UsersOf, Configured, Ended, Running, mainVars, Becomes
<1>1. CASE StartForwarder(p)
  BY <1>1 DEF StartForwarder
<1>2. CASE CreateChannel(p)
  BY <1>2 DEF CreateChannel
<1>3. CASE SpawnLink(p)
  BY <1>3 DEF SpawnLink, AcceptNext
<1>4. CASE QueueDatagram(p)
  BY <1>4 DEF QueueDatagram
<1>5. CASE ForgetAddress(p)
  BY <1>5 DEF ForgetAddress
<1>6. CASE NewAddress(p)
  BY <1>6 DEF NewAddress
<1>7. CASE BindRefused(p)
  BY <1>7 DEF BindRefused
<1>8. CASE ForwarderFails(p)
  BY <1>8 DEF ForwarderFails, Dropped
<1>9. CASE OpenFails(p)
  BY <1>9 DEF OpenFails, Dropped
<1>10. CASE Abort(p)
  BY <1>10 DEF Abort, Dropped, Aborting
<1>11. CASE EndReceived(p)
  BY <1>11 DEF EndReceived, EndDropped
<1>12. ASSUME NEW u \in User, PortOf[u] = p, TakeUser(u) PROVE ControlInv'
  BY <1>12 DEF TakeUser
<1> QED
  BY <1>1, <1>2, <1>3, <1>4, <1>5, <1>6, <1>7, <1>8, <1>9, <1>10, <1>11, <1>12
        DEF ForwarderStep, Failures

LEMMA LinkControl ==
  ASSUME ControlInv, NEW u \in User, Outside(u) \/ LinkStep(u) \/ LinkPanics(u)
  PROVE  ControlInv'
<1> USE ClientAssumption DEF ControlInv, ControlTyped, MainOrder, BusyWith, NoneOrphaned,
        TcpConnections, ClosesOnlyOnCtrlC, UsersOf, Configured, Ended, Running, mainVars, fwdVars
<1>1. CASE UserSends(u)
  BY <1>1 DEF UserSends
<1>2. CASE ChannelOpens(u)
  BY <1>2 DEF ChannelOpens
<1>3. CASE ChannelCloses(u)
  BY <1>3 DEF ChannelCloses
<1>4. CASE Reply(u)
  BY <1>4 DEF Reply
<1>5. CASE TakeBytes(u)
  BY <1>5 DEF TakeBytes
<1>6. CASE SendSlice(u)
  BY <1>6 DEF SendSlice
<1>7. CASE WriteReply(u)
  BY <1>7 DEF WriteReply
<1>8. CASE LinkEnds(u)
  BY <1>8 DEF LinkEnds
<1>9. CASE LinkPanics(u)
  BY <1>9 DEF LinkPanics
<1> QED
  BY <1>1, <1>2, <1>3, <1>4, <1>5, <1>6, <1>7, <1>8, <1>9 DEF Outside, LinkStep

-----------------------------------------------------------------------------
\* A step that moves no reply, and starts no link task, keeps the replies.
LEMMA RepliesFrame ==
  ASSUME AllReplies, UNCHANGED <<kind, replies>>,
         \A u \in User : (Early(u)' => Early(u)) /\ (Alive(u)' => Alive(u))
  PROVE  AllReplies'
<1>1. ASSUME NEW u \in User PROVE RepliesInv(u)'
  <2>1. RepliesInv(u) /\ (Early(u)' => Early(u)) /\ (Alive(u)' => Alive(u))
    BY <1>1 DEF AllReplies
  <2>2. UsersOf("udp")' = UsersOf("udp")
    BY DEF UsersOf
  <2> QED
    BY <2>1, <2>2 DEF RepliesInv, Latest, Passed
<1> QED
  BY <1>1 DEF AllReplies

\* A step that changes the replies, or starts the link task, of one user.
LEMMA RepliesOfOne ==
  ASSUME AllReplies, kind' = kind, NEW u \in User, RepliesInv(u)',
         replies' = [v \in User |-> replies'[v]],
         \A v \in User \ {u} : replies'[v] = replies[v] /\ link'[v] = link[v]
  PROVE  AllReplies'
<1>1. ASSUME NEW v \in User, v # u PROVE RepliesInv(v)'
  <2>1. RepliesInv(v) /\ replies'[v] = replies[v] /\ link'[v] = link[v]
    BY <1>1 DEF AllReplies
  <2>2. UsersOf("udp")' = UsersOf("udp")
    BY DEF UsersOf
  <2> QED
    BY <2>1, <2>2 DEF RepliesInv, Latest, Passed, Alive, Early
<1> QED
  BY <1>1 DEF AllReplies

LEMMA MainData ==
  ASSUME IInv, Setup \/ SetupFails \/ CtrlC \/ MainStep
  PROVE  SentInv' /\ AllReplies'
<1>1. UNCHANGED <<kind, replies, link, outQ, input, taken>>
  BY DEF Setup, SetupFails, CtrlC, MainStep, Interrupt, PeerClosed, Joined, ForwarderEnded, MainTo,
         sendVars
<1>2. AllReplies'
  BY <1>1, RepliesFrame DEF IInv, Early, Alive
<1> QED
  BY <1>1, <1>2 DEF IInv, SentInv, Datagrams, Consumed

\* The channel of a TCP connection opened: on_message is set, and every reply
\* that came before has passed.
LEMMA SpawnLinkData ==
  ASSUME IInv, NEW p \in Port, SpawnLink(p)
  PROVE  SentInv' /\ AllReplies'
<1>1. PICK u \in User :
        /\ link[u] = "opened" /\ link' = [link EXCEPT ![u] = "select"]
        /\ UNCHANGED <<kind, replies, outQ, input, taken>>
  BY DEF SpawnLink, IInv, ControlInv, BusyWith, sendVars, mainVars
<1>2. u \notin UsersOf("udp") /\ UsersOf("udp")' = UsersOf("udp")
  BY <1>1 DEF IInv, ControlInv, TcpConnections, UsersOf
<1>3. link'[u] = "select" /\ \A v \in User \ {u} : link'[v] = link[v]
  BY <1>1 DEF IInv, ControlInv, ControlTyped
<1>4. RepliesInv(u)'
  <2>1. /\ replies[u] \in ReplyRecord /\ Len(replies[u].queue) <= ReplyCap
        /\ replies[u].queue = <<>> /\ replies[u].written = <<>>
    BY <1>1 DEF IInv, AllReplies, RepliesInv, Early
  <2>2. Passed(u)' = replies[u].arrived /\ replies[u].arrived \in Nat
    BY <1>1, <2>1 DEF Passed, ReplyRecord
  <2>3. Latest(u)'
    BY <1>1, <1>2, <2>1, <2>2 DEF Latest, Follow
  <2> QED
    BY <1>1, <1>3, <2>1, <2>3 DEF RepliesInv, Early
<1>5. replies' = [v \in User |-> replies'[v]]
  BY <1>1 DEF IInv, AllReplies
<1>6. AllReplies'
  BY <1>1, <1>3, <1>4, <1>5, RepliesOfOne DEF IInv
<1> QED
  BY <1>1, <1>6 DEF IInv, SentInv, Datagrams, Consumed

\* UDP: a new address starts with no replies, and on_message set.
LEMMA NewAddressData ==
  ASSUME IInv, NEW p \in Port, NewAddress(p)
  PROVE  SentInv' /\ AllReplies'
<1>1. PICK u \in User :
        /\ link' = [link EXCEPT ![u] = "select"] /\ outQ' = [outQ EXCEPT ![u] = <<0>>]
        /\ replies' = [replies EXCEPT ![u] = NoReplies]
        /\ UNCHANGED <<kind, input, taken>>
  BY DEF NewAddress, Front, IInv, ControlInv, BusyWith, mainVars
<1>2. link'[u] = "select" /\ \A v \in User \ {u} : link'[v] = link[v]
  BY <1>1 DEF IInv, ControlInv, ControlTyped
<1>3. RepliesInv(u)'
  <2>1. replies'[u] = NoReplies
    BY <1>1 DEF IInv, AllReplies
  <2>2. Passed(u)' = 0
    BY <2>1 DEF Passed, NoReplies
  <2>3. Latest(u)'
    BY <2>1, <2>2 DEF Latest, Follow, NoReplies
  <2> QED
    BY <1>2, <2>1, <2>3, ClientAssumption DEF RepliesInv, ReplyRecord, NoReplies, Early
<1>4. AllReplies'
  <2>1. /\ replies' = [v \in User |-> replies'[v]]
        /\ \A v \in User \ {u} : replies'[v] = replies[v]
    BY <1>1 DEF IInv, AllReplies
  <2> QED
    BY <1>1, <1>2, <1>3, <2>1, RepliesOfOne DEF IInv
<1>5. SentInv'
  <2>1. <<0>> \in Seq(Nat) /\ Len(<<0>>) <= OutCap
    BY ClientAssumption
  <2> QED
    BY <1>1, <2>1 DEF IInv, SentInv, Datagrams, Consumed
<1> QED
  BY <1>4, <1>5

LEMMA QueueDatagramData ==
  ASSUME IInv, NEW p \in Port, QueueDatagram(p)
  PROVE  SentInv' /\ AllReplies'
<1>1. PICK u \in User :
        /\ Len(outQ[u]) < OutCap /\ outQ' = [outQ EXCEPT ![u] = Append(outQ[u], 0)]
        /\ UNCHANGED <<kind, link, replies, input, taken>>
  BY DEF QueueDatagram, Front, IInv, ControlInv, BusyWith, mainVars
<1>2. AllReplies'
  BY <1>1, RepliesFrame DEF IInv, Early, Alive
<1>3. outQ[u] \in Seq(Nat) /\ OutCap \in Nat
  BY <1>1, ClientAssumption DEF IInv, SentInv, Datagrams, Consumed
<1>4. Append(outQ[u], 0) \in Seq(Nat) /\ Len(Append(outQ[u], 0)) <= OutCap
  BY <1>1, <1>3
<1>5. SentInv'
  BY <1>1, <1>4 DEF IInv, SentInv, Datagrams, Consumed
<1> QED
  BY <1>2, <1>5

\* The forwarder's other steps.
LEMMA ForwarderData ==
  ASSUME IInv, NEW p \in Port,
         ForwarderStep(p) \/ Failures(p) \/ Abort(p) \/ EndReceived(p)
  PROVE  SentInv' /\ AllReplies'
<1>1. ASSUME UNCHANGED <<kind, replies, link, outQ, input, taken>> PROVE SentInv' /\ AllReplies'
  <2>1. AllReplies'
    BY <1>1, RepliesFrame DEF IInv, Early, Alive
  <2> QED
    BY <1>1, <2>1 DEF IInv, SentInv, Datagrams, Consumed
<1>2. ASSUME link' = Dropped(p), UNCHANGED <<kind, replies, outQ, input, taken>>
      PROVE  SentInv' /\ AllReplies'
  <2>1. \A u \in User : (Early(u)' => Early(u)) /\ (Alive(u)' => Alive(u))
    BY <1>2 DEF Dropped, Early, Alive
  <2>2. AllReplies'
    BY <1>2, <2>1, RepliesFrame DEF IInv
  <2> QED
    BY <1>2, <2>2 DEF IInv, SentInv, Datagrams, Consumed
<1>3. CASE StartForwarder(p) \/ CreateChannel(p) \/ ForgetAddress(p) \/ BindRefused(p)
        \/ EndReceived(p)
  BY <1>1, <1>3 DEF StartForwarder, CreateChannel, ForgetAddress, BindRefused, EndReceived,
        mainVars,
                    sendVars
<1>4. CASE Failures(p) \/ Abort(p)
  BY <1>2, <1>4 DEF Failures, ForwarderFails, OpenFails, Abort, mainVars, sendVars
<1>5. ASSUME NEW u \in User, TakeUser(u) PROVE SentInv' /\ AllReplies'
  <2>1. /\ UNCHANGED <<kind, replies, outQ, input>>
        /\ \/ link[u] = "backlog" /\ link' = [link EXCEPT ![u] = "accepted"] /\ taken' = taken
           \/ taken[u] < input[u] /\ link' = link /\ taken' = [taken EXCEPT ![u] = @ + 1]
    BY <1>5 DEF TakeUser, mainVars
  <2>2. \A v \in User : (Early(v)' => Early(v)) /\ (Alive(v)' => Alive(v))
    BY <2>1 DEF IInv, ControlInv, ControlTyped, Early, Alive
  <2>3. AllReplies'
    BY <2>1, <2>2, RepliesFrame DEF IInv
  <2>4. Datagrams'
    BY <2>1 DEF IInv, SentInv, Datagrams
  <2>5. Consumed'
    <3>1. Consumed
      BY DEF IInv, SentInv
    <3> QED
      BY <2>1, <3>1 DEF Consumed
  <2> QED
    BY <2>3, <2>4, <2>5 DEF SentInv
<1> QED
  BY <1>3, <1>4, <1>5, SpawnLinkData, NewAddressData, QueueDatagramData DEF ForwarderStep

-----------------------------------------------------------------------------
\* Of a replies, w are written and q queued, the latest ones after d others:
\* that still holds when one more is queued, and when the first is written.
LEMMA QueueOne ==
  ASSUME NEW q \in Seq(Nat), NEW w \in Seq(Nat), NEW a \in Nat, NEW d \in Nat,
         d = a - Len(q) - Len(w), Follow(q, d + Len(w))
  PROVE  /\ (a + 1) - Len(Append(q, a + 1)) - Len(w) = d
         /\ Follow(Append(q, a + 1), d + Len(w))
<1>1. Len(q) \in Nat /\ Len(w) \in Nat /\ Len(Append(q, a + 1)) = Len(q) + 1
  OBVIOUS
<1>2. d + Len(w) \in Nat /\ a + 1 = (d + Len(w)) + Len(q) + 1 /\ a + 1 \in Nat
  BY <1>1
<1>3. (a + 1) - (Len(q) + 1) - Len(w) = d
  BY <1>1
<1> QED
  BY <1>1, <1>2, <1>3, FollowAppend

LEMMA FollowTail ==
  ASSUME NEW q \in Seq(Nat), q # <<>>, NEW n \in Nat, Follow(q, n)
  PROVE  Follow(Tail(q), n + 1) /\ Head(q) = n + 1
<1>1. /\ Len(Tail(q)) = Len(q) - 1 /\ Head(q) = q[1] /\ Len(q) \in Nat \ {0}
      /\ \A j \in 1..Len(Tail(q)) : Tail(q)[j] = q[j + 1]
  BY HeadTailProperties
<1>2. \A j \in 1..Len(Tail(q)) : j + 1 \in 1..Len(q) /\ n + (j + 1) = (n + 1) + j
  BY <1>1
<1>3. \A j \in 1..Len(Tail(q)) : Tail(q)[j] = (n + 1) + j
  BY <1>1, <1>2 DEF Follow
<1>4. q[1] = n + 1
  BY <1>1 DEF Follow
<1> QED
  BY <1>1, <1>3, <1>4 DEF Follow

LEMMA WriteOne ==
  ASSUME NEW q \in Seq(Nat), q # <<>>, NEW w \in Seq(Nat), NEW a \in Nat, NEW d \in Nat,
         d = a - Len(q) - Len(w), Follow(w, d), Follow(q, d + Len(w))
  PROVE  LET wr == Append(w, Head(q)) IN
         /\ wr \in Seq(Nat) /\ Tail(q) \in Seq(Nat) /\ Len(Tail(q)) <= Len(q)
         /\ a - Len(Tail(q)) - Len(wr) = d
         /\ Follow(wr, d) /\ Follow(Tail(q), d + Len(wr))
<1> DEFINE wr == Append(w, Head(q))
<1>1. /\ Tail(q) \in Seq(Nat) /\ Len(Tail(q)) = Len(q) - 1 /\ Head(q) \in Nat
      /\ Len(q) \in Nat \ {0} /\ Len(w) \in Nat
  BY HeadTailProperties
<1>2. wr \in Seq(Nat) /\ Len(wr) = Len(w) + 1
  BY <1>1, AppendProperties
<1>3. d + Len(w) \in Nat /\ d + (Len(w) + 1) = (d + Len(w)) + 1
  BY <1>1
<1>4. Follow(Tail(q), (d + Len(w)) + 1) /\ Head(q) = d + Len(w) + 1
  BY <1>3, FollowTail
<1>5. Follow(wr, d)
  BY <1>1, <1>4, FollowAppend
<1>6. a - (Len(q) - 1) - (Len(w) + 1) = d /\ Len(q) - 1 <= Len(q)
  BY <1>1
<1> QED
  BY <1>1, <1>2, <1>3, <1>4, <1>5, <1>6

LEMMA KeptAreLatest ==
  ASSUME NEW q \in Seq(Nat), NEW w \in Seq(Nat), NEW a \in Nat, NEW d \in Nat,
         d = a - Len(q) - Len(w), Follow(w, d), Follow(q, d + Len(w))
  PROVE  /\ \A i \in DOMAIN (w \o q) : (w \o q)[i] = a - Len(w \o q) + i
         /\ d = 0 => Len(w \o q) = a
<1>1. Len(q) \in Nat /\ Len(w) \in Nat /\ Len(w \o q) = Len(w) + Len(q)
  BY ConcatProperties
<1>2. \A i \in DOMAIN (w \o q) : (w \o q)[i] = d + i
  BY FollowConcat
<1>3. a - (Len(w) + Len(q)) = d /\ (d = 0 => Len(w) + Len(q) = a)
  BY <1>1
<1> QED
  BY <1>1, <1>2, <1>3, Zenon

\* The replies of a user whose link task lives.
LEMMA RepliesOf ==
  ASSUME IInv, NEW u \in User
  PROVE  /\ replies[u].queue \in Seq(Nat) /\ replies[u].written \in Seq(Nat)
         /\ replies[u].arrived \in Nat
         /\ replies[u] = [queue |-> replies[u].queue, arrived |-> replies[u].arrived,
                          written |-> replies[u].written]
         /\ Len(replies[u].queue) <= ReplyCap
         /\ Alive(u) => Latest(u)
  BY DEF IInv, AllReplies, RepliesInv, ReplyRecord

\* A reply arrives behind those that the link task holds, or is dropped when
\* there is no link task.
LEMMA ReplyData ==
  ASSUME IInv, NEW u \in User, Reply(u)
  PROVE  SentInv' /\ AllReplies'
<1>1. PICK q, w, a : q = replies[u].queue /\ w = replies[u].written /\ a = replies[u].arrived
  OBVIOUS
<1>2. /\ q \in Seq(Nat) /\ w \in Seq(Nat) /\ a \in Nat /\ Len(q) <= ReplyCap
      /\ replies[u] = [queue |-> q, arrived |-> a, written |-> w]
  BY <1>1, RepliesOf
<1>3. /\ UNCHANGED <<kind, link, outQ, input, taken>> /\ UsersOf("udp")' = UsersOf("udp")
      /\ replies = [v \in User |-> replies[v]]
  BY DEF Reply, mainVars, sendVars, UsersOf, IInv, AllReplies
<1>4. replies[u] = [queue |-> replies[u].queue, arrived |-> replies[u].arrived,
                    written |-> replies[u].written]
  BY RepliesOf
<1>5. CASE /\ Alive(u) /\ Len(q) < ReplyCap
           /\ replies' = [replies EXCEPT ![u].arrived = a + 1, ![u].queue = Append(@, a + 1)]
  <2> DEFINE s == [queue |-> Append(q, a + 1), arrived |-> a + 1, written |-> w]
  <2>1. /\ replies' = [v \in User |-> replies'[v]] /\ replies'[u] = s
        /\ \A v \in User \ {u} : replies'[v] = replies[v]
    <3>1. replies'[u] = [queue |-> Append(replies[u].queue, a + 1), arrived |-> a + 1,
                         written |-> replies[u].written]
      BY <1>3, <1>5, <1>4
    <3>2. replies' = [v \in User |-> replies'[v]]
      BY <1>3, <1>5
    <3>3. \A v \in User \ {u} : replies'[v] = replies[v]
      BY <1>3, <1>5
    <3> QED
      BY <1>1, <3>1, <3>2, <3>3
  <2>2. /\ s \in ReplyRecord /\ Len(Append(q, a + 1)) <= ReplyCap
    BY <1>2, <1>5, ClientAssumption DEF ReplyRecord
  <2>3. Latest(u) /\ ~Early(u)
    BY <1>5, RepliesOf DEF Alive, Early
  <2>4. PICK d \in Nat : d = a - Len(q) - Len(w) /\ d = Passed(u)
    BY <1>1, <2>3 DEF Latest, Passed
  <2>5. Follow(w, d) /\ Follow(q, d + Len(w)) /\ (u \in UsersOf("udp") => d = 0)
    BY <1>1, <2>3, <2>4 DEF Latest
  <2>6. /\ (a + 1) - Len(Append(q, a + 1)) - Len(w) = d
        /\ Follow(Append(q, a + 1), d + Len(w))
    BY <1>2, <2>4, <2>5, QueueOne
  <2>7. Passed(u)' = d
    BY <2>1, <2>6 DEF Passed
  <2>8. Latest(u)'
    BY <1>3, <2>1, <2>5, <2>6, <2>7 DEF Latest
  <2>9. RepliesInv(u)'
    BY <1>3, <2>1, <2>2, <2>3, <2>8 DEF RepliesInv, Early
  <2>10. AllReplies'
    BY <1>3, <2>1, <2>9, RepliesOfOne DEF IInv
  <2> QED
    BY <1>3, <2>10 DEF IInv, SentInv, Datagrams, Consumed
<1>6. CASE ~Alive(u) /\ replies' = [replies EXCEPT ![u].arrived = a + 1]
  <2> DEFINE s == [queue |-> q, arrived |-> a + 1, written |-> w]
  <2>1. /\ replies' = [v \in User |-> replies'[v]] /\ replies'[u] = s
        /\ \A v \in User \ {u} : replies'[v] = replies[v]
    <3>1. replies'[u] = s
      BY <1>2, <1>3, <1>6
    <3>2. replies' = [v \in User |-> replies'[v]]
      BY <1>3, <1>6
    <3>3. \A v \in User \ {u} : replies'[v] = replies[v]
      BY <1>3, <1>6
    <3> QED
      BY <3>1, <3>2, <3>3
  <2>2. s \in ReplyRecord
    BY <1>2 DEF ReplyRecord
  <2>3. Early(u) => q = <<>> /\ w = <<>>
    BY <1>1 DEF IInv, AllReplies, RepliesInv
  <2>4. RepliesInv(u)'
    BY <1>2, <1>3, <1>6, <2>1, <2>2, <2>3 DEF RepliesInv, Early, Alive
  <2>5. AllReplies'
    BY <1>3, <2>1, <2>4, RepliesOfOne DEF IInv
  <2> QED
    BY <1>3, <2>5 DEF IInv, SentInv, Datagrams, Consumed
<1> QED
  BY <1>1, <1>5, <1>6 DEF Reply, HasRoom, NoReceiver

\* The link task writes the first reply that it holds.
LEMMA WriteReplyData ==
  ASSUME IInv, NEW u \in User, WriteReply(u)
  PROVE  SentInv' /\ AllReplies'
<1>1. PICK q, w, a : q = replies[u].queue /\ w = replies[u].written /\ a = replies[u].arrived
  OBVIOUS
<1>2. /\ q \in Seq(Nat) /\ w \in Seq(Nat) /\ a \in Nat /\ Len(q) <= ReplyCap
      /\ replies[u] = [queue |-> q, arrived |-> a, written |-> w]
  BY <1>1, RepliesOf
<1>3. /\ UNCHANGED <<kind, link, outQ, input, taken>> /\ UsersOf("udp")' = UsersOf("udp")
      /\ replies = [v \in User |-> replies[v]] /\ q # <<>> /\ Alive(u) /\ ~Early(u)
  BY <1>1 DEF WriteReply, mainVars, sendVars, UsersOf, IInv, AllReplies, Alive, Early
<1> DEFINE wr == Append(w, Head(q))
           s == [queue |-> Tail(q), arrived |-> a, written |-> wr]
<1>4. replies' = [replies EXCEPT ![u].written = Append(@, Head(q)), ![u].queue = Tail(@)]
  BY <1>1 DEF WriteReply
<1>5. /\ replies' = [v \in User |-> replies'[v]] /\ replies'[u] = s
      /\ \A v \in User \ {u} : replies'[v] = replies[v]
  <2>1. replies'[u] = [queue |-> Tail(replies[u].queue), arrived |-> replies[u].arrived,
                       written |-> Append(replies[u].written, Head(q))]
    <3>1. replies[u] = [queue |-> replies[u].queue, arrived |-> replies[u].arrived,
                        written |-> replies[u].written]
      BY RepliesOf
    <3> QED
      BY <1>3, <1>4, <3>1
  <2>2. replies' = [v \in User |-> replies'[v]]
    BY <1>3, <1>4
  <2>3. \A v \in User \ {u} : replies'[v] = replies[v]
    BY <1>3, <1>4
  <2> QED
    BY <1>1, <2>1, <2>2, <2>3
<1>6. Latest(u)
  BY <1>3, RepliesOf
<1>7. PICK d \in Nat : d = a - Len(q) - Len(w) /\ d = Passed(u)
  BY <1>1, <1>6 DEF Latest, Passed
<1>8. Follow(w, d) /\ Follow(q, d + Len(w)) /\ (u \in UsersOf("udp") => d = 0)
  BY <1>1, <1>6, <1>7 DEF Latest
<1>9. /\ wr \in Seq(Nat) /\ Tail(q) \in Seq(Nat) /\ Len(Tail(q)) <= Len(q)
      /\ a - Len(Tail(q)) - Len(wr) = d
      /\ Follow(wr, d) /\ Follow(Tail(q), d + Len(wr))
  BY <1>2, <1>3, <1>7, <1>8, WriteOne
<1>10. Len(Tail(q)) <= ReplyCap /\ s \in ReplyRecord
  BY <1>2, <1>9, ClientAssumption DEF ReplyRecord
<1> HIDE DEF wr
<1>11. Passed(u)' = d
  BY <1>5, <1>9 DEF Passed
<1>12. Latest(u)'
  BY <1>3, <1>5, <1>8, <1>9, <1>11 DEF Latest
<1>13. RepliesInv(u)'
  BY <1>3, <1>5, <1>10, <1>12 DEF RepliesInv, Early
<1>14. AllReplies'
  BY <1>3, <1>5, <1>13, RepliesOfOne DEF IInv
<1> QED
  BY <1>3, <1>14 DEF IInv, SentInv, Datagrams, Consumed

\* A link task reads what a connection has sent, or the next datagram.
LEMMA TakeBytesData ==
  ASSUME IInv, NEW u \in User, TakeBytes(u)
  PROVE  SentInv' /\ AllReplies'
<1>1. /\ UNCHANGED <<kind, replies, input>> /\ link[u] = "select"
      /\ link' = [link EXCEPT ![u] = "sending"]
      /\ \/ taken' = [taken EXCEPT ![u] = input[u]] /\ outQ' = outQ
         \/ outQ[u] # <<>> /\ outQ' = [outQ EXCEPT ![u] = Tail(outQ[u])] /\ taken' = taken
  BY DEF TakeBytes, mainVars
<1>2. \A v \in User : (Early(v)' => Early(v)) /\ (Alive(v)' => Alive(v))
  BY <1>1 DEF IInv, ControlInv, ControlTyped, Early, Alive
<1>3. AllReplies'
  BY <1>1, <1>2, RepliesFrame DEF IInv
<1>4. outQ[u] \in Seq(Nat) /\ Len(outQ[u]) <= OutCap /\ OutCap \in Nat
  BY ClientAssumption DEF IInv, SentInv, Datagrams, Consumed
<1>5. outQ[u] # <<>> => Tail(outQ[u]) \in Seq(Nat) /\ Len(Tail(outQ[u])) <= OutCap
  BY <1>4
<1>6. Datagrams'
  BY <1>1, <1>5 DEF IInv, SentInv, Datagrams
<1>7. Consumed'
  <2>1. Consumed /\ input' = input /\ (taken' = taken \/ taken' = [taken EXCEPT ![u] = input[u]])
    BY <1>1 DEF IInv, SentInv
  <2> QED
    BY <2>1 DEF Consumed
<1> QED
  BY <1>3, <1>6, <1>7 DEF SentInv

LEMMA LinkData ==
  ASSUME IInv, NEW u \in User, Outside(u) \/ LinkStep(u) \/ LinkPanics(u)
  PROVE  SentInv' /\ AllReplies'
<1>1. ASSUME UNCHANGED <<kind, replies, outQ, taken>>,
             input' = input \/ input' = [input EXCEPT ![u] = @ + 1],
             \A v \in User \ {u} : link'[v] = link[v],
             (Early(u)' => Early(u)) /\ (Alive(u)' => Alive(u))
      PROVE  SentInv' /\ AllReplies'
  <2>1. \A v \in User : (Early(v)' => Early(v)) /\ (Alive(v)' => Alive(v))
    BY <1>1 DEF IInv, ControlInv, ControlTyped, Early, Alive
  <2>2. AllReplies'
    BY <1>1, <2>1, RepliesFrame DEF IInv
  <2>3. Consumed'
    <3>1. Consumed
      BY DEF IInv, SentInv
    <3> QED
      BY <1>1, <3>1 DEF Consumed
  <2> QED
    BY <1>1, <2>2, <2>3 DEF IInv, SentInv, Datagrams
<1> USE DEF Early, Alive, IInv, ControlInv, ControlTyped, mainVars, sendVars
<1>2. CASE UserSends(u)
  BY <1>1, <1>2 DEF UserSends
<1>3. CASE ChannelOpens(u)
  BY <1>1, <1>3 DEF ChannelOpens
<1>4. CASE ChannelCloses(u)
  BY <1>1, <1>4 DEF ChannelCloses
<1>5. CASE SendSlice(u)
  BY <1>1, <1>5 DEF SendSlice
<1>6. CASE LinkEnds(u)
  BY <1>1, <1>6 DEF LinkEnds
<1>7. CASE LinkPanics(u)
  BY <1>1, <1>7 DEF LinkPanics
<1> QED
  BY <1>2, <1>3, <1>4, <1>5, <1>6, <1>7, ReplyData, WriteReplyData, TakeBytesData
     DEF Outside, LinkStep

-----------------------------------------------------------------------------
\* Every step preserves the invariant.
LEMMA NextIInv == IInv /\ [Next]_vars => IInv'
<1> SUFFICES ASSUME IInv, [Next]_vars PROVE IInv'
  OBVIOUS
<1>1. CASE Setup \/ SetupFails \/ CtrlC \/ MainStep
  BY <1>1, MainControl, MainData DEF IInv
<1>2. ASSUME NEW p \in Port, ForwarderStep(p) \/ Failures(p) \/ Abort(p) \/ EndReceived(p)
      PROVE  IInv'
  BY <1>2, ForwarderControl, ForwarderData DEF IInv
<1>3. ASSUME NEW u \in User, Outside(u) \/ LinkStep(u) \/ LinkPanics(u) PROVE IInv'
  BY <1>3, LinkControl, LinkData DEF IInv
<1>4. CASE UNCHANGED vars
  <2>1. ControlInv'
    BY <1>4 DEF IInv, ControlInv, ControlTyped, MainOrder, BusyWith, NoneOrphaned, TcpConnections,
                ClosesOnlyOnCtrlC, UsersOf, Configured, vars, mainVars, fwdVars
  <2>2. AllReplies'
    BY <1>4, RepliesFrame DEF IInv, Early, Alive, vars, mainVars
  <2> QED
    BY <1>4, <2>1, <2>2 DEF IInv, SentInv, Datagrams, Consumed, vars, sendVars
<1> QED
  BY <1>1, <1>2, <1>3, <1>4 DEF Next

\* Control, datagrams and replies stay consistent as above, for any set of ports and
\* users and any capacities (client.rs:125-317).
THEOREM Invariance == Spec => []IInv
  BY InitIInv, NextIInv, PTL DEF Spec

\* The state is well formed, and no channel of datagrams or replies ever holds
\* more than its capacity, whatever these are (client.rs:162, 170, 235).
THEOREM TypeCorrect == Spec => []TypeOK
<1>1. IInv => TypeOK
  BY DEF IInv, ControlInv, ControlTyped, SentInv, Datagrams, Consumed, AllReplies,
        RepliesInv, TypeOK
<1> QED
  BY <1>1, Invariance, PTL

\* As long as its link task lives, a user gets every reply that came after
\* on_message was set, in order, with those that are still queued the latest
\* without a gap; on UDP that is every reply (client.rs:170-178, 235-243).
THEOREM RepliesKept == Spec => []NoReplyLost
<1>1. IInv => NoReplyLost
  <2> SUFFICES ASSUME IInv, NEW u \in User, Alive(u)
               PROVE  LET kept == replies[u].written \o replies[u].queue IN
                      /\ \A i \in DOMAIN kept : kept[i] = replies[u].arrived - Len(kept) + i
                      /\ u \in UsersOf("udp") => Len(kept) = replies[u].arrived
    BY DEF NoReplyLost
  <2>1. PICK q, w, a : q = replies[u].queue /\ w = replies[u].written /\ a = replies[u].arrived
    OBVIOUS
  <2>2. q \in Seq(Nat) /\ w \in Seq(Nat) /\ a \in Nat /\ Latest(u)
    BY <2>1, RepliesOf
  <2>3. PICK d \in Nat : d = a - Len(q) - Len(w) /\ d = Passed(u)
    BY <2>1, <2>2 DEF Latest, Passed
  <2>4. Follow(w, d) /\ Follow(q, d + Len(w)) /\ (u \in UsersOf("udp") => d = 0)
    BY <2>1, <2>2, <2>3 DEF Latest
  <2>5. /\ \A i \in DOMAIN (w \o q) : (w \o q)[i] = a - Len(w \o q) + i
        /\ d = 0 => Len(w \o q) = a
    BY <2>2, <2>3, <2>4, KeptAreLatest
  <2> QED
    BY <2>1, <2>4, <2>5, Zenon
<1> QED
  BY <1>1, Invariance, PTL

\* The client closes a working connection and returns Ok only when Ctrl-C was
\* pressed: no forwarder ends with Ok, which join_next would take for it, as long
\* as the main task is in its select! (client.rs:202, 270, 294-317).
THEOREM ClosesWhenTold == Spec => []ClosesOnlyOnCtrlC
<1>1. IInv => ClosesOnlyOnCtrlC
  BY DEF IInv, ControlInv, MainOrder
<1> QED
  BY <1>1, Invariance, PTL

\* A connection that was accepted is never left behind: its forwarder is busy
\* with it until its link task is spawned or the connection dropped, also when
\* the forwarder fails or is aborted (client.rs:213-270).
THEOREM ConnectionsHeld == Spec => []NoneOrphaned
<1>1. IInv => NoneOrphaned
  BY DEF IInv, ControlInv
<1> QED
  BY <1>1, Invariance, PTL
=============================================================================
