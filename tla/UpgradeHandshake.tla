--------------------------- MODULE UpgradeHandshake ---------------------------
(***************************************************************************)
(* The upgrade of one connection: UpgradeWebRTCClient::upgrade on the one  *)
(* side, the task that UpgradeWebRTCServer::run spawns for the connection  *)
(* on the other, and the ICE gatherer of each side's RTCPeerConnection.    *)
(* The transport is what StreamTransport is proved to provide: two FIFO    *)
(* channels of objects (ObjectChannel).  bitcode is not self-describing,   *)
(* so each object carries the Rust type it was serialised from, and a      *)
(* receiver asking for another one gets a DeserializeError.                *)
(*                                                                         *)
(* A client may call upgrade again on the same connection: each call is an *)
(* attempt, and every message is tagged with the attempt it belongs to.    *)
(***************************************************************************)
EXTENDS Integers, Sequences

CONSTANTS
  Cand,             \* the ICE candidates a gatherer may find
  NoCand,           \* None: the end of the candidates
  QueueCap,         \* capacity of the mpsc channel of candidates (3 in the code)
  WireCap,          \* how many objects a direction of the transport holds
  MaxAttempts,      \* bound: the number of upgrade calls
  Faults,           \* whether WebRTC calls and the connection may fail
  ReuseAfterError   \* whether the client calls upgrade again after an error

ASSUME HandshakeAssumption ==
  /\ NoCand \notin Cand
  /\ QueueCap \in Nat \ {0} /\ WireCap \in Nat \ {0} /\ MaxAttempts \in Nat
  /\ Faults \in BOOLEAN /\ ReuseAfterError \in BOOLEAN

VARIABLES
  pc,         \* where each side is
  wire,       \* wire[s]: the objects s has sent that the other has not received
  dropped,    \* whether each side's end of the connection is gone
  session,    \* the attempt each side is in, 0 before the first
  answered,   \* the attempt of the answer that the client applied
  registered, \* whether on_ice_candidate is set on the side's current peer
  gathering,  \* the state of its ICE gatherer
  queue,      \* the mpsc channel between the gatherer's callback and the side
  out,        \* the object its ICE loop is in the middle of sending
  doneSending, doneReceiving,
  published,  \* history: the candidates each gatherer handed to the callback
  closed,     \* history: the attempts whose None was handed to it
  lost,       \* history: what a gatherer found while no callback was set
  learned,    \* history: the candidates passed to add_ice_candidate
  concluded,  \* history: the attempts each side reported upgraded; the client's
              \* only until it has reused a connection after an error
  reused      \* history: upgrade was called after an error

netVars == <<wire, dropped>>
iceVars == <<registered, gathering, queue, out, doneSending, doneReceiving>>
historyVars == <<published, closed, lost, learned, concluded>>
vars == <<pc, netVars, session, answered, iceVars, historyVars, reused>>

Side == {"client", "server"}
Other(s) == IF s = "client" THEN "server" ELSE "client"
Type == {"offer", "answer", "opt_ice", "opt_message"}
Message == [type : Type, tag : 0..MaxAttempts, cand : Cand \union {NoCand}]
Msg(t, s, c) == [type |-> t, tag |-> session[s], cand |-> c]

\* The candidate c of session r, if it is one
OfSession(r, c) == IF c = NoCand THEN {} ELSE {<<r, c>>}

Init ==
  /\ pc = [client |-> "ready", server |-> "recv_offer"]
  /\ wire = [s \in Side |-> <<>>] /\ dropped = [s \in Side |-> FALSE]
  /\ session = [s \in Side |-> 0] /\ answered = 0
  /\ registered = [s \in Side |-> FALSE] /\ gathering = [s \in Side |-> "new"]
  /\ queue = [s \in Side |-> <<>>] /\ out = [s \in Side |-> NoCand]
  /\ doneSending = [s \in Side |-> FALSE] /\ doneReceiving = [s \in Side |-> FALSE]
  /\ published = [s \in Side |-> {}] /\ closed = [s \in Side |-> {}]
  /\ lost = [s \in Side |-> {}] /\ learned = [s \in Side |-> {}]
  /\ concluded = [s \in Side |-> {}] /\ reused = FALSE

-----------------------------------------------------------------------------
(* The transport *)

\* send_obj waits for room; what is sent to a dropped end goes nowhere
Put(s, m) ==
  /\ Len(wire[s]) < WireCap
  /\ wire' = IF dropped[Other(s)] THEN wire ELSE [wire EXCEPT ![s] = Append(@, m)]
Incoming(s) == wire[Other(s)]
Take(s) == wire' = [wire EXCEPT ![Other(s)] = Tail(@)]

\* The type recv_obj is asked for at each place that calls it
Expected(s) ==
  CASE pc[s] = "recv_offer"  -> "offer"
    [] pc[s] = "recv_answer" -> "answer"
    [] pc[s] = "ice"         -> IF s = "server" THEN "opt_ice" ELSE "opt_message"
Receiving(s) == pc[s] \in {"recv_offer", "recv_answer", "ice"}
Sending(s) == pc[s] \in {"send_offer", "send_answer", "ice_send"}
Arrives(s) == Receiving(s) /\ Incoming(s) # <<>> /\ Head(Incoming(s)).type = Expected(s)

\* The two sides' error paths.  The client's ? returns the error and leaves the
\* transport to its caller; the server's task calls on_err and ends.
Fail(s) ==
  /\ pc' = [pc EXCEPT ![s] = IF s = "client" THEN "error" ELSE "ended"]
  /\ dropped' = [dropped EXCEPT ![s] = @ \/ s = "server"]

-----------------------------------------------------------------------------
(* The gatherers (webrtc-rs) *)

\* mutant: an unbounded channel
Unbounded(s) == TRUE
HasRoom(s) == Len(queue[s]) < QueueCap

\* A gatherer hands what it finds to the callback and waits for it, so for
\* room in the channel; with no callback set it is dropped.
HandOver(s, c) ==
  \/ /\ registered[s] /\ HasRoom(s)
     /\ queue' = [queue EXCEPT ![s] = Append(@, c)]
     /\ closed' = [closed EXCEPT ![s] = IF c = NoCand THEN @ \union {session[s]} ELSE @]
     /\ published' = [published EXCEPT ![s] = @ \union OfSession(session[s], c)]
     /\ UNCHANGED lost
  \/ /\ ~registered[s]
     /\ lost' = [lost EXCEPT ![s] = @ \union {<<session[s], c>>}]
     /\ UNCHANGED <<queue, published, closed>>

\* It finds some of the candidates, each once, ...
FindCandidate(s) ==
  /\ gathering[s] = "gathering"
  /\ \E c \in Cand :
       /\ <<session[s], c>> \notin published[s] \union lost[s]
       /\ HandOver(s, c)
  /\ UNCHANGED <<pc, netVars, session, answered, registered, gathering, out, doneSending,
                 doneReceiving, learned, concluded, reused>>

\* ... and finishes with None
FinishGathering(s) ==
  /\ gathering[s] = "gathering"
  /\ gathering' = [gathering EXCEPT ![s] = "complete"]
  /\ HandOver(s, NoCand)
  /\ UNCHANGED <<pc, netVars, session, answered, registered, out, doneSending,
                 doneReceiving, learned, concluded, reused>>

\* mutant: on_ice_candidate is not set on the server's peer
NoCallback(s) == FALSE

\* Whether on_ice_candidate is set on a new peer before the gatherer starts
CallbackFirst(s) == s = "server"

\* A fresh RTCPeerConnection for attempt n
NewPeer(s, n) ==
  /\ session' = [session EXCEPT ![s] = n]
  /\ registered' = [registered EXCEPT ![s] = CallbackFirst(s)]
  /\ gathering' = [gathering EXCEPT ![s] = "new"]
  /\ queue' = [queue EXCEPT ![s] = <<>>]
  /\ out' = [out EXCEPT ![s] = NoCand]
  /\ doneSending' = [doneSending EXCEPT ![s] = FALSE]
  /\ doneReceiving' = [doneReceiving EXCEPT ![s] = FALSE]

\* set_local_description starts the gatherer
SetLocal(s, next) ==
  /\ pc[s] = "set_local"
  /\ pc' = [pc EXCEPT ![s] = next]
  /\ gathering' = [gathering EXCEPT ![s] = "gathering"]
  /\ UNCHANGED <<netVars, session, answered, registered, queue, out, doneSending,
                 doneReceiving, historyVars, reused>>

-----------------------------------------------------------------------------
(* The client *)

\* mutant: upgrade takes &self, so a call may begin while another one waits
Shared == pc["client"] \in {"ready", "upgraded", "recv_answer"}

\* upgrade takes &mut self: a call begins when the one before it has returned
ClientFree == pc["client"] \in {"ready", "upgraded"} \/ (ReuseAfterError /\ pc["client"] = "error")

\* upgrade is called: new peer, data channels, offer
Upgrade ==
  /\ ClientFree /\ ~dropped["client"] /\ session["client"] < MaxAttempts
  /\ pc' = [pc EXCEPT !["client"] = "send_offer"]
  /\ NewPeer("client", session["client"] + 1)
  /\ reused' = (reused \/ pc["client"] = "error")
  /\ UNCHANGED <<netVars, answered, historyVars>>

SendOffer ==
  /\ pc["client"] = "send_offer"
  /\ Put("client", Msg("offer", "client", NoCand))
  /\ pc' = [pc EXCEPT !["client"] = "set_local"]
  /\ UNCHANGED <<dropped, session, answered, iceVars, historyVars, reused>>

ClientSetLocal == SetLocal("client", "recv_answer")

\* The loop that waits for the answer; the server sends no bare
\* RTCMessage::ICE, so nothing is buffered in ices
RecvAnswer ==
  /\ pc["client"] = "recv_answer" /\ Arrives("client")
  /\ Take("client")
  /\ answered' = Head(Incoming("client")).tag
  /\ pc' = [pc EXCEPT !["client"] = "apply"]
  /\ UNCHANGED <<dropped, session, iceVars, historyVars, reused>>

\* set_remote_description, then on_ice_candidate
ApplyAnswer ==
  /\ pc["client"] = "apply"
  /\ registered' = [registered EXCEPT !["client"] = TRUE]
  /\ pc' = [pc EXCEPT !["client"] = "ice"]
  /\ UNCHANGED <<netVars, session, answered, gathering, queue, out, doneSending,
                 doneReceiving, historyVars, reused>>

\* The caller of upgrade is done with the connection
DropClient ==
  /\ pc["client"] \in {"ready", "upgraded", "error"} /\ ~dropped["client"]
  /\ dropped' = [dropped EXCEPT !["client"] = TRUE]
  /\ UNCHANGED <<pc, wire, session, answered, iceVars, historyVars, reused>>

-----------------------------------------------------------------------------
(* The server's task *)

\* An offer arrives: new peer, both callbacks, set_remote_description,
\* create_answer
RecvOffer ==
  /\ pc["server"] = "recv_offer" /\ Arrives("server")
  /\ Take("server")
  /\ NewPeer("server", Head(Incoming("server")).tag)
  /\ pc' = [pc EXCEPT !["server"] = "send_answer"]
  /\ UNCHANGED <<dropped, answered, historyVars, reused>>

SendAnswer ==
  /\ pc["server"] = "send_answer"
  /\ Put("server", Msg("answer", "server", NoCand))
  /\ pc' = [pc EXCEPT !["server"] = "set_local"]
  /\ UNCHANGED <<dropped, session, answered, iceVars, historyVars, reused>>

ServerSetLocal == SetLocal("server", "ice")

\* on_success returns and the task waits for the next offer
SuccessReturns ==
  /\ pc["server"] = "upgraded"
  /\ pc' = [pc EXCEPT !["server"] = "recv_offer"]
  /\ UNCHANGED <<netVars, session, answered, iceVars, historyVars, reused>>

-----------------------------------------------------------------------------
(* The ICE loop, the same on both sides: one select! branch sends what the  *)
(* gatherer finds, the other receives.  It ends once a None went each way.  *)

\* mutant: the loop ends with the first None
EndsEarly(sending, receiving) == sending \/ receiving
LoopEnds(sending, receiving) == sending /\ receiving

Continue(s, sending, receiving) ==
  LET end == LoopEnds(sending, receiving) IN
  /\ pc' = [pc EXCEPT ![s] = IF end THEN "upgraded" ELSE "ice"]
  /\ concluded' = [concluded EXCEPT ![s] =
                     IF end /\ (s = "client" => ~reused) THEN @ \union {session[s]} ELSE @]
  /\ doneSending' = [doneSending EXCEPT ![s] = sending]
  /\ doneReceiving' = [doneReceiving EXCEPT ![s] = receiving]

\* mutant: a None is taken for one more candidate
NeverEnd(c) == FALSE
IsEnd(c) == c = NoCand

\* ice_receiver.recv() is ready: recv_obj is cancelled
TakeCandidate(s) ==
  /\ pc[s] = "ice" /\ queue[s] # <<>>
  /\ out' = [out EXCEPT ![s] = Head(queue[s])]
  /\ queue' = [queue EXCEPT ![s] = Tail(@)]
  /\ pc' = [pc EXCEPT ![s] = "ice_send"]
  /\ UNCHANGED <<netVars, session, answered, registered, gathering, doneSending,
                 doneReceiving, historyVars, reused>>

\* send_obj, which nothing cancels: meanwhile the side receives nothing
SendCandidate(s) ==
  /\ pc[s] = "ice_send"
  /\ Put(s, Msg(IF s = "client" THEN "opt_ice" ELSE "opt_message", s, out[s]))
  /\ Continue(s, doneSending[s] \/ IsEnd(out[s]), doneReceiving[s])
  /\ UNCHANGED <<dropped, session, answered, registered, gathering, queue, out,
                 published, closed, lost, learned, reused>>

\* mutant: add_ice_candidate is not called
NothingAdded(m) == {}
Added(m) == OfSession(m.tag, m.cand)

\* recv_obj returns a candidate, which is added, or None
RecvCandidate(s) ==
  /\ pc[s] = "ice" /\ Arrives(s)
  /\ Take(s)
  /\ LET m == Head(Incoming(s))
     IN  /\ Continue(s, doneSending[s], doneReceiving[s] \/ IsEnd(m.cand))
         /\ learned' = [learned EXCEPT ![s] = @ \union Added(m)]
  /\ UNCHANGED <<dropped, session, answered, registered, gathering, queue, out,
                 published, closed, lost, reused>>

-----------------------------------------------------------------------------
(* Failures *)

\* recv_obj returns a DeserializeError: the frame is gone
BadMessage(s) ==
  /\ Receiving(s) /\ Incoming(s) # <<>> /\ Head(Incoming(s)).type # Expected(s)
  /\ Take(s) /\ Fail(s)
  /\ UNCHANGED <<session, answered, iceVars, historyVars, reused>>

\* mutant: the end of the stream is reported before what was sent is read
AtAnyTime(s) == TRUE
AllReceived(s) == Incoming(s) = <<>>

\* recv_obj meets the end of the stream, or send_obj a closed connection
ConnectionLost(s) ==
  /\ dropped[Other(s)]
  /\ (Receiving(s) /\ AllReceived(s)) \/ Sending(s)
  /\ Fail(s)
  /\ UNCHANGED <<wire, session, answered, iceVars, historyVars, reused>>

\* A WebRTC call fails: creating the peer or the offer, setting a description,
\* or, on the server, converting the candidate to send
WebRTCError(s) ==
  /\ Faults
  /\ \/ pc[s] \in {"send_offer", "send_answer", "set_local", "apply"}
     \/ s = "server" /\ pc[s] = "ice_send"
  /\ Fail(s)
  /\ UNCHANGED <<wire, session, answered, iceVars, historyVars, reused>>

\* add_ice_candidate fails
AddCandidateError(s) ==
  /\ Faults /\ pc[s] = "ice" /\ Arrives(s) /\ Head(Incoming(s)).cand # NoCand
  /\ Take(s) /\ Fail(s)
  /\ UNCHANGED <<session, answered, iceVars, historyVars, reused>>

\* The connection breaks: nothing that was on it arrives
ConnectionBreaks ==
  /\ Faults /\ ~(\A s \in Side : dropped[s])
  /\ dropped' = [s \in Side |-> TRUE] /\ wire' = [s \in Side |-> <<>>]
  /\ UNCHANGED <<pc, session, answered, iceVars, historyVars, reused>>

-----------------------------------------------------------------------------
ClientStep == SendOffer \/ ClientSetLocal \/ RecvAnswer \/ ApplyAnswer
ServerStep == RecvOffer \/ SendAnswer \/ ServerSetLocal \/ SuccessReturns
IceStep(s) == TakeCandidate(s) \/ SendCandidate(s) \/ RecvCandidate(s)
Failure(s) == BadMessage(s) \/ ConnectionLost(s) \/ WebRTCError(s) \/ AddCandidateError(s)
Gatherer(s) == FindCandidate(s) \/ FinishGathering(s)

Next ==
  \/ Upgrade \/ ClientStep \/ DropClient \/ ServerStep \/ ConnectionBreaks
  \/ \E s \in Side : IceStep(s) \/ Failure(s) \/ Gatherer(s)

Spec == Init /\ [][Next]_vars

\* Both tasks are run by tokio whenever they can go on, and a gatherer ends.
\* select! polls its branches in random order, so neither is starved: an
\* incoming object that stays available is received.  SuccessReturns is the
\* server's caller returning from its callback.
Fairness ==
  /\ WF_vars(ClientStep) /\ WF_vars(ServerStep)
  /\ \A s \in Side :
       /\ WF_vars(SendCandidate(s)) /\ SF_vars(TakeCandidate(s)) /\ SF_vars(RecvCandidate(s))
       /\ WF_vars(BadMessage(s)) /\ WF_vars(ConnectionLost(s)) /\ WF_vars(FinishGathering(s))
FairSpec == Spec /\ Fairness

-----------------------------------------------------------------------------
ClientStates == {"ready", "send_offer", "set_local", "recv_answer", "apply", "ice",
                 "ice_send", "upgraded", "error"}
ServerStates == {"recv_offer", "send_answer", "set_local", "ice", "ice_send", "upgraded", "ended"}

\* The state is well formed, and the channel of candidates within its capacity
\* (client.rs:119-190, server.rs:138-255).
TypeOK ==
  /\ pc["client"] \in ClientStates /\ pc["server"] \in ServerStates
  /\ \A s \in Side :
       /\ wire[s] \in Seq(Message) /\ Len(wire[s]) <= WireCap
       /\ dropped[s] \in BOOLEAN /\ session[s] \in 0..MaxAttempts
       /\ registered[s] \in BOOLEAN /\ gathering[s] \in {"new", "gathering", "complete"}
       /\ queue[s] \in Seq(Cand \union {NoCand}) /\ Len(queue[s]) <= QueueCap
       /\ out[s] \in Cand \union {NoCand}
       /\ doneSending[s] \in BOOLEAN /\ doneReceiving[s] \in BOOLEAN
       /\ published[s] \union learned[s] \subseteq (0..MaxAttempts) \X Cand
       /\ lost[s] \subseteq (0..MaxAttempts) \X (Cand \union {NoCand})
       /\ closed[s] \union concluded[s] \subseteq 0..MaxAttempts
  /\ answered \in 0..MaxAttempts /\ reused \in BOOLEAN

\* As long as the client does not reuse a connection after an error, what a
\* side receives was serialised from the type it asks recv_obj for: the two
\* loops leave the stream at the same place, also when upgrade is called again
\* after a success (client.rs:134, 170; server.rs:140, 234).
WireTypesAgree ==
  ~reused => \A s \in Side :
    Receiving(s) /\ Incoming(s) # <<>> => Head(Incoming(s)).type = Expected(s)

\* Likewise, the answer a client applies is the answer to its own offer, and
\* everything it learns afterwards is of that session (client.rs:133-144).
OwnAnswer ==
  ~reused /\ pc["client"] \in {"apply", "ice", "ice_send", "upgraded"} =>
    /\ answered = session["client"]
    /\ Incoming("client") # <<>> => Head(Incoming("client")).tag = session["client"]

\* The server's gatherer never runs without its callback: no candidate of the
\* server is dropped (server.rs:199-213).
ServerLosesNothing == lost["server"] = {}

\* Both sides implement the abstract exchange of candidates: a session that the
\* server reports upgraded has every candidate the client's peer of that
\* session published, whatever the client does with the connection, and the
\* other way round until it reuses one after an error (server.rs:215-253,
\* client.rs:158-189).
Exchange == INSTANCE CandidateExchange WITH Session <- 0..MaxAttempts
ExchangeSpec == Exchange!Spec

\* An upgrade that was begun returns, unless the gatherer finished before the
\* callback was set and its None was dropped (client.rs:132-153).
EndLost == <<session["client"], NoCand>> \in lost["client"]
UpgradeReturns ==
  (pc["client"] = "send_offer") ~> (pc["client"] \in {"upgraded", "error"} \/ EndLost)

\* When upgrade returned Ok, the server comes to report the same session, even
\* if the client drops the connection at once (server.rs:215-253).
ServerFollows ==
  \A r \in 1..MaxAttempts : (r \in concluded["client"]) ~> (r \in concluded["server"])

-----------------------------------------------------------------------------
(* What the code's documents say and the code does not do *)

\* "Client should have upgraded" (upgrade2webrtc/src/lib.rs:110): with nothing
\* failing, an upgrade that was begun succeeds.
ClientUpgrades == (pc["client"] = "send_offer") ~> (pc["client"] = "upgraded")
=============================================================================
