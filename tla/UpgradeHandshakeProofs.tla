------------------------ MODULE UpgradeHandshakeProofs ------------------------
(***************************************************************************)
(* For any candidates, capacities, number of attempts and failures: the    *)
(* server drops no candidate (ServerLosesNothing), and until the client    *)
(* reuses a connection after an error both sides read every object as the  *)
(* type it was written from (WireTypesAgree) and the client applies the    *)
(* answer to its own offer (OwnAnswer).                                    *)
(***************************************************************************)
EXTENDS UpgradeHandshake, SequenceLemmas, TLAPS

Candidates == Cand \union {NoCand}

ControlTyped ==
  /\ pc \in [Side -> ClientStates \union ServerStates]
  /\ pc["client"] \in ClientStates /\ pc["server"] \in ServerStates
  /\ dropped \in [Side -> BOOLEAN] /\ session \in [Side -> 0..MaxAttempts]
  /\ registered \in [Side -> BOOLEAN] /\ gathering \in [Side -> {"new", "gathering", "complete"}]
  /\ doneSending \in [Side -> BOOLEAN] /\ doneReceiving \in [Side -> BOOLEAN]
  /\ answered \in 0..MaxAttempts /\ reused \in BOOLEAN
WireTyped == wire \in [Side -> Seq(Message)] /\ \A s \in Side : Len(wire[s]) <= WireCap
QueueTyped ==
  /\ queue \in [Side -> Seq(Candidates)] /\ \A s \in Side : Len(queue[s]) <= QueueCap
  /\ out \in [Side -> Candidates]
HistoryTyped ==
  /\ published \in [Side -> SUBSET ((0..MaxAttempts) \X Cand)]
  /\ learned \in [Side -> SUBSET ((0..MaxAttempts) \X Cand)]
  /\ lost \in [Side -> SUBSET ((0..MaxAttempts) \X Candidates)]
  /\ closed \in [Side -> SUBSET (0..MaxAttempts)] /\ concluded \in [Side -> SUBSET (0..MaxAttempts)]
Typed == ControlTyped /\ WireTyped /\ QueueTyped /\ HistoryTyped

\* The server's gatherer starts with the callback set.
CallbackSet ==
  /\ pc["server"] \in {"send_answer", "set_local"} \/ gathering["server"] # "new"
       => registered["server"]
  /\ ServerLosesNothing

\* A gatherer starts after the offer or answer is sent and ends with None, which
\* is the last that the ICE loop takes from the channel and sends; the loop goes
\* on until a None went each way.
Fresh(s) == pc[s] \in {"send_offer", "send_answer", "set_local"}
EndIsLast(s) ==
  \A i \in 1..Len(queue[s]) :
    queue[s][i] = NoCand => i = Len(queue[s]) /\ gathering[s] = "complete"
LoopInv(s) ==
  /\ Fresh(s) => gathering[s] = "new" /\ queue[s] = <<>>
  /\ Fresh(s) \/ pc[s] \in {"recv_answer", "apply"} => ~doneSending[s] /\ ~doneReceiving[s]
  /\ EndIsLast(s)
  /\ doneSending[s] \/ (pc[s] = "ice_send" /\ out[s] = NoCand)
       => queue[s] = <<>> /\ gathering[s] = "complete"
  /\ pc[s] = "ice_send" => ~doneSending[s]
  /\ pc[s] = "ice" => ~(doneSending[s] /\ doneReceiving[s])
  /\ pc[s] = "upgraded" => doneSending[s] /\ doneReceiving[s]

\* The place of each side in the stream of objects that it sends and receives:
\* 2n before the offer or answer of session n, 2n + 1 while its candidates come,
\* 2n + 2 after their end.  An object leads from one place to another.
Opens(m) == m.type \in {"offer", "answer"}
From(m) == IF Opens(m) THEN 2 * m.tag ELSE 2 * m.tag + 1
To(m) == IF Opens(m) \/ m.cand # NoCand THEN 2 * m.tag + 1 ELSE 2 * m.tag + 2
Between == {"ready", "recv_offer", "upgraded", "error", "ended"}
Unsent(s) == pc[s] \in {"send_offer", "send_answer"}
Unanswered(s) == s = "client" /\ pc[s] \in {"send_offer", "set_local", "recv_answer"}
Stage(before, after) == IF before THEN 0 ELSE IF after THEN 2 ELSE 1
OutPlace(s) == 2 * session[s] + Stage(Unsent(s), doneSending[s] \/ pc[s] \in Between)
InPlace(s) == 2 * session[s] + Stage(Unanswered(s), doneReceiving[s] \/ pc[s] \in Between)

\* What is on the wire to s leads without a gap from the place where s reads to
\* the one where the other side writes.
Up(s) == pc[s] \notin {"error", "ended"}
Kinds == [client |-> {"offer", "opt_ice"}, server |-> {"answer", "opt_message"}]
Chained(w, a, b) ==
  /\ a <= b
  /\ \A i \in 1..Len(w) : a <= From(w[i]) /\ To(w[i]) <= b
  /\ \A i, j \in 1..Len(w) : i < j => To(w[i]) <= From(w[j])
  /\ \A i \in 1..(Len(w) - 1) : To(w[i]) = From(w[i + 1])
  /\ w # <<>> => From(w[1]) = a
Complete(w, a, b) == IF w = <<>> THEN a = b ELSE To(w[Len(w)]) = b
StreamInv(s) ==
  Up(s) => /\ Chained(Incoming(s), InPlace(s), OutPlace(Other(s)))
           /\ ~dropped[s] /\ Up(Other(s)) =>
                Complete(Incoming(s), InPlace(s), OutPlace(Other(s)))

\* Each side sends its own types of objects.
OwnKinds == \A s \in Side : \A i \in 1..Len(wire[s]) : wire[s][i].type \in Kinds[s]

\* The client begins a session when the server has ended the one before it, and
\* the server is never ahead of the client.
InStep ==
  /\ 2 * session["client"] <= OutPlace("server")
  /\ session["server"] <= session["client"]
  /\ pc["client"] \in {"apply", "ice", "ice_send", "upgraded"} => answered = session["client"]

StreamsInv == ~reused => InStep /\ \A s \in Side : StreamInv(s)

\* The inductive invariant.
IInv == Typed /\ CallbackSet /\ OwnKinds /\ (\A s \in Side : LoopInv(s)) /\ StreamsInv

-----------------------------------------------------------------------------
(* Types                                                                   *)

LEMMA Sides == Side = {"client", "server"} /\ \A s \in Side : Other(s) \in Side /\ Other(s) # s
  BY DEF Side, Other

\* What a side receives was sent.
LEMMA HeadTyped ==
  ASSUME WireTyped, NEW s \in Side, Incoming(s) # <<>>
  PROVE  /\ Head(Incoming(s)) \in Message
         /\ Head(Incoming(s)).tag \in 0..MaxAttempts
         /\ Head(Incoming(s)).cand \in Candidates
<1>1. Incoming(s) \in Seq(Message)
  BY Sides DEF WireTyped, Incoming
<1>2. Head(Incoming(s)) \in Message
  BY <1>1
<1> QED
  BY <1>2 DEF Message, Candidates

LEMMA ControlTypes ==
  ASSUME ControlTyped, WireTyped, [Next]_vars
  PROVE  ControlTyped'
<1> USE HandshakeAssumption DEF Side, ControlTyped, ClientStates, ServerStates, iceVars, netVars
<1>1. CASE Upgrade
  BY <1>1 DEF Upgrade, NewPeer, CallbackFirst, ClientFree
<1>2. CASE SendOffer
  BY <1>2 DEF SendOffer
<1>3. CASE ClientSetLocal
  BY <1>3 DEF ClientSetLocal, SetLocal
<1>4. CASE RecvAnswer
  BY <1>4, HeadTyped DEF RecvAnswer, Arrives
<1>5. CASE ApplyAnswer
  BY <1>5 DEF ApplyAnswer
<1>6. CASE DropClient
  BY <1>6 DEF DropClient
<1>7. CASE RecvOffer
  BY <1>7, HeadTyped DEF RecvOffer, NewPeer, Arrives, CallbackFirst
<1>8. CASE SendAnswer
  BY <1>8 DEF SendAnswer
<1>9. CASE ServerSetLocal
  BY <1>9 DEF ServerSetLocal, SetLocal
<1>10. CASE SuccessReturns
  BY <1>10 DEF SuccessReturns
<1>11. CASE ConnectionBreaks
  BY <1>11 DEF ConnectionBreaks
<1>12. ASSUME NEW s \in Side, TakeCandidate(s) PROVE ControlTyped'
  BY <1>12 DEF TakeCandidate
<1>13. ASSUME NEW s \in Side, SendCandidate(s) PROVE ControlTyped'
  BY <1>13 DEF SendCandidate, Continue
<1>14. ASSUME NEW s \in Side, RecvCandidate(s) PROVE ControlTyped'
  BY <1>14, HeadTyped DEF RecvCandidate, Continue
<1>15. ASSUME NEW s \in Side, BadMessage(s) PROVE ControlTyped'
  BY <1>15 DEF BadMessage, Fail
<1>16. ASSUME NEW s \in Side, ConnectionLost(s) PROVE ControlTyped'
  BY <1>16 DEF ConnectionLost, Fail
<1>17. ASSUME NEW s \in Side, WebRTCError(s) PROVE ControlTyped'
  BY <1>17 DEF WebRTCError, Fail
<1>18. ASSUME NEW s \in Side, AddCandidateError(s) PROVE ControlTyped'
  BY <1>18 DEF AddCandidateError, Fail
<1>19. ASSUME NEW s \in Side, FindCandidate(s) PROVE ControlTyped'
  BY <1>19 DEF FindCandidate, HandOver
<1>20. ASSUME NEW s \in Side, FinishGathering(s) PROVE ControlTyped'
  BY <1>20 DEF FinishGathering, HandOver
<1>21. CASE UNCHANGED vars
  BY <1>21 DEF vars
<1> QED
  BY <1>1, <1>2, <1>3, <1>4, <1>5, <1>6, <1>7, <1>8, <1>9, <1>10, <1>11,
     <1>12, <1>13, <1>14, <1>15, <1>16, <1>17, <1>18, <1>19, <1>20, <1>21
     DEF Next, ClientStep, ServerStep, IceStep, Failure, Gatherer

\* One object is sent or received, or nothing moves.
LEMMA PutTyped ==
  ASSUME WireTyped, NEW s \in Side, NEW m \in Message, Put(s, m)
  PROVE  WireTyped'
<1>1. wire[s] \in Seq(Message) /\ Len(wire[s]) < WireCap /\ WireCap \in Nat
  BY HandshakeAssumption DEF WireTyped, Put
<1>2. Append(wire[s], m) \in Seq(Message) /\ Len(Append(wire[s], m)) <= WireCap
  BY <1>1
<1> QED
  BY <1>2 DEF WireTyped, Put

LEMMA TakeTyped ==
  ASSUME WireTyped, NEW s \in Side, Incoming(s) # <<>>, Take(s)
  PROVE  WireTyped'
<1>1. wire[Other(s)] \in Seq(Message) /\ Len(wire[Other(s)]) <= WireCap /\ WireCap \in Nat
  BY Sides, HandshakeAssumption DEF WireTyped
<1>2. Tail(wire[Other(s)]) \in Seq(Message) /\ Len(Tail(wire[Other(s)])) <= WireCap
  BY <1>1 DEF Incoming
<1> QED
  BY <1>2 DEF WireTyped, Take

LEMMA MsgTyped ==
  ASSUME ControlTyped, NEW t \in Type, NEW s \in Side, NEW c \in Candidates
  PROVE  Msg(t, s, c) \in Message
  BY DEF ControlTyped, Msg, Message, Candidates

\* What a side sends.
Sent(s) == Msg(CASE pc[s] = "send_offer"  -> "offer"
                 [] pc[s] = "send_answer" -> "answer"
                 [] OTHER -> IF s = "client" THEN "opt_ice" ELSE "opt_message",
               s, IF pc[s] = "ice_send" THEN out[s] ELSE NoCand)

\* Every step leaves the wires alone, empties both, or sends or receives one
\* object.
WireStep ==
  \/ wire' = wire
  \/ wire' = [s \in Side |-> <<>>]
  \/ \E s \in Side : Sending(s) /\ Put(s, Sent(s))
  \/ \E s \in Side : Incoming(s) # <<>> /\ Take(s)
LEMMA WireSteps ==
  ASSUME Typed, [Next]_vars
  PROVE  WireStep
<1> USE Sides DEF netVars, WireStep, Sending
<1>1. CASE Upgrade
  BY <1>1 DEF Upgrade
<1>2. CASE SendOffer
  BY <1>2 DEF SendOffer, Sent
<1>3. CASE ClientSetLocal
  BY <1>3 DEF ClientSetLocal, SetLocal
<1>4. CASE RecvAnswer
  BY <1>4 DEF RecvAnswer, Arrives
<1>5. CASE ApplyAnswer
  BY <1>5 DEF ApplyAnswer
<1>6. CASE DropClient
  BY <1>6 DEF DropClient
<1>7. CASE RecvOffer
  BY <1>7 DEF RecvOffer, Arrives
<1>8. CASE SendAnswer
  BY <1>8 DEF SendAnswer, Sent
<1>9. CASE ServerSetLocal
  BY <1>9 DEF ServerSetLocal, SetLocal
<1>10. CASE SuccessReturns
  BY <1>10 DEF SuccessReturns
<1>11. CASE ConnectionBreaks
  BY <1>11 DEF ConnectionBreaks
<1>12. ASSUME NEW s \in Side, TakeCandidate(s)
      PROVE  WireStep
  BY <1>12 DEF TakeCandidate
<1>13. ASSUME NEW s \in Side, SendCandidate(s)
      PROVE  WireStep
  BY <1>13 DEF SendCandidate, Sent
<1>14. ASSUME NEW s \in Side, RecvCandidate(s)
      PROVE  WireStep
  BY <1>14 DEF RecvCandidate, Arrives
<1>15. ASSUME NEW s \in Side, BadMessage(s)
      PROVE  WireStep
  BY <1>15 DEF BadMessage
<1>16. ASSUME NEW s \in Side, ConnectionLost(s)
      PROVE  WireStep
  BY <1>16 DEF ConnectionLost
<1>17. ASSUME NEW s \in Side, WebRTCError(s)
      PROVE  WireStep
  BY <1>17 DEF WebRTCError
<1>18. ASSUME NEW s \in Side, AddCandidateError(s)
      PROVE  WireStep
  BY <1>18 DEF AddCandidateError, Arrives
<1>19. ASSUME NEW s \in Side, FindCandidate(s)
      PROVE  WireStep
  BY <1>19 DEF FindCandidate
<1>20. ASSUME NEW s \in Side, FinishGathering(s)
      PROVE  WireStep
  BY <1>20 DEF FinishGathering
<1>21. CASE UNCHANGED vars
  BY <1>21 DEF vars
<1> QED
  BY <1>1, <1>2, <1>3, <1>4, <1>5, <1>6, <1>7, <1>8, <1>9, <1>10, <1>11,
     <1>12, <1>13, <1>14, <1>15, <1>16, <1>17, <1>18, <1>19, <1>20, <1>21
     DEF Next, ClientStep, ServerStep, IceStep, Failure, Gatherer

LEMMA SentTyped ==
  ASSUME Typed, NEW s \in Side
  PROVE  Sent(s) \in Message
  BY MsgTyped DEF Typed, QueueTyped, Candidates, Sent, Type

LEMMA WireTypes == ASSUME Typed, [Next]_vars PROVE WireTyped'
<1>1. CASE wire' = wire
  BY <1>1 DEF Typed, WireTyped
<1>2. CASE wire' = [s \in Side |-> <<>>]
  BY <1>2, HandshakeAssumption DEF WireTyped
<1> QED
  BY <1>1, <1>2, WireSteps, PutTyped, SentTyped, TakeTyped DEF Typed, WireStep

\* What HandOver does to the channel of candidates.
LEMMA HandOverTyped ==
  ASSUME QueueTyped, NEW s \in Side, NEW c \in Candidates, HandOver(s, c)
  PROVE  /\ queue' \in [Side -> Seq(Candidates)] /\ \A t \in Side : Len(queue'[t]) <= QueueCap
         /\ queue' = queue \/ queue' = [queue EXCEPT ![s] = Append(queue[s], c)]
<1>1. queue[s] \in Seq(Candidates) /\ QueueCap \in Nat
  BY HandshakeAssumption DEF QueueTyped
<1>2. CASE queue' = queue
  BY <1>2 DEF QueueTyped
<1>3. CASE HasRoom(s) /\ queue' = [queue EXCEPT ![s] = Append(queue[s], c)]
  <2>1. Append(queue[s], c) \in Seq(Candidates) /\ Len(Append(queue[s], c)) <= QueueCap
    BY <1>1, <1>3 DEF HasRoom
  <2> QED
    BY <1>3, <2>1 DEF QueueTyped
<1> QED
  BY <1>2, <1>3 DEF HandOver

LEMMA QueueTypes ==
  ASSUME QueueTyped, [Next]_vars
  PROVE  QueueTyped'
<1> USE HandshakeAssumption DEF Side, iceVars
<1>1. CASE Upgrade
  BY <1>1 DEF Upgrade, NewPeer, QueueTyped, Candidates
<1>2. CASE SendOffer
  BY <1>2 DEF SendOffer, QueueTyped
<1>3. CASE ClientSetLocal
  BY <1>3 DEF ClientSetLocal, SetLocal, QueueTyped
<1>4. CASE RecvAnswer
  BY <1>4 DEF RecvAnswer, QueueTyped
<1>5. CASE ApplyAnswer
  BY <1>5 DEF ApplyAnswer, QueueTyped
<1>6. CASE DropClient
  BY <1>6 DEF DropClient, QueueTyped
<1>7. CASE RecvOffer
  BY <1>7 DEF RecvOffer, NewPeer, QueueTyped, Candidates
<1>8. CASE SendAnswer
  BY <1>8 DEF SendAnswer, QueueTyped
<1>9. CASE ServerSetLocal
  BY <1>9 DEF ServerSetLocal, SetLocal, QueueTyped
<1>10. CASE SuccessReturns
  BY <1>10 DEF SuccessReturns, QueueTyped
<1>11. CASE ConnectionBreaks
  BY <1>11 DEF ConnectionBreaks, QueueTyped
<1>12. ASSUME NEW s \in Side, TakeCandidate(s) PROVE QueueTyped'
  <2>1. queue[s] \in Seq(Candidates) /\ Len(queue[s]) <= QueueCap /\ queue[s] # <<>>
    BY <1>12 DEF TakeCandidate, QueueTyped
  <2>2. /\ Tail(queue[s]) \in Seq(Candidates) /\ Len(Tail(queue[s])) <= QueueCap
        /\ Head(queue[s]) \in Candidates
    BY <2>1
  <2> QED
    BY <1>12, <2>2 DEF TakeCandidate, QueueTyped
<1>13. ASSUME NEW s \in Side, SendCandidate(s) PROVE QueueTyped'
  BY <1>13 DEF SendCandidate, Continue, QueueTyped
<1>14. ASSUME NEW s \in Side, RecvCandidate(s) PROVE QueueTyped'
  BY <1>14 DEF RecvCandidate, Continue, QueueTyped
<1>15. ASSUME NEW s \in Side, BadMessage(s) PROVE QueueTyped'
  BY <1>15 DEF BadMessage, Fail, QueueTyped
<1>16. ASSUME NEW s \in Side, ConnectionLost(s) PROVE QueueTyped'
  BY <1>16 DEF ConnectionLost, Fail, QueueTyped
<1>17. ASSUME NEW s \in Side, WebRTCError(s) PROVE QueueTyped'
  BY <1>17 DEF WebRTCError, Fail, QueueTyped
<1>18. ASSUME NEW s \in Side, AddCandidateError(s) PROVE QueueTyped'
  BY <1>18 DEF AddCandidateError, Fail, QueueTyped
<1>19. ASSUME NEW s \in Side, FindCandidate(s) PROVE QueueTyped'
  BY <1>19, HandOverTyped DEF FindCandidate, QueueTyped, Candidates
<1>20. ASSUME NEW s \in Side, FinishGathering(s) PROVE QueueTyped'
  BY <1>20, HandOverTyped DEF FinishGathering, QueueTyped, Candidates
<1>21. CASE UNCHANGED vars
  BY <1>21 DEF vars, QueueTyped
<1> QED
  BY <1>1, <1>2, <1>3, <1>4, <1>5, <1>6, <1>7, <1>8, <1>9, <1>10, <1>11,
     <1>12, <1>13, <1>14, <1>15, <1>16, <1>17, <1>18, <1>19, <1>20, <1>21
     DEF Next, ClientStep, ServerStep, IceStep, Failure, Gatherer

\* ... and to the histories.
LEMMA HandOverHistory ==
  ASSUME Typed, NEW s \in Side, NEW c \in Candidates, HandOver(s, c),
         UNCHANGED <<learned, concluded>>
  PROVE  HistoryTyped'
<1>1. session[s] \in 0..MaxAttempts
  BY DEF Typed, ControlTyped
<1>2. OfSession(session[s], c) \subseteq (0..MaxAttempts) \X Cand
  BY <1>1 DEF OfSession, Candidates
<1>3. <<session[s], c>> \in (0..MaxAttempts) \X Candidates
  BY <1>1
<1>4. CASE /\ closed' = [closed EXCEPT ![s] = IF c = NoCand THEN @ \union {session[s]} ELSE @]
           /\ published' = [published EXCEPT ![s] = @ \union OfSession(session[s], c)]
           /\ UNCHANGED lost
  BY <1>1, <1>2, <1>4 DEF Typed, HistoryTyped
<1>5. CASE /\ lost' = [lost EXCEPT ![s] = @ \union {<<session[s], c>>}]
           /\ UNCHANGED <<published, closed>>
  BY <1>3, <1>5 DEF Typed, HistoryTyped
<1> QED
  BY <1>4, <1>5 DEF HandOver

LEMMA HistoryTypes ==
  ASSUME Typed, [Next]_vars
  PROVE  HistoryTyped'
<1> USE HandshakeAssumption DEF Typed, HistoryTyped, ControlTyped, Candidates, historyVars
<1>1. CASE Upgrade
  BY <1>1 DEF Upgrade, NewPeer
<1>2. CASE SendOffer
  BY <1>2 DEF SendOffer
<1>3. CASE ClientSetLocal
  BY <1>3 DEF ClientSetLocal, SetLocal
<1>4. CASE RecvAnswer
  BY <1>4 DEF RecvAnswer
<1>5. CASE ApplyAnswer
  BY <1>5 DEF ApplyAnswer
<1>6. CASE DropClient
  BY <1>6 DEF DropClient
<1>7. CASE RecvOffer
  BY <1>7 DEF RecvOffer, NewPeer
<1>8. CASE SendAnswer
  BY <1>8 DEF SendAnswer
<1>9. CASE ServerSetLocal
  BY <1>9 DEF ServerSetLocal, SetLocal
<1>10. CASE SuccessReturns
  BY <1>10 DEF SuccessReturns
<1>11. CASE ConnectionBreaks
  BY <1>11 DEF ConnectionBreaks
<1>12. ASSUME NEW s \in Side, TakeCandidate(s) PROVE HistoryTyped'
  BY <1>12 DEF TakeCandidate
<1>13. ASSUME NEW s \in Side, SendCandidate(s) PROVE HistoryTyped'
  BY <1>13 DEF SendCandidate, Continue
<1>14. ASSUME NEW s \in Side, RecvCandidate(s) PROVE HistoryTyped'
  BY <1>14, HeadTyped DEF RecvCandidate, Continue, Arrives, Added, OfSession
<1>15. ASSUME NEW s \in Side, BadMessage(s) PROVE HistoryTyped'
  BY <1>15 DEF BadMessage, Fail
<1>16. ASSUME NEW s \in Side, ConnectionLost(s) PROVE HistoryTyped'
  BY <1>16 DEF ConnectionLost, Fail
<1>17. ASSUME NEW s \in Side, WebRTCError(s) PROVE HistoryTyped'
  BY <1>17 DEF WebRTCError, Fail
<1>18. ASSUME NEW s \in Side, AddCandidateError(s) PROVE HistoryTyped'
  BY <1>18 DEF AddCandidateError, Fail
<1>19. ASSUME NEW s \in Side, FindCandidate(s) PROVE HistoryTyped'
  BY <1>19, HandOverHistory DEF FindCandidate
<1>20. ASSUME NEW s \in Side, FinishGathering(s) PROVE HistoryTyped'
  BY <1>20, HandOverHistory DEF FinishGathering
<1>21. CASE UNCHANGED vars
  BY <1>21 DEF vars
<1> QED
  BY <1>1, <1>2, <1>3, <1>4, <1>5, <1>6, <1>7, <1>8, <1>9, <1>10, <1>11,
     <1>12, <1>13, <1>14, <1>15, <1>16, <1>17, <1>18, <1>19, <1>20, <1>21
     DEF Next, ClientStep, ServerStep, IceStep, Failure, Gatherer

LEMMA TypedStep == ASSUME Typed, [Next]_vars PROVE Typed'
  BY ControlTypes, WireTypes, QueueTypes, HistoryTypes DEF Typed

-----------------------------------------------------------------------------
(* Gatherers and ICE loops                                                 *)

LEMMA CallbackStep ==
  ASSUME Typed, CallbackSet, [Next]_vars
  PROVE  CallbackSet'
<1> USE DEF Side, Typed, ControlTyped, HistoryTyped, ServerStates, ClientStates, CallbackSet,
      ServerLosesNothing, iceVars, historyVars
<1>1. CASE Upgrade
  BY <1>1 DEF Upgrade, NewPeer, CallbackFirst
<1>2. CASE SendOffer
  BY <1>2 DEF SendOffer
<1>3. CASE ClientSetLocal
  BY <1>3 DEF ClientSetLocal, SetLocal
<1>4. CASE RecvAnswer
  BY <1>4 DEF RecvAnswer
<1>5. CASE ApplyAnswer
  BY <1>5 DEF ApplyAnswer
<1>6. CASE DropClient
  BY <1>6 DEF DropClient
<1>7. CASE RecvOffer
  BY <1>7 DEF RecvOffer, NewPeer, CallbackFirst
<1>8. CASE SendAnswer
  BY <1>8 DEF SendAnswer
<1>9. CASE ServerSetLocal
  BY <1>9 DEF ServerSetLocal, SetLocal
<1>10. CASE SuccessReturns
  BY <1>10 DEF SuccessReturns
<1>11. CASE ConnectionBreaks
  BY <1>11 DEF ConnectionBreaks
<1>12. ASSUME NEW s \in Side, TakeCandidate(s) PROVE CallbackSet'
  BY <1>12 DEF TakeCandidate
<1>13. ASSUME NEW s \in Side, SendCandidate(s) PROVE CallbackSet'
  BY <1>13 DEF SendCandidate, Continue
<1>14. ASSUME NEW s \in Side, RecvCandidate(s) PROVE CallbackSet'
  BY <1>14 DEF RecvCandidate, Continue
<1>15. ASSUME NEW s \in Side, BadMessage(s) PROVE CallbackSet'
  BY <1>15 DEF BadMessage, Fail
<1>16. ASSUME NEW s \in Side, ConnectionLost(s) PROVE CallbackSet'
  BY <1>16 DEF ConnectionLost, Fail
<1>17. ASSUME NEW s \in Side, WebRTCError(s) PROVE CallbackSet'
  BY <1>17 DEF WebRTCError, Fail
<1>18. ASSUME NEW s \in Side, AddCandidateError(s) PROVE CallbackSet'
  BY <1>18 DEF AddCandidateError, Fail
<1>19. ASSUME NEW s \in Side, FindCandidate(s) PROVE CallbackSet'
  BY <1>19 DEF FindCandidate, HandOver
<1>20. ASSUME NEW s \in Side, FinishGathering(s) PROVE CallbackSet'
  BY <1>20 DEF FinishGathering, HandOver
<1>21. CASE UNCHANGED vars
  BY <1>21 DEF vars
<1> QED
  BY <1>1, <1>2, <1>3, <1>4, <1>5, <1>6, <1>7, <1>8, <1>9, <1>10, <1>11,
     <1>12, <1>13, <1>14, <1>15, <1>16, <1>17, <1>18, <1>19, <1>20, <1>21
     DEF Next, ClientStep, ServerStep, IceStep, Failure, Gatherer

LEMMA KindsStep == ASSUME Typed, OwnKinds, [Next]_vars PROVE OwnKinds'
<1>1. CASE wire' = wire
  BY <1>1 DEF OwnKinds
<1>2. CASE wire' = [s \in Side |-> <<>>]
  BY <1>2 DEF OwnKinds
<1>3. ASSUME NEW s \in Side, Sending(s), Put(s, Sent(s)) PROVE OwnKinds'
  <2>1. Sent(s).type \in Kinds[s]
    BY <1>3 DEF Side, Sending, Sent, Msg, Kinds, Typed, ControlTyped, ClientStates, ServerStates
  <2>2. wire[s] \in Seq(Message) /\ Sent(s) \in Message
    BY SentTyped DEF Typed, WireTyped
  <2>3. \A i \in 1..Len(Append(wire[s], Sent(s))) : Append(wire[s], Sent(s))[i].type \in Kinds[s]
    BY <2>1, <2>2 DEF OwnKinds
  <2> QED
    BY <1>3, <2>3 DEF Put, OwnKinds, Typed, WireTyped
<1>4. ASSUME NEW s \in Side, Incoming(s) # <<>>, Take(s) PROVE OwnKinds'
  <2>1. PICK t \in Side : /\ t = Other(s) /\ wire[t] # <<>>
                          /\ wire' = [wire EXCEPT ![t] = Tail(wire[t])]
    BY <1>4, Sides DEF Incoming, Take
  <2>2. wire[t] \in Seq(Message)
    BY DEF Typed, WireTyped
  <2>3. \A i \in 1..Len(Tail(wire[t])) :
         Tail(wire[t])[i] = wire[t][i + 1] /\ i + 1 \in 1..Len(wire[t])
    BY <2>1, <2>2
  <2>4. \A i \in 1..Len(Tail(wire[t])) : Tail(wire[t])[i].type \in Kinds[t]
    BY <2>3 DEF OwnKinds
  <2> QED
    BY <2>1, <2>4 DEF OwnKinds, Typed, WireTyped
<1> QED
  BY <1>1, <1>2, <1>3, <1>4, WireSteps DEF WireStep

\* A side's loop is disturbed by its own steps only.
LoopVars(s) == <<pc[s], gathering[s], queue[s], out[s], doneSending[s], doneReceiving[s]>>
LEMMA LoopFrame ==
  ASSUME NEW s \in Side, LoopInv(s), LoopVars(s)' = LoopVars(s)
  PROVE  LoopInv(s)'
  BY DEF LoopInv, LoopVars, Fresh, EndIsLast

\* A gatherer that is not complete hands over a candidate, or its end.
LEMMA HandOverLoop ==
  ASSUME Typed, NEW s \in Side, LoopInv(s), gathering[s] = "gathering", NEW c \in Candidates,
         HandOver(s, c), UNCHANGED <<pc, out, doneSending, doneReceiving>>,
         IF c = NoCand THEN gathering' = [gathering EXCEPT ![s] = "complete"]
         ELSE gathering' = gathering,
         NEW t \in Side, LoopInv(t)
  PROVE  LoopInv(t)'
<1>1. queue' = queue \/ queue' = [queue EXCEPT ![s] = Append(queue[s], c)]
  BY HandOverTyped DEF Typed
<1>2. CASE t # s
  BY <1>1, <1>2, LoopFrame DEF LoopVars, Typed, ControlTyped, QueueTyped
<1>3. CASE t = s
  <2>1. /\ gathering'[s] = IF c = NoCand THEN "complete" ELSE "gathering"
        /\ queue[s] \in Seq(Candidates) /\ (queue'[s] = queue[s] \/ queue'[s] = Append(queue[s], c))
    BY <1>1 DEF Typed, ControlTyped, QueueTyped
  <2>2. \A i \in 1..Len(queue[s]) : queue[s][i] # NoCand
    BY DEF LoopInv, EndIsLast
  <2>3. \A i \in 1..Len(queue'[s]) :
           queue'[s][i] = NoCand => i = Len(queue'[s]) /\ c = NoCand
    <3>1. CASE queue'[s] = queue[s]
      BY <2>2, <3>1
    <3>2. CASE queue'[s] = Append(queue[s], c)
      <4>1. \A i \in 1..Len(Append(queue[s], c)) :
              Append(queue[s], c)[i] = NoCand => i = Len(Append(queue[s], c)) /\ c = NoCand
        BY <2>1, <2>2
      <4> QED
        BY <3>2, <4>1
    <3> QED
      BY <2>1, <3>1, <3>2
  <2>4. EndIsLast(s)'
    BY <2>1, <2>3 DEF EndIsLast
  <2>5. ~Fresh(s) /\ ~doneSending[s] /\ ~(pc[s] = "ice_send" /\ out[s] = NoCand)
    BY DEF LoopInv
  <2> QED
    BY <1>3, <2>4, <2>5 DEF LoopInv, Fresh
<1> QED
  BY <1>2, <1>3

LEMMA LoopStep ==
  ASSUME Typed, (\A s \in Side : LoopInv(s)), NEW t \in Side, [Next]_vars
  PROVE  LoopInv(t)'
<1> USE DEF Side, Typed, ControlTyped, QueueTyped, LoopInv, Fresh, EndIsLast, iceVars
<1>1. CASE Upgrade
  BY <1>1 DEF Upgrade, NewPeer
<1>2. CASE SendOffer
  BY <1>2 DEF SendOffer
<1>3. CASE ClientSetLocal
  BY <1>3 DEF ClientSetLocal, SetLocal
<1>4. CASE RecvAnswer
  BY <1>4 DEF RecvAnswer
<1>5. CASE ApplyAnswer
  BY <1>5 DEF ApplyAnswer
<1>6. CASE DropClient
  BY <1>6 DEF DropClient
<1>7. CASE RecvOffer
  BY <1>7 DEF RecvOffer, NewPeer
<1>8. CASE SendAnswer
  BY <1>8 DEF SendAnswer
<1>9. CASE ServerSetLocal
  BY <1>9 DEF ServerSetLocal, SetLocal
<1>10. CASE SuccessReturns
  BY <1>10 DEF SuccessReturns
<1>11. CASE ConnectionBreaks
  BY <1>11 DEF ConnectionBreaks
<1>12. ASSUME NEW s \in Side, TakeCandidate(s) PROVE LoopInv(t)'
  BY <1>12 DEF TakeCandidate
<1>13. ASSUME NEW s \in Side, SendCandidate(s) PROVE LoopInv(t)'
  BY <1>13 DEF SendCandidate, Continue, LoopEnds, IsEnd
<1>14. ASSUME NEW s \in Side, RecvCandidate(s) PROVE LoopInv(t)'
  BY <1>14 DEF RecvCandidate, Continue, LoopEnds
<1>15. ASSUME NEW s \in Side, BadMessage(s) PROVE LoopInv(t)'
  BY <1>15 DEF BadMessage, Fail
<1>16. ASSUME NEW s \in Side, ConnectionLost(s) PROVE LoopInv(t)'
  BY <1>16 DEF ConnectionLost, Fail
<1>17. ASSUME NEW s \in Side, WebRTCError(s) PROVE LoopInv(t)'
  BY <1>17 DEF WebRTCError, Fail
<1>18. ASSUME NEW s \in Side, AddCandidateError(s) PROVE LoopInv(t)'
  BY <1>18 DEF AddCandidateError, Fail
<1>19. ASSUME NEW s \in Side, FindCandidate(s) PROVE LoopInv(t)'
  <2>1. PICK c \in Cand : HandOver(s, c)
    BY <1>19 DEF FindCandidate
  <2>2. c \in Candidates /\ c # NoCand
    BY HandshakeAssumption DEF Candidates
  <2> QED
    BY <1>19, <2>1, <2>2, HandOverLoop DEF FindCandidate
<1>20. ASSUME NEW s \in Side, FinishGathering(s) PROVE LoopInv(t)'
  BY <1>20, HandOverLoop DEF FinishGathering, Candidates
<1>21. CASE UNCHANGED vars
  BY <1>21 DEF vars
<1> QED
  BY <1>1, <1>2, <1>3, <1>4, <1>5, <1>6, <1>7, <1>8, <1>9, <1>10, <1>11,
     <1>12, <1>13, <1>14, <1>15, <1>16, <1>17, <1>18, <1>19, <1>20, <1>21
     DEF Next, ClientStep, ServerStep, IceStep, Failure, Gatherer

-----------------------------------------------------------------------------
(* Streams                                                                 *)

LEMMA MessagePlaces ==
  ASSUME NEW m \in Message
  PROVE  /\ From(m) \in Nat /\ To(m) \in Nat /\ From(m) <= To(m)
  BY HandshakeAssumption DEF Message, From, To, Opens

\* The wire after one more object, ...
LEMMA ChainedAppend ==
  ASSUME NEW w \in Seq(Message), NEW m \in Message, NEW a \in Nat, NEW b \in Nat,
         Chained(w, a, b), Complete(w, a, b), From(m) = b
  PROVE  Chained(Append(w, m), a, To(m)) /\ Complete(Append(w, m), a, To(m))
<1> DEFINE r == Append(w, m)
<1>1. /\ Len(r) = Len(w) + 1 /\ Len(w) \in Nat /\ r # <<>>
      /\ \A i \in 1..Len(w) : r[i] = w[i] /\ w[i] \in Message
      /\ r[Len(w) + 1] = m
  BY AppendProperties
<1>2. /\ From(m) \in Nat /\ To(m) \in Nat /\ From(m) <= To(m) /\ b <= To(m)
      /\ \A i \in 1..Len(w) : From(w[i]) \in Nat /\ To(w[i]) \in Nat
  BY <1>1, MessagePlaces
<1>3. a <= To(m)
  BY <1>2 DEF Chained
<1> HIDE DEF r
<1>4. \A i \in 1..Len(r) : i \in 1..Len(w) \/ i = Len(w) + 1
  BY <1>1
<1>5. \A i \in 1..Len(r) : a <= From(r[i]) /\ To(r[i]) <= To(m)
  <2>1. ASSUME NEW i \in 1..Len(w) PROVE a <= From(r[i]) /\ To(r[i]) <= To(m)
    <3>1. r[i] = w[i] /\ a <= From(w[i]) /\ To(w[i]) <= b /\ To(w[i]) \in Nat
      BY <1>1, <1>2 DEF Chained
    <3> QED
      BY <1>2, <3>1
  <2>2. a <= From(r[Len(w) + 1]) /\ To(r[Len(w) + 1]) <= To(m)
    BY <1>1, <1>2 DEF Chained
  <2> QED
    BY <1>4, <2>1, <2>2
<1>6. \A i, j \in 1..Len(r) : i < j => To(r[i]) <= From(r[j])
  <2> SUFFICES ASSUME NEW i \in 1..Len(r), NEW j \in 1..Len(r), i < j
               PROVE  To(r[i]) <= From(r[j])
    OBVIOUS
  <2>1. i \in 1..Len(w) /\ r[i] = w[i]
    BY <1>1
  <2>2. CASE j \in 1..Len(w)
    BY <1>1, <2>1, <2>2 DEF Chained
  <2>3. CASE j = Len(w) + 1
    BY <1>1, <2>1, <2>3 DEF Chained
  <2> QED
    BY <1>4, <2>2, <2>3
<1>7. \A i \in 1..(Len(r) - 1) : To(r[i]) = From(r[i + 1])
  <2> SUFFICES ASSUME NEW i \in 1..(Len(r) - 1) PROVE To(r[i]) = From(r[i + 1])
    OBVIOUS
  <2>1. i \in 1..Len(w) /\ r[i] = w[i]
    BY <1>1
  <2>2. CASE i = Len(w)
    <3>1. w # <<>> /\ To(w[Len(w)]) = b
      BY <2>1, <2>2 DEF Complete
    <3> QED
      BY <1>1, <2>1, <2>2, <3>1
  <2>3. CASE i # Len(w)
    <3>1. i \in 1..(Len(w) - 1) /\ i + 1 \in 1..Len(w)
      BY <1>1, <2>1, <2>3
    <3> QED
      BY <1>1, <2>1, <3>1 DEF Chained
  <2> QED
    BY <2>2, <2>3
<1>8. From(r[1]) = a
  <2>1. CASE w = <<>>
    BY <1>1, <2>1 DEF Complete
  <2>2. CASE w # <<>>
    <3>1. 1 \in 1..Len(w)
      BY <2>2
    <3> QED
      BY <1>1, <2>2, <3>1 DEF Chained
  <2> QED
    BY <2>1, <2>2
<1>9. r[Len(r)] = m
  BY <1>1
<1> QED
  BY <1>1, <1>3, <1>5, <1>6, <1>7, <1>8, <1>9 DEF Chained, Complete, r

\* ... after its first object was received, ...
LEMMA ChainedTail ==
  ASSUME NEW w \in Seq(Message), w # <<>>, NEW a \in Nat, NEW b \in Nat, Chained(w, a, b)
  PROVE  /\ Chained(Tail(w), To(Head(w)), b)
         /\ Complete(w, a, b) => Complete(Tail(w), To(Head(w)), b)
<1> DEFINE r == Tail(w)
           e == Head(w)
<1>1. /\ Len(w) \in Nat \ {0} /\ Len(r) = Len(w) - 1 /\ e = w[1]
      /\ \A i \in 1..Len(r) : r[i] = w[i + 1] /\ i + 1 \in 1..Len(w) /\ w[i + 1] \in Message
      /\ r = <<>> <=> Len(w) = 1
  <2>1. /\ Len(w) \in Nat \ {0} /\ Len(r) = Len(w) - 1 /\ e = w[1] /\ r \in Seq(Message)
        /\ \A i \in 1..Len(r) : r[i] = w[i + 1]
    BY HeadTailProperties
  <2>2. \A i \in 1..Len(r) : i + 1 \in 1..Len(w)
    BY <2>1
  <2>3. r = <<>> <=> Len(r) = 0
    BY <2>1, EmptySeq
  <2> HIDE DEF r, e
  <2> QED
    BY <2>1, <2>2, <2>3
<1> HIDE DEF r, e
<1>2. To(e) <= b
  BY <1>1 DEF Chained
<1>3. \A i \in 1..Len(r) : To(e) <= From(r[i]) /\ To(r[i]) <= b
  <2>1. \A i \in 1..Len(r) : 1 \in 1..Len(w) /\ 1 < i + 1
    BY <1>1
  <2> QED
    BY <1>1, <2>1 DEF Chained
<1>4. \A i, j \in 1..Len(r) : i < j => To(r[i]) <= From(r[j])
  <2>1. \A i, j \in 1..Len(r) : i < j => i + 1 < j + 1
    BY <1>1
  <2> QED
    BY <1>1, <2>1 DEF Chained
<1>5. \A i \in 1..(Len(r) - 1) : To(r[i]) = From(r[i + 1])
  <2>1. \A i \in 1..(Len(r) - 1) : /\ i \in 1..Len(r) /\ i + 1 \in 1..Len(r)
                                   /\ i + 1 \in 1..(Len(w) - 1)
    BY <1>1
  <2> QED
    BY <1>1, <2>1 DEF Chained
<1>6. r # <<>> => From(r[1]) = To(e)
  <2>1. r # <<>> => 1 \in 1..Len(r) /\ 1 \in 1..(Len(w) - 1) /\ r[1] = w[1 + 1]
    BY <1>1
  <2> QED
    BY <1>1, <2>1 DEF Chained
<1>7. Chained(r, To(e), b)
  BY <1>2, <1>3, <1>4, <1>5, <1>6 DEF Chained
<1>8. ASSUME Complete(w, a, b) PROVE Complete(r, To(e), b)
  <2>1. To(w[Len(w)]) = b
    BY <1>8 DEF Complete
  <2>2. r # <<>> => r[Len(r)] = w[Len(w)]
    <3>1. r # <<>> => Len(r) \in 1..Len(r) /\ Len(r) + 1 = Len(w)
      BY <1>1
    <3> QED
      BY <1>1, <3>1
  <2> QED
    BY <1>1, <2>1, <2>2 DEF Complete
<1> QED
  BY <1>7, <1>8 DEF r, e

\* ... and when its sender has moved on.
LEMMA ChainedOn ==
  ASSUME NEW w \in Seq(Message), NEW a \in Nat, NEW b \in Nat, NEW c \in Nat, b <= c,
         Chained(w, a, b)
  PROVE  Chained(w, a, c)
<1>1. \A i \in 1..Len(w) : To(w[i]) \in Nat
  BY MessagePlaces
<1> QED
  BY <1>1 DEF Chained

LEMMA PlacesTyped ==
  ASSUME ControlTyped, NEW s \in Side
  PROVE  InPlace(s) \in Nat /\ OutPlace(s) \in Nat
<1>1. session[s] \in Nat
  BY HandshakeAssumption DEF ControlTyped
<1> QED
  BY <1>1 DEF InPlace, OutPlace, Stage

\* A side that does nothing stays at its places.
PlaceVars(s) == <<pc[s], session[s], doneSending[s], doneReceiving[s]>>
LEMMA PlaceFrame ==
  ASSUME NEW s \in Side, PlaceVars(s)' = PlaceVars(s)
  PROVE  InPlace(s)' = InPlace(s) /\ OutPlace(s)' = OutPlace(s) /\ Up(s)' = Up(s)
  BY DEF PlaceVars, InPlace, OutPlace, Up, Unsent, Unanswered

LEMMA PlacesTypedNext ==
  ASSUME ControlTyped', NEW s \in Side
  PROVE  InPlace(s)' \in Nat /\ OutPlace(s)' \in Nat
<1>1. session'[s] \in Nat
  BY HandshakeAssumption DEF ControlTyped
<1> QED
  BY <1>1 DEF InPlace, OutPlace, Stage

\* The stream that s reads, when nothing is sent or received on it.
LEMMA StreamRests ==
  ASSUME Typed, ControlTyped', NEW s \in Side, NEW t \in Side, t = Other(s), StreamInv(s),
         wire'[t] = wire[t], InPlace(s)' = InPlace(s), OutPlace(t) <= OutPlace(t)',
         Up(t)' => Up(t) /\ OutPlace(t)' = OutPlace(t),
         Up(s)' => Up(s), dropped[s] => dropped'[s]
  PROVE  StreamInv(s)'
<1>1. /\ InPlace(s) \in Nat /\ OutPlace(t) \in Nat /\ OutPlace(t)' \in Nat
      /\ wire[t] \in Seq(Message)
  BY PlacesTyped, PlacesTypedNext DEF Typed, WireTyped
<1>2. ASSUME Up(s)' PROVE Chained(wire[t], InPlace(s), OutPlace(t)')
  <2>1. Chained(wire[t], InPlace(s), OutPlace(t))
    BY <1>2 DEF StreamInv, Incoming
  <2> QED
    BY <1>1, <2>1, ChainedOn
<1>3. ASSUME Up(s)', ~dropped'[s], Up(t)' PROVE Complete(wire[t], InPlace(s), OutPlace(t)')
  <2>1. Up(s) /\ Up(t) /\ ~dropped[s]
    BY <1>3
  <2>2. Complete(wire[t], InPlace(s), OutPlace(t))
    BY <2>1 DEF StreamInv, Incoming
  <2> QED
    BY <1>3, <2>2
<1>4. Incoming(s)' = wire[t] /\ Other(s)' = t
  BY DEF Incoming, Other
<1>5. StreamInv(s)' <=>
        (Up(s)' => /\ Chained(wire[t], InPlace(s), OutPlace(t)')
                   /\ ~dropped'[s] /\ Up(t)' => Complete(wire[t], InPlace(s), OutPlace(t)'))
  BY <1>4 DEF StreamInv
<1> QED
  BY <1>2, <1>3, <1>5

\* Side x takes a step that sends and receives nothing, ...
LEMMA QuietStep ==
  ASSUME Typed, ControlTyped', \A s \in Side : StreamInv(s), NEW x \in Side, wire' = wire,
         PlaceVars(Other(x))' = PlaceVars(Other(x)),
         InPlace(x)' = InPlace(x), OutPlace(x)' = OutPlace(x), Up(x)' => Up(x),
         \A s \in Side : dropped[s] => dropped'[s]
  PROVE  \A s \in Side : StreamInv(s)'
<1>1. PICK y \in Side : y = Other(x) /\ x = Other(y) /\ \A s \in Side : s = x \/ s = y
  BY DEF Side, Other
<1>2. InPlace(y)' = InPlace(y) /\ OutPlace(y)' = OutPlace(y) /\ Up(y)' = Up(y)
  <2>1. PlaceVars(y)' = PlaceVars(y)
    BY <1>1 DEF PlaceVars, Other
  <2> QED
    BY <2>1, PlaceFrame
<1>3. OutPlace(x) <= OutPlace(x)' /\ OutPlace(y) <= OutPlace(y)'
  BY <1>2, PlacesTyped DEF Typed
<1>4. StreamInv(x)'
  BY <1>1, <1>2, <1>3, StreamRests
<1>5. StreamInv(y)'
  BY <1>1, <1>2, <1>3, StreamRests
<1> QED
  BY <1>1, <1>4, <1>5

\* ... fails, ...
LEMMA FailStep ==
  ASSUME Typed, ControlTyped', \A s \in Side : StreamInv(s), NEW x \in Side, wire'[x] = wire[x],
         PlaceVars(Other(x))' = PlaceVars(Other(x)),
         OutPlace(x) <= OutPlace(x)', ~Up(x)', \A s \in Side : dropped[s] => dropped'[s]
  PROVE  \A s \in Side : StreamInv(s)'
<1>1. PICK y \in Side : y = Other(x) /\ x = Other(y) /\ \A s \in Side : s = x \/ s = y
  BY DEF Side, Other
<1>2. InPlace(y)' = InPlace(y) /\ OutPlace(y)' = OutPlace(y) /\ Up(y)' = Up(y)
  <2>1. PlaceVars(y)' = PlaceVars(y)
    BY <1>1 DEF PlaceVars, Other
  <2> QED
    BY <2>1, PlaceFrame
<1>3. StreamInv(x)'
  BY DEF StreamInv
<1>4. StreamInv(y)'
  BY <1>1, <1>2, StreamRests
<1> QED
  BY <1>1, <1>3, <1>4

\* ... sends an object, which takes it to its next place, ...
LEMMA SendStep ==
  ASSUME Typed, ControlTyped', \A s \in Side : StreamInv(s), NEW x \in Side, NEW m \in Message,
         Put(x, m), PlaceVars(Other(x))' = PlaceVars(Other(x)), dropped' = dropped,
         From(m) = OutPlace(x), OutPlace(x)' = To(m), InPlace(x)' = InPlace(x), Up(x), Up(x)'
  PROVE  \A s \in Side : StreamInv(s)'
<1>1. PICK y \in Side : y = Other(x) /\ x = Other(y) /\ x # y /\ \A s \in Side : s = x \/ s = y
  BY DEF Side, Other
<1>2. InPlace(y)' = InPlace(y) /\ OutPlace(y)' = OutPlace(y) /\ Up(y)' = Up(y)
  <2>1. PlaceVars(y)' = PlaceVars(y)
    BY <1>1 DEF PlaceVars, Other
  <2> QED
    BY <2>1, PlaceFrame
<1>3. /\ InPlace(y) \in Nat /\ OutPlace(x) \in Nat /\ OutPlace(y) \in Nat /\ To(m) \in Nat
      /\ From(m) <= To(m) /\ wire \in [Side -> Seq(Message)]
  BY PlacesTyped, MessagePlaces DEF Typed, WireTyped
<1>4. StreamInv(x)'
  <2>1. wire'[y] = wire[y] /\ OutPlace(y) <= OutPlace(y)'
    BY <1>1, <1>2, <1>3 DEF Put
  <2> QED
    BY <1>1, <1>2, <2>1, StreamRests
<1>5. CASE dropped[y]
  <2>1. wire' = wire
    BY <1>1, <1>5 DEF Put
  <2>2. ASSUME Up(y) PROVE Chained(wire[x], InPlace(y), To(m))
    <3>1. Chained(wire[x], InPlace(y), OutPlace(x))
      BY <1>1, <2>2 DEF StreamInv, Incoming
    <3> QED
      BY <1>3, <3>1, ChainedOn
  <2>3. Incoming(y)' = wire[x] /\ Other(y)' = x
    BY <1>1, <2>1 DEF Incoming, Other
  <2>4. StreamInv(y)'
    BY <1>2, <1>5, <2>2, <2>3 DEF StreamInv
  <2> QED
    BY <1>1, <1>4, <2>4
<1>6. CASE ~dropped[y]
  <2>1. wire'[x] = Append(wire[x], m)
    BY <1>1, <1>3, <1>6 DEF Put
  <2>2. ASSUME Up(y)
        PROVE  /\ Chained(Append(wire[x], m), InPlace(y), To(m))
               /\ Complete(Append(wire[x], m), InPlace(y), To(m))
    <3>1. Chained(wire[x], InPlace(y), OutPlace(x)) /\ Complete(wire[x], InPlace(y), OutPlace(x))
      BY <1>1, <1>6, <2>2 DEF StreamInv, Incoming
    <3> QED
      BY <1>3, <3>1, ChainedAppend
  <2>3. Incoming(y)' = Append(wire[x], m) /\ Other(y)' = x
    BY <1>1, <2>1 DEF Incoming, Other
  <2>4. StreamInv(y)'
    BY <1>2, <2>2, <2>3 DEF StreamInv
  <2> QED
    BY <1>1, <1>4, <2>4
<1> QED
  BY <1>5, <1>6

\* ... or receives one.
LEMMA ReceiveStep ==
  ASSUME Typed, ControlTyped', \A s \in Side : StreamInv(s), NEW x \in Side,
         Incoming(x) # <<>>, Take(x), PlaceVars(Other(x))' = PlaceVars(Other(x)),
         dropped' = dropped, InPlace(x)' = To(Head(Incoming(x))), OutPlace(x)' = OutPlace(x),
         Up(x), Up(x)'
  PROVE  \A s \in Side : StreamInv(s)'
<1>1. PICK y \in Side : y = Other(x) /\ x = Other(y) /\ x # y /\ \A s \in Side : s = x \/ s = y
  BY DEF Side, Other
<1>2. InPlace(y)' = InPlace(y) /\ OutPlace(y)' = OutPlace(y) /\ Up(y)' = Up(y)
  <2>1. PlaceVars(y)' = PlaceVars(y)
    BY <1>1 DEF PlaceVars, Other
  <2> QED
    BY <2>1, PlaceFrame
<1>3. /\ InPlace(x) \in Nat /\ OutPlace(x) \in Nat /\ OutPlace(y) \in Nat
      /\ wire \in [Side -> Seq(Message)]
  BY PlacesTyped DEF Typed, WireTyped
<1>4. StreamInv(y)'
  <2>1. wire'[x] = wire[x] /\ OutPlace(x) <= OutPlace(x)'
    BY <1>1, <1>3 DEF Take
  <2> QED
    BY <1>1, <1>2, <2>1, StreamRests
<1>5. wire[y] # <<>> /\ wire'[y] = Tail(wire[y]) /\ InPlace(x)' = To(Head(wire[y]))
  BY <1>1, <1>3 DEF Take, Incoming
<1>6. /\ Chained(wire[y], InPlace(x), OutPlace(y))
      /\ ~dropped[x] /\ Up(y) => Complete(wire[y], InPlace(x), OutPlace(y))
  BY <1>1 DEF StreamInv, Incoming
<1>7. /\ Chained(Tail(wire[y]), To(Head(wire[y])), OutPlace(y))
      /\ ~dropped[x] /\ Up(y) => Complete(Tail(wire[y]), To(Head(wire[y])), OutPlace(y))
  BY <1>3, <1>5, <1>6, ChainedTail
<1>8. Incoming(x)' = Tail(wire[y]) /\ Other(x)' = y
  BY <1>1, <1>5 DEF Incoming, Other
<1>9. StreamInv(x)'
  BY <1>2, <1>5, <1>7, <1>8 DEF StreamInv
<1> QED
  BY <1>1, <1>4, <1>9

-----------------------------------------------------------------------------
(* The handshake                                                           *)

\* What the first object on the wire to a side leads from and to.
LEMMA FirstObject ==
  ASSUME IInv, ~reused, NEW x \in Side, NEW y \in Side, y = Other(x), Up(x), Incoming(x) # <<>>,
         NEW m, m = Head(Incoming(x))
  PROVE  /\ m \in Message /\ m.type \in Kinds[y]
         /\ From(m) = InPlace(x) /\ To(m) <= OutPlace(y)
<1>1. wire[y] \in Seq(Message) /\ wire[y] # <<>> /\ m = wire[y][1] /\ 1 \in 1..Len(wire[y])
  BY DEF IInv, Typed, WireTyped, Incoming
<1>2. m \in Message /\ m.type \in Kinds[y]
  BY <1>1 DEF IInv, OwnKinds
<1>3. Chained(wire[y], InPlace(x), OutPlace(y))
  BY DEF IInv, StreamsInv, StreamInv, Incoming
<1> QED
  BY <1>1, <1>2, <1>3 DEF Chained

\* The server gets on with what it sends if the side x that takes a step does.
LEMMA ServerAdvances ==
  ASSUME Typed, NEW x \in Side, OutPlace(x) <= OutPlace(x)',
         PlaceVars(Other(x))' = PlaceVars(Other(x))
  PROVE  OutPlace("server") <= OutPlace("server")'
<1>1. CASE x = "server"
  BY <1>1
<1>2. CASE x = "client"
  <2>1. "server" \in Side /\ Other(x) = "server" /\ OutPlace("server") \in Nat
    BY <1>2, PlacesTyped DEF Typed, Side, Other
  <2>2. PlaceVars("server")' = PlaceVars("server")
    BY <1>2 DEF PlaceVars, Other
  <2> QED
    BY <2>1, <2>2, PlaceFrame
<1> QED
  BY <1>1, <1>2 DEF Side

\* What a step shows once the client's and the server's places are known.
LEMMA StreamsFrom ==
  ASSUME IInv, ~reused, \A s \in Side : StreamInv(s)', session' = session, ControlTyped',
         OutPlace("server") <= OutPlace("server")',
         pc'["client"] \in {"apply", "ice", "ice_send", "upgraded"} =>
           pc["client"] \in {"apply", "ice", "ice_send", "upgraded"} /\ answered' = answered
  PROVE  StreamsInv'
<1>1. InStep
  BY DEF IInv, StreamsInv
<1>2. 2 * session["client"] \in Nat /\ OutPlace("server") \in Nat /\ OutPlace("server")' \in Nat
  <2>1. "client" \in Side /\ "server" \in Side
    BY DEF Side
  <2> QED
    BY <2>1, PlacesTyped, PlacesTypedNext, HandshakeAssumption DEF IInv, Typed, ControlTyped
<1>3. 2 * session["client"] <= OutPlace("server")'
  BY <1>1, <1>2 DEF InStep
<1>4. InStep'
  BY <1>1, <1>3 DEF InStep
<1> QED
  BY <1>4 DEF StreamsInv

LEMMA UpgradeStreams == ASSUME IInv, ControlTyped', Upgrade, ~reused' PROVE StreamsInv'
<1>1. ~reused /\ pc["client"] \in {"ready", "upgraded"}
  BY DEF Upgrade, ClientFree, IInv, Typed, ControlTyped
<1>2. /\ session["client"] \in Nat /\ "client" \in Side /\ "server" \in Side
      /\ Other("client") = "server"
  BY HandshakeAssumption DEF IInv, Typed, ControlTyped, Side, Other
<1>3. /\ pc'["client"] = "send_offer" /\ session'["client"] = session["client"] + 1
      /\ pc'["server"] = pc["server"] /\ session'["server"] = session["server"]
      /\ doneSending'["server"] = doneSending["server"]
      /\ doneReceiving'["server"] = doneReceiving["server"]
      /\ wire' = wire /\ dropped' = dropped
  BY <1>2 DEF Upgrade, NewPeer, IInv, Typed, ControlTyped, netVars
<1>4. InPlace("client")' = 2 * session'["client"] /\ OutPlace("client")' = 2 * session'["client"]
  BY <1>2, <1>3 DEF InPlace, OutPlace, Stage, Unsent, Unanswered
<1>5. InPlace("client") = 2 * session'["client"] /\ OutPlace("client") = 2 * session'["client"]
  BY <1>1, <1>2, <1>3 DEF InPlace, OutPlace, Stage, Unsent, Unanswered, Between
<1>6. Up("client") /\ PlaceVars("server")' = PlaceVars("server")
  BY <1>1, <1>3 DEF Up, PlaceVars
<1>7. InStep /\ (\A s \in Side : StreamInv(s)) /\ Typed
  BY <1>1 DEF IInv, StreamsInv
<1>8. \A s \in Side : StreamInv(s)'
  <2>1. PlaceVars(Other("client"))' = PlaceVars(Other("client"))
    BY <1>2, <1>6 DEF PlaceVars, Other
  <2> QED
    BY <1>2, <1>3, <1>4, <1>5, <1>6, <1>7, <2>1, QuietStep
<1>9. InStep'
  <2>1. InPlace("client") <= OutPlace("server")
    BY <1>2, <1>6, <1>7 DEF StreamInv, Chained
  <2>2. OutPlace("server")' = OutPlace("server")
    BY <1>2, <1>6, PlaceFrame
  <2>3. session'["server"] <= session'["client"]
    BY <1>2, <1>3, <1>7, HandshakeAssumption DEF InStep, Typed, ControlTyped
  <2> QED
    BY <1>3, <1>5, <2>1, <2>2, <2>3 DEF InStep
<1> QED
  BY <1>8, <1>9 DEF StreamsInv

\* A step in the middle of a loop, of a gatherer, or of the client's caller.
LEMMA QuietStreams ==
  ASSUME IInv, ControlTyped', ~reused, NEW x \in Side, NEW st, pc' = [pc EXCEPT ![x] = st],
         UNCHANGED <<wire, session, doneSending, doneReceiving, answered>>,
         \A s \in Side : dropped[s] => dropped'[s],
         \/ st = pc[x]
         \/ x = "client" /\ pc[x] = "set_local" /\ st = "recv_answer"
         \/ x = "server" /\ pc[x] = "set_local" /\ st = "ice"
         \/ pc[x] \in {"apply", "ice"} /\ st \in {"ice", "ice_send"}
         \/ pc[x] = "upgraded" /\ st = "recv_offer"
  PROVE  StreamsInv'
<1>1. pc \in [Side -> ClientStates \union ServerStates] /\ pc'[x] = st
  BY DEF IInv, Typed, ControlTyped
<1>2. Unsent(x)' = Unsent(x) /\ Unanswered(x)' = Unanswered(x)
  BY <1>1 DEF Unsent, Unanswered
<1>3. (pc'[x] \in Between) = (pc[x] \in Between) /\ (Up(x)' => Up(x))
  BY <1>1 DEF Between, Up
<1>4. InPlace(x)' = InPlace(x) /\ OutPlace(x)' = OutPlace(x)
  BY <1>2, <1>3 DEF InPlace, OutPlace
<1>5. PlaceVars(Other(x))' = PlaceVars(Other(x))
  BY <1>1, Sides DEF PlaceVars, Other
<1>6. \A s \in Side : StreamInv(s)'
  BY <1>3, <1>4, <1>5, QuietStep DEF IInv, StreamsInv
<1>7. OutPlace("server") <= OutPlace("server")'
  BY <1>4, <1>5, ServerAdvances, PlacesTyped DEF IInv, Typed
<1>8. pc'["client"] \in {"apply", "ice", "ice_send", "upgraded"} =>
        pc["client"] \in {"apply", "ice", "ice_send", "upgraded"}
  BY <1>1 DEF Side
<1> QED
  BY <1>6, <1>7, <1>8, StreamsFrom

\* A step that fails.
LEMMA FailStreams ==
  ASSUME IInv, ControlTyped', ~reused, NEW x \in Side, Fail(x), wire'[x] = wire[x],
         UNCHANGED <<session, doneSending, doneReceiving, answered>>
  PROVE  StreamsInv'
<1>1. /\ pc \in [Side -> ClientStates \union ServerStates] /\ pc'[x] \in {"error", "ended"}
      /\ \A s \in Side \ {x} : pc'[s] = pc[s]
  BY DEF Fail, IInv, Typed, ControlTyped
<1>2. ~Up(x)' /\ OutPlace(x)' = 2 * session[x] + 2
  BY <1>1 DEF Up, OutPlace, Stage, Unsent, Between
<1>3. OutPlace(x) <= OutPlace(x)'
  <2>1. 2 * session[x] \in Nat
    BY HandshakeAssumption DEF IInv, Typed, ControlTyped
  <2> QED
    BY <1>2, <2>1 DEF OutPlace, Stage
<1>4. PlaceVars(Other(x))' = PlaceVars(Other(x))
  BY <1>1, Sides DEF PlaceVars, Other
<1>5. \A s \in Side : dropped[s] => dropped'[s]
  BY DEF Fail, IInv, Typed, ControlTyped
<1>6. \A s \in Side : StreamInv(s)'
  BY <1>2, <1>3, <1>4, <1>5, FailStep DEF IInv, StreamsInv
<1>7. OutPlace("server") <= OutPlace("server")'
  BY <1>3, <1>4, ServerAdvances DEF IInv
<1>8. pc'["client"] \in {"apply", "ice", "ice_send", "upgraded"} =>
        pc["client"] \in {"apply", "ice", "ice_send", "upgraded"}
  BY <1>1 DEF Side
<1> QED
  BY <1>6, <1>7, <1>8, StreamsFrom

\* A step that sends.
LEMMA SendStreams ==
  ASSUME IInv, ControlTyped', ~reused, NEW x \in Side, NEW m \in Message, Put(x, m),
         \A s \in Side \ {x} : PlaceVars(s)' = PlaceVars(s),
         UNCHANGED <<dropped, session, answered>>,
         From(m) = OutPlace(x), OutPlace(x)' = To(m), InPlace(x)' = InPlace(x), Up(x), Up(x)',
         pc'[x] \in {"apply", "ice", "ice_send", "upgraded"} =>
           pc[x] \in {"apply", "ice", "ice_send", "upgraded"} \/ x = "server"
  PROVE  StreamsInv'
<1>1. PlaceVars(Other(x))' = PlaceVars(Other(x))
  BY Sides DEF PlaceVars, Other
<1>2. \A s \in Side : StreamInv(s)'
  BY <1>1, SendStep DEF IInv, StreamsInv
<1>3. OutPlace("server") <= OutPlace("server")'
  BY <1>1, ServerAdvances, MessagePlaces DEF IInv
<1>4. pc'["client"] \in {"apply", "ice", "ice_send", "upgraded"} =>
        pc["client"] \in {"apply", "ice", "ice_send", "upgraded"}
  BY DEF Side, PlaceVars
<1> QED
  BY <1>2, <1>3, <1>4, StreamsFrom

LEMMA SendOfferStreams == ASSUME IInv, ControlTyped', ~reused, SendOffer PROVE StreamsInv'
<1> DEFINE n == session["client"]
           m == Msg("offer", "client", NoCand)
<1>1. /\ "client" \in Side /\ n \in Nat /\ pc["client"] = "send_offer"
      /\ pc'["client"] = "set_local"
      /\ ~doneSending["client"]
      /\ UNCHANGED <<session, doneSending, doneReceiving, dropped, answered>>
      /\ \A s \in Side \ {"client"} : pc'[s] = pc[s]
  BY HandshakeAssumption DEF SendOffer, Side, IInv, Typed, ControlTyped, LoopInv, Fresh, iceVars
<1>2. m \in Message /\ From(m) = 2 * n /\ To(m) = 2 * n + 1
  BY <1>1, MsgTyped DEF IInv, Typed, Type, Candidates, Msg, From, To, Opens
<1>3. OutPlace("client") = 2 * n /\ OutPlace("client")' = 2 * n + 1
  BY <1>1 DEF OutPlace, Stage, Unsent, Between
<1>4. InPlace("client")' = InPlace("client") /\ Up("client") /\ Up("client")'
  BY <1>1 DEF InPlace, Stage, Unanswered, Up
<1>5. \A s \in Side \ {"client"} : PlaceVars(s)' = PlaceVars(s)
  BY <1>1 DEF PlaceVars
<1>6. Put("client", m)
  BY DEF SendOffer
<1> HIDE DEF m, n
<1> QED
  BY <1>1, <1>2, <1>3, <1>4, <1>5, <1>6, SendStreams

LEMMA SendAnswerStreams == ASSUME IInv, ControlTyped', ~reused, SendAnswer PROVE StreamsInv'
<1> DEFINE n == session["server"]
           m == Msg("answer", "server", NoCand)
<1>1. /\ "server" \in Side /\ n \in Nat /\ pc["server"] = "send_answer"
      /\ pc'["server"] = "set_local"
      /\ ~doneSending["server"]
      /\ UNCHANGED <<session, doneSending, doneReceiving, dropped, answered>>
      /\ \A s \in Side \ {"server"} : pc'[s] = pc[s]
  BY HandshakeAssumption DEF SendAnswer, Side, IInv, Typed, ControlTyped, LoopInv, Fresh, iceVars
<1>2. m \in Message /\ From(m) = 2 * n /\ To(m) = 2 * n + 1
  BY <1>1, MsgTyped DEF IInv, Typed, Type, Candidates, Msg, From, To, Opens
<1>3. OutPlace("server") = 2 * n /\ OutPlace("server")' = 2 * n + 1
  BY <1>1 DEF OutPlace, Stage, Unsent, Between
<1>4. InPlace("server")' = InPlace("server") /\ Up("server") /\ Up("server")'
  BY <1>1 DEF InPlace, Stage, Unanswered, Up, Between
<1>5. \A s \in Side \ {"server"} : PlaceVars(s)' = PlaceVars(s)
  BY <1>1 DEF PlaceVars
<1>6. Put("server", m)
  BY DEF SendAnswer
<1> HIDE DEF m, n
<1> QED
  BY <1>1, <1>2, <1>3, <1>4, <1>5, <1>6, SendStreams

\* A candidate, or the end of the candidates, which is sent once.
LEMMA SendCandidateStreams ==
  ASSUME IInv, ControlTyped', ~reused, NEW x \in Side, SendCandidate(x)
  PROVE  StreamsInv'
<1> DEFINE n == session[x]
           m == Msg(IF x = "client" THEN "opt_ice" ELSE "opt_message", x, out[x])
<1>1. /\ n \in Nat /\ pc[x] = "ice_send" /\ ~doneSending[x] /\ out[x] \in Candidates
      /\ UNCHANGED <<session, dropped, answered>> /\ Put(x, m)
  BY HandshakeAssumption DEF SendCandidate, IInv, Typed, ControlTyped, QueueTyped, LoopInv
<1>2. /\ doneReceiving'[x] = doneReceiving[x]
      /\ doneSending'[x] <=> out[x] = NoCand
      /\ pc'[x] = "ice" \/ (pc'[x] = "upgraded" /\ doneSending'[x] /\ doneReceiving[x])
      /\ \A s \in Side \ {x} : /\ pc'[s] = pc[s] /\ doneSending'[s] = doneSending[s]
                               /\ doneReceiving'[s] = doneReceiving[s]
  BY <1>1 DEF SendCandidate, Continue, LoopEnds, IsEnd, IInv, Typed, ControlTyped
<1>3. /\ m \in Message /\ From(m) = 2 * n + 1
      /\ To(m) = IF out[x] = NoCand THEN 2 * n + 2 ELSE 2 * n + 1
  BY <1>1, MsgTyped DEF IInv, Typed, Type, Msg, From, To, Opens
<1>4. /\ OutPlace(x) = 2 * n + 1
      /\ OutPlace(x)' = IF out[x] = NoCand THEN 2 * n + 2 ELSE 2 * n + 1
  BY <1>1, <1>2 DEF OutPlace, Stage, Unsent, Between
<1>5. InPlace(x)' = InPlace(x) /\ Up(x) /\ Up(x)'
  BY <1>1, <1>2 DEF InPlace, Stage, Unanswered, Up, Between
<1>6. \A s \in Side \ {x} : PlaceVars(s)' = PlaceVars(s)
  BY <1>1, <1>2 DEF PlaceVars
<1> HIDE DEF m, n
<1> QED
  BY <1>1, <1>3, <1>4, <1>5, <1>6, SendStreams

LEMMA RecvAnswerStreams == ASSUME IInv, ControlTyped', ~reused, RecvAnswer PROVE StreamsInv'
<1> DEFINE n == session["client"]
<1>1. PICK m : m = Head(Incoming("client"))
  OBVIOUS
<1>2. /\ "client" \in Side /\ "server" \in Side /\ Other("client") = "server" /\ n \in Nat
      /\ pc["client"] = "recv_answer" /\ pc'["client"] = "apply" /\ pc'["server"] = pc["server"]
      /\ ~doneSending["client"] /\ ~doneReceiving["client"] /\ answered' = m.tag
      /\ UNCHANGED <<session, doneSending, doneReceiving, dropped>> /\ Take("client")
  BY <1>1, HandshakeAssumption
     DEF RecvAnswer, Side, Other, IInv, Typed, ControlTyped, LoopInv, iceVars
<1>3. Incoming("client") # <<>> /\ m.type = "answer"
  BY <1>1, <1>2 DEF RecvAnswer, Arrives, Expected
<1>4. Up("client") /\ Up("client")' /\ PlaceVars("server")' = PlaceVars("server")
  BY <1>2 DEF Up, PlaceVars
<1>5. m \in Message /\ From(m) = InPlace("client")
  BY <1>1, <1>2, <1>3, <1>4, FirstObject
<1>6. InPlace("client") = 2 * n /\ InPlace("client")' = 2 * n + 1
  BY <1>2 DEF InPlace, Stage, Unanswered, Between
<1>7. m.tag \in Nat /\ From(m) = 2 * m.tag /\ To(m) = 2 * m.tag + 1
  BY <1>3, <1>5, HandshakeAssumption DEF Message, From, To, Opens
<1>8. m.tag = n /\ InPlace("client")' = To(m)
  BY <1>2, <1>5, <1>6, <1>7
<1>9. OutPlace("client")' = OutPlace("client")
  BY <1>2 DEF OutPlace, Stage, Unsent, Between
<1>10. \A s \in Side : StreamInv(s)'
  <2>1. PlaceVars(Other("client"))' = PlaceVars(Other("client"))
    BY <1>2, <1>4 DEF PlaceVars, Other
  <2> QED
    BY <1>1, <1>2, <1>3, <1>4, <1>8, <1>9, <2>1, ReceiveStep DEF IInv, StreamsInv
<1>11. OutPlace("server")' = OutPlace("server")
  BY <1>2, <1>4, PlaceFrame
<1>12. InStep'
  BY <1>2, <1>8, <1>11 DEF IInv, StreamsInv, InStep
<1> QED
  BY <1>10, <1>12 DEF StreamsInv

LEMMA RecvOfferStreams == ASSUME IInv, ControlTyped', ~reused, RecvOffer PROVE StreamsInv'
<1> DEFINE n == session["server"]
<1>1. PICK m : m = Head(Incoming("server"))
  OBVIOUS
<1>2. /\ "client" \in Side /\ "server" \in Side /\ Other("server") = "client" /\ n \in Nat
      /\ session["client"] \in Nat
      /\ pc["server"] = "recv_offer" /\ pc'["server"] = "send_answer"
      /\ pc'["client"] = pc["client"]
      /\ session'["server"] = m.tag /\ ~doneReceiving'["server"]
      /\ session'["client"] = session["client"]
      /\ doneSending'["client"] = doneSending["client"]
      /\ doneReceiving'["client"] = doneReceiving["client"]
      /\ UNCHANGED <<dropped, answered>> /\ Take("server")
  BY <1>1, HandshakeAssumption DEF RecvOffer, NewPeer, Side, Other, IInv, Typed, ControlTyped
<1>3. Incoming("server") # <<>> /\ m.type = "offer"
  BY <1>1, <1>2 DEF RecvOffer, Arrives, Expected
<1>4. Up("server") /\ Up("server")' /\ PlaceVars("client")' = PlaceVars("client")
  BY <1>2 DEF Up, PlaceVars
<1>5. m \in Message /\ From(m) = InPlace("server") /\ To(m) <= OutPlace("client")
  BY <1>1, <1>2, <1>3, <1>4, FirstObject
<1>6. InPlace("server") = 2 * n + 2 /\ InPlace("server")' = 2 * m.tag + 1
  BY <1>2 DEF InPlace, Stage, Unanswered, Between
<1>7. m.tag \in Nat /\ From(m) = 2 * m.tag /\ To(m) = 2 * m.tag + 1
  BY <1>3, <1>5, HandshakeAssumption DEF Message, From, To, Opens
<1>8. m.tag = n + 1 /\ InPlace("server")' = To(m)
  BY <1>2, <1>5, <1>6, <1>7
<1>9. OutPlace("server")' = OutPlace("server")
  BY <1>2, <1>8 DEF OutPlace, Stage, Unsent, Between
<1>10. \A s \in Side : StreamInv(s)'
  <2>1. PlaceVars(Other("server"))' = PlaceVars(Other("server"))
    BY <1>2, <1>4 DEF PlaceVars, Other
  <2> QED
    BY <1>1, <1>2, <1>3, <1>4, <1>8, <1>9, <2>1, ReceiveStep DEF IInv, StreamsInv
<1>11. m.tag <= session["client"]
  <2>1. OutPlace("client") <= 2 * session["client"] + 2
    BY <1>2 DEF OutPlace, Stage
  <2> QED
    BY <1>2, <1>5, <1>7, <2>1, PlacesTyped DEF IInv, Typed
<1>12. InStep'
  BY <1>2, <1>9, <1>11 DEF IInv, StreamsInv, InStep
<1> QED
  BY <1>10, <1>12 DEF StreamsInv

\* A side that has received the end of the candidates receives no more of them.
LEMMA RecvCandidateStreams ==
  ASSUME IInv, ControlTyped', ~reused, NEW x \in Side, RecvCandidate(x)
  PROVE  StreamsInv'
<1> DEFINE n == session[x]
<1>1. PICK m : m = Head(Incoming(x))
  OBVIOUS
<1>2. /\ n \in Nat /\ pc[x] = "ice" /\ UNCHANGED <<session, dropped, answered>> /\ Take(x)
      /\ doneSending'[x] = doneSending[x]
      /\ (doneReceiving'[x] <=> doneReceiving[x] \/ m.cand = NoCand)
      /\ pc'[x] = "ice" \/ (pc'[x] = "upgraded" /\ doneSending[x] /\ doneReceiving'[x])
      /\ \A s \in Side \ {x} : /\ pc'[s] = pc[s] /\ doneSending'[s] = doneSending[s]
                               /\ doneReceiving'[s] = doneReceiving[s]
  <2>1. n \in Nat /\ pc[x] = "ice" /\ UNCHANGED <<session, dropped, answered>> /\ Take(x)
    BY HandshakeAssumption DEF RecvCandidate, IInv, Typed, ControlTyped
  <2>2. Continue(x, doneSending[x], doneReceiving[x] \/ m.cand = NoCand)
    BY <1>1 DEF RecvCandidate, IsEnd
  <2> QED
    BY <2>1, <2>2 DEF Continue, LoopEnds, IInv, Typed, ControlTyped
<1>3. Incoming(x) # <<>> /\ m.type \in {"opt_ice", "opt_message"}
  BY <1>1, <1>2 DEF RecvCandidate, Arrives, Expected
<1>4. Up(x) /\ Up(x)' /\ PlaceVars(Other(x))' = PlaceVars(Other(x))
  BY <1>2, Sides DEF Up, PlaceVars, Other
<1>5. m \in Message /\ From(m) = InPlace(x)
  BY <1>1, <1>3, <1>4, Sides, FirstObject
<1>6. InPlace(x) = IF doneReceiving[x] THEN 2 * n + 2 ELSE 2 * n + 1
  BY <1>2 DEF InPlace, Stage, Unanswered, Between
<1>7. /\ m.tag \in Nat /\ From(m) = 2 * m.tag + 1
      /\ To(m) = IF m.cand = NoCand THEN 2 * m.tag + 2 ELSE 2 * m.tag + 1
  BY <1>3, <1>5, HandshakeAssumption DEF Message, From, To, Opens
<1>8. m.tag = n /\ ~doneReceiving[x]
  <2>1. n \in Nat /\ 2 * m.tag + 1 # 2 * n + 2
    BY <1>2, <1>7
  <2>2. ~doneReceiving[x]
    BY <1>5, <1>6, <1>7, <2>1
  <2>3. m.tag \in Nat /\ 2 * m.tag + 1 = 2 * n + 1
    BY <1>5, <1>6, <1>7, <2>2
  <2>4. m.tag = n
    BY <2>1, <2>3
  <2> QED
    BY <2>2, <2>4
<1>9. InPlace(x)' = To(m)
  BY <1>2, <1>7, <1>8 DEF InPlace, Stage, Unanswered, Between
<1>10. OutPlace(x)' = OutPlace(x)
  BY <1>2 DEF OutPlace, Stage, Unsent, Between
<1>11. \A s \in Side : StreamInv(s)'
  BY <1>1, <1>2, <1>3, <1>4, <1>9, <1>10, ReceiveStep DEF IInv, StreamsInv
<1>12. OutPlace("server") <= OutPlace("server")'
  BY <1>4, <1>10, ServerAdvances, PlacesTyped DEF IInv, Typed
<1>13. pc'["client"] \in {"apply", "ice", "ice_send", "upgraded"} =>
         pc["client"] \in {"apply", "ice", "ice_send", "upgraded"}
  BY <1>2 DEF Side
<1> QED
  BY <1>2, <1>11, <1>12, <1>13, StreamsFrom

\* Nothing is left on a connection that breaks.
LEMMA BreakStreams == ASSUME IInv, ControlTyped', ~reused, ConnectionBreaks PROVE StreamsInv'
<1>1. /\ wire' = [s \in Side |-> <<>>] /\ dropped' = [s \in Side |-> TRUE]
      /\ UNCHANGED <<pc, session, answered, doneSending, doneReceiving>>
  BY DEF ConnectionBreaks, iceVars
<1>2. ASSUME NEW s \in Side PROVE StreamInv(s)'
  <2>1. Other(s) \in Side /\ Other(s)' = Other(s)
    BY <1>2, Sides DEF Other
  <2>2. /\ InPlace(s)' = InPlace(s) /\ OutPlace(Other(s))' = OutPlace(Other(s)) /\ Up(s)' = Up(s)
    BY <1>1, <2>1 DEF InPlace, OutPlace, Up, Unsent, Unanswered
  <2>3. Incoming(s)' = <<>> /\ dropped'[s]
    BY <1>1, <2>1 DEF Incoming
  <2>4. Up(s) => Chained(<<>>, InPlace(s), OutPlace(Other(s)))
    BY <1>2 DEF IInv, StreamsInv, StreamInv, Chained
  <2> QED
    BY <2>1, <2>2, <2>3, <2>4 DEF StreamInv
<1>3. OutPlace("server") <= OutPlace("server")'
  <2>1. OutPlace("server")' = OutPlace("server") /\ OutPlace("server") \in Nat
    BY <1>1, PlacesTyped DEF OutPlace, Unsent, IInv, Typed, Side
  <2> QED
    BY <2>1
<1> QED
  BY <1>1, <1>2, <1>3, StreamsFrom

LEMMA StreamsStep == ASSUME IInv, [Next]_vars PROVE StreamsInv'
<1> SUFFICES ASSUME ~reused' PROVE StreamsInv'
  BY DEF StreamsInv
<1>1. ControlTyped'
  BY ControlTypes DEF IInv, Typed
<1>2. pc \in [Side -> ClientStates \union ServerStates] /\ "client" \in Side /\ "server" \in Side
  BY DEF IInv, Typed, ControlTyped, Side
<1>3. CASE Upgrade
  BY <1>1, <1>3, UpgradeStreams
<1>4. CASE SendOffer \/ SendAnswer \/ RecvAnswer \/ RecvOffer \/ ConnectionBreaks
  BY <1>1, <1>4, SendOfferStreams, SendAnswerStreams, RecvAnswerStreams, RecvOfferStreams,
        BreakStreams
     DEF SendOffer, SendAnswer, RecvAnswer, RecvOffer, ConnectionBreaks
<1>5. ASSUME NEW s \in Side, SendCandidate(s) \/ RecvCandidate(s) PROVE StreamsInv'
  BY <1>1, <1>5, SendCandidateStreams, RecvCandidateStreams DEF SendCandidate, RecvCandidate
<1>6. CASE ClientSetLocal
  BY <1>1, <1>2, <1>6, QuietStreams DEF ClientSetLocal, SetLocal, netVars
<1>7. CASE ServerSetLocal
  BY <1>1, <1>2, <1>7, QuietStreams DEF ServerSetLocal, SetLocal, netVars
<1>8. CASE ApplyAnswer
  BY <1>1, <1>2, <1>8, QuietStreams DEF ApplyAnswer, netVars
<1>9. CASE SuccessReturns
  BY <1>1, <1>2, <1>9, QuietStreams DEF SuccessReturns, netVars, iceVars
<1>10. ASSUME NEW s \in Side, TakeCandidate(s) PROVE StreamsInv'
  BY <1>1, <1>2, <1>10, QuietStreams DEF TakeCandidate, netVars
<1>11. ASSUME UNCHANGED <<pc, wire, session, doneSending, doneReceiving, answered, reused>>,
              \A s \in Side : dropped[s] => dropped'[s]
       PROVE  StreamsInv'
  <2>1. pc' = [pc EXCEPT !["client"] = pc["client"]]
    BY <1>2, <1>11
  <2> QED
    BY <1>1, <1>2, <1>11, <2>1, QuietStreams
<1>12. CASE DropClient
  BY <1>11, <1>12 DEF DropClient, iceVars, IInv, Typed, ControlTyped
<1>13. ASSUME NEW s \in Side, Gatherer(s) PROVE StreamsInv'
  BY <1>11, <1>13 DEF Gatherer, FindCandidate, FinishGathering, netVars
<1>14. CASE UNCHANGED vars
  BY <1>11, <1>14 DEF vars, netVars, iceVars
<1>15. ASSUME NEW s \in Side, Failure(s) PROVE StreamsInv'
  <2>1. /\ Fail(s) /\ UNCHANGED <<session, doneSending, doneReceiving, answered, reused>>
        /\ wire' = wire \/ Take(s)
    BY <1>15 DEF Failure, BadMessage, ConnectionLost, WebRTCError, AddCandidateError, iceVars
  <2>2. wire'[s] = wire[s]
    BY <2>1, Sides DEF Take, IInv, Typed, WireTyped
  <2> QED
    BY <1>1, <2>1, <2>2, FailStreams
<1> QED
  BY <1>3, <1>4, <1>5, <1>6, <1>7, <1>8, <1>9, <1>10, <1>12, <1>13, <1>14, <1>15
     DEF Next, ClientStep, ServerStep, IceStep

-----------------------------------------------------------------------------
LEMMA InitIInv == Init => IInv
<1> SUFFICES ASSUME Init PROVE IInv
  OBVIOUS
<1>1. /\ pc["client"] = "ready" /\ pc["server"] = "recv_offer"
      /\ \A s \in Side : /\ wire[s] = <<>> /\ session[s] = 0
                         /\ gathering[s] = "new" /\ queue[s] = <<>>
                         /\ ~doneSending[s] /\ ~doneReceiving[s]
  BY DEF Init
<1>2. Typed
  <2>1. ControlTyped
    <3>1. pc \in [Side -> ClientStates \union ServerStates]
      BY DEF Init, Side, ClientStates, ServerStates
    <3>2. pc["client"] \in ClientStates /\ pc["server"] \in ServerStates
      BY <1>1 DEF ClientStates, ServerStates
    <3>3. /\ dropped \in [Side -> BOOLEAN] /\ registered \in [Side -> BOOLEAN]
          /\ doneSending \in [Side -> BOOLEAN] /\ doneReceiving \in [Side -> BOOLEAN]
      BY DEF Init
    <3>4. 0 \in 0..MaxAttempts
      BY HandshakeAssumption
    <3>5. /\ session \in [Side -> 0..MaxAttempts] /\ answered \in 0..MaxAttempts
          /\ reused \in BOOLEAN
          /\ gathering \in [Side -> {"new", "gathering", "complete"}]
      BY <3>4 DEF Init
    <3> QED
      BY <3>1, <3>2, <3>3, <3>5 DEF ControlTyped
  <2>2. WireTyped /\ QueueTyped
    BY HandshakeAssumption DEF Init, WireTyped, QueueTyped, Candidates
  <2>3. HistoryTyped
    BY DEF Init, HistoryTyped
  <2> QED
    BY <2>1, <2>2, <2>3 DEF Typed
<1>3. CallbackSet /\ OwnKinds
  BY <1>1 DEF Init, CallbackSet, ServerLosesNothing, OwnKinds, Side
<1>4. \A s \in Side : LoopInv(s)
  BY <1>1 DEF Side, LoopInv, Fresh, EndIsLast
<1>5. \A s \in Side : InPlace(s) = 2 /\ OutPlace(s) = 2
  BY <1>1 DEF Side, InPlace, OutPlace, Stage, Unsent, Unanswered, Between
<1>6. \A s \in Side : StreamInv(s)
  BY <1>1, <1>5, Sides DEF StreamInv, Incoming, Chained, Complete
<1>7. InStep
  BY <1>1, <1>5 DEF Side, InStep
<1> QED
  BY <1>2, <1>3, <1>4, <1>6, <1>7 DEF IInv, StreamsInv

\* The two streams stay in step as described above, for any candidates, capacities
\* and number of upgrades (client.rs:119-190, server.rs:138-255).
THEOREM Invariance == Spec => []IInv
<1>1. IInv /\ [Next]_vars => IInv'
  BY TypedStep, CallbackStep, KindsStep, LoopStep, StreamsStep DEF IInv
<1> QED
  BY InitIInv, <1>1, PTL DEF Spec

\* The state is well formed, and neither the transport nor the channel of
\* candidates holds more than its capacity (client.rs:119-190, server.rs:138-255).
THEOREM TypeCorrect == Spec => []TypeOK
<1>1. IInv => TypeOK
  BY DEF IInv, Typed, ControlTyped, WireTyped, QueueTyped, HistoryTyped, Candidates, TypeOK
<1> QED
  BY <1>1, Invariance, PTL

\* The server's gatherer starts with on_ice_candidate set, so that no candidate
\* of the server is dropped, whatever the client does (server.rs:199-213).
THEOREM ServerKeepsCandidates == Spec => []ServerLosesNothing
<1>1. IInv => ServerLosesNothing
  BY DEF IInv, CallbackSet
<1> QED
  BY <1>1, Invariance, PTL

\* Nothing is on the wire to a side that has received the end of a session's
\* candidates and not yet left its loop, or not yet begun another session.
LEMMA NothingAhead ==
  ASSUME IInv, ~reused, NEW x \in Side, Up(x), doneReceiving[x],
         pc[x] = "ice" \/ (x = "client" /\ pc[x] \in {"ice_send", "upgraded"})
  PROVE  Incoming(x) = <<>>
<1> SUFFICES ASSUME Incoming(x) # <<>> PROVE FALSE
  OBVIOUS
<1>1. PICK m, y : m = Head(Incoming(x)) /\ y = Other(x) /\ y \in Side
  BY Sides
<1>2. m \in Message /\ From(m) = InPlace(x) /\ To(m) <= OutPlace(y)
  BY <1>1, FirstObject
<1>3. session[x] \in Nat /\ session[y] \in Nat
  BY <1>1, HandshakeAssumption DEF IInv, Typed, ControlTyped
<1>4. InPlace(x) = 2 * session[x] + 2
  BY DEF InPlace, Stage, Unanswered
<1>5. m.tag \in Nat /\ To(m) >= 2 * session[x] + 3
  <2>1. m.tag \in Nat
    BY <1>2, HandshakeAssumption DEF Message
  <2>2. Opens(m) => To(m) = 2 * m.tag + 1 /\ From(m) = 2 * m.tag
    BY DEF From, To
  <2>3. ~Opens(m) => From(m) = 2 * m.tag + 1
    BY DEF From
  <2>4. 2 * m.tag + 1 # 2 * session[x] + 2
    BY <1>3, <2>1
  <2> QED
    BY <1>2, <1>3, <1>4, <2>1, <2>2, <2>3, <2>4
<1>6. OutPlace(y) <= 2 * session[y] + 2
  BY <1>3 DEF OutPlace, Stage
<1>7. session[x] < session[y]
  BY <1>2, <1>3, <1>5, <1>6, PlacesTyped, MessagePlaces, <1>1 DEF IInv, Typed
<1>8. InStep
  BY DEF IInv, StreamsInv
<1>9. CASE x = "client"
  BY <1>1, <1>3, <1>7, <1>8, <1>9 DEF InStep, Other
<1>10. CASE x = "server"
  <2>1. y = "client" /\ pc[x] = "ice" /\ ~doneSending[x]
    BY <1>1, <1>10 DEF Other, IInv, LoopInv
  <2>2. OutPlace("server") = 2 * session[x] + 1
    BY <1>10, <2>1 DEF OutPlace, Stage, Unsent, Between
  <2> QED
    BY <1>3, <1>7, <1>8, <2>1, <2>2 DEF InStep
<1> QED
  BY <1>9, <1>10 DEF Side

\* Until the client reuses a connection after an error, every object is read as
\* the type it was written from, over any number of upgrades on a connection
\* (client.rs:134, 170; server.rs:140, 234).
THEOREM TypesAgree == Spec => []WireTypesAgree
<1>1. IInv => WireTypesAgree
  <2> SUFFICES ASSUME IInv, ~reused, NEW x \in Side, Receiving(x), Incoming(x) # <<>>
               PROVE  Head(Incoming(x)).type = Expected(x)
    BY DEF WireTypesAgree
  <2>1. PICK m, y : m = Head(Incoming(x)) /\ y = Other(x) /\ y \in Side
    BY Sides
  <2>2. Up(x)
    BY DEF Receiving, Up
  <2>3. m \in Message /\ m.type \in Kinds[y] /\ From(m) = InPlace(x)
    BY <2>1, <2>2, FirstObject
  <2>4. m.tag \in Nat /\ session[x] \in Nat
    BY <2>3, HandshakeAssumption DEF Message, IInv, Typed, ControlTyped
  <2>5. pc[x] = "ice" => ~doneReceiving[x]
    BY <2>2, NothingAhead
  <2>6. InPlace(x) = CASE pc[x] = "recv_offer"  -> 2 * session[x] + 2
                       [] pc[x] = "recv_answer" -> 2 * session[x]
                       [] pc[x] = "ice"         -> 2 * session[x] + 1
    BY <2>5 DEF InPlace, Stage, Unanswered, Between, Receiving, IInv, Typed, ControlTyped,
                ClientStates, ServerStates, Side
  <2>7. Opens(m) <=> pc[x] # "ice"
    BY <2>3, <2>4, <2>6 DEF From, Receiving
  <2>8. (x = "client" /\ y = "server") \/ (x = "server" /\ y = "client")
    BY <2>1 DEF Side, Other
  <2> QED
    BY <2>1, <2>3, <2>7, <2>8 DEF Kinds, Opens, Expected, Receiving, IInv, Typed, ControlTyped,
       ClientStates, ServerStates
<1> QED
  BY <1>1, Invariance, PTL

\* Likewise, a client applies the answer to its own offer, and what comes after
\* it is of the same session (client.rs:133-144).
THEOREM AnswersOwnOffer == Spec => []OwnAnswer
<1>1. IInv => OwnAnswer
  <2> SUFFICES ASSUME IInv, ~reused, pc["client"] \in {"apply", "ice", "ice_send", "upgraded"}
               PROVE  /\ answered = session["client"]
                      /\ Incoming("client") # <<>> => Head(Incoming("client")).tag = session["client"]
    BY DEF OwnAnswer
  <2>1. answered = session["client"]
    BY DEF IInv, StreamsInv, InStep
  <2>2. ASSUME Incoming("client") # <<>> PROVE Head(Incoming("client")).tag = session["client"]
    <3>1. "client" \in Side /\ "server" \in Side /\ Other("client") = "server" /\ Up("client")
      BY DEF Side, Other, Up
    <3>2. PICK m : m = Head(Incoming("client"))
      OBVIOUS
    <3>3. m \in Message /\ From(m) = InPlace("client")
      BY <2>2, <3>1, <3>2, FirstObject
    <3>4. m.tag \in Nat /\ session["client"] \in Nat
      BY <3>1, <3>3, HandshakeAssumption DEF Message, IInv, Typed, ControlTyped
    <3>5. LoopInv("client")
      BY <3>1 DEF IInv
    <3>6. ~doneReceiving["client"] /\ pc["client"] # "upgraded"
      BY <2>2, <3>1, <3>5, NothingAhead DEF LoopInv
    <3>7. InPlace("client") = 2 * session["client"] + 1
      BY <3>6 DEF InPlace, Stage, Unanswered, Between
    <3>8. From(m) = 2 * m.tag \/ From(m) = 2 * m.tag + 1
      BY DEF From
    <3>9. 2 * m.tag # 2 * session["client"] + 1
      BY <3>4
    <3>10. 2 * m.tag + 1 = 2 * session["client"] + 1
      BY <3>3, <3>7, <3>8, <3>9
    <3> QED
      BY <3>2, <3>4, <3>10
  <2> QED
    BY <2>1, <2>2
<1> QED
  BY <1>1, Invariance, PTL
=============================================================================
