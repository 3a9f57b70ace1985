----------------------------- MODULE ExchangeProofs -----------------------------
(***************************************************************************)
(* For any candidates, capacities, number of attempts and failures, and    *)
(* whatever a client does with its connection after an error:              *)
(* UpgradeHandshake implements CandidateExchange.  A side that reports a   *)
(* session upgraded has learned every candidate that the other side's peer *)
(* of that session published.                                              *)
(***************************************************************************)
EXTENDS UpgradeHandshakeProofs

\* The gatherer of s has handed c, or None, to the callback in session r.
Given(s, r, c) == IF c = NoCand THEN r \in closed[s] ELSE <<r, c>> \in published[s]

\* Lists belong to sessions that have begun, and a list that is closed stays so.
Lists(s) ==
  /\ \A r \in 0..MaxAttempts, c \in Candidates : Given(s, r, c) => r <= session[s]
  /\ session[s] \in closed[s] => gathering[s] = "complete"

\* What waits in the channel of candidates, or is being sent, and what is on
\* the wire was given.
Pending(s) ==
  /\ \A i \in 1..Len(queue[s]) : Given(s, session[s], queue[s][i])
  /\ pc[s] = "ice_send" => Given(s, session[s], out[s])
  /\ doneSending[s] => Given(s, session[s], NoCand)
Underway(s) ==
  \A i \in 1..Len(wire[s]) : ~Opens(wire[s][i]) => Given(s, wire[s][i].tag, wire[s][i].cand)

\* On the wire w to a server in session a, an offer is of a later session than
\* what comes before it, and an ICE object of the same one.  None is of a session
\* above b.
Prior(w, a, i) == IF i = 1 THEN a ELSE w[i - 1].tag
Grows(w, a) ==
  \A i \in 1..Len(w) : IF Opens(w[i]) THEN Prior(w, a, i) < w[i].tag
                                      ELSE Prior(w, a, i) = w[i].tag
Below(w, a, b) == \A i \in 1..(Len(w) + 1) : Prior(w, a, i) <= b
Offered == {"set_local", "recv_answer", "apply", "ice", "ice_send"}
TagsGrow ==
  LET w == wire["client"] a == session["server"] b == session["client"] IN
  /\ Below(w, a, IF pc["client"] = "send_offer" THEN b - 1 ELSE b)
  /\ Up("server") => Grows(w, a)
  /\ Up("server") /\ ~dropped["server"] /\ pc["client"] \in Offered => Prior(w, a, Len(w) + 1) = b

\* s takes all objects that reach it in order: it has not failed, and, if it is
\* the client, not been called again after a failure.
Intact(s) == Up(s) /\ (s = "client" => ~reused)

\* c of session r is among the first n objects of w.
Carries(w, n, r, c) == \E j \in 1..n : ~Opens(w[j]) /\ w[j].tag = r /\ w[j].cand = c

\* No candidate that s publishes disappears before it has sent its None, ...
Kept(s, c) ==
  \/ <<session[s], c>> \in learned[Other(s)]
  \/ Carries(wire[s], Len(wire[s]), session[s], c)
  \/ \E i \in 1..Len(queue[s]) : queue[s][i] = c
  \/ pc[s] = "ice_send" /\ out[s] = c
Conserved(s) ==
  Intact(Other(s)) /\ Up(s) /\ ~doneSending[s] /\ ~dropped[Other(s)] =>
    \A c \in Cand : <<session[s], c>> \in published[s] => Kept(s, c)

\* ... and those of a session come before its None.
EndsList(s) ==
  Intact(Other(s)) =>
    \A i \in 1..Len(wire[s]) : ~Opens(wire[s][i]) /\ wire[s][i].cand = NoCand =>
      \A c \in Cand : <<wire[s][i].tag, c>> \in published[s] =>
        \/ <<wire[s][i].tag, c>> \in learned[Other(s)]
        \/ Carries(wire[s], i - 1, wire[s][i].tag, c)

\* The other side's list of session r is closed and s has learned all of it.
Known(s, r) ==
  /\ r \in closed[Other(s)]
  /\ \A c \in Cand : <<r, c>> \in published[Other(s)] => <<r, c>> \in learned[s]
Received(s) == doneReceiving[s] /\ (s = "client" => ~reused) => Known(s, session[s])
Final(s) == \A r \in concluded[s] : Known(s, r)

ListInv(s) ==
  /\ Lists(s) /\ Pending(s) /\ Underway(s)
  /\ Conserved(s) /\ EndsList(s) /\ Received(s) /\ Final(s)

\* The inductive invariant of the refinement.
RInv == IInv /\ TagsGrow /\ \A s \in Side : ListInv(s)

-----------------------------------------------------------------------------
(* Tags on the wire to the server                                          *)

\* The wire after one more object, ...
LEMMA GrowsAppend ==
  ASSUME NEW w \in Seq(Message), NEW m \in Message, NEW a \in Nat, NEW b \in Int,
         Below(w, a, b), m.tag <= b
  PROVE  /\ Below(Append(w, m), a, b)
         /\ Prior(Append(w, m), a, Len(Append(w, m)) + 1) = m.tag
         /\ Grows(w, a)
            /\ (IF Opens(m) THEN Prior(w, a, Len(w) + 1) < m.tag
                            ELSE Prior(w, a, Len(w) + 1) = m.tag)
              => Grows(Append(w, m), a)
<1> DEFINE r == Append(w, m)
<1>1. /\ Len(w) \in Nat /\ Len(r) = Len(w) + 1 /\ r[Len(w) + 1] = m
      /\ \A i \in 1..Len(w) : r[i] = w[i]
  BY AppendProperties
<1> HIDE DEF r
<1>2. \A i \in 1..(Len(w) + 1) : Prior(r, a, i) = Prior(w, a, i)
  <2> SUFFICES ASSUME NEW i \in 1..(Len(w) + 1) PROVE Prior(r, a, i) = Prior(w, a, i)
    OBVIOUS
  <2>1. CASE i = 1
    BY <2>1 DEF Prior
  <2>2. CASE i # 1
    <3>1. i - 1 \in 1..Len(w)
      BY <1>1, <2>2
    <3> QED
      BY <1>1, <2>2, <3>1 DEF Prior
  <2> QED
    BY <2>1, <2>2
<1>3. Prior(r, a, Len(r) + 1) = m.tag
  <2>1. (Len(r) + 1) - 1 = Len(w) + 1 /\ Len(r) + 1 # 1
    BY <1>1
  <2> QED
    BY <1>1, <2>1 DEF Prior
<1>4. Below(r, a, b)
  <2>1. \A i \in 1..(Len(r) + 1) : i \in 1..(Len(w) + 1) \/ i = Len(r) + 1
    BY <1>1
  <2> QED
    BY <1>2, <1>3, <2>1 DEF Below
<1>5. ASSUME Grows(w, a), IF Opens(m) THEN Prior(w, a, Len(w) + 1) < m.tag
                                      ELSE Prior(w, a, Len(w) + 1) = m.tag
      PROVE  Grows(r, a)
  <2>1. \A i \in 1..Len(r) : i \in 1..(Len(w) + 1) /\ (i \in 1..Len(w) \/ i = Len(w) + 1)
    BY <1>1
  <2> QED
    BY <1>1, <1>2, <1>5, <2>1 DEF Grows
<1> QED
  BY <1>3, <1>4, <1>5 DEF r

\* ... and after its first object was taken, by a server in session a or now in
\* the session of that object.
LEMMA GrowsTail ==
  ASSUME NEW w \in Seq(Message), w # <<>>, NEW a \in Nat, NEW b \in Int, Below(w, a, b)
  PROVE  /\ Below(Tail(w), a, b) /\ Below(Tail(w), w[1].tag, b)
         /\ Grows(w, a) => Grows(Tail(w), w[1].tag)
         /\ Prior(Tail(w), w[1].tag, Len(Tail(w)) + 1) = Prior(w, a, Len(w) + 1)
<1> DEFINE r == Tail(w)
<1>1. /\ Len(w) \in Nat \ {0} /\ Len(r) = Len(w) - 1
      /\ \A i \in 1..Len(r) : r[i] = w[i + 1]
  OBVIOUS
<1> HIDE DEF r
<1>2. \A i \in 1..(Len(r) + 1) : i + 1 \in 1..(Len(w) + 1) /\ i \in 1..Len(w)
  BY <1>1
<1>3. \A i \in 1..(Len(r) + 1) : /\ Prior(r, w[1].tag, i) = w[i].tag
                                 /\ Prior(w, a, i + 1) = w[i].tag
                                 /\ Prior(r, a, i) = IF i = 1 THEN a ELSE w[i].tag
  <2> SUFFICES ASSUME NEW i \in 1..(Len(r) + 1)
               PROVE  /\ Prior(r, w[1].tag, i) = w[i].tag /\ Prior(w, a, i + 1) = w[i].tag
                      /\ Prior(r, a, i) = IF i = 1 THEN a ELSE w[i].tag
    OBVIOUS
  <2>1. (i + 1) - 1 = i /\ i + 1 # 1
    OBVIOUS
  <2>2. Prior(w, a, i + 1) = w[i].tag
    BY <2>1 DEF Prior
  <2>3. CASE i = 1
    BY <2>2, <2>3 DEF Prior
  <2>4. CASE i # 1
    <3>1. i - 1 \in 1..Len(r) /\ (i - 1) + 1 = i
      BY <1>1, <2>4
    <3> QED
      BY <1>1, <2>2, <2>4, <3>1 DEF Prior
  <2> QED
    BY <2>3, <2>4
<1>4. Prior(w, a, 1) = a /\ 1 \in 1..(Len(w) + 1)
  BY <1>1 DEF Prior
<1>5. Below(r, a, b) /\ Below(r, w[1].tag, b)
  BY <1>2, <1>3, <1>4 DEF Below
<1>6. ASSUME Grows(w, a) PROVE Grows(r, w[1].tag)
  <2>1. \A i \in 1..Len(r) : i \in 1..(Len(r) + 1) /\ i + 1 \in 1..Len(w)
    BY <1>1
  <2> QED
    BY <1>1, <1>3, <1>6, <2>1 DEF Grows
<1>7. Prior(r, w[1].tag, Len(r) + 1) = Prior(w, a, Len(w) + 1)
  <2>1. Len(r) + 1 \in 1..(Len(r) + 1) /\ (Len(r) + 1) + 1 = Len(w) + 1
    BY <1>1
  <2> QED
    BY <1>3, <2>1
<1> QED
  BY <1>5, <1>6, <1>7 DEF r

-----------------------------------------------------------------------------
(* What a step can do to each side                                         *)

\* To the objects that s has sent: one more is sent, or the first one received,
\* and if it is a candidate and its receiver does not fail, then learned.
Learns(s, m) == ~Opens(m) /\ m.cand # NoCand => <<m.tag, m.cand>> \in learned'[s]
WireOf(s) ==
  \/ wire'[s] = wire[s]
  \/ wire'[s] = <<>> /\ dropped'[Other(s)]
  \/ Sending(s) /\ ~dropped[Other(s)] /\ wire'[s] = Append(wire[s], Sent(s))
  \/ /\ wire[s] # <<>> /\ wire'[s] = Tail(wire[s])
     /\ Up(Other(s))' => Learns(Other(s), Head(wire[s]))

LEMMA TakeWire ==
  ASSUME Typed, NEW x \in Side, Incoming(x) # <<>>, Take(x), NEW s \in Side,
         Up(x)' => Learns(x, Head(Incoming(x)))
  PROVE  WireOf(s)
<1>1. wire' = [wire EXCEPT ![Other(x)] = Tail(wire[Other(x)])] /\ wire[Other(x)] # <<>>
  BY DEF Take, Incoming
<1>2. CASE s = x
  BY <1>1, <1>2, Sides DEF WireOf, Typed, WireTyped
<1>3. CASE s # x
  <2>1. s = Other(x) /\ x = Other(s)
    BY <1>3 DEF Side, Other
  <2>2. wire'[s] = Tail(wire[s])
    BY <1>1, <2>1 DEF Typed, WireTyped
  <2> QED
    BY <1>1, <2>1, <2>2 DEF WireOf, Incoming
<1> QED
  BY <1>2, <1>3

LEMMA PutWire ==
  ASSUME Typed, NEW x \in Side, Sending(x), Put(x, Sent(x)), NEW s \in Side
  PROVE  WireOf(s)
<1>1. \/ wire' = wire
      \/ ~dropped[Other(x)] /\ wire' = [wire EXCEPT ![x] = Append(wire[x], Sent(x))]
  BY DEF Put
<1>2. wire'[s] = wire[s] \/ (s = x /\ ~dropped[Other(x)] /\ wire'[s] = Append(wire[s], Sent(s)))
  BY <1>1 DEF Typed, WireTyped
<1> QED
  BY <1>2 DEF WireOf

LEMMA FailsDown == ASSUME Typed, NEW x \in Side, Fail(x) PROVE ~Up(x)'
  BY DEF Fail, Up, Typed, ControlTyped

LEMMA WiresStep ==
  ASSUME Typed, [Next]_vars, NEW s \in Side
  PROVE  WireOf(s)
<1>1. ASSUME wire' = wire PROVE WireOf(s)
  BY <1>1 DEF WireOf
<1>2. CASE Upgrade \/ ClientSetLocal \/ ApplyAnswer \/ DropClient \/ ServerSetLocal
           \/ SuccessReturns \/ UNCHANGED vars
  <2>1. wire' = wire
    BY <1>2 DEF Upgrade, ClientSetLocal, SetLocal, ApplyAnswer, DropClient, ServerSetLocal,
       SuccessReturns, vars, netVars
  <2> QED
    BY <1>1, <2>1
<1>3. CASE ConnectionBreaks
  <2>1. wire'[s] = <<>> /\ dropped'[Other(s)]
    BY <1>3, Sides DEF ConnectionBreaks
  <2> QED
    BY <2>1 DEF WireOf
<1>4. CASE SendOffer
  <2>1. "client" \in Side /\ Sending("client") /\ Put("client", Sent("client"))
    BY <1>4 DEF SendOffer, Side, Sending, Sent
  <2> QED
    BY <2>1, PutWire
<1>5. CASE SendAnswer
  <2>1. "server" \in Side /\ Sending("server") /\ Put("server", Sent("server"))
    BY <1>5 DEF SendAnswer, Side, Sending, Sent
  <2> QED
    BY <2>1, PutWire
<1>6. ASSUME NEW x \in Side, SendCandidate(x) PROVE WireOf(s)
  <2>1. Sending(x) /\ Put(x, Sent(x))
    BY <1>6 DEF SendCandidate, Sending, Sent
  <2> QED
    BY <2>1, PutWire
<1>7. CASE RecvAnswer
  <2>1. /\ "client" \in Side /\ Incoming("client") # <<>> /\ Take("client")
        /\ Head(Incoming("client")).type = "answer"
    BY <1>7 DEF RecvAnswer, Side, Arrives, Expected
  <2> QED
    BY <2>1, TakeWire DEF Learns, Opens
<1>8. CASE RecvOffer
  <2>1. /\ "server" \in Side /\ Incoming("server") # <<>> /\ Take("server")
        /\ Head(Incoming("server")).type = "offer"
    BY <1>8 DEF RecvOffer, Side, Arrives, Expected
  <2> QED
    BY <2>1, TakeWire DEF Learns, Opens
<1>9. ASSUME NEW x \in Side, RecvCandidate(x) PROVE WireOf(s)
  <2>1. /\ Incoming(x) # <<>> /\ Take(x)
        /\ learned' = [learned EXCEPT ![x] = @ \union Added(Head(Incoming(x)))]
    BY <1>9 DEF RecvCandidate, Arrives
  <2>2. Learns(x, Head(Incoming(x)))
    BY <2>1 DEF Learns, Added, OfSession, Typed, HistoryTyped
  <2> QED
    BY <2>1, <2>2, TakeWire
<1>10. ASSUME NEW x \in Side, Failure(x) PROVE WireOf(s)
  <2>1. Fail(x) /\ (wire' = wire \/ (Incoming(x) # <<>> /\ Take(x)))
    BY <1>10 DEF Failure, BadMessage, ConnectionLost, WebRTCError, AddCandidateError, Arrives
  <2> QED
    BY <1>1, <2>1, FailsDown, TakeWire
<1>11. ASSUME NEW x \in Side, TakeCandidate(x) \/ Gatherer(x) PROVE WireOf(s)
  <2>1. wire' = wire
    BY <1>11 DEF TakeCandidate, Gatherer, FindCandidate, FinishGathering, netVars
  <2> QED
    BY <1>1, <2>1
<1> QED
  BY <1>2, <1>3, <1>4, <1>5, <1>6, <1>7, <1>8, <1>9, <1>10, <1>11
     DEF Next, ClientStep, ServerStep, IceStep

\* To what s sends: a new session begins, or the gatherer hands over c, the loop
\* takes a candidate from the channel, sends it, or none of these.
Begins(s) ==
  /\ session[s] < session'[s] /\ pc'[s] \in {"send_offer", "send_answer"}
  /\ queue'[s] = <<>> /\ ~doneSending'[s]
  /\ published'[s] = published[s] /\ closed'[s] = closed[s]
Lasts(s) ==
  /\ session'[s] = session[s]
  /\ gathering[s] = "complete" => gathering'[s] = "complete"
  /\ Up(s)' => Up(s)
Unlisted(s) == published'[s] = published[s] /\ closed'[s] = closed[s]
Rests(s) ==
  /\ Lasts(s) /\ Unlisted(s)
  /\ queue'[s] = queue[s] /\ out'[s] = out[s] /\ doneSending'[s] = doneSending[s]
  /\ Up(s)' => (pc'[s] = "ice_send" <=> pc[s] = "ice_send")
Hands(s, c) ==
  /\ Lasts(s) /\ gathering[s] = "gathering" /\ queue'[s] = Append(queue[s], c)
  /\ c = NoCand => gathering'[s] = "complete"
  /\ closed'[s] = IF c = NoCand THEN closed[s] \union {session[s]} ELSE closed[s]
  /\ published'[s] = published[s] \union OfSession(session[s], c)
  /\ pc'[s] = pc[s] /\ out'[s] = out[s] /\ doneSending'[s] = doneSending[s]
Takes(s) ==
  /\ Lasts(s) /\ Unlisted(s) /\ queue[s] # <<>> /\ pc[s] # "ice_send"
  /\ queue'[s] = Tail(queue[s]) /\ out'[s] = Head(queue[s]) /\ pc'[s] = "ice_send"
  /\ doneSending'[s] = doneSending[s]
Sends(s) ==
  /\ Lasts(s) /\ Unlisted(s) /\ pc[s] = "ice_send" /\ pc'[s] # "ice_send" /\ Put(s, Sent(s))
  /\ queue'[s] = queue[s] /\ doneSending'[s] = (doneSending[s] \/ out[s] = NoCand)
SenderStep(s) ==
  \/ Begins(s) \/ Rests(s) \/ Takes(s) \/ Sends(s)
  \/ \E c \in Candidates : Hands(s, c)

\* What a step of x leaves of the other side.
LEMMA OtherRests ==
  ASSUME NEW s \in Side, PlaceVars(s)' = PlaceVars(s),
         <<queue[s], out[s], gathering[s], published[s], closed[s]>>' =
           <<queue[s], out[s], gathering[s], published[s], closed[s]>>
  PROVE  SenderStep(s)
  BY DEF SenderStep, Rests, Lasts, Unlisted, PlaceVars, Up

LEMMA SenderSteps ==
  ASSUME IInv, TagsGrow, [Next]_vars, NEW s \in Side
  PROVE  SenderStep(s)
<1> DEFINE K(x) == \A t \in Side \ {x} :
                     /\ PlaceVars(t)' = PlaceVars(t)
                     /\ <<queue[t], out[t], gathering[t], published[t], closed[t]>>' =
                          <<queue[t], out[t], gathering[t], published[t], closed[t]>>
<1>1. ASSUME NEW x \in Side, K(x), SenderStep(x) PROVE SenderStep(s)
  BY <1>1, OtherRests
<1> HIDE DEF K
<1>2. ASSUME NEW x \in Side, NEW y,
             UNCHANGED <<session, queue, out, doneSending, published, closed>>,
             UNCHANGED <<gathering, doneReceiving>>,
             pc' = [pc EXCEPT ![x] = y], y = "ice_send" <=> pc[x] = "ice_send",
             Up(x)' => Up(x)
      PROVE  SenderStep(s)
  <2>1. pc'[x] = y /\ \A t \in Side \ {x} : pc'[t] = pc[t]
    BY <1>2 DEF IInv, Typed, ControlTyped
  <2>2. K(x) /\ Rests(x)
    BY <1>2, <2>1 DEF K, PlaceVars, Rests, Lasts, Unlisted
  <2> QED
    BY <1>1, <2>2 DEF SenderStep
<1>3. pc \in [Side -> ClientStates \union ServerStates] /\ "client" \in Side /\ "server" \in Side
  BY DEF IInv, Typed, ControlTyped, Side
<1>4. CASE Upgrade
  <2>1. K("client")
    BY <1>3, <1>4 DEF Upgrade, NewPeer, historyVars, K, PlaceVars, IInv, Typed, ControlTyped,
       QueueTyped
  <2>2. Begins("client")
    BY <1>3, <1>4 DEF Upgrade, NewPeer, historyVars, Begins, IInv, Typed, ControlTyped, QueueTyped
  <2> QED
    BY <1>1, <1>3, <2>1, <2>2 DEF SenderStep
<1>5. CASE RecvOffer
  <2> DEFINE w == wire["client"]
             a == session["server"]
  <2>1. /\ w \in Seq(Message) /\ w # <<>> /\ w[1].type = "offer" /\ Up("server") /\ a \in Nat
        /\ session' = [session EXCEPT !["server"] = w[1].tag]
    BY <1>5 DEF RecvOffer, NewPeer, Arrives, Expected, Incoming, Other, Up, IInv, Typed,
       ControlTyped, WireTyped, Side
  <2>2. Grows(w, a) /\ 1 \in 1..Len(w)
    BY <2>1 DEF TagsGrow
  <2> HIDE DEF w
  <2>3. a < w[1].tag
    BY <2>1, <2>2 DEF Grows, Prior, Opens
  <2>4. K("server")
    BY <1>3, <1>5 DEF RecvOffer, NewPeer, historyVars, K, PlaceVars, IInv, Typed, ControlTyped,
       QueueTyped
  <2>5. session'["server"] = w[1].tag
    BY <1>3, <2>1 DEF IInv, Typed, ControlTyped
  <2>6. Begins("server")
    BY <1>3, <1>5, <2>3, <2>5 DEF RecvOffer, NewPeer, historyVars, Begins, IInv, Typed,
       ControlTyped, QueueTyped
  <2> QED
    BY <1>1, <1>3, <2>4, <2>6 DEF SenderStep
<1>6. CASE SendOffer
  BY <1>2, <1>3, <1>6 DEF SendOffer, iceVars, historyVars, Up
<1>7. CASE RecvAnswer
  BY <1>2, <1>3, <1>7 DEF RecvAnswer, iceVars, historyVars, Up
<1>8. CASE ApplyAnswer
  BY <1>2, <1>3, <1>8 DEF ApplyAnswer, historyVars, Up
<1>9. CASE SendAnswer
  BY <1>2, <1>3, <1>9 DEF SendAnswer, iceVars, historyVars, Up
<1>10. CASE SuccessReturns
  BY <1>2, <1>3, <1>10 DEF SuccessReturns, iceVars, historyVars, Up
<1>11. CASE DropClient \/ ConnectionBreaks \/ UNCHANGED vars
  <2>1. UNCHANGED <<pc, iceVars, session, historyVars>>
    BY <1>11 DEF DropClient, ConnectionBreaks, vars
  <2> QED
    BY <2>1, OtherRests DEF iceVars, historyVars, PlaceVars
<1>12. ASSUME NEW x \in Side, NEW y, SetLocal(x, y), y \in {"recv_answer", "ice"}
       PROVE  SenderStep(s)
  <2>1. gathering[x] # "complete" /\ Up(x)
    BY <1>12 DEF SetLocal, IInv, LoopInv, Fresh, Up
  <2>2. K(x) /\ Rests(x)
    BY <1>3, <1>12, <2>1 DEF SetLocal, K, PlaceVars, Rests, Lasts, Unlisted, historyVars, IInv,
       Typed, ControlTyped
  <2> QED
    BY <1>1, <2>2 DEF SenderStep
<1>13. ASSUME NEW x \in Side, TakeCandidate(x) PROVE SenderStep(s)
  <2>1. K(x) /\ Takes(x)
    BY <1>3, <1>13 DEF TakeCandidate, K, PlaceVars, Takes, Lasts, Unlisted, Up, historyVars, IInv,
       Typed, ControlTyped, QueueTyped
  <2> QED
    BY <1>1, <2>1 DEF SenderStep
<1>14. ASSUME NEW x \in Side, SendCandidate(x) PROVE SenderStep(s)
  <2>1. K(x)
    BY <1>3, <1>14 DEF SendCandidate, Continue, K, PlaceVars, IInv, Typed, ControlTyped
  <2>2. Put(x, Sent(x)) /\ pc[x] = "ice_send"
    BY <1>14 DEF SendCandidate, Sent
  <2>3. pc'[x] \in {"ice", "upgraded"} /\ doneSending'[x] = (doneSending[x] \/ out[x] = NoCand)
    BY <1>3, <1>14 DEF SendCandidate, Continue, IsEnd, IInv, Typed, ControlTyped
  <2>4. Sends(x)
    BY <1>14, <2>2, <2>3 DEF SendCandidate, Sends, Lasts, Unlisted, Up
  <2> QED
    BY <1>1, <2>1, <2>4 DEF SenderStep
<1>15. ASSUME NEW x \in Side, RecvCandidate(x) PROVE SenderStep(s)
  <2>1. K(x)
    BY <1>3, <1>15 DEF RecvCandidate, Continue, K, PlaceVars, IInv, Typed, ControlTyped
  <2>2. pc'[x] \in {"ice", "upgraded"} /\ pc[x] = "ice" /\ doneSending'[x] = doneSending[x]
    BY <1>3, <1>15 DEF RecvCandidate, Continue, IInv, Typed, ControlTyped
  <2>3. Rests(x)
    BY <1>15, <2>2 DEF RecvCandidate, Rests, Lasts, Unlisted, Up
  <2> QED
    BY <1>1, <2>1, <2>3 DEF SenderStep
<1>16. ASSUME NEW x \in Side, Failure(x) PROVE SenderStep(s)
  <2>1. Fail(x) /\ UNCHANGED <<session, iceVars, historyVars>>
    BY <1>16 DEF Failure, BadMessage, ConnectionLost, WebRTCError, AddCandidateError
  <2>2. K(x) /\ ~Up(x)'
    BY <1>3, <2>1, FailsDown DEF Fail, K, PlaceVars, iceVars, historyVars, IInv
  <2>3. Rests(x)
    BY <2>1, <2>2 DEF Rests, Lasts, Unlisted, iceVars, historyVars
  <2> QED
    BY <1>1, <2>2, <2>3 DEF SenderStep
<1>17. ASSUME NEW x \in Side, NEW c \in Candidates, HandOver(x, c), gathering[x] = "gathering",
              UNCHANGED <<pc, session, out, doneSending, doneReceiving>>,
              gathering' = IF c = NoCand THEN [gathering EXCEPT ![x] = "complete"] ELSE gathering
       PROVE  SenderStep(s)
  <2>1. K(x) /\ Lasts(x)
    BY <1>17 DEF HandOver, K, PlaceVars, Lasts, Up, IInv, Typed, ControlTyped, QueueTyped,
       HistoryTyped
  <2>2. CASE registered[x]
    <3>1. Hands(x, c)
      BY <1>17, <2>1, <2>2 DEF HandOver, Hands, IInv, Typed, ControlTyped, QueueTyped,
       HistoryTyped
    <3> QED
      BY <1>1, <2>1, <3>1 DEF SenderStep
  <2>3. CASE ~registered[x]
    <3>1. Rests(x)
      BY <1>17, <2>1, <2>3 DEF HandOver, Rests, Unlisted
    <3> QED
      BY <1>1, <2>1, <3>1 DEF SenderStep
  <2> QED
    BY <2>2, <2>3
<1>18. ASSUME NEW x \in Side, FindCandidate(x) PROVE SenderStep(s)
  BY <1>17, <1>18, HandshakeAssumption DEF FindCandidate, Candidates
<1>19. ASSUME NEW x \in Side, FinishGathering(x) PROVE SenderStep(s)
  BY <1>17, <1>19 DEF FinishGathering, Candidates
<1> QED
  BY <1>3, <1>4, <1>5, <1>6, <1>7, <1>8, <1>9, <1>10, <1>11, <1>12, <1>13, <1>14, <1>15, <1>16,
     <1>18, <1>19
     DEF Next, ClientStep, ServerStep, IceStep, Gatherer, ClientSetLocal, ServerSetLocal

\* To what s receives: a side reads the end of a list only in the loop, and
\* reports a session with it.
ReadsEnd(s) == pc[s] = "ice" /\ Arrives(s) /\ Head(Incoming(s)).cand = NoCand
ReceiverStep(s) ==
  /\ learned[s] \subseteq learned'[s]
  /\ dropped[s] => dropped'[s]
  /\ reused => reused'
  /\ Intact(s)' => Intact(s)
  /\ doneReceiving'[s] => session'[s] = session[s] /\ (doneReceiving[s] \/ ReadsEnd(s))
  /\ \A r \in concluded'[s] :
       \/ r \in concluded[s]
       \/ r = session'[s] /\ doneReceiving'[s] /\ (s = "client" => ~reused')

LEMMA ReceiverSteps ==
  ASSUME IInv, [Next]_vars, NEW s \in Side
  PROVE  ReceiverStep(s)
<1>1. pc \in [Side -> ClientStates \union ServerStates] /\ "client" \in Side /\ "server" \in Side
  BY DEF IInv, Typed, ControlTyped, Side
<1>2. ASSUME UNCHANGED <<learned, concluded, reused>>,
             dropped[s] => dropped'[s], Up(s)' => Up(s),
             doneReceiving'[s] => doneReceiving[s] /\ session'[s] = session[s]
      PROVE  ReceiverStep(s)
  BY <1>2 DEF ReceiverStep, Intact
<1>3. ASSUME NEW x \in Side, NEW y, pc' = [pc EXCEPT ![x] = y],
             UNCHANGED <<learned, concluded, reused, doneReceiving, session>>,
             dropped[s] => dropped'[s], y \in {"error", "ended"} \/ Up(x)
      PROVE  ReceiverStep(s)
  <2>1. Up(s)' => Up(s)
    BY <1>1, <1>3 DEF Up
  <2> QED
    BY <1>2, <1>3, <2>1
<1>4. CASE Upgrade
  <2>1. /\ UNCHANGED <<learned, concluded, dropped>>
        /\ reused' = (reused \/ pc["client"] = "error")
        /\ ~doneReceiving'["client"] /\ pc'["server"] = pc["server"]
        /\ session'["server"] = session["server"]
        /\ doneReceiving'["server"] = doneReceiving["server"]
        /\ pc["client"] # "ended"
    BY <1>1, <1>4 DEF Upgrade, NewPeer, netVars, historyVars, IInv, Typed, ControlTyped,
       ClientStates
  <2>2. reused \in BOOLEAN
    BY DEF IInv, Typed, ControlTyped
  <2>3. (reused => reused') /\ (pc["client"] = "error" => reused')
    BY <2>1, <2>2
  <2>4. CASE s = "client"
    BY <2>1, <2>3, <2>4 DEF ReceiverStep, Intact, Up
  <2>5. CASE s = "server"
    BY <2>1, <2>3, <2>5 DEF ReceiverStep, Intact, Up
  <2> QED
    BY <2>4, <2>5 DEF Side
<1>5. CASE RecvOffer
  <2>1. /\ UNCHANGED <<learned, concluded, dropped, reused>> /\ Up("server")
        /\ ~doneReceiving'["server"] /\ pc'["client"] = pc["client"]
        /\ session'["client"] = session["client"]
        /\ doneReceiving'["client"] = doneReceiving["client"]
    BY <1>1, <1>5 DEF RecvOffer, NewPeer, historyVars, Up, IInv, Typed, ControlTyped
  <2>2. Up(s)' => Up(s)
    BY <2>1 DEF Up, Side
  <2> QED
    BY <1>2, <2>1, <2>2 DEF Side
<1>6. CASE SendOffer
  BY <1>1, <1>3, <1>6 DEF SendOffer, iceVars, historyVars, Up
<1>7. CASE RecvAnswer
  BY <1>1, <1>3, <1>7 DEF RecvAnswer, iceVars, historyVars, Up
<1>8. CASE ApplyAnswer
  BY <1>1, <1>3, <1>8 DEF ApplyAnswer, netVars, historyVars, Up
<1>9. CASE SendAnswer
  BY <1>1, <1>3, <1>9 DEF SendAnswer, iceVars, historyVars, Up
<1>10. CASE SuccessReturns
  BY <1>1, <1>3, <1>10 DEF SuccessReturns, netVars, iceVars, historyVars, Up
<1>11. CASE DropClient \/ ConnectionBreaks \/ UNCHANGED vars
  <2>1. UNCHANGED <<pc, iceVars, session, historyVars, reused>> /\ (dropped[s] => dropped'[s])
    BY <1>11 DEF DropClient, ConnectionBreaks, vars, netVars, IInv, Typed, ControlTyped
  <2> QED
    BY <1>2, <2>1 DEF iceVars, historyVars, Up
<1>12. ASSUME NEW x \in Side, NEW y, SetLocal(x, y) PROVE ReceiverStep(s)
  BY <1>3, <1>12 DEF SetLocal, netVars, historyVars, Up
<1>13. ASSUME NEW x \in Side, TakeCandidate(x) PROVE ReceiverStep(s)
  BY <1>3, <1>13 DEF TakeCandidate, netVars, historyVars, Up
<1>14. ASSUME NEW x \in Side, Gatherer(x) PROVE ReceiverStep(s)
  <2>1. UNCHANGED <<pc, netVars, session, doneReceiving, learned, concluded, reused>>
    BY <1>14 DEF Gatherer, FindCandidate, FinishGathering
  <2> QED
    BY <1>2, <2>1 DEF netVars, Up
<1>15. ASSUME NEW x \in Side, Failure(x) PROVE ReceiverStep(s)
  <2>1. Fail(x) /\ UNCHANGED <<session, iceVars, historyVars, reused>>
    BY <1>15 DEF Failure, BadMessage, ConnectionLost, WebRTCError, AddCandidateError
  <2>2. dropped[s] => dropped'[s]
    BY <2>1 DEF Fail, IInv, Typed, ControlTyped
  <2> QED
    BY <1>3, <2>1, <2>2 DEF Fail, iceVars, historyVars
<1>16. ASSUME NEW x \in Side, Up(x), NEW sending \in BOOLEAN, NEW receiving \in BOOLEAN,
              Continue(x, sending, receiving),
              UNCHANGED <<session, dropped, reused>>,
              \A t \in Side : learned[t] \subseteq learned'[t],
              receiving => doneReceiving[x] \/ ReadsEnd(x)
       PROVE  ReceiverStep(s)
  <2>1. /\ pc'[x] \in {"ice", "upgraded"} /\ \A t \in Side \ {x} : pc'[t] = pc[t]
        /\ doneReceiving'[x] = receiving
        /\ \A t \in Side \ {x} :
             doneReceiving'[t] = doneReceiving[t] /\ concluded'[t] = concluded[t]
    BY <1>1, <1>16 DEF Continue, IInv, Typed, ControlTyped, HistoryTyped
  <2>2. \A r \in concluded'[x] :
          r \in concluded[x] \/ (r = session[x] /\ receiving /\ (x = "client" => ~reused))
    BY <1>16 DEF Continue, LoopEnds, IInv, Typed, HistoryTyped
  <2>3. Up(s)' => Up(s)
    BY <1>16, <2>1 DEF Up
  <2>4. CASE s = x
    BY <1>16, <2>1, <2>2, <2>3, <2>4 DEF ReceiverStep, Intact
  <2>5. CASE s # x
    BY <1>16, <2>1, <2>3, <2>5 DEF ReceiverStep, Intact
  <2> QED
    BY <2>4, <2>5
<1>17. ASSUME NEW x \in Side, SendCandidate(x) PROVE ReceiverStep(s)
  <2>1. /\ Up(x) /\ Continue(x, doneSending[x] \/ IsEnd(out[x]), doneReceiving[x])
        /\ UNCHANGED <<session, dropped, reused, learned>>
        /\ doneSending[x] \in BOOLEAN /\ doneReceiving[x] \in BOOLEAN
    BY <1>17 DEF SendCandidate, Up, IInv, Typed, ControlTyped
  <2>2. /\ (doneSending[x] \/ IsEnd(out[x])) \in BOOLEAN
        /\ \A t \in Side : learned[t] \subseteq learned'[t]
    BY <2>1
  <2> QED
    BY <1>16, <2>1, <2>2
<1>18. ASSUME NEW x \in Side, RecvCandidate(x) PROVE ReceiverStep(s)
  <2> DEFINE m == Head(Incoming(x))
  <2>1. /\ Up(x) /\ Continue(x, doneSending[x], doneReceiving[x] \/ IsEnd(m.cand))
        /\ UNCHANGED <<session, dropped, reused>>
        /\ doneSending[x] \in BOOLEAN /\ doneReceiving[x] \in BOOLEAN
    BY <1>18 DEF RecvCandidate, Up, IInv, Typed, ControlTyped
  <2>2. \A t \in Side : learned[t] \subseteq learned'[t]
    BY <1>18 DEF RecvCandidate, IInv, Typed, HistoryTyped
  <2>3. /\ (doneReceiving[x] \/ IsEnd(m.cand)) \in BOOLEAN
        /\ IsEnd(m.cand) => ReadsEnd(x)
    BY <1>18 DEF RecvCandidate, IsEnd, ReadsEnd
  <2> QED
    BY <1>16, <2>1, <2>2, <2>3
<1> QED
  BY <1>1, <1>4, <1>5, <1>6, <1>7, <1>8, <1>9, <1>10, <1>11, <1>12, <1>13, <1>14, <1>15,
     <1>17, <1>18
     DEF Next, ClientStep, ServerStep, IceStep, ClientSetLocal, ServerSetLocal

-----------------------------------------------------------------------------
(* The tags                                                                *)

\* A bound may be raised.
LEMMA BelowOn ==
  ASSUME NEW w \in Seq(Message), NEW a \in Nat, NEW b \in Int, Below(w, a, b),
         NEW c \in Int, b <= c
  PROVE  Below(w, a, c)
<1>1. \A i \in 1..(Len(w) + 1) : Prior(w, a, i) \in Int
  <2> SUFFICES ASSUME NEW i \in 1..(Len(w) + 1) PROVE Prior(w, a, i) \in Int
    OBVIOUS
  <2>1. i # 1 => i - 1 \in 1..Len(w)
    OBVIOUS
  <2>2. i # 1 => w[i - 1] \in Message
    BY <2>1
  <2> QED
    BY <2>2, HandshakeAssumption DEF Prior, Message
<1> QED
  BY <1>1 DEF Below

\* The wire to the server and what TagsGrow relates it to.
Bound == IF pc["client"] = "send_offer" THEN session["client"] - 1 ELSE session["client"]
LEMMA TagFacts ==
  ASSUME IInv, TagsGrow
  PROVE  /\ wire["client"] \in Seq(Message)
         /\ session["server"] \in Nat /\ session["client"] \in Nat /\ Bound \in Int
         /\ Bound <= session["client"]
         /\ Below(wire["client"], session["server"], Bound)
<1>1. session["server"] \in Nat /\ session["client"] \in Nat /\ wire["client"] \in Seq(Message)
  BY HandshakeAssumption DEF IInv, Typed, ControlTyped, WireTyped, Side
<1> QED
  BY <1>1 DEF TagsGrow, Bound

\* A step that does not touch the wire, nor begins a session.
LEMMA TagsRest ==
  ASSUME IInv, TagsGrow, UNCHANGED <<wire, session>>,
         Up("server")' => Up("server"), dropped["server"] => dropped'["server"],
         pc'["client"] \in Offered => pc["client"] \in Offered,
         pc'["client"] = "send_offer" => pc["client"] = "send_offer"
  PROVE  TagsGrow'
<1>1. Bound' \in Int /\ Bound <= Bound'
  BY TagFacts DEF Bound
<1>2. Below(wire["client"], session["server"], Bound')
  BY <1>1, TagFacts, BelowOn
<1> QED
  BY <1>2 DEF TagsGrow, Bound

\* The client sends an object of its session.
LEMMA TagsSend ==
  ASSUME IInv, TagsGrow, NEW m \in Message, Put("client", m), m.tag = session["client"],
         UNCHANGED <<session, dropped>>, pc'["server"] = pc["server"],
         pc'["client"] # "send_offer",
         IF Opens(m) THEN pc["client"] = "send_offer" ELSE pc["client"] \in Offered
  PROVE  TagsGrow'
<1> DEFINE w == wire["client"]
           a == session["server"]
           b == session["client"]
<1>1. /\ w \in Seq(Message) /\ a \in Nat /\ b \in Nat /\ Bound \in Int /\ Bound <= b
      /\ Below(w, a, Bound)
  BY TagFacts
<1>2. Below(w, a, b) /\ Bound' = b
  BY <1>1, BelowOn DEF Bound
<1>3. CASE dropped["server"]
  <2>1. wire' = wire
    BY <1>3 DEF Put, Other
  <2> QED
    BY <1>2, <1>3, <2>1 DEF TagsGrow, Bound, Up
<1>4. CASE ~dropped["server"]
  <2>1. wire'["client"] = Append(w, m)
    BY <1>4 DEF Put, Other, IInv, Typed, WireTyped, Side
  <2> HIDE DEF w, a, b
  <2>2. Below(Append(w, m), a, b) /\ Prior(Append(w, m), a, Len(Append(w, m)) + 1) = b
    BY <1>1, <1>2, GrowsAppend DEF b
  <2>3. ASSUME Up("server") PROVE Grows(Append(w, m), a)
    <3>1. Grows(w, a)
      BY <2>3 DEF TagsGrow, w, a
    <3>2. CASE Opens(m)
      <4>1. Bound = b - 1 /\ Len(w) + 1 \in 1..(Len(w) + 1)
        BY <1>1, <3>2 DEF Bound, b
      <4>2. Prior(w, a, Len(w) + 1) <= b - 1
        BY <1>1, <4>1 DEF Below
      <4>3. Prior(w, a, Len(w) + 1) \in Int
        <5>1. Len(w) + 1 # 1 => (Len(w) + 1) - 1 \in 1..Len(w)
          BY <1>1
        <5>2. Len(w) + 1 # 1 => w[(Len(w) + 1) - 1] \in Message
          BY <1>1, <5>1
        <5> QED
          BY <1>1, <5>2, HandshakeAssumption DEF Prior, Message
      <4>4. Prior(w, a, Len(w) + 1) < m.tag
        BY <1>1, <4>2, <4>3 DEF b
      <4> QED
        BY <1>1, <1>2, <3>1, <3>2, <4>4, GrowsAppend DEF b
    <3>3. CASE ~Opens(m)
      <4>1. Prior(w, a, Len(w) + 1) = m.tag
        BY <1>4, <2>3, <3>3 DEF TagsGrow, w, a, b
      <4> QED
        BY <1>1, <1>2, <3>1, <3>3, <4>1, GrowsAppend DEF b
    <3> QED
      BY <3>2, <3>3
  <2>4. session'["server"] = a /\ session'["client"] = b /\ Up("server")' = Up("server")
    BY DEF a, b, Up
  <2> QED
    BY <1>2, <2>1, <2>2, <2>3, <2>4 DEF TagsGrow, Bound
<1> QED
  BY <1>3, <1>4 DEF IInv, Typed, ControlTyped, Side

\* The server takes an object, fails, or goes to its session.
LEMMA TagsTake ==
  ASSUME IInv, TagsGrow, wire["client"] # <<>>, wire'["client"] = Tail(wire["client"]),
         pc'["client"] = pc["client"], session'["client"] = session["client"],
         \/ ~Up("server")' /\ session' = session
         \/ /\ Up("server") /\ session'["server"] = wire["client"][1].tag
            /\ dropped' = dropped
  PROVE  TagsGrow'
<1> DEFINE w == wire["client"]
           a == session["server"]
<1>1. w \in Seq(Message) /\ w # <<>> /\ a \in Nat /\ Bound \in Int /\ Below(w, a, Bound)
  BY TagFacts
<1>2. Bound' = Bound
  BY DEF Bound
<1> HIDE DEF w, a
<1>3. /\ Below(Tail(w), a, Bound) /\ Below(Tail(w), w[1].tag, Bound)
      /\ Grows(w, a) => Grows(Tail(w), w[1].tag)
      /\ Prior(Tail(w), w[1].tag, Len(Tail(w)) + 1) = Prior(w, a, Len(w) + 1)
  BY <1>1, GrowsTail
<1>4. CASE ~Up("server")' /\ session' = session
  <2>1. wire'["client"] = Tail(w) /\ session'["server"] = a
    BY <1>4 DEF w, a
  <2>2. Below(wire'["client"], session'["server"], Bound')
    BY <1>2, <1>3, <2>1
  <2> QED
    BY <1>4, <2>2 DEF TagsGrow, Bound
<1>5. CASE Up("server") /\ session'["server"] = wire["client"][1].tag /\ dropped' = dropped
  <2>1. wire'["client"] = Tail(w) /\ session'["server"] = w[1].tag /\ Grows(w, a)
    BY <1>5 DEF w, a, TagsGrow
  <2>2. ~dropped["server"] /\ pc["client"] \in Offered =>
          Prior(w, a, Len(w) + 1) = session["client"]
    BY <1>5 DEF w, a, TagsGrow
  <2>3. /\ Below(wire'["client"], session'["server"], Bound')
        /\ Grows(wire'["client"], session'["server"])
        /\ ~dropped'["server"] /\ pc'["client"] \in Offered =>
             Prior(wire'["client"], session'["server"], Len(wire'["client"]) + 1) =
               session'["client"]
    BY <1>2, <1>3, <1>5, <2>1, <2>2
  <2> QED
    BY <2>3 DEF TagsGrow, Bound
<1> QED
  BY <1>4, <1>5

LEMMA TagsStep == ASSUME IInv, TagsGrow, [Next]_vars PROVE TagsGrow'
<1>1. /\ pc \in [Side -> ClientStates \union ServerStates]
      /\ "client" \in Side /\ "server" \in Side
      /\ pc["client"] \in ClientStates /\ pc["server"] \in ServerStates
      /\ wire \in [Side -> Seq(Message)] /\ session \in [Side -> 0..MaxAttempts]
      /\ dropped \in [Side -> BOOLEAN]
  BY DEF IInv, Typed, ControlTyped, WireTyped, Side
<1>2. ASSUME NEW x \in Side, NEW y, pc' = [pc EXCEPT ![x] = y], UNCHANGED <<wire, session>>,
             \A s \in Side : dropped[s] => dropped'[s],
             y \in {"error", "ended"} \/ Up(x), y # "send_offer",
             x = "client" /\ y \in Offered => pc[x] \in Offered
      PROVE  TagsGrow'
  <2>1. /\ Up("server")' => Up("server")
        /\ pc'["client"] \in Offered => pc["client"] \in Offered
        /\ pc'["client"] = "send_offer" => pc["client"] = "send_offer"
    BY <1>1, <1>2 DEF Up
  <2> QED
    BY <1>1, <1>2, <2>1, TagsRest
<1>3. CASE Upgrade
  <2>1. /\ session'["client"] = session["client"] + 1 /\ session'["server"] = session["server"]
        /\ pc["client"] # "send_offer" /\ pc'["client"] = "send_offer"
        /\ pc'["server"] = pc["server"] /\ UNCHANGED <<wire, dropped>>
    BY <1>1, <1>3 DEF Upgrade, ClientFree, NewPeer, netVars
  <2>2. Bound' = Bound
    BY <2>1, TagFacts DEF Bound
  <2> QED
    BY <2>1, <2>2 DEF TagsGrow, Bound, Up, Offered
<1>4. CASE SendOffer
  <2>1. Msg("offer", "client", NoCand) \in Message
    BY <1>1, MsgTyped DEF IInv, Typed, Type, Candidates
  <2> QED
    BY <1>1, <1>4, <2>1, TagsSend DEF SendOffer, Msg, Opens
<1>5. CASE SendCandidate("client")
  <2>1. Sent("client") \in Message /\ Put("client", Sent("client"))
    BY <1>1, <1>5, SentTyped DEF IInv, SendCandidate, Sent
  <2>2. /\ Sent("client").tag = session["client"] /\ ~Opens(Sent("client"))
        /\ pc["client"] \in Offered
    BY <1>5 DEF SendCandidate, Sent, Msg, Opens, Offered
  <2>3. /\ pc'["client"] # "send_offer" /\ pc'["server"] = pc["server"]
        /\ UNCHANGED <<session, dropped>>
    BY <1>1, <1>5 DEF SendCandidate, Continue
  <2> QED
    BY <2>1, <2>2, <2>3, TagsSend
<1>6. ASSUME NEW y \in {"send_answer", "set_local", "ice", "ice_send", "upgraded"},
             pc' = [pc EXCEPT !["server"] = y], Up("server"), UNCHANGED <<session, dropped>>,
             wire'["client"] = wire["client"]
      PROVE  TagsGrow'
  BY <1>1, <1>6 DEF TagsGrow, Up
<1>7. CASE SendAnswer
  <2>1. wire'["client"] = wire["client"]
    BY <1>1, <1>7 DEF SendAnswer, Put
  <2> QED
    BY <1>6, <1>7, <2>1 DEF SendAnswer, Up
<1>8. CASE SendCandidate("server")
  <2>1. wire'["client"] = wire["client"]
    BY <1>1, <1>8 DEF SendCandidate, Put
  <2> QED
    BY <1>6, <1>8, <2>1 DEF SendCandidate, Continue, Up
<1>9. ASSUME NEW y, pc' = [pc EXCEPT !["client"] = y], y # "send_offer",
             y \in Offered => pc["client"] \in Offered, pc["client"] # "send_offer",
             UNCHANGED <<session>>, wire'["client"] = wire["client"], dropped' = dropped
      PROVE  TagsGrow'
  BY <1>1, <1>9 DEF TagsGrow, Up
<1>10. CASE RecvAnswer
  <2>1. wire'["client"] = wire["client"]
    BY <1>1, <1>10 DEF RecvAnswer, Take, Other
  <2> QED
    BY <1>9, <1>10, <2>1 DEF RecvAnswer, Offered
<1>11. CASE RecvCandidate("client")
  <2>1. wire'["client"] = wire["client"]
    BY <1>1, <1>11 DEF RecvCandidate, Take, Other
  <2>2. /\ pc["client"] = "ice" /\ UNCHANGED <<session, dropped>>
        /\ pc' = [pc EXCEPT !["client"] = "ice"] \/ pc' = [pc EXCEPT !["client"] = "upgraded"]
    BY <1>11 DEF RecvCandidate, Continue
  <2> QED
    BY <1>9, <2>1, <2>2 DEF Offered
<1>12. CASE RecvOffer
  <2>1. /\ wire["client"] # <<>> /\ wire'["client"] = Tail(wire["client"]) /\ Up("server")
        /\ Head(wire["client"]) = wire["client"][1]
    BY <1>1, <1>12 DEF RecvOffer, Arrives, Incoming, Take, Other, Up
  <2>2. /\ session'["server"] = wire["client"][1].tag /\ session'["client"] = session["client"]
        /\ pc'["client"] = pc["client"] /\ dropped' = dropped
    BY <1>1, <1>12, <2>1 DEF RecvOffer, NewPeer, Incoming, Other
  <2> QED
    BY <2>1, <2>2, TagsTake
<1>13. CASE RecvCandidate("server")
  <2>1. /\ wire["client"] # <<>> /\ wire'["client"] = Tail(wire["client"]) /\ Up("server")
        /\ Head(wire["client"]) = wire["client"][1] /\ wire["client"][1].type = "opt_ice"
        /\ 1 \in 1..Len(wire["client"])
    BY <1>1, <1>13 DEF RecvCandidate, Arrives, Expected, Incoming, Take, Other, Up
  <2>2. session["server"] = wire["client"][1].tag
    BY <2>1 DEF TagsGrow, Grows, Prior, Opens
  <2>3. UNCHANGED <<session, dropped>> /\ pc'["client"] = pc["client"]
    BY <1>1, <1>13 DEF RecvCandidate, Continue
  <2> QED
    BY <2>1, <2>2, <2>3, TagsTake
<1>14. ASSUME NEW x \in Side, Failure(x) PROVE TagsGrow'
  <2>1. /\ Fail(x) /\ session' = session
        /\ wire' = wire \/ (Receiving(x) /\ Incoming(x) # <<>> /\ Take(x))
    BY <1>14 DEF Failure, BadMessage, ConnectionLost, WebRTCError, AddCandidateError, Arrives
  <2>2. \A s \in Side : dropped[s] => dropped'[s]
    BY <1>1, <2>1 DEF Fail
  <2>3. CASE wire' = wire
    BY <1>2, <2>1, <2>2, <2>3 DEF Fail, Offered
  <2>4. CASE x = "client" /\ Receiving(x) /\ Take(x)
    <3>1. wire'["client"] = wire["client"] /\ dropped' = dropped
      BY <1>1, <2>1, <2>4 DEF Take, Other, Fail
    <3>2. pc["client"] # "send_offer" /\ pc' = [pc EXCEPT !["client"] = "error"]
      BY <2>1, <2>4 DEF Receiving, Fail
    <3>3. "error" \notin Offered /\ "error" # "send_offer"
      BY DEF Offered
    <3> QED
      BY <1>9, <2>1, <3>1, <3>2, <3>3
  <2>5. CASE x = "server" /\ Incoming(x) # <<>> /\ Take(x)
    <3>1. /\ wire["client"] # <<>> /\ wire'["client"] = Tail(wire["client"])
          /\ pc'["client"] = pc["client"] /\ session' = session
      BY <1>1, <2>1, <2>5 DEF Incoming, Take, Other, Fail
    <3>2. ~Up("server")'
      BY <2>1, <2>5, FailsDown DEF IInv
    <3> QED
      BY <3>1, <3>2, TagsTake
  <2> QED
    BY <2>1, <2>3, <2>4, <2>5 DEF Side
<1>15. CASE ConnectionBreaks
  <2>1. UNCHANGED <<pc, session>> /\ wire'["client"] = <<>> /\ dropped'["server"]
    BY <1>1, <1>15 DEF ConnectionBreaks
  <2>2. Prior(wire["client"], session["server"], 1) <= Bound
    BY TagFacts DEF Below
  <2>3. Below(<<>>, session["server"], Bound) /\ Grows(<<>>, session["server"])
    BY <2>2 DEF Below, Grows, Prior
  <2> QED
    BY <2>1, <2>3 DEF TagsGrow, Bound
<1>16. ASSUME UNCHANGED <<pc, wire, session>>, \A s \in Side : dropped[s] => dropped'[s]
       PROVE  TagsGrow'
  BY <1>1, <1>16, TagsRest DEF Up
<1>17. CASE DropClient \/ UNCHANGED vars
  BY <1>1, <1>16, <1>17 DEF DropClient, vars, netVars
<1>18. ASSUME NEW x \in Side, Gatherer(x) PROVE TagsGrow'
  BY <1>16, <1>18 DEF Gatherer, FindCandidate, FinishGathering, netVars
<1>19. CASE ClientSetLocal \/ ServerSetLocal
  BY <1>1, <1>2, <1>19 DEF ClientSetLocal, ServerSetLocal, SetLocal, netVars, Up, Offered
<1>20. CASE ApplyAnswer \/ SuccessReturns
  BY <1>1, <1>2, <1>20 DEF ApplyAnswer, SuccessReturns, netVars, Up, Offered
<1>21. ASSUME NEW x \in Side, TakeCandidate(x) PROVE TagsGrow'
  BY <1>1, <1>2, <1>21 DEF TakeCandidate, netVars, Up, Offered
<1>22. ASSUME NEW x \in Side PROVE x = "client" \/ x = "server"
  BY DEF Side
<1> QED
  BY <1>3, <1>4, <1>5, <1>7, <1>8, <1>10, <1>11, <1>12, <1>13, <1>14, <1>15, <1>17, <1>18, <1>19,
     <1>20, <1>21, <1>22
     DEF Next, ClientStep, ServerStep, IceStep

-----------------------------------------------------------------------------
(* The lists                                                               *)

\* What was given stays given, and what is new was handed over by this step.
LEMMA GivenGrows ==
  ASSUME NEW s \in Side, SenderStep(s), NEW r, NEW c, Given(s, r, c)
  PROVE  Given(s, r, c)'
<1>1. published[s] \subseteq published'[s] /\ closed[s] \subseteq closed'[s]
  BY DEF SenderStep, Begins, Rests, Takes, Sends, Hands, Unlisted
<1> QED
  BY <1>1 DEF Given

LEMMA GivenNew ==
  ASSUME NEW s \in Side, SenderStep(s), NEW r, NEW c, Given(s, r, c)'
  PROVE  Given(s, r, c) \/ (Hands(s, c) /\ r = session[s])
<1>1. CASE Begins(s) \/ Rests(s) \/ Takes(s) \/ Sends(s)
  <2>1. published[s] = published'[s] /\ closed[s] = closed'[s]
    BY <1>1 DEF Begins, Rests, Takes, Sends, Unlisted
  <2> QED
    BY <2>1 DEF Given
<1>2. ASSUME NEW d \in Candidates, Hands(s, d)
      PROVE  Given(s, r, c) \/ (Hands(s, c) /\ r = session[s])
  <2>1. /\ closed'[s] = IF d = NoCand THEN closed[s] \union {session[s]} ELSE closed[s]
        /\ published'[s] = published[s] \union OfSession(session[s], d)
    BY <1>2 DEF Hands
  <2>2. CASE c = NoCand
    BY <1>2, <2>1, <2>2 DEF Given
  <2>3. CASE c # NoCand
    <3>1. <<r, c>> \in published[s] \/ (d # NoCand /\ <<r, c>> = <<session[s], d>>)
      BY <2>1, <2>3 DEF Given, OfSession
    <3> QED
      BY <1>2, <2>3, <3>1 DEF Given
  <2> QED
    BY <2>2, <2>3
<1> QED
  BY <1>1, <1>2 DEF SenderStep

\* Nothing is published after None.
LEMMA ClosedList ==
  ASSUME NEW s \in Side, Lists(s), SenderStep(s), NEW r \in closed[s], NEW c \in Cand,
         <<r, c>> \in published'[s]
  PROVE  <<r, c>> \in published[s]
<1>1. c # NoCand
  BY HandshakeAssumption
<1>2. Given(s, r, c)'
  BY <1>1 DEF Given
<1>3. ~(Hands(s, c) /\ r = session[s])
  BY DEF Hands, Lists
<1> QED
  BY <1>1, <1>2, <1>3, GivenNew DEF Given

\* A list that s has learned remains complete.
LEMMA KnownGrows ==
  ASSUME NEW s \in Side, NEW o \in Side, o = Other(s), Lists(o), SenderStep(o),
         learned[s] \subseteq learned'[s], NEW r, Known(s, r)
  PROVE  Known(s, r)'
<1>1. r \in closed[o] /\ \A c \in Cand : <<r, c>> \in published[o] => <<r, c>> \in learned[s]
  BY DEF Known
<1>2. r \in closed'[o]
  <2>1. Given(o, r, NoCand)
    BY <1>1 DEF Given
  <2>2. Given(o, r, NoCand)'
    BY <2>1, GivenGrows
  <2> QED
    BY <2>2 DEF Given
<1>3. \A c \in Cand : <<r, c>> \in published'[o] => <<r, c>> \in published[o]
  BY <1>1, ClosedList
<1> QED
  BY <1>1, <1>2, <1>3 DEF Known

LEMMA ListsStep ==
  ASSUME Typed, Typed', NEW s \in Side, Lists(s), SenderStep(s)
  PROVE  Lists(s)'
<1>1. session[s] \in Nat /\ session'[s] \in Nat /\ session[s] <= session'[s]
  <2>1. session[s] \in Nat /\ session'[s] \in Nat
    BY HandshakeAssumption DEF Typed, ControlTyped
  <2> QED
    BY <2>1 DEF SenderStep, Begins, Rests, Takes, Sends, Hands, Lasts
<1>2. ASSUME NEW r \in 0..MaxAttempts, NEW c \in Candidates, Given(s, r, c)'
      PROVE  r <= session'[s]
  <2>1. Given(s, r, c) \/ r = session[s]
    BY <1>2, GivenNew
  <2>2. Given(s, r, c) => r <= session[s]
    BY <1>2 DEF Lists
  <2> QED
    BY <1>1, <2>1, <2>2, HandshakeAssumption
<1>3. ASSUME session'[s] \in closed'[s] PROVE gathering'[s] = "complete"
  <2>1. CASE Begins(s)
    <3>1. session'[s] \in closed[s] /\ session'[s] \in 0..MaxAttempts /\ NoCand \in Candidates
      BY <1>3, <2>1 DEF Begins, Typed, ControlTyped, Candidates
    <3>2. session'[s] <= session[s]
      BY <3>1 DEF Lists, Given
    <3> QED
      BY <1>1, <2>1, <3>2 DEF Begins
  <2>2. CASE Rests(s) \/ Takes(s) \/ Sends(s)
    BY <1>3, <2>2 DEF Rests, Takes, Sends, Lasts, Unlisted, Lists
  <2>3. ASSUME NEW c \in Candidates, Hands(s, c) PROVE gathering'[s] = "complete"
    BY <1>3, <2>3 DEF Hands, Lasts, Lists
  <2> QED
    BY <2>1, <2>2, <2>3 DEF SenderStep
<1> QED
  BY <1>2, <1>3 DEF Lists

\* Given(s, r, c) after the step.
GivenNext(s, r, c) == IF c = NoCand THEN r \in closed'[s] ELSE <<r, c>> \in published'[s]

LEMMA PendingStep ==
  ASSUME Typed, NEW s \in Side, Pending(s), SenderStep(s)
  PROVE  Pending(s)'
<1>1. PICK n : n = session[s]
  OBVIOUS
<1>2. queue[s] \in Seq(Candidates) /\ \A c : Given(s, n, c) => GivenNext(s, n, c)
  BY GivenGrows DEF Typed, QueueTyped, Given, GivenNext
<1>3. /\ \A i \in 1..Len(queue[s]) : GivenNext(s, n, queue[s][i])
      /\ pc[s] = "ice_send" => GivenNext(s, n, out[s])
      /\ doneSending[s] => GivenNext(s, n, NoCand)
  BY <1>1, <1>2 DEF Pending
<1>4. CASE Begins(s)
  <2>1. pc'[s] # "ice_send" /\ queue'[s] = <<>> /\ ~doneSending'[s]
    BY <1>4 DEF Begins
  <2> QED
    BY <2>1 DEF Pending
<1>5. ASSUME session'[s] = n, \A i \in 1..Len(queue'[s]) : GivenNext(s, n, queue'[s][i]),
             pc'[s] = "ice_send" => GivenNext(s, n, out'[s]),
             doneSending'[s] => GivenNext(s, n, NoCand)
      PROVE  Pending(s)'
  BY <1>5 DEF Pending, Given, GivenNext
<1>6. CASE Rests(s)
  BY <1>1, <1>3, <1>5, <1>6 DEF Rests, Lasts, Up
<1>7. ASSUME NEW c \in Candidates, Hands(s, c) PROVE Pending(s)'
  <2>1. GivenNext(s, n, c)
    BY <1>1, <1>7 DEF Hands, GivenNext, OfSession
  <2>2. \A i \in 1..Len(Append(queue[s], c)) : GivenNext(s, n, Append(queue[s], c)[i])
    BY <1>2, <1>3, <2>1
  <2> QED
    BY <1>1, <1>3, <1>5, <1>7, <2>2 DEF Hands, Lasts
<1>8. CASE Takes(s)
  <2>1. queue[s] # <<>>
    BY <1>8 DEF Takes
  <2>2. GivenNext(s, n, Head(queue[s]))
    BY <1>2, <1>3, <2>1
  <2>3. \A i \in 1..Len(Tail(queue[s])) : GivenNext(s, n, Tail(queue[s])[i])
    BY <1>2, <1>3, <2>1
  <2> QED
    BY <1>1, <1>3, <1>5, <1>8, <2>2, <2>3 DEF Takes, Lasts
<1>9. CASE Sends(s)
  BY <1>1, <1>3, <1>5, <1>9 DEF Sends, Lasts
<1> QED
  BY <1>4, <1>6, <1>7, <1>8, <1>9 DEF SenderStep

\* What a side sends is an offer, an answer, or what is in out.
LEMMA SentGiven ==
  ASSUME NEW s \in Side, Pending(s), Sending(s), ~Opens(Sent(s))
  PROVE  /\ pc[s] = "ice_send" /\ Sent(s).tag = session[s] /\ Sent(s).cand = out[s]
         /\ Given(s, session[s], out[s])
<1>1. pc[s] = "ice_send"
  BY DEF Sending, Sent, Msg, Opens
<1> QED
  BY <1>1 DEF Sent, Msg, Pending

LEMMA UnderwayStep ==
  ASSUME Typed, NEW s \in Side, Pending(s), Underway(s), SenderStep(s), WireOf(s)
  PROVE  Underway(s)'
<1>1. wire[s] \in Seq(Message) /\ Sent(s) \in Message
  BY SentTyped DEF Typed, WireTyped
<1>2. \A r, c : Given(s, r, c) => GivenNext(s, r, c)
  BY GivenGrows DEF Given, GivenNext
<1>3. \A i \in 1..Len(wire[s]) : ~Opens(wire[s][i]) =>
        GivenNext(s, wire[s][i].tag, wire[s][i].cand)
  BY <1>2 DEF Underway
<1>4. ASSUME \A i \in 1..Len(wire'[s]) : ~Opens(wire'[s][i]) =>
               GivenNext(s, wire'[s][i].tag, wire'[s][i].cand)
      PROVE  Underway(s)'
  BY <1>4 DEF Underway, Given, GivenNext, Opens
<1>5. CASE wire'[s] = wire[s]
  BY <1>3, <1>4, <1>5
<1>6. CASE wire'[s] = <<>>
  BY <1>4, <1>6
<1>7. CASE Sending(s) /\ wire'[s] = Append(wire[s], Sent(s))
  <2>1. ~Opens(Sent(s)) => GivenNext(s, Sent(s).tag, Sent(s).cand)
    BY <1>2, <1>7, SentGiven
  <2>2. \A i \in 1..Len(Append(wire[s], Sent(s))) :
          \/ i \in 1..Len(wire[s]) /\ Append(wire[s], Sent(s))[i] = wire[s][i]
          \/ Append(wire[s], Sent(s))[i] = Sent(s)
    BY <1>1
  <2> QED
    BY <1>3, <1>4, <1>7, <2>1, <2>2
<1>8. CASE wire[s] # <<>> /\ wire'[s] = Tail(wire[s])
  <2>1. \A i \in 1..Len(Tail(wire[s])) :
          Tail(wire[s])[i] = wire[s][i + 1] /\ i + 1 \in 1..Len(wire[s])
    BY <1>1, <1>8
  <2> QED
    BY <1>3, <1>4, <1>8, <2>1
<1> QED
  BY <1>5, <1>6, <1>7, <1>8 DEF WireOf

\* What a side reads in its loop is of its own session.
LEMMA OwnSession ==
  ASSUME IInv, TagsGrow, NEW s \in Side, NEW o \in Side, o = Other(s), pc[s] = "ice", Arrives(s),
         s = "client" => ~reused
  PROVE  /\ wire[o] \in Seq(Message) /\ wire[o] # <<>> /\ Head(wire[o]) = wire[o][1]
         /\ ~Opens(wire[o][1]) /\ wire[o][1].tag = session[s]
<1>1. /\ wire[o] \in Seq(Message) /\ wire[o] # <<>> /\ Head(wire[o]) = wire[o][1]
      /\ 1 \in 1..Len(wire[o]) /\ wire[o][1] \in Message
  BY DEF Arrives, Incoming, IInv, Typed, WireTyped
<1>2. ~Opens(wire[o][1]) /\ Up(s)
  BY <1>1 DEF Arrives, Incoming, Expected, Opens, Up
<1>3. CASE s = "server"
  <2>1. o = "client"
    BY <1>3 DEF Other
  <2>2. Grows(wire["client"], session["server"])
    BY <1>2, <1>3 DEF TagsGrow
  <2> QED
    BY <1>1, <1>2, <1>3, <2>1, <2>2 DEF Grows, Prior
<1>4. CASE s = "client"
  <2> DEFINE m == Head(Incoming(s))
  <2>1. m = wire[o][1] /\ Incoming(s) # <<>>
    BY <1>1 DEF Incoming
  <2>2. From(m) = InPlace(s)
    BY <1>2, <1>4, <2>1, FirstObject
  <2> HIDE DEF m
  <2>3. From(m) = 2 * m.tag + 1 /\ m.tag \in Nat /\ session[s] \in Nat
    BY <1>1, <1>2, <2>1, HandshakeAssumption DEF From, Message, IInv, Typed, ControlTyped
  <2>4. InPlace(s) = 2 * session[s] + 1 \/ InPlace(s) = 2 * session[s] + 2
    BY <1>4 DEF InPlace, Unanswered, Stage
  <2>5. \A x, y \in Nat : 2 * x + 1 # 2 * y + 2
    OBVIOUS
  <2>6. m.tag = session[s]
    BY <2>2, <2>3, <2>4, <2>5
  <2> QED
    BY <1>1, <1>2, <2>1, <2>6
<1> QED
  BY <1>3, <1>4 DEF Side

\* With the end of a list comes all of it.
LEMMA EndKnown ==
  ASSUME IInv, TagsGrow, NEW s \in Side, NEW o \in Side, o = Other(s), Underway(o), EndsList(o),
         ReadsEnd(s), s = "client" => ~reused
  PROVE  Known(s, session[s])
<1> DEFINE m == wire[o][1]
<1>1. /\ wire[o] \in Seq(Message) /\ wire[o] # <<>> /\ Head(wire[o]) = m
      /\ ~Opens(m) /\ m.tag = session[s]
  BY OwnSession DEF ReadsEnd
<1>2. m.cand = NoCand /\ 1 \in 1..Len(wire[o]) /\ s = Other(o) /\ Intact(s)
  BY <1>1 DEF ReadsEnd, Incoming, Intact, Up, Side, Other
<1>3. session[s] \in closed[o]
  BY <1>1, <1>2 DEF Underway, Given
<1>4. ASSUME NEW c \in Cand, <<session[s], c>> \in published[o]
      PROVE  <<session[s], c>> \in learned[s]
  <2>1. <<session[s], c>> \in learned[s] \/ Carries(wire[o], 1 - 1, session[s], c)
    BY <1>1, <1>2, <1>4 DEF EndsList
  <2> QED
    BY <2>1 DEF Carries
<1> QED
  BY <1>3, <1>4 DEF Known

LEMMA ReceivedStep ==
  ASSUME IInv, TagsGrow, NEW s \in Side, NEW o \in Side, o = Other(s), Lists(o), Underway(o),
         EndsList(o), Received(s), SenderStep(o), ReceiverStep(s)
  PROVE  Received(s)'
<1> SUFFICES ASSUME doneReceiving'[s], s = "client" => ~reused' PROVE Known(s, session[s])'
  BY DEF Received
<1>1. /\ session'[s] = session[s]
      /\ doneReceiving[s] \/ ReadsEnd(s)
      /\ s = "client" => ~reused
  BY DEF ReceiverStep
<1>2. PICK n : n = session[s]
  OBVIOUS
<1>3. Known(s, n)
  BY <1>1, <1>2, EndKnown DEF Received
<1>4. Known(s, n)'
  BY <1>3, KnownGrows DEF ReceiverStep
<1> QED
  BY <1>1, <1>2, <1>4

LEMMA FinalStep ==
  ASSUME NEW s \in Side, NEW o \in Side, o = Other(s), Lists(o), SenderStep(o), ReceiverStep(s),
         Final(s), Received(s)'
  PROVE  Final(s)'
<1> SUFFICES ASSUME NEW r \in concluded'[s] PROVE Known(s, r)'
  BY DEF Final
<1>1. CASE r \in concluded[s]
  BY <1>1, KnownGrows DEF ReceiverStep, Final
<1>2. CASE r = session'[s] /\ doneReceiving'[s] /\ (s = "client" => ~reused')
  BY <1>2 DEF Received
<1> QED
  BY <1>1, <1>2 DEF ReceiverStep

-----------------------------------------------------------------------------
(* No candidate disappears                                                 *)

LEMMA CarriesAppend ==
  ASSUME NEW w \in Seq(Message), NEW m \in Message, NEW n \in 0..Len(w), NEW r, NEW c
  PROVE  /\ Carries(w, n, r, c) => /\ Carries(Append(w, m), n, r, c)
                                   /\ Carries(Append(w, m), Len(Append(w, m)), r, c)
         /\ ~Opens(m) /\ m.tag = r /\ m.cand = c =>
              Carries(Append(w, m), Len(Append(w, m)), r, c)
<1> DEFINE q == Append(w, m)
<1>1. /\ Len(w) \in Nat /\ Len(q) = Len(w) + 1 /\ q[Len(w) + 1] = m
      /\ \A i \in 1..Len(w) : q[i] = w[i]
  BY AppendProperties
<1> HIDE DEF q
<1>2. Len(w) + 1 \in 1..Len(q) /\ \A j \in 1..n : j \in 1..Len(w) /\ j \in 1..Len(q)
  BY <1>1
<1>3. Carries(w, n, r, c) => Carries(q, n, r, c) /\ Carries(q, Len(q), r, c)
  BY <1>1, <1>2 DEF Carries
<1>4. ~Opens(m) /\ m.tag = r /\ m.cand = c => Carries(q, Len(q), r, c)
  BY <1>1, <1>2 DEF Carries
<1> QED
  BY <1>3, <1>4 DEF q

LEMMA CarriesTail ==
  ASSUME NEW w \in Seq(Message), w # <<>>, NEW n \in 0..Len(w), NEW r, NEW c, Carries(w, n, r, c)
  PROVE  \/ ~Opens(w[1]) /\ w[1].tag = r /\ w[1].cand = c
         \/ Carries(Tail(w), n - 1, r, c)
<1> DEFINE q == Tail(w)
<1>1. /\ Len(w) \in Nat \ {0} /\ Len(q) = Len(w) - 1 /\ \A i \in 1..Len(q) : q[i] = w[i + 1]
  OBVIOUS
<1> HIDE DEF q
<1>2. PICK j \in 1..n : ~Opens(w[j]) /\ w[j].tag = r /\ w[j].cand = c
  BY DEF Carries
<1>3. CASE j = 1
  BY <1>2, <1>3
<1>4. CASE j # 1
  <2>1. j - 1 \in 1..(n - 1) /\ j - 1 \in 1..Len(q) /\ (j - 1) + 1 = j
    BY <1>1, <1>4
  <2>2. q[j - 1] = w[j]
    BY <1>1, <2>1
  <2>3. Carries(q, n - 1, r, c)
    BY <1>2, <2>1, <2>2 DEF Carries
  <2> QED
    BY <2>3 DEF q
<1> QED
  BY <1>3, <1>4

\* The end of a list that is being sent.
LEMMA SendsEnd ==
  ASSUME Typed, NEW s \in Side, NEW o \in Side, o = Other(s), LoopInv(s), Pending(s),
         Conserved(s), Intact(o), Sending(s), ~dropped[o], ~Opens(Sent(s)), Sent(s).cand = NoCand,
         NEW c \in Cand, <<Sent(s).tag, c>> \in published[s]
  PROVE  \/ <<Sent(s).tag, c>> \in learned[o]
         \/ Carries(wire[s], Len(wire[s]), Sent(s).tag, c)
<1>1. pc[s] = "ice_send" /\ Sent(s).tag = session[s] /\ out[s] = NoCand
  BY SentGiven
<1>2. ~doneSending[s] /\ queue[s] = <<>> /\ Up(s) /\ c # NoCand
  BY <1>1, HandshakeAssumption DEF LoopInv, Up
<1>3. Kept(s, c)
  BY <1>1, <1>2 DEF Conserved
<1>4. ~\E i \in 1..Len(queue[s]) : queue[s][i] = c
  BY <1>2
<1> QED
  BY <1>1, <1>2, <1>3, <1>4 DEF Kept

LEMMA EndsListStep ==
  ASSUME Typed, NEW s \in Side, NEW o \in Side, o = Other(s), LoopInv(s), Lists(s), Pending(s),
         Underway(s), Conserved(s), EndsList(s), SenderStep(s), ReceiverStep(o), WireOf(s)
  PROVE  EndsList(s)'
<1> SUFFICES ASSUME Intact(o)' PROVE EndsList(s)'
  BY DEF EndsList
<1>1. /\ wire[s] \in Seq(Message) /\ Sent(s) \in Message
      /\ Intact(o) /\ Up(o)' /\ learned[o] \subseteq learned'[o]
  BY SentTyped DEF Typed, WireTyped, ReceiverStep, Intact
<1> DEFINE Ends(w, i) == ~Opens(w[i]) /\ w[i].cand = NoCand
           Whole(w, i, r) == \A c \in Cand : <<r, c>> \in published'[s] =>
                               <<r, c>> \in learned'[o] \/ Carries(w, i - 1, r, c)
<1>2. ASSUME \A i \in 1..Len(wire'[s]) : Ends(wire'[s], i) => Whole(wire'[s], i, wire'[s][i].tag)
      PROVE  EndsList(s)'
  BY <1>2 DEF EndsList, Carries, Opens
<1>3. \A i \in 1..Len(wire[s]) : Ends(wire[s], i) =>
        /\ wire[s][i].tag \in closed[s]
        /\ Whole(wire[s], i, wire[s][i].tag)
  <2> SUFFICES ASSUME NEW i \in 1..Len(wire[s]), Ends(wire[s], i)
               PROVE  wire[s][i].tag \in closed[s] /\ Whole(wire[s], i, wire[s][i].tag)
    OBVIOUS
  <2>1. wire[s][i].tag \in closed[s]
    BY DEF Underway, Given
  <2>2. ASSUME NEW c \in Cand, <<wire[s][i].tag, c>> \in published'[s]
        PROVE  <<wire[s][i].tag, c>> \in learned'[o] \/ Carries(wire[s], i - 1, wire[s][i].tag, c)
    <3>1. <<wire[s][i].tag, c>> \in published[s]
      BY <2>1, <2>2, ClosedList
    <3>2. <<wire[s][i].tag, c>> \in learned[o] \/ Carries(wire[s], i - 1, wire[s][i].tag, c)
      BY <1>1, <2>2, <3>1 DEF EndsList
    <3> QED
      BY <1>1, <3>2
  <2> QED
    BY <2>1, <2>2
<1>4. CASE wire'[s] = wire[s]
  BY <1>2, <1>3, <1>4
<1>5. CASE wire'[s] = <<>>
  BY <1>2, <1>5
<1>6. CASE Sending(s) /\ ~dropped[o] /\ wire'[s] = Append(wire[s], Sent(s))
  <2> DEFINE q == Append(wire[s], Sent(s))
  <2>1. /\ Len(q) = Len(wire[s]) + 1 /\ Len(wire[s]) \in Nat /\ q[Len(wire[s]) + 1] = Sent(s)
        /\ \A i \in 1..Len(wire[s]) : q[i] = wire[s][i]
    BY <1>1, AppendProperties
  <2>2. \A n \in 0..Len(wire[s]) : \A r, c : Carries(wire[s], n, r, c) => Carries(q, n, r, c)
    BY <1>1, CarriesAppend
  <2> HIDE DEF q
  <2>3. ASSUME NEW i \in 1..Len(q), Ends(q, i) PROVE Whole(q, i, q[i].tag)
    <3>1. CASE i \in 1..Len(wire[s])
      <4>1. q[i] = wire[s][i] /\ i - 1 \in 0..Len(wire[s])
        BY <2>1, <3>1
      <4>2. Whole(wire[s], i, wire[s][i].tag)
        BY <1>3, <2>3, <3>1, <4>1
      <4> QED
        BY <2>2, <4>1, <4>2
    <3>2. CASE i = Len(wire[s]) + 1
      <4>1. q[i] = Sent(s) /\ i - 1 = Len(wire[s]) /\ Len(wire[s]) \in 0..Len(wire[s])
        BY <2>1, <3>2
      <4>2. Sent(s).tag \in closed[s]
        BY <1>6, <2>3, <4>1, SentGiven DEF Given
      <4>3. ASSUME NEW c \in Cand, <<Sent(s).tag, c>> \in published'[s]
            PROVE  <<Sent(s).tag, c>> \in learned'[o] \/ Carries(q, i - 1, Sent(s).tag, c)
        <5>1. <<Sent(s).tag, c>> \in published[s]
          BY <4>2, <4>3, ClosedList
        <5>2. \/ <<Sent(s).tag, c>> \in learned[o]
              \/ Carries(wire[s], Len(wire[s]), Sent(s).tag, c)
          BY <1>1, <1>6, <2>3, <4>1, <4>3, <5>1, SendsEnd
        <5> QED
          BY <1>1, <2>2, <4>1, <5>2
      <4> QED
        BY <4>1, <4>3
    <3> QED
      BY <2>1, <3>1, <3>2
  <2>4. wire'[s] = q
    BY <1>6 DEF q
  <2> QED
    BY <1>2, <2>3, <2>4
<1>7. CASE wire[s] # <<>> /\ wire'[s] = Tail(wire[s]) /\ Learns(o, Head(wire[s]))
  <2> DEFINE q == Tail(wire[s])
  <2>1. /\ Len(q) = Len(wire[s]) - 1 /\ Len(wire[s]) \in Nat /\ Head(wire[s]) = wire[s][1]
        /\ \A i \in 1..Len(q) : q[i] = wire[s][i + 1]
    BY <1>1, <1>7
  <2>2. \A n \in 0..Len(wire[s]) : \A r, c : Carries(wire[s], n, r, c) =>
          \/ ~Opens(wire[s][1]) /\ wire[s][1].tag = r /\ wire[s][1].cand = c
          \/ Carries(q, n - 1, r, c)
    BY <1>1, <1>7, CarriesTail
  <2> HIDE DEF q
  <2>3. ASSUME NEW i \in 1..Len(q), Ends(q, i) PROVE Whole(q, i, q[i].tag)
    <3>1. /\ q[i] = wire[s][i + 1] /\ i + 1 \in 1..Len(wire[s]) /\ (i + 1) - 1 = i
          /\ i \in 0..Len(wire[s])
      BY <2>1
    <3>2. Whole(wire[s], i + 1, q[i].tag)
      BY <1>3, <2>3, <3>1
    <3>3. ASSUME NEW c \in Cand, <<q[i].tag, c>> \in published'[s]
          PROVE  <<q[i].tag, c>> \in learned'[o] \/ Carries(q, i - 1, q[i].tag, c)
      <4>1. <<q[i].tag, c>> \in learned'[o] \/ Carries(wire[s], i, q[i].tag, c)
        BY <3>1, <3>2, <3>3
      <4>2. c # NoCand
        BY HandshakeAssumption
      <4> QED
        BY <1>7, <2>1, <2>2, <3>1, <4>1, <4>2 DEF Learns
    <3> QED
      BY <3>3
  <2>4. wire'[s] = q
    BY <1>7 DEF q
  <2> QED
    BY <1>2, <2>3, <2>4
<1> QED
  BY <1>1, <1>4, <1>5, <1>6, <1>7 DEF WireOf

LEMMA ConservedStep ==
  ASSUME Typed, Typed', NEW s \in Side, NEW o \in Side, o = Other(s), Lists(s), Conserved(s),
         SenderStep(s), ReceiverStep(o), WireOf(s)
  PROVE  Conserved(s)'
<1> SUFFICES ASSUME Intact(o)', Up(s)', ~doneSending'[s], ~dropped'[o], NEW c \in Cand,
                    <<session'[s], c>> \in published'[s]
             PROVE  Kept(s, c)'
  BY DEF Conserved
<1>1. /\ wire[s] \in Seq(Message) /\ Sent(s) \in Message /\ queue[s] \in Seq(Candidates)
      /\ Intact(o) /\ Up(o)' /\ learned[o] \subseteq learned'[o] /\ ~dropped[o]
      /\ c # NoCand /\ c \in Candidates /\ Len(wire[s]) \in 0..Len(wire[s])
  BY SentTyped, HandshakeAssumption DEF Typed, WireTyped, QueueTyped, ReceiverStep,
     Intact, Candidates
<1>2. PICK n : n = session'[s]
  OBVIOUS
<1>3. ASSUME \/ <<n, c>> \in learned'[o]
             \/ \E j \in 1..Len(wire'[s]) :
                  ~Opens(wire'[s][j]) /\ wire'[s][j].tag = n /\ wire'[s][j].cand = c
             \/ \E i \in 1..Len(queue'[s]) : queue'[s][i] = c
             \/ pc'[s] = "ice_send" /\ out'[s] = c
      PROVE  Kept(s, c)'
  BY <1>2, <1>3 DEF Kept, Carries, Opens
<1>4. ASSUME Carries(wire'[s], Len(wire'[s]), n, c) PROVE Kept(s, c)'
  BY <1>3, <1>4 DEF Carries
<1>5. ~Begins(s)
  <2> SUFFICES ASSUME Begins(s) PROVE FALSE
    OBVIOUS
  <2>1. Given(s, n, c) /\ n \in 0..MaxAttempts /\ session[s] \in 0..MaxAttempts /\ session[s] < n
    BY <1>1, <1>2 DEF Begins, Given, Typed, ControlTyped
  <2>2. n <= session[s]
    BY <1>1, <2>1 DEF Lists
  <2> QED
    BY <2>1, <2>2, HandshakeAssumption
<1>6. session[s] = n /\ Up(s) /\ ~doneSending[s]
  <2>1. doneSending[s] \in BOOLEAN
    BY DEF Typed, ControlTyped
  <2> QED
    BY <1>2, <1>5, <2>1 DEF SenderStep, Rests, Takes, Sends, Hands, Lasts
<1>7. CASE Hands(s, c)
  <2>1. queue'[s] = Append(queue[s], c)
    BY <1>7 DEF Hands
  <2>2. Append(queue[s], c)[Len(queue[s]) + 1] = c
        /\ Len(queue[s]) + 1 \in 1..Len(Append(queue[s], c))
    BY <1>1
  <2> QED
    BY <1>3, <2>1, <2>2
<1>8. CASE ~Hands(s, c)
  <2>1. Given(s, n, c)'
    BY <1>1, <1>2 DEF Given
  <2>2. <<n, c>> \in published[s]
    BY <1>1, <1>8, <2>1, GivenNew DEF Given
  <2>3. Kept(s, c)
    BY <1>1, <1>6, <2>2 DEF Conserved
  <2>4. CASE <<n, c>> \in learned[o]
    BY <1>1, <1>3, <2>4
  <2>5. CASE Carries(wire[s], Len(wire[s]), n, c)
    <3>1. CASE wire'[s] = wire[s]
      BY <1>4, <2>5, <3>1
    <3>2. CASE wire'[s] = Append(wire[s], Sent(s))
      BY <1>1, <1>4, <2>5, <3>2, CarriesAppend
    <3>3. CASE wire[s] # <<>> /\ wire'[s] = Tail(wire[s]) /\ Learns(o, Head(wire[s]))
      <4>1. Len(Tail(wire[s])) = Len(wire[s]) - 1 /\ Head(wire[s]) = wire[s][1]
        BY <1>1, <3>3
      <4>2. \/ ~Opens(wire[s][1]) /\ wire[s][1].tag = n /\ wire[s][1].cand = c
            \/ Carries(wire'[s], Len(wire'[s]), n, c)
        BY <1>1, <2>5, <3>3, <4>1, CarriesTail
      <4>3. ASSUME ~Opens(wire[s][1]), wire[s][1].tag = n, wire[s][1].cand = c
            PROVE  <<n, c>> \in learned'[o]
        BY <1>1, <3>3, <4>1, <4>3 DEF Learns
      <4> QED
        BY <1>3, <1>4, <4>2, <4>3
    <3> QED
      BY <1>1, <3>1, <3>2, <3>3 DEF WireOf
  <2>6. ASSUME NEW i \in 1..Len(queue[s]), queue[s][i] = c PROVE Kept(s, c)'
    <3>1. CASE queue'[s] = queue[s]
      BY <1>3, <2>6, <3>1
    <3>2. ASSUME NEW d \in Candidates, queue'[s] = Append(queue[s], d) PROVE Kept(s, c)'
      <4>1. i \in 1..Len(Append(queue[s], d)) /\ Append(queue[s], d)[i] = c
        BY <1>1, <2>6
      <4> QED
        BY <1>3, <3>2, <4>1
    <3>3. CASE Takes(s)
      <4>1. queue[s] # <<>> /\ queue'[s] = Tail(queue[s]) /\ out'[s] = Head(queue[s])
            /\ pc'[s] = "ice_send"
        BY <3>3 DEF Takes
      <4>2. CASE i = 1
        BY <1>1, <1>3, <2>6, <4>1, <4>2
      <4>3. CASE i # 1
        <5>1. i - 1 \in 1..Len(Tail(queue[s])) /\ Tail(queue[s])[i - 1] = c
          BY <1>1, <2>6, <4>1, <4>3
        <5> QED
          BY <1>3, <4>1, <5>1
      <4> QED
        BY <4>2, <4>3
    <3> QED
      BY <1>5, <3>1, <3>2, <3>3 DEF SenderStep, Rests, Sends, Hands
  <2>7. CASE pc[s] = "ice_send" /\ out[s] = c
    <3>1. CASE Sends(s)
      <4>1. wire'[s] = Append(wire[s], Sent(s))
        BY <1>1, <3>1 DEF Sends, Put, Typed, WireTyped
      <4>2. ~Opens(Sent(s)) /\ Sent(s).tag = n /\ Sent(s).cand = c
        BY <1>6, <2>7 DEF Sent, Msg, Opens
      <4>3. Carries(Append(wire[s], Sent(s)), Len(Append(wire[s], Sent(s))), n, c)
        BY <1>1, <4>2, CarriesAppend
      <4> QED
        BY <1>4, <4>1, <4>3
    <3>2. CASE Rests(s) \/ \E d \in Candidates : Hands(s, d)
      BY <1>3, <2>7, <3>2 DEF Rests, Hands
    <3> QED
      BY <1>5, <2>7, <3>1, <3>2 DEF SenderStep, Takes
  <2> QED
    BY <1>6, <2>3, <2>4, <2>5, <2>6, <2>7 DEF Kept
<1> QED
  BY <1>7, <1>8

-----------------------------------------------------------------------------
(* The refinement                                                          *)

LEMMA InitRInv == Init => RInv
<1> SUFFICES ASSUME Init PROVE RInv
  OBVIOUS
<1>1. /\ \A s \in Side : /\ wire[s] = <<>> /\ session[s] = 0 /\ queue[s] = <<>>
                         /\ ~doneSending[s] /\ ~doneReceiving[s] /\ published[s] = {}
                         /\ closed[s] = {} /\ concluded[s] = {}
                         /\ pc[s] \in {"ready", "recv_offer"}
      /\ "client" \in Side /\ "server" \in Side
  BY DEF Init, Side
<1>2. TagsGrow
  BY <1>1 DEF TagsGrow, Below, Grows, Prior, Offered
<1>3. ASSUME NEW s \in Side PROVE ListInv(s)
  BY <1>1, Sides DEF ListInv, Lists, Pending, Underway, Conserved, EndsList, Received,
     Final, Given
<1> QED
  BY <1>2, <1>3, InitIInv DEF RInv

LEMMA StepRInv == RInv /\ [Next]_vars => RInv'
<1> SUFFICES ASSUME RInv, [Next]_vars PROVE RInv'
  OBVIOUS
<1>1. IInv /\ TagsGrow /\ Typed /\ \A s \in Side : LoopInv(s) /\ ListInv(s)
  BY DEF RInv, IInv
<1>2. IInv'
  BY <1>1, TypedStep, CallbackStep, KindsStep, LoopStep, StreamsStep DEF IInv
<1>3. TagsGrow' /\ Typed'
  BY <1>1, <1>2, TagsStep DEF IInv
<1>4. ASSUME NEW s \in Side PROVE ListInv(s)'
  <2>1. PICK o \in Side : o = Other(s) /\ s = Other(o)
    BY DEF Side, Other
  <2>2. /\ SenderStep(s) /\ SenderStep(o) /\ ReceiverStep(s) /\ ReceiverStep(o) /\ WireOf(s)
    BY <1>1, SenderSteps, ReceiverSteps, WiresStep
  <2>3. /\ Lists(s) /\ Pending(s) /\ Underway(s) /\ Conserved(s) /\ EndsList(s) /\ Received(s)
        /\ Final(s) /\ Lists(o) /\ Underway(o) /\ EndsList(o) /\ LoopInv(s)
    BY <1>1 DEF ListInv
  <2>4. Lists(s)' /\ Pending(s)' /\ Underway(s)'
    BY <1>1, <1>3, <2>2, <2>3, ListsStep, PendingStep, UnderwayStep
  <2>5. Conserved(s)' /\ EndsList(s)'
    BY <1>1, <1>3, <2>1, <2>2, <2>3, ConservedStep, EndsListStep
  <2>6. Received(s)'
    BY <1>1, <2>1, <2>2, <2>3, ReceivedStep
  <2>7. Final(s)'
    BY <2>1, <2>2, <2>3, <2>6, FinalStep
  <2> QED
    BY <2>4, <2>5, <2>6, <2>7 DEF ListInv
<1> QED
  BY <1>2, <1>3, <1>4 DEF RInv

\* A step that concludes has the other side's list.
LEMMA ConcludeRefines ==
  ASSUME RInv, NEW s \in Side, NEW sending, NEW receiving, Continue(s, sending, receiving),
         sending => session[s] \in closed[s],
         receiving /\ (s = "client" => ~reused) => Known(s, session[s]),
         UNCHANGED <<published, closed, learned>>
  PROVE  [Exchange!Next]_(Exchange!vars)
<1>1. /\ concluded \in [Side -> SUBSET (0..MaxAttempts)] /\ session[s] \in 0..MaxAttempts
      /\ Other(s) \in Side /\ published[Other(s)] \subseteq (0..MaxAttempts) \X Cand
  BY Sides DEF RInv, IInv, Typed, ControlTyped, HistoryTyped
<1>2. CASE concluded' = concluded
  BY <1>2 DEF Exchange!vars
<1>3. CASE concluded' # concluded
  <2>1. /\ concluded' = [concluded EXCEPT ![s] = @ \union {session[s]}]
        /\ sending /\ receiving /\ (s = "client" => ~reused)
    BY <1>1, <1>3 DEF Continue, LoopEnds
  <2>2. session[s] \notin concluded[s]
    BY <1>1, <1>3, <2>1
  <2>3. session[s] \in closed[s] /\ Known(s, session[s])
    BY <2>1
  <2>4. \A t \in Side : session[s] \in closed[t]
    BY <2>3 DEF Known, Side, Other
  <2>5. ASSUME NEW p \in published[Other(s)], p[1] = session[s] PROVE p \in learned[s]
    <3>1. p = <<session[s], p[2]>> /\ p[2] \in Cand
      BY <1>1, <2>5
    <3> QED
      BY <2>3, <2>5, <3>1 DEF Known
  <2>6. Exchange!Conclude(s, session[s])
    BY <2>1, <2>2, <2>4, <2>5 DEF Exchange!Conclude, Exchange!Side, Exchange!Other, Side, Other
  <2> QED
    BY <1>1, <2>6 DEF Exchange!Next, Exchange!Side, Side
<1> QED
  BY <1>2, <1>3

LEMMA HandOverRefines ==
  ASSUME RInv, NEW s \in Side, NEW c \in Candidates, HandOver(s, c), gathering[s] = "gathering",
         UNCHANGED <<learned, concluded>>
  PROVE  [Exchange!Next]_(Exchange!vars)
<1>1. session[s] \in 0..MaxAttempts /\ session[s] \notin closed[s]
  BY DEF RInv, ListInv, Lists, IInv, Typed, ControlTyped
<1>2. closed \in [Side -> SUBSET (0..MaxAttempts)]
      /\ published \in [Side -> SUBSET ((0..MaxAttempts) \X Cand)]
  BY DEF RInv, IInv, Typed, HistoryTyped
<1>3. CASE ~registered[s]
  BY <1>3 DEF HandOver, Exchange!vars
<1>4. CASE registered[s] /\ c = NoCand
  <2>1. /\ closed' = [closed EXCEPT ![s] = @ \union {session[s]}]
        /\ published' = [published EXCEPT ![s] = @ \union {}]
    BY <1>4 DEF HandOver, OfSession
  <2>2. published' = published
    BY <1>2, <2>1
  <2>3. Exchange!Close(s, session[s])
    BY <1>1, <2>1, <2>2 DEF Exchange!Close
  <2> QED
    BY <1>1, <2>3 DEF Exchange!Next, Exchange!Side, Side
<1>5. CASE registered[s] /\ c # NoCand
  <2>1. /\ closed' = [closed EXCEPT ![s] = @]
        /\ published' = [published EXCEPT ![s] = @ \union {<<session[s], c>>}]
    BY <1>5 DEF HandOver, OfSession
  <2>2. closed' = closed /\ c \in Cand
    BY <1>2, <1>5, <2>1 DEF Candidates
  <2>3. Exchange!Publish(s, session[s], c)
    BY <1>1, <2>1, <2>2 DEF Exchange!Publish
  <2> QED
    BY <1>1, <2>2, <2>3 DEF Exchange!Next, Exchange!Side, Side
<1> QED
  BY <1>3, <1>4, <1>5

LEMMA SendRefines ==
  ASSUME RInv, NEW s \in Side, SendCandidate(s)
  PROVE  [Exchange!Next]_(Exchange!vars)
<1>1. Pending(s) /\ Received(s) /\ pc[s] = "ice_send"
  BY DEF SendCandidate, RInv, ListInv
<1>2. doneSending[s] \/ IsEnd(out[s]) => session[s] \in closed[s]
  BY <1>1 DEF Pending, Given, IsEnd
<1>3. doneReceiving[s] /\ (s = "client" => ~reused) => Known(s, session[s])
  BY <1>1 DEF Received
<1>4. /\ Continue(s, doneSending[s] \/ IsEnd(out[s]), doneReceiving[s])
      /\ UNCHANGED <<published, closed, learned>>
  BY DEF SendCandidate
<1> QED
  BY <1>2, <1>3, <1>4, ConcludeRefines

\* A candidate that is received is learned, or known already; with the None the
\* session may be concluded.
LEMMA RecvRefines ==
  ASSUME RInv, NEW s \in Side, RecvCandidate(s)
  PROVE  [Exchange!Next]_(Exchange!vars)
<1> DEFINE m == Head(Incoming(s))
<1>1. PICK o \in Side : o = Other(s)
  BY Sides
<1>2. /\ pc[s] = "ice" /\ Arrives(s) /\ UNCHANGED <<published, closed>>
      /\ Continue(s, doneSending[s], doneReceiving[s] \/ IsEnd(m.cand))
      /\ learned' = [learned EXCEPT ![s] = @ \union OfSession(m.tag, m.cand)]
  BY DEF RecvCandidate, Added
<1>3. /\ IInv /\ TagsGrow /\ Pending(s) /\ Received(s) /\ Final(s) /\ Underway(o) /\ EndsList(o)
      /\ LoopInv(s)
  BY DEF RInv, ListInv, IInv
<1>4. /\ learned \in [Side -> SUBSET ((0..MaxAttempts) \X Cand)]
      /\ concluded \in [Side -> SUBSET (0..MaxAttempts)]
      /\ wire[o] \in Seq(Message) /\ wire[o] # <<>> /\ m = wire[o][1] /\ m \in Message
  BY <1>1, <1>2, <1>3 DEF IInv, Typed, HistoryTyped, WireTyped, Arrives, Incoming
<1>5. CASE m.cand = NoCand
  <2>1. learned' = learned
    BY <1>2, <1>4, <1>5 DEF OfSession
  <2>2. ReadsEnd(s)
    BY <1>2, <1>5 DEF ReadsEnd
  <2>3. (s = "client" => ~reused) => Known(s, session[s])
    BY <1>1, <1>3, <2>2, EndKnown
  <2>4. doneSending[s] => session[s] \in closed[s]
    BY <1>3 DEF Pending, Given
  <2> QED
    BY <1>2, <2>1, <2>3, <2>4, ConcludeRefines
<1>6. CASE m.cand # NoCand
  <2>1. ~(doneSending[s] /\ doneReceiving[s]) /\ ~IsEnd(m.cand)
    BY <1>2, <1>3, <1>6 DEF LoopInv, IsEnd
  <2>2. concluded' = concluded
    BY <1>2, <1>4, <2>1 DEF Continue, LoopEnds
  <2>3. learned' = [learned EXCEPT ![s] = @ \union {<<m.tag, m.cand>>}]
    BY <1>2, <1>6 DEF OfSession
  <2>4. m.tag \in 0..MaxAttempts /\ m.cand \in Cand
    BY <1>4, <1>6 DEF Message
  <2>5. <<m.tag, m.cand>> \in published[o]
    <3>1. ~Opens(m) /\ 1 \in 1..Len(wire[o])
      BY <1>2, <1>4 DEF Arrives, Expected, Opens
    <3> QED
      BY <1>3, <1>4, <1>6, <3>1 DEF Underway, Given
  <2>6. CASE m.tag \in concluded[s]
    <3>1. <<m.tag, m.cand>> \in learned[s]
      BY <1>1, <1>3, <2>4, <2>5, <2>6 DEF Final, Known
    <3>2. learned' = learned
      BY <1>4, <2>3, <3>1
    <3> QED
      BY <1>2, <2>2, <3>2 DEF Exchange!vars
  <2>7. CASE m.tag \notin concluded[s]
    <3>1. Exchange!Learn(s, m.tag, m.cand)
      BY <1>1, <1>2, <2>2, <2>3, <2>5, <2>7 DEF Exchange!Learn, Exchange!Other, Other
    <3> QED
      BY <2>4, <3>1 DEF Exchange!Next, Exchange!Side, Side
  <2> QED
    BY <2>6, <2>7
<1> QED
  BY <1>5, <1>6

\* The invariant of the refinement holds in every reachable state, for any
\* candidates, capacities and number of upgrades (client.rs:119-190,
\* server.rs:138-255).
THEOREM ListsInvariance == Spec => []RInv
  BY InitRInv, StepRInv, PTL DEF Spec

\* The handshake implements the exchange of candidates: whatever fails, and
\* however often upgrade is called, the server reports a session upgraded only
\* when both gatherers of that session have ended and it has every candidate the
\* client's callback was given, and so does the client until it reuses a
\* connection after an error (server.rs:215-253, client.rs:158-189).
THEOREM ImplementsExchange == Spec => ExchangeSpec
<1>1. Init => Exchange!Init
  BY DEF Init, Exchange!Init, Side, Exchange!Side
<1>2. RInv /\ [Next]_vars => [Exchange!Next]_(Exchange!vars)
  <2> SUFFICES ASSUME RInv, [Next]_vars PROVE [Exchange!Next]_(Exchange!vars)
    OBVIOUS
  <2>1. ASSUME UNCHANGED historyVars PROVE [Exchange!Next]_(Exchange!vars)
    BY <2>1 DEF historyVars, Exchange!vars
  <2>2. CASE Upgrade \/ ClientStep \/ DropClient \/ ServerStep \/ ConnectionBreaks
             \/ UNCHANGED vars
    <3>1. UNCHANGED historyVars
      BY <2>2 DEF Upgrade, ClientStep, SendOffer, ClientSetLocal, SetLocal, RecvAnswer,
         ApplyAnswer, DropClient, ServerStep, RecvOffer, SendAnswer, ServerSetLocal,
         SuccessReturns, ConnectionBreaks, vars
    <3> QED
      BY <2>1, <3>1
  <2>3. ASSUME NEW s \in Side, Failure(s) \/ TakeCandidate(s)
        PROVE  [Exchange!Next]_(Exchange!vars)
    <3>1. UNCHANGED historyVars
      BY <2>3 DEF Failure, BadMessage, ConnectionLost, WebRTCError, AddCandidateError,
         TakeCandidate
    <3> QED
      BY <2>1, <3>1
  <2>4. ASSUME NEW s \in Side, Gatherer(s) PROVE [Exchange!Next]_(Exchange!vars)
    BY <2>4, HandOverRefines DEF Gatherer, FindCandidate, FinishGathering, Candidates
  <2>5. ASSUME NEW s \in Side, SendCandidate(s) \/ RecvCandidate(s)
        PROVE  [Exchange!Next]_(Exchange!vars)
    BY <2>5, SendRefines, RecvRefines
  <2> QED
    BY <2>2, <2>3, <2>4, <2>5 DEF Next, IceStep
<1> QED
  BY <1>1, <1>2, ListsInvariance, PTL DEF Spec, ExchangeSpec, Exchange!Spec
=============================================================================
