-------------------------- MODULE TunnelSessionProofs --------------------------
(***************************************************************************)
(* For any set of data channels, any configuration, any capacities and any *)
(* number of messages: on_success contacts a local port only for a         *)
(* configured protocol (OnlyConfigured), has at most one transfer under    *)
(* way (OneTransfer), and holds and writes the messages of an ordered      *)
(* channel without a gap (NoGap).                                          *)
(***************************************************************************)
EXTENDS TunnelSession, SequenceLemmas, TLAPS

\* Each channel that waits in channels_recv is there once.
Queued ==
  /\ \A i \in DOMAIN chanQ : stage[chanQ[i]] = "queued"
  /\ \A i, j \in DOMAIN chanQ : i # j => chanQ[i] # chanQ[j]

\* on_success is busy with one channel, or with none (webrtc-tunnel server.rs:64-185).
Served(ch) == stage[ch] \in {"connecting", "transfer"}
OneTransfer ==
  /\ \A c, d \in Chan : Served(c) /\ Served(d) => c = d
  /\ session = "busy" <=> \E ch \in Chan : Served(ch)

\* What the channels share.
ControlInv ==
  /\ quality \in Qualities /\ stage \in [Chan -> Stages]
  /\ chanQ \in Seq(Chan) /\ Len(chanQ) <= ChanCap
  /\ session \in {"recv", "busy", "ended", "panicked"} /\ gone \in BOOLEAN
  /\ Queued /\ OneTransfer /\ OnlyConfigured

\* The channels' data are functions on Chan.
Shape ==
  /\ wire = [ch \in Chan |-> wire[ch]] /\ bytesQ = [ch \in Chan |-> bytesQ[ch]]
  /\ sent = [ch \in Chan |-> sent[ch]] /\ written = [ch \in Chan |-> written[ch]]
  /\ lost = [ch \in Chan |-> lost[ch]]

Typed(ch) ==
  /\ wire[ch] \in Seq(1..MaxMsgs[ch]) /\ sent[ch] \in 0..MaxMsgs[ch]
  /\ bytesQ[ch] \in Seq(1..MaxMsgs[ch]) /\ Len(bytesQ[ch]) <= BytesCap
  /\ written[ch] \in Seq(1..MaxMsgs[ch]) /\ lost[ch] \subseteq 1..MaxMsgs[ch]

\* Only a transfer holds messages, and only its end writes one.
HeldByTransfer(ch) ==
  /\ stage[ch] # "transfer" => bytesQ[ch] = <<>>
  /\ stage[ch] # "done" => written[ch] = <<>>

\* The messages of an ordered channel that are under way are the client's
\* latest, first those in bytes_recv, then those on the wire; what came before
\* them, until the transfer is done, was lost, and so was what came before the
\* message that was written.
Passed(ch) == sent[ch] - Len(wire[ch]) - Len(bytesQ[ch])
Latest(ch) ==
  /\ Passed(ch) \in Nat
  /\ Follow(bytesQ[ch], Passed(ch)) /\ Follow(wire[ch], Passed(ch) + Len(bytesQ[ch]))
  /\ stage[ch] # "done" => 1..Passed(ch) \subseteq lost[ch]
  /\ written[ch] # <<>> => 1..(written[ch][1] - 1) \subseteq lost[ch]

\* What holds of each channel.
ChanInv(ch) == Typed(ch) /\ HeldByTransfer(ch) /\ (Ordered(ch) => Latest(ch))

\* The inductive invariant.
IInv == ControlInv /\ Shape /\ \A ch \in Chan : ChanInv(ch)

-----------------------------------------------------------------------------
\* The entry that allowed_channels has for a key is an entry of the
\* configuration with that key (webrtc-tunnel server.rs:44-57).
LEMMA EntryOfConfig ==
  ASSUME NEW p, Matches(p) # {}
  PROVE  \E i \in DOMAIN Config : Key(Config[i]) = p /\ Entry(p) = Config[i]
<1>1. Len(Config) \in Nat /\ Matches(p) \subseteq 1..Len(Config)
  BY SessionAssumption DEF Matches
<1>2. \E m \in Matches(p) : \A j \in Matches(p) : j <= m
  BY <1>1, Greatest, Zenon
<1> DEFINE last == CHOOSE m \in Matches(p) : \A j \in Matches(p) : j <= m
<1>3. last \in Matches(p)
  BY <1>2, Zenon
<1>4. Entry(p) = Config[last]
  BY DEF Entry
<1> HIDE DEF last
<1> QED
  BY <1>3, <1>4 DEF Matches

-----------------------------------------------------------------------------
(* Init and steps of the session                                           *)

LEMMA InitIInv == Init => IInv
<1> SUFFICES ASSUME Init PROVE IInv
  OBVIOUS
<1> USE SessionAssumption DEF Init
<1>1. ControlInv
  <2>1. stage \in [Chan -> Stages] /\ chanQ \in Seq(Chan) /\ Len(chanQ) <= ChanCap
    BY DEF Stages
  <2>2. Queued /\ OneTransfer /\ OnlyConfigured
    BY DEF Queued, OneTransfer, Served, OnlyConfigured
  <2> QED
    BY <2>1, <2>2 DEF ControlInv
<1>2. Shape
  BY DEF Shape
<1>3. ASSUME NEW ch \in Chan PROVE ChanInv(ch)
  <2>1. /\ wire[ch] = <<>> /\ bytesQ[ch] = <<>> /\ sent[ch] = 0 /\ written[ch] = <<>>
        /\ lost[ch] = {} /\ MaxMsgs[ch] \in Nat
    BY <1>3
  <2>2. Typed(ch) /\ HeldByTransfer(ch)
    BY <2>1 DEF Typed, HeldByTransfer
  <2>3. Latest(ch)
    <3>1. Passed(ch) = 0
      BY <2>1 DEF Passed
    <3> QED
      BY <2>1, <3>1 DEF Latest, Follow
  <2> QED
    BY <2>2, <2>3 DEF ChanInv
<1> QED
  BY <1>1, <1>2, <1>3 DEF IInv

\* A step that leaves a channel's messages alone and does not end its transfer
\* preserves what holds of the channel.
LEMMA Frame ==
  ASSUME NEW ch \in Chan, ChanInv(ch), quality' = quality,
         stage'[ch] = stage[ch] \/ stage[ch] \notin {"transfer", "done"},
         wire'[ch] = wire[ch], bytesQ'[ch] = bytesQ[ch], sent'[ch] = sent[ch],
         written'[ch] = written[ch], lost'[ch] = lost[ch]
  PROVE  ChanInv(ch)'
  BY DEF ChanInv, Typed, HeldByTransfer, Ordered, Latest, Passed

LEMMA ControlFrame ==
  ASSUME ControlInv, UNCHANGED <<quality, stage, chanQ, session, gone>>
  PROVE  ControlInv'
  BY DEF ControlInv, Queued, OneTransfer, Served, OnlyConfigured

LEMMA OpenChannelKeeps == ASSUME IInv, NEW ch \in Chan, OpenChannel(ch) PROVE IInv'
<1> USE SessionAssumption DEF IInv, OpenChannel, Goto
<1>1. ControlInv'
  BY DEF ControlInv, Stages, Queued, OneTransfer, Served, OnlyConfigured
<1>2. Shape'
  BY DEF Shape, dataVars
<1>3. ASSUME NEW c \in Chan PROVE ChanInv(c)'
  BY Frame DEF dataVars, ControlInv
<1> QED
  BY <1>1, <1>2, <1>3

LEMMA QueueChannelKeeps == ASSUME IInv, NEW ch \in Chan, QueueChannel(ch) PROVE IInv'
<1> USE SessionAssumption DEF IInv, QueueChannel, SessionGone, Goto
<1>1. ControlInv'
  <2> USE DEF ControlInv
  <2>1. stage' \in [Chan -> Stages] /\ \A c \in Chan \ {ch} : stage'[c] = stage[c]
    BY DEF Stages
  <2>2. OneTransfer' /\ OnlyConfigured'
    <3>1. \A c \in Chan :
         stage[c] = stage'[c] \/ (~Served(c) /\ stage'[c] \in {"queued", "dropped"})
      BY <2>1 DEF Served
    <3>2. \A c \in Chan : Served(c)' <=> Served(c)
      BY <3>1 DEF Served
    <3> QED
      BY <3>1, <3>2 DEF OneTransfer, OnlyConfigured
  <2>3. CASE ~SessionGone
    <3>1. chanQ' = Append(chanQ, ch) /\ stage'[ch] = "queued" /\ Len(chanQ) < ChanCap
      BY <2>3
    <3>2. chanQ' \in Seq(Chan) /\ Len(chanQ') <= ChanCap
      BY <3>1
    <3>3. \A i \in DOMAIN chanQ : chanQ[i] # ch
      BY DEF Queued
    <3>4. \A i \in DOMAIN chanQ' :
            (i \in DOMAIN chanQ /\ chanQ'[i] = chanQ[i]) \/ (i = Len(chanQ) + 1 /\ chanQ'[i] = ch)
      BY <3>1, AppendElements
    <3>5. Queued'
      BY <2>1, <3>1, <3>3, <3>4 DEF Queued
    <3> QED
      BY <2>1, <2>2, <3>2, <3>5
  <2>4. CASE SessionGone
    <3>1. Queued'
      BY <2>1, <2>4 DEF Queued
    <3> QED
      BY <2>1, <2>2, <2>4, <3>1
  <2> QED
    BY <2>3, <2>4
<1>2. Shape'
  BY DEF Shape, dataVars
<1>3. ASSUME NEW c \in Chan PROVE ChanInv(c)'
  BY Frame DEF dataVars, ControlInv
<1> QED
  BY <1>1, <1>2, <1>3

LEMMA PeerClosesKeeps == ASSUME IInv, PeerCloses PROVE IInv'
<1> USE SessionAssumption DEF IInv, PeerCloses, Goto
<1>1. ControlInv'
  BY DEF ControlInv, Stages, Queued, OneTransfer, Served, OnlyConfigured
<1>2. Shape'
  BY DEF Shape, dataVars
<1>3. ASSUME NEW c \in Chan PROVE ChanInv(c)'
  BY Frame DEF dataVars, ControlInv
<1> QED
  BY <1>1, <1>2, <1>3

LEMMA TakeChannelKeeps == ASSUME IInv, TakeChannel PROVE IInv'
<1> USE SessionAssumption DEF IInv, TakeChannel, Goto
<1> DEFINE hd == Head(chanQ)
<1>1. /\ hd \in Chan /\ stage[hd] = "queued" /\ chanQ' = Tail(chanQ)
      /\ \A i \in DOMAIN Tail(chanQ) : i + 1 \in DOMAIN chanQ /\ Tail(chanQ)[i] = chanQ[i + 1]
      /\ Tail(chanQ) \in Seq(Chan) /\ Len(Tail(chanQ)) <= ChanCap
  BY DEF ControlInv, Queued
<1>2. /\ stage' \in [Chan -> Stages] /\ stage'[hd] \in {"closed", "forgotten", "connecting"}
      /\ \A c \in Chan \ {hd} : stage'[c] = stage[c]
  BY <1>1 DEF ControlInv, Stages
<1>3. ControlInv'
  <2> USE DEF ControlInv
  <2>1. Queued'
    <3>1. \A i \in DOMAIN Tail(chanQ) : chanQ'[i] \in Chan \ {hd}
      BY <1>1 DEF Queued
    <3>2. \A i \in DOMAIN chanQ' : stage[chanQ'[i]] = "queued"
      BY <1>1 DEF Queued
    <3>3. \A i, j \in DOMAIN chanQ' : i # j => chanQ'[i] # chanQ'[j]
      BY <1>1 DEF Queued
    <3> QED
      BY <1>1, <1>2, <3>1, <3>2, <3>3 DEF Queued
  <2>2. \A c \in Chan : ~Served(c)
    BY DEF OneTransfer
  <2>3. OneTransfer'
    BY <1>1, <1>2, <2>2 DEF OneTransfer, Served
  <2>4. OnlyConfigured'
    <3>1. ASSUME stage'[hd] = "connecting"
          PROVE  \E i \in DOMAIN Config : /\ Key(Config[i]) = Protocol[hd]
                                         /\ Config[i].kind \in {"udp", "tcp"}
      <4>1. Kind(hd) \in {"udp", "tcp"}
        BY <1>1, <3>1
      <4>2. Matches(Protocol[hd]) # {} /\ Entry(Protocol[hd]).kind \in {"udp", "tcp"}
        BY <4>1 DEF Kind
      <4> QED
        BY <4>2, EntryOfConfig
    <3> QED
      BY <1>1, <1>2, <3>1 DEF OnlyConfigured
  <2>5. session' \in {"recv", "busy", "ended", "panicked"}
    OBVIOUS
  <2> QED
    BY <1>1, <1>2, <2>1, <2>3, <2>4, <2>5
<1>4. Shape'
  BY DEF Shape, dataVars
<1>5. ASSUME NEW c \in Chan PROVE ChanInv(c)'
  BY <1>1, <1>2, <1>5, Frame DEF dataVars
<1> QED
  BY <1>3, <1>4, <1>5

LEMMA ConnectedKeeps == ASSUME IInv, NEW ch \in Chan, Connected(ch) PROVE IInv'
<1> USE SessionAssumption DEF IInv, Connected, Goto
<1>1. ControlInv'
  BY DEF ControlInv, Stages, Queued, OneTransfer, Served, OnlyConfigured
<1>2. Shape'
  BY DEF Shape, dataVars
<1>3. ASSUME NEW c \in Chan PROVE ChanInv(c)'
  BY Frame DEF dataVars, ControlInv
<1> QED
  BY <1>1, <1>2, <1>3

LEMMA SessionEndsKeeps == ASSUME IInv, SessionEnds PROVE IInv'
<1> USE SessionAssumption DEF IInv, SessionEnds, Goto
<1>1. ControlInv'
  BY DEF ControlInv, Stages, Queued, OneTransfer, Served, OnlyConfigured
<1>2. Shape'
  BY DEF Shape, dataVars
<1>3. ASSUME NEW c \in Chan PROVE ChanInv(c)'
  BY Frame DEF dataVars, ControlInv
<1> QED
  BY <1>1, <1>2, <1>3

LEMMA ClientSendsKeeps == ASSUME IInv, NEW ch \in Chan, ClientSends(ch) PROVE IInv'
<1>1. ControlInv'
  BY ControlFrame DEF IInv, ClientSends
<1>2. Shape'
  BY DEF IInv, Shape, ClientSends
<1>3. ChanInv(ch)'
  <2>1. /\ sent'[ch] = sent[ch] + 1 /\ wire'[ch] = Append(wire[ch], sent[ch] + 1)
        /\ UNCHANGED <<quality, stage, bytesQ, written, lost>>
    BY DEF IInv, Shape, ClientSends
  <2>2. /\ sent[ch] \in Nat /\ MaxMsgs[ch] \in Nat /\ sent[ch] + 1 \in 1..MaxMsgs[ch]
        /\ wire[ch] \in Seq(1..MaxMsgs[ch]) /\ Len(wire[ch]) \in Nat /\ Len(bytesQ[ch]) \in Nat
    BY SessionAssumption DEF IInv, ChanInv, Typed, ClientSends
  <2>3. wire'[ch] \in Seq(1..MaxMsgs[ch]) /\ Len(wire'[ch]) = Len(wire[ch]) + 1
    BY <2>1, <2>2, AppendProperties
  <2>4. Typed(ch)' /\ HeldByTransfer(ch)'
    BY <2>1, <2>2, <2>3 DEF IInv, ChanInv, Typed, HeldByTransfer
  <2>5. ASSUME Ordered(ch)' PROVE Latest(ch)'
    <3>1. Latest(ch)
      BY <2>1, <2>5 DEF IInv, ChanInv, Ordered
    <3>2. Passed(ch)' = Passed(ch) /\ Passed(ch) + Len(bytesQ[ch]) \in Nat
      <4>1. Passed(ch)' = (sent[ch] + 1) - (Len(wire[ch]) + 1) - Len(bytesQ[ch])
        BY <2>1, <2>3, Zenon DEF Passed
      <4>2. Passed(ch) \in Nat
        BY <3>1 DEF Latest
      <4> QED
        <5>1. Passed(ch) = sent[ch] - Len(wire[ch]) - Len(bytesQ[ch])
          BY DEF Passed
        <5>2. Passed(ch)' = Passed(ch)
          BY <2>2, <4>1, <5>1, Difference
        <5>3. Passed(ch) + Len(bytesQ[ch]) \in Nat
          BY <2>2, <4>2
        <5> QED
          BY <5>2, <5>3
    <3>3. sent[ch] + 1 = (Passed(ch) + Len(bytesQ[ch])) + Len(wire[ch]) + 1
      BY <2>2 DEF Passed
    <3>4. Follow(wire'[ch], Passed(ch) + Len(bytesQ[ch]))
      BY <2>1, <2>2, <3>1, <3>2, <3>3, FollowAppend DEF Latest
    <3> QED
      BY <2>1, <3>1, <3>2, <3>4 DEF Latest
  <2> QED
    BY <2>4, <2>5 DEF ChanInv
<1>4. ASSUME NEW c \in Chan \ {ch} PROVE ChanInv(c)'
  BY Frame DEF IInv, Shape, ClientSends
<1> QED
  BY <1>1, <1>2, <1>3, <1>4 DEF IInv

\* A message leaves the wire of a channel.
LEMMA WireShrinks ==
  ASSUME IInv, NEW ch \in Chan, NEW i \in DOMAIN wire[ch], Remove(ch, i)
  PROVE  /\ wire' = [c \in Chan |-> wire'[c]]
         /\ \A c \in Chan \ {ch} : wire'[c] = wire[c]
         /\ wire'[ch] \in Seq(1..MaxMsgs[ch]) /\ Len(wire'[ch]) = Len(wire[ch]) - 1
         /\ i = 1 => \A j \in 1..Len(wire'[ch]) : wire'[ch][j] = wire[ch][j + 1]
<1>1. /\ wire' = [c \in Chan |-> wire'[c]]
      /\ \A c \in Chan \ {ch} : wire'[c] = wire[c]
      /\ wire'[ch] = Without(wire[ch], i)
  BY DEF IInv, Shape, Remove, Without
<1>2. wire[ch] \in Seq(1..MaxMsgs[ch])
  BY DEF IInv, ChanInv, Typed
<1>3. /\ wire'[ch] \in Seq(1..MaxMsgs[ch]) /\ Len(wire'[ch]) = Len(wire[ch]) - 1
      /\ i = 1 => \A j \in 1..Len(wire'[ch]) : wire'[ch][j] = wire[ch][j + 1]
  <2>1. i \in DOMAIN wire[ch]
    OBVIOUS
  <2>2. /\ Without(wire[ch], i) \in Seq(1..MaxMsgs[ch])
        /\ Len(Without(wire[ch], i)) = Len(wire[ch]) - 1
    BY <1>2, <2>1, Removed
  <2>3. i = 1 => \A j \in 1..Len(Without(wire[ch], i)) : Without(wire[ch], i)[j] = wire[ch][j + 1]
    BY <1>2, <2>1, Removed
  <2> QED
    BY <1>1, <2>2, <2>3
<1> QED
  BY <1>1, <1>3

LEMMA NetworkLosesKeeps == ASSUME IInv, NEW ch \in Chan, NetworkLoses(ch) PROVE IInv'
<1> USE DEF IInv, NetworkLoses
<1>1. ControlInv'
  BY ControlFrame
<1>2. PICK i \in DOMAIN wire[ch] : Remove(ch, i)
  OBVIOUS
<1>3. /\ wire' = [c \in Chan |-> wire'[c]]
      /\ \A c \in Chan \ {ch} : wire'[c] = wire[c]
      /\ wire'[ch] \in Seq(1..MaxMsgs[ch])
  BY <1>2, WireShrinks
<1>4. Shape'
  BY <1>3 DEF Shape
<1>5. ChanInv(ch)'
  BY <1>3 DEF ChanInv, Typed, HeldByTransfer, Ordered, Reliable
<1>6. ASSUME NEW c \in Chan \ {ch} PROVE ChanInv(c)'
  BY <1>3, Frame
<1> QED
  BY <1>1, <1>4, <1>5, <1>6

\* A message is taken by the handler, or dropped where there is none.
LEMMA DispatchKeeps == ASSUME IInv, NEW ch \in Chan, Dispatch(ch) PROVE IInv'
<1>1. ControlInv'
  BY ControlFrame DEF IInv, Dispatch
<1>2. PICK i \in Arriving(ch) :
        /\ Remove(ch, i)
        /\ \/ /\ stage[ch] = "transfer" /\ HasRoom(ch)
              /\ bytesQ' = [bytesQ EXCEPT ![ch] = Append(@, wire[ch][i])]
              /\ UNCHANGED lost
           \/ /\ NoReceiver(ch)
              /\ lost' = [lost EXCEPT ![ch] = @ \union {wire[ch][i]}]
              /\ UNCHANGED bytesQ
        /\ UNCHANGED <<quality, stage, chanQ, session, gone, sent, written>>
  BY DEF Dispatch
<1>3. i \in DOMAIN wire[ch] /\ (Ordered(ch) => i = 1)
  BY DEF Arriving
<1>4. /\ wire' = [c \in Chan |-> wire'[c]]
      /\ \A c \in Chan \ {ch} : wire'[c] = wire[c]
      /\ wire'[ch] \in Seq(1..MaxMsgs[ch]) /\ Len(wire'[ch]) = Len(wire[ch]) - 1
      /\ i = 1 => \A j \in 1..Len(wire'[ch]) : wire'[ch][j] = wire[ch][j + 1]
  BY <1>2, <1>3, WireShrinks
<1>5. Shape'
  BY <1>2, <1>4 DEF IInv, Shape
<1>6. /\ wire[ch] \in Seq(1..MaxMsgs[ch]) /\ wire[ch][i] \in 1..MaxMsgs[ch]
      /\ Len(wire[ch]) \in Nat \ {0} /\ sent[ch] \in Nat
      /\ bytesQ[ch] \in Seq(1..MaxMsgs[ch]) /\ Len(bytesQ[ch]) \in Nat
      /\ MaxMsgs[ch] \in Nat
  BY <1>3, SessionAssumption DEF IInv, ChanInv, Typed
<1>7. ASSUME Ordered(ch)
      PROVE  /\ Latest(ch) /\ Passed(ch) + Len(bytesQ[ch]) \in Nat
             /\ Follow(wire'[ch], (Passed(ch) + Len(bytesQ[ch])) + 1)
             /\ wire[ch][i] = (Passed(ch) + Len(bytesQ[ch])) + 1
  <2>1. Latest(ch) /\ Passed(ch) + Len(bytesQ[ch]) \in Nat
    BY <1>6, <1>7 DEF IInv, ChanInv, Latest
  <2>2. Follow(wire[ch], Passed(ch) + Len(bytesQ[ch])) /\ i = 1
    BY <1>3, <1>7, <2>1 DEF Latest
  <2>3. \A j \in 1..Len(wire'[ch]) : wire'[ch][j] = wire[ch][j + 1]
    BY <1>4, <2>2
  <2>4. /\ Follow(wire'[ch], (Passed(ch) + Len(bytesQ[ch])) + 1)
        /\ wire[ch][1] = (Passed(ch) + Len(bytesQ[ch])) + 1
    <3> DEFINE n == Passed(ch) + Len(bytesQ[ch])
               w == wire[ch]
               r == wire'[ch]
    <3>1. Len(w) \in Nat \ {0} /\ n \in Nat /\ Follow(w, n) /\ Len(r) = Len(w) - 1
      BY <1>4, <1>6, <2>1, <2>2
    <3>2. \A j \in 1..Len(r) : r[j] = w[j + 1]
      BY <2>3
    <3>3. Follow(r, n + 1) /\ w[1] = n + 1
      <4> HIDE DEF n, w, r
      <4> QED
        BY <3>1, <3>2, FollowRest
    <3> QED
      BY <3>3
  <2> QED
    BY <2>1, <2>2, <2>4
<1>8. ChanInv(ch)'
  <2>1. CASE stage[ch] = "transfer"
    <3>1. /\ bytesQ'[ch] = Append(bytesQ[ch], wire[ch][i]) /\ Len(bytesQ[ch]) < BytesCap
          /\ lost' = lost
      BY <1>2, <2>1 DEF IInv, Shape, HasRoom, NoReceiver
    <3>2. bytesQ'[ch] \in Seq(1..MaxMsgs[ch]) /\ Len(bytesQ'[ch]) = Len(bytesQ[ch]) + 1
      BY <1>6, <3>1, AppendProperties
    <3>3. Len(bytesQ'[ch]) <= BytesCap
      BY <1>6, <3>1, <3>2, SessionAssumption
    <3>4. Typed(ch)' /\ HeldByTransfer(ch)'
      BY <1>2, <1>4, <2>1, <3>1, <3>2, <3>3 DEF IInv, ChanInv, Typed, HeldByTransfer
    <3>5. ASSUME Ordered(ch)' PROVE Latest(ch)'
      <4>1. /\ Latest(ch) /\ Passed(ch) \in Nat
            /\ Follow(wire'[ch], (Passed(ch) + Len(bytesQ[ch])) + 1)
            /\ wire[ch][i] = (Passed(ch) + Len(bytesQ[ch])) + 1
        BY <1>2, <1>7, <3>5 DEF Ordered, Latest
      <4>2. Passed(ch)' = Passed(ch)
        <5>1. Passed(ch)' = sent[ch] - (Len(wire[ch]) - 1) - (Len(bytesQ[ch]) + 1)
          BY <1>2, <1>4, <3>2, Zenon DEF Passed
        <5>2. Passed(ch) = sent[ch] - Len(wire[ch]) - Len(bytesQ[ch])
          BY DEF Passed
        <5> QED
          BY <1>6, <5>1, <5>2, Difference
      <4>3. Follow(bytesQ'[ch], Passed(ch))
        BY <1>6, <3>1, <4>1, FollowAppend DEF Latest
      <4>4. (Passed(ch) + Len(bytesQ[ch])) + 1 = Passed(ch) + Len(bytesQ'[ch])
        BY <1>6, <3>2, <4>1
      <4> QED
        BY <1>2, <3>1, <4>1, <4>2, <4>3, <4>4 DEF Latest
    <3> QED
      BY <3>4, <3>5 DEF ChanInv
  <2>2. CASE stage[ch] # "transfer"
    <3>1. bytesQ' = bytesQ /\ lost'[ch] = lost[ch] \union {wire[ch][i]} /\ bytesQ[ch] = <<>>
      BY <1>2, <2>2 DEF IInv, Shape, ChanInv, HeldByTransfer
    <3>2. Typed(ch)' /\ HeldByTransfer(ch)'
      BY <1>2, <1>4, <1>6, <3>1 DEF IInv, ChanInv, Typed, HeldByTransfer
    <3>3. ASSUME Ordered(ch)' PROVE Latest(ch)'
      <4>1. /\ Latest(ch) /\ Passed(ch) \in Nat /\ Len(bytesQ[ch]) = 0
            /\ Follow(wire'[ch], (Passed(ch) + Len(bytesQ[ch])) + 1)
            /\ wire[ch][i] = (Passed(ch) + Len(bytesQ[ch])) + 1
        BY <1>2, <1>7, <3>1, <3>3 DEF Ordered, Latest
      <4>2. Passed(ch)' = Passed(ch) + 1
        BY <1>2, <1>4, <1>6, <3>1, <4>1 DEF Passed
      <4>3. (Passed(ch) + Len(bytesQ[ch])) + 1 = Passed(ch)' + Len(bytesQ'[ch])
        BY <3>1, <4>1, <4>2
      <4>4. 1..Passed(ch)' \subseteq 1..Passed(ch) \union {wire[ch][i]} /\ Passed(ch)' \in Nat
        BY <4>1, <4>2
      <4>5. Follow(bytesQ'[ch], Passed(ch)')
        BY <3>1, <4>1 DEF Follow
      <4> QED
        BY <1>2, <3>1, <4>1, <4>3, <4>4, <4>5 DEF Latest
    <3> QED
      BY <3>2, <3>3 DEF ChanInv
  <2> QED
    BY <2>1, <2>2
<1>9. ASSUME NEW c \in Chan \ {ch} PROVE ChanInv(c)'
  BY <1>2, <1>4, Frame DEF IInv, Shape
<1> QED
  BY <1>1, <1>5, <1>8, <1>9 DEF IInv

\* bytes_recv is dropped: what was on the wire still follows what has passed.
LEMMA BytesDropped ==
  ASSUME NEW ch \in Chan, ChanInv(ch), Ordered(ch), wire'[ch] = wire[ch], sent'[ch] = sent[ch],
         bytesQ'[ch] = <<>>
  PROVE  /\ Passed(ch)' = Passed(ch) + Len(bytesQ[ch]) /\ Passed(ch)' \in Nat
         /\ Follow(bytesQ[ch], Passed(ch)) /\ Passed(ch) \in Nat /\ Len(bytesQ[ch]) \in Nat
         /\ Follow(bytesQ'[ch], Passed(ch)') /\ Follow(wire'[ch], Passed(ch)' + Len(bytesQ'[ch]))
<1>1. /\ Passed(ch) \in Nat /\ Follow(bytesQ[ch], Passed(ch))
      /\ Follow(wire[ch], Passed(ch) + Len(bytesQ[ch]))
  BY DEF ChanInv, Latest
<1>2. /\ sent[ch] \in Nat /\ Len(wire[ch]) \in Nat /\ Len(bytesQ[ch]) \in Nat
      /\ Len(bytesQ'[ch]) = 0
  BY SessionAssumption DEF ChanInv, Typed
<1>3. Passed(ch)' = sent[ch] - Len(wire[ch]) - Len(bytesQ'[ch])
  BY DEF Passed
<1>4. Passed(ch) = sent[ch] - Len(wire[ch]) - Len(bytesQ[ch])
  BY DEF Passed
<1>5. Passed(ch)' = Passed(ch) + Len(bytesQ[ch]) /\ Passed(ch)' \in Nat
  BY <1>1, <1>2, <1>3, <1>4
<1>6. Follow(bytesQ'[ch], Passed(ch)')
  BY <1>2 DEF Follow
<1>7. Passed(ch)' + Len(bytesQ'[ch]) = Passed(ch) + Len(bytesQ[ch])
  BY <1>1, <1>2, <1>5
<1> QED
  BY <1>1, <1>2, <1>5, <1>6, <1>7

\* The end of a transfer, whichever branch of the select! ran.
LEMMA EndTransferKeeps ==
  ASSUME IInv, NEW ch \in Chan, stage[ch] = "transfer", NEW rest, EndTransfer(ch, rest),
         \A i \in DOMAIN rest : rest[i] \in 1..MaxMsgs[ch],
         \/ written' = written
         \/ bytesQ[ch] # <<>> /\ written' = [written EXCEPT ![ch] = Append(@, Head(bytesQ[ch]))]
  PROVE  IInv'
<1>1. ControlInv'
  <2> USE DEF IInv, ControlInv, EndTransfer, Goto
  <2>1. /\ stage' \in [Chan -> Stages] /\ stage'[ch] = "done"
        /\ \A c \in Chan \ {ch} : stage'[c] = stage[c] /\ ~Served(c)
    BY DEF Stages, OneTransfer, Served
  <2>2. Queued'
    BY <2>1 DEF Queued
  <2>3. OneTransfer'
    BY <2>1 DEF OneTransfer, Served
  <2>4. OnlyConfigured'
    BY <2>1 DEF OnlyConfigured
  <2> QED
    BY <2>1, <2>2, <2>3, <2>4
<1>2. Shape'
  BY DEF IInv, Shape, EndTransfer
<1>3. /\ bytesQ'[ch] = <<>> /\ lost'[ch] = lost[ch] \union {rest[i] : i \in DOMAIN rest}
      /\ stage'[ch] = "done" /\ quality' = quality /\ wire' = wire /\ sent' = sent
  BY DEF IInv, ControlInv, Shape, EndTransfer, Goto
<1>4. written[ch] = <<>> /\ bytesQ[ch] \in Seq(1..MaxMsgs[ch])
  BY DEF IInv, ChanInv, Typed, HeldByTransfer
<1>5. \/ written'[ch] = <<>>
      \/ /\ bytesQ[ch] # <<>> /\ written'[ch] = <<bytesQ[ch][1]>>
         /\ bytesQ[ch][1] \in 1..MaxMsgs[ch]
  <2>1. ASSUME bytesQ[ch] # <<>>
        PROVE  Head(bytesQ[ch]) = bytesQ[ch][1] /\ bytesQ[ch][1] \in 1..MaxMsgs[ch]
    BY <1>4, <2>1, ElementsOf
  <2>2. Append(<<>>, bytesQ[ch][1]) = <<bytesQ[ch][1]>>
    OBVIOUS
  <2>3. \/ written'[ch] = written[ch]
        \/ bytesQ[ch] # <<>> /\ written'[ch] = Append(written[ch], Head(bytesQ[ch]))
    BY DEF IInv, Shape
  <2> QED
    BY <1>4, <2>1, <2>2, <2>3
<1>6. ChanInv(ch)'
  <2>1. Typed(ch)'
    <3>1. written'[ch] \in Seq(1..MaxMsgs[ch])
      <4>1. ASSUME bytesQ[ch][1] \in 1..MaxMsgs[ch]
            PROVE  <<bytesQ[ch][1]>> \in Seq(1..MaxMsgs[ch])
        BY <4>1, Singleton, Zenon
      <4>2. <<>> \in Seq(1..MaxMsgs[ch])
        OBVIOUS
      <4> QED
        BY <1>5, <4>1, <4>2, Zenon
    <3>2. Len(bytesQ'[ch]) <= BytesCap /\ bytesQ'[ch] \in Seq(1..MaxMsgs[ch])
      BY <1>3, SessionAssumption
    <3> QED
      BY <1>3, <3>1, <3>2 DEF IInv, ChanInv, Typed
  <2>2. HeldByTransfer(ch)'
    BY <1>3 DEF HeldByTransfer
  <2>3. ASSUME Ordered(ch)' PROVE Latest(ch)'
    <3>1. Ordered(ch) /\ ChanInv(ch)
      BY <1>3, <2>3 DEF IInv, Ordered
    <3>2. /\ Passed(ch)' \in Nat /\ Passed(ch) \in Nat /\ Follow(bytesQ[ch], Passed(ch))
          /\ Follow(bytesQ'[ch], Passed(ch)') /\ Follow(wire'[ch], Passed(ch)' + Len(bytesQ'[ch]))
      BY <1>3, <3>1, BytesDropped
    <3>3. 1..Passed(ch) \subseteq lost[ch]
      BY <3>1 DEF ChanInv, Latest
    <3>4. bytesQ[ch] # <<>> => bytesQ[ch][1] = Passed(ch) + 1
      BY <1>4, <3>2 DEF Follow
    <3>5. written'[ch] # <<>> => 1..(written'[ch][1] - 1) \subseteq lost'[ch]
      BY <1>3, <1>5, <3>2, <3>3, <3>4
    <3> QED
      BY <1>3, <3>2, <3>5 DEF Latest
  <2> QED
    BY <2>1, <2>2, <2>3 DEF ChanInv
<1>7. ASSUME NEW c \in Chan \ {ch} PROVE ChanInv(c)'
  BY Frame DEF IInv, ControlInv, Shape, EndTransfer, Goto
<1> QED
  BY <1>1, <1>2, <1>6, <1>7 DEF IInv

LEMMA TransferInKeeps == ASSUME IInv, NEW ch \in Chan, TransferIn(ch) PROVE IInv'
<1>1. bytesQ[ch] \in Seq(1..MaxMsgs[ch]) /\ bytesQ[ch] # <<>>
  BY DEF IInv, ChanInv, Typed, TransferIn
<1>2. \A i \in DOMAIN Tail(bytesQ[ch]) : Tail(bytesQ[ch])[i] \in 1..MaxMsgs[ch]
  BY <1>1, ElementsOf
<1> QED
  BY <1>1, <1>2, EndTransferKeeps DEF TransferIn

LEMMA TransferOutKeeps == ASSUME IInv, NEW ch \in Chan, TransferOut(ch) PROVE IInv'
<1>1. \A i \in DOMAIN bytesQ[ch] : bytesQ[ch][i] \in 1..MaxMsgs[ch]
  BY ElementsOf DEF IInv, ChanInv, Typed
<1> QED
  BY <1>1, EndTransferKeeps DEF TransferOut

\* on_success panics: its channel and those that wait are dropped.
LEMMA SocketFailsKeeps == ASSUME IInv, NEW ch \in Chan, SocketFails(ch) PROVE IInv'
<1>1. /\ stage[ch] \in {"connecting", "transfer"} /\ stage'[ch] = "dropped"
      /\ \A c \in Chan \ {ch} : \/ stage'[c] = stage[c]
                                \/ stage[c] = "queued" /\ stage'[c] = "dropped"
  BY DEF SocketFails
<1>2. ControlInv'
  <2> USE DEF IInv, ControlInv, SocketFails
  <2>1. stage' \in [Chan -> Stages] /\ \A c \in Chan : ~Served(c)'
    BY <1>1 DEF Stages, OneTransfer, Served
  <2>2. Queued' /\ OneTransfer'
    BY <2>1 DEF Queued, OneTransfer
  <2>3. OnlyConfigured'
    BY <1>1 DEF OnlyConfigured
  <2>4. chanQ' \in Seq(Chan) /\ Len(chanQ') <= ChanCap
    BY SessionAssumption
  <2> QED
    BY <2>1, <2>2, <2>3, <2>4
<1>3. Shape'
  BY DEF IInv, Shape, SocketFails
<1>4. /\ bytesQ'[ch] = <<>> /\ lost'[ch] = lost[ch] \union {bytesQ[ch][i] : i \in DOMAIN bytesQ[ch]}
      /\ quality' = quality /\ wire' = wire /\ sent' = sent /\ written' = written
  BY DEF IInv, Shape, SocketFails
<1>5. ChanInv(ch)'
  <2>1. Typed(ch)'
    <3>1. /\ Len(bytesQ'[ch]) <= BytesCap /\ bytesQ'[ch] \in Seq(1..MaxMsgs[ch])
          /\ \A i \in DOMAIN bytesQ[ch] : bytesQ[ch][i] \in 1..MaxMsgs[ch]
      BY <1>4, SessionAssumption DEF IInv, ChanInv, Typed
    <3> QED
      BY <1>4, <3>1 DEF IInv, ChanInv, Typed
  <2>2. HeldByTransfer(ch)' /\ written[ch] = <<>>
    BY <1>1, <1>4 DEF IInv, ChanInv, HeldByTransfer
  <2>3. ASSUME Ordered(ch)' PROVE Latest(ch)'
    <3>1. Ordered(ch) /\ ChanInv(ch)
      BY <1>4, <2>3 DEF IInv, Ordered
    <3>2. /\ Passed(ch)' = Passed(ch) + Len(bytesQ[ch]) /\ Passed(ch)' \in Nat
          /\ Follow(bytesQ[ch], Passed(ch)) /\ Passed(ch) \in Nat /\ Len(bytesQ[ch]) \in Nat
          /\ Follow(bytesQ'[ch], Passed(ch)') /\ Follow(wire'[ch], Passed(ch)' + Len(bytesQ'[ch]))
      BY <1>4, <3>1, BytesDropped
    <3>3. 1..Passed(ch) \subseteq lost[ch]
      BY <1>1, <3>1 DEF ChanInv, Latest
    <3>4. ASSUME NEW k \in 1..Passed(ch)' PROVE k \in lost'[ch]
      <4>1. CASE k \in 1..Passed(ch)
        BY <1>4, <3>3, <4>1
      <4>2. CASE k \notin 1..Passed(ch)
        <5>1. k - Passed(ch) \in 1..Len(bytesQ[ch]) /\ Passed(ch) + (k - Passed(ch)) = k
          BY <3>2, <4>2
        <5>2. bytesQ[ch][k - Passed(ch)] = k /\ k - Passed(ch) \in DOMAIN bytesQ[ch]
          BY <3>1, <3>2, <5>1 DEF Follow, ChanInv, Typed
        <5> QED
          BY <1>4, <5>2
      <4> QED
        BY <4>1, <4>2
    <3> QED
      BY <1>4, <2>2, <3>2, <3>4 DEF Latest
  <2> QED
    BY <2>1, <2>2, <2>3 DEF ChanInv
<1>6. ASSUME NEW c \in Chan \ {ch} PROVE ChanInv(c)'
  BY <1>1, Frame DEF IInv, Shape, SocketFails
<1> QED
  BY <1>2, <1>3, <1>5, <1>6 DEF IInv

-----------------------------------------------------------------------------
LEMMA StepIInv == IInv /\ [Next]_vars => IInv'
<1> SUFFICES ASSUME IInv, [Next]_vars PROVE IInv'
  OBVIOUS
<1>1. ASSUME NEW ch \in Chan,
             \/ OpenChannel(ch) \/ ClientSends(ch) \/ Dispatch(ch) \/ NetworkLoses(ch)
             \/ QueueChannel(ch)
             \/ Connected(ch) \/ TransferIn(ch) \/ TransferOut(ch) \/ SocketFails(ch)
      PROVE  IInv'
  BY <1>1, OpenChannelKeeps, ClientSendsKeeps, DispatchKeeps, NetworkLosesKeeps,
     QueueChannelKeeps, ConnectedKeeps, TransferInKeeps, TransferOutKeeps, SocketFailsKeeps
<1>2. ASSUME PeerCloses \/ TakeChannel \/ SessionEnds PROVE IInv'
  BY <1>2, PeerClosesKeeps, TakeChannelKeeps, SessionEndsKeeps
<1>3. ASSUME UNCHANGED vars PROVE IInv'
  <2>1. ControlInv' /\ Shape'
    BY <1>3, ControlFrame DEF vars, dataVars, IInv, Shape
  <2>2. ASSUME NEW ch \in Chan PROVE ChanInv(ch)'
    BY <1>3, Frame DEF vars, dataVars, IInv
  <2> QED
    BY <2>1, <2>2 DEF IInv
<1> QED
  BY <1>1, <1>2, <1>3 DEF Next

\* The session's control and each channel's cursors stay consistent as above, for any
\* set of data channels and any configuration (webrtc-tunnel server.rs:44-186).
THEOREM Invariance == Spec => []IInv
  BY InitIInv, StepIInv, PTL DEF Spec

\* The session's state stays well formed, and the two mpsc channels within
\* their capacities (upgrade2webrtc server.rs:176-197, webrtc-tunnel
\* server.rs:59-186).
THEOREM TypeCorrect == Spec => []TypeOK
<1>1. IInv => TypeOK
  BY DEF IInv, ControlInv, ChanInv, Typed, TypeOK
<1> QED
  BY <1>1, Invariance, PTL

\* on_success serves one data channel at a time, and none while it waits in
\* channels_recv.recv() or after it panicked (webrtc-tunnel server.rs:64-185).
THEOREM OneAtATime == Spec => []OneTransfer
<1>1. IInv => OneTransfer
  BY DEF IInv, ControlInv
<1> QED
  BY <1>1, Invariance, PTL

\* No protocol that a client may put into a data channel makes on_success
\* contact a port without an entry of the configuration (webrtc-tunnel
\* server.rs:44-57, 68-71).
THEOREM OnlyConfiguredPorts == Spec => []OnlyConfigured
<1>1. IInv => OnlyConfigured
  BY DEF IInv, ControlInv
<1> QED
  BY <1>1, Invariance, PTL

\* The transfer of an ordered channel holds the client's latest messages without
\* a gap, and all that came before the one it writes was lost before the handler
\* was set (webrtc-tunnel server.rs:86-94, 113-126, 142-151, 170-180).
THEOREM TransferWithoutGap == Spec => []NoGap
<1>1. ASSUME IInv, NEW ch \in Chan, Ordered(ch)
      PROVE  LET held == bytesQ[ch] \o wire[ch] IN
             \A i \in DOMAIN held : held[i] = sent[ch] - Len(held) + i
  <2> DEFINE S == 1..MaxMsgs[ch]
             b == bytesQ[ch]
             w == wire[ch]
             held == b \o w
  <2>1. b \in Seq(S) /\ w \in Seq(S) /\ sent[ch] \in Nat
    BY <1>1, SessionAssumption DEF IInv, ChanInv, Typed
  <2>2. /\ Passed(ch) \in Nat /\ Passed(ch) = sent[ch] - Len(w) - Len(b)
        /\ Follow(b, Passed(ch)) /\ Follow(w, Passed(ch) + Len(b))
    BY <1>1 DEF IInv, ChanInv, Latest, Passed
  <2> HIDE DEF S, b, w
  <2>3. Len(held) = Len(b) + Len(w) /\ Len(b) \in Nat /\ Len(w) \in Nat
    BY <2>1, ConcatProperties
  <2>4. Passed(ch) = sent[ch] - Len(held)
    BY <2>1, <2>2, <2>3
  <2>5. \A i \in DOMAIN held : held[i] = Passed(ch) + i
    BY <2>1, <2>2, FollowConcat
  <2>6. \A i \in DOMAIN held : held[i] = sent[ch] - Len(held) + i
    BY <2>4, <2>5
  <2> QED
    BY <2>6 DEF b, w
<1>2. ASSUME IInv, NEW ch \in Chan, Ordered(ch), written[ch] # <<>>
      PROVE  1..(written[ch][1] - 1) \subseteq lost[ch]
  BY <1>2 DEF IInv, ChanInv, Latest
<1>3. IInv => NoGap
  BY <1>1, <1>2 DEF NoGap
<1> QED
  BY <1>3, Invariance, PTL
=============================================================================
