------------------------- MODULE StreamTransportProofs -------------------------
(***************************************************************************)
(* For every set of objects, every injective encoding, every read size and *)
(* any number of calls: recv_obj returns what send_obj was given, in order *)
(* (PrefixDelivery), never waits on a frame it holds (NoStrandedFrame) and *)
(* reports the end of the stream only after every acknowledged object      *)
(* (EofLosesNothing); so the transport implements ObjectChannel.           *)
(***************************************************************************)
EXTENDS StreamTransport, SequenceTheorems, TLAPS

\* The frame boundaries are those of the objects sent, and the log ends at a
\* boundary or, inside send_obj, right after a header.
Boundaries ==
  /\ Len(starts) = Len(sent) + 1
  /\ starts[1] = 0
  /\ \A k \in 1..Len(sent) : starts[k + 1] = starts[k] + HeaderLen + Len(Enc[sent[k]])
  /\ \A k \in 1..Len(sent) : starts[k] + HeaderLen <= Len(stream)
  /\ Len(stream) <= starts[Len(sent) + 1]
  /\ spc = "payload" => Len(sent) > 0 /\ Len(stream) = starts[Len(sent)] + HeaderLen
  /\ spc \in {"idle", "flush"} => Len(stream) = starts[Len(sent) + 1]
  /\ spc = "flush" => Len(sent) > 0
  /\ \A k \in 1..(Len(sent) - 1) : starts[k + 1] <= Len(stream)

\* Every frame in the log is the header and the bytes of its object.
Contents ==
  \A k \in 1..Len(sent) :
    /\ \A j \in 1..HeaderLen : stream[starts[k] + j] = ToLeBytes(Len(Enc[sent[k]]))[j]
    /\ starts[k + 1] <= Len(stream) =>
         \A j \in 1..Len(Enc[sent[k]]) :
           stream[starts[k] + HeaderLen + j] = Enc[sent[k]][j]

\* recv_buffer begins at the boundary of the next object to return.
Alignment == drained = starts[Len(received) + 1]

\* The frames of acknowledged objects have left the sender.
Acknowledged ==
  /\ acked <= Len(sent)
  /\ spc = "idle" => acked = Len(sent)
  /\ spc \in {"payload", "flush"} => acked = Len(sent) - 1
  /\ \A k \in 1..acked : starts[k + 1] <= flushed

\* The receiver is told that the stream ended only once the sender is gone.
EndAfterDrop == rpc = "eof" => spc = "dropped"

\* The inductive invariant.
IInv ==
  /\ TypeOK /\ Boundaries /\ Contents
  /\ PrefixDelivery /\ Alignment
  /\ Acknowledged /\ EndAfterDrop /\ NoStrandedFrame /\ EofLosesNothing

-----------------------------------------------------------------------------
(* Lemmas about the encoding of lengths and about slices of the log.       *)

\* What from_le_bytes makes of four bytes.
LEMMA FourBytes ==
  ASSUME NEW b1 \in Byte, NEW b2 \in Byte, NEW b3 \in Byte, NEW b4 \in Byte
  PROVE  /\ <<b1, b2, b3, b4>> \in Seq(Byte)
         /\ Len(<<b1, b2, b3, b4>>) = HeaderLen
         /\ FromLeBytes(<<b1, b2, b3, b4>>) = b1 + 256 * (b2 + 256 * (b3 + 256 * b4))
  BY DEF FromLeBytes, HeaderLen

\* A length that fits in a u32 survives to_le_bytes and from_le_bytes.
LEMMA LeBytesInverse ==
  ASSUME NEW n \in Nat, Shift(Shift(Shift(n))) < 256
  PROVE  /\ ToLeBytes(n) \in Seq(Byte)
         /\ Len(ToLeBytes(n)) = HeaderLen
         /\ FromLeBytes(ToLeBytes(n)) = n
<1> DEFINE q1 == Shift(n)
           q2 == Shift(q1)
           q3 == Shift(q2)
<1>1. q1 \in Nat /\ n % 256 \in 0..255 /\ n = 256 * q1 + (n % 256)
  BY SMT DEF Shift
<1>2. q2 \in Nat /\ q1 % 256 \in 0..255 /\ q1 = 256 * q2 + (q1 % 256)
  <2> HIDE DEF q1
  <2> QED  BY <1>1, SMT DEF Shift
<1>3. q3 \in Nat /\ q2 % 256 \in 0..255 /\ q2 = 256 * q3 + (q2 % 256)
  <2> HIDE DEF q2
  <2> QED  BY <1>2, SMT DEF Shift
<1>4. q3 % 256 = q3 /\ q3 \in 0..255
  <2>1. q3 < 256
    OBVIOUS
  <2> HIDE DEF q3
  <2> QED  BY <1>3, <2>1, SMT
<1>5. ToLeBytes(n) = <<n % 256, q1 % 256, q2 % 256, q3 % 256>>
  BY DEF ToLeBytes
<1>6. n % 256 \in Byte /\ q1 % 256 \in Byte /\ q2 % 256 \in Byte /\ q3 % 256 \in Byte
  BY <1>1, <1>2, <1>3, <1>4 DEF Byte
<1>7. n = (n % 256) + 256 * ((q1 % 256) + 256 * ((q2 % 256) + 256 * (q3 % 256)))
  <2> HIDE DEF q1, q2, q3
  <2> QED  BY <1>1, <1>2, <1>3, <1>4, SMT
<1> HIDE DEF q1, q2, q3
<1> QED  BY <1>5, <1>6, <1>7, FourBytes

\* What is where after appending t to s.
LEMMA Appended ==
  ASSUME NEW s \in Seq(Byte), NEW t \in Seq(Byte)
  PROVE  /\ s \o t \in Seq(Byte) /\ Len(s \o t) = Len(s) + Len(t)
         /\ \A i \in 1..Len(s) : (s \o t)[i] = s[i]
         /\ \A j \in 1..Len(t) : (s \o t)[Len(s) + j] = t[j]
<1>1. Len(s) \in Nat /\ Len(t) \in Nat
  OBVIOUS
<1>2. \A j \in 1..Len(t) : Len(s) + j \in 1..(Len(s) + Len(t)) /\ ~(Len(s) + j <= Len(s))
                           /\ (Len(s) + j) - Len(s) = j
  BY <1>1
<1> QED  BY <1>1, <1>2, ConcatProperties

\* Appending to the log does not change what was cut out of it before.
LEMMA SliceOfExtension ==
  ASSUME NEW S, NEW s \in Seq(S), NEW t \in Seq(S),
         NEW m \in Nat \ {0}, NEW n \in 0..Len(s)
  PROVE  SubSeq(s \o t, m, n) = SubSeq(s, m, n)
<1>1. \A i \in m..n : s[i] \in S /\ (s \o t)[i] = s[i]
  BY ConcatProperties
<1>2. \A i \in m..n : (s \o t)[i] \in S
  BY <1>1
<1>3. /\ SubSeq(s, m, n) \in Seq(S)
      /\ Len(SubSeq(s, m, n)) = IF m <= n THEN n - m + 1 ELSE 0
      /\ \A i \in 1..(n - m + 1) : SubSeq(s, m, n)[i] = s[m + i - 1]
  BY <1>1, SubSeqProperties
<1>4. /\ SubSeq(s \o t, m, n) \in Seq(S)
      /\ Len(SubSeq(s \o t, m, n)) = IF m <= n THEN n - m + 1 ELSE 0
      /\ \A i \in 1..(n - m + 1) : SubSeq(s \o t, m, n)[i] = (s \o t)[m + i - 1]
  BY <1>2, SubSeqProperties
<1>5. \A i \in 1..Len(SubSeq(s, m, n)) : SubSeq(s \o t, m, n)[i] = SubSeq(s, m, n)[i]
  BY <1>1, <1>3, <1>4
<1> QED  BY <1>3, <1>4, <1>5, SeqEqual

\* from_le_bytes only looks at the first four bytes.
LEMMA SameHeader ==
  ASSUME NEW b, NEW c, \A j \in 1..HeaderLen : b[j] = c[j]
  PROVE  FromLeBytes(b) = FromLeBytes(c)
  BY DEF FromLeBytes, HeaderLen

\* Transitivity, stated for the cursors of the log.
LEMMA AtMost ==
  ASSUME NEW a \in Nat, NEW b \in Nat, NEW c \in Nat, a <= b, b <= c
  PROVE  a <= c
  OBVIOUS

\* The bytes of a frame that ends within the log are in the log.
LEMMA FrameOffsets ==
  ASSUME NEW a \in Nat, NEW l \in Nat, NEW z \in Nat, a + HeaderLen + l <= z
  PROVE  /\ \A j \in 1..HeaderLen : a + j \in 1..z
         /\ \A j \in 1..l : a + HeaderLen + j \in 1..z
  BY DEF HeaderLen

\* The serialised bytes of an object and of its length.
LEMMA EncIsBytes ==
  ASSUME NEW o \in Objects
  PROVE  /\ Enc[o] \in Seq(Byte) /\ Len(Enc[o]) \in Nat
         /\ FromLeBytes(ToLeBytes(Len(Enc[o]))) = Len(Enc[o])
         /\ ToLeBytes(Len(Enc[o])) \in Seq(Byte)
         /\ Len(ToLeBytes(Len(Enc[o]))) = HeaderLen
<1>1. Enc[o] \in Seq(Byte) /\ Len(Enc[o]) \in Nat
  BY EncAssumption
<1>2. Shift(Shift(Shift(Len(Enc[o])))) < 256
  BY EncAssumption
<1> QED  BY <1>1, <1>2, LeBytesInverse

\* recv_buffer is the slice of the log from drained on.
LEMMA BufferSlice ==
  ASSUME TypeOK, NEW n \in drained..Len(stream)
  PROVE  /\ BufferAt(n) \in Seq(Byte)
         /\ Len(BufferAt(n)) = n - drained
         /\ \A j \in 1..(n - drained) : BufferAt(n)[j] = stream[drained + j]
<1>1. stream \in Seq(Byte) /\ drained \in Nat /\ n \in Nat /\ n <= Len(stream)
  BY DEF TypeOK
<1>2. \A i \in (drained + 1)..n : stream[i] \in Byte
  BY <1>1
<1>3. /\ SubSeq(stream, drained + 1, n) \in Seq(Byte)
      /\ Len(SubSeq(stream, drained + 1, n))
           = IF drained + 1 <= n THEN n - (drained + 1) + 1 ELSE 0
      /\ \A j \in 1..(n - (drained + 1) + 1) :
           SubSeq(stream, drained + 1, n)[j] = stream[(drained + 1) + j - 1]
  BY <1>1, <1>2, SubSeqProperties
<1> QED  BY <1>1, <1>3 DEF BufferAt

\* The bounds the lemmas below rest on, as plain facts of arithmetic.
LEMMA Counts ==
  ASSUME TypeOK
  PROVE  /\ Len(stream) \in Nat /\ flushed \in Nat /\ read \in Nat /\ drained \in Nat
         /\ Len(sent) \in Nat /\ Len(received) \in Nat /\ Len(starts) \in Nat
         /\ drained <= read /\ read <= flushed /\ flushed <= Len(stream)
         /\ \A k \in 1..Len(sent) : sent[k] \in Objects
         /\ \A k \in 1..Len(starts) : starts[k] \in Nat
  BY DEF TypeOK

\* Four bytes of recv_buffer hold the length of the next object to return.
LEMMA NextHeader ==
  ASSUME TypeOK, Boundaries, Contents, Alignment, PrefixDelivery,
         NEW n \in drained..Len(stream), n - drained >= HeaderLen
  PROVE  /\ Len(received) + 1 \in 1..Len(sent)
         /\ FrameSize(BufferAt(n)) = HeaderLen + Len(Enc[sent[Len(received) + 1]])
<1> DEFINE k == Len(received) + 1
<1>1. k \in 1..Len(sent)
  <2>1. Len(received) = Len(sent) => Len(stream) <= drained
    BY DEF Boundaries, Alignment
  <2> QED  BY <2>1, Counts DEF PrefixDelivery, HeaderLen
<1>2. sent[k] \in Objects
  BY <1>1, Counts
<1>3. \A j \in 1..HeaderLen : BufferAt(n)[j] = stream[starts[k] + j]
  <2>1. \A j \in 1..HeaderLen : j \in 1..(n - drained)
    BY Counts DEF HeaderLen
  <2>2. \A j \in 1..HeaderLen : BufferAt(n)[j] = stream[drained + j]
    BY <2>1, BufferSlice
  <2> QED  BY <2>2 DEF Alignment
<1>4. \A j \in 1..HeaderLen : BufferAt(n)[j] = ToLeBytes(Len(Enc[sent[k]]))[j]
  BY <1>1, <1>3 DEF Contents
<1>5. FromLeBytes(BufferAt(n)) = Len(Enc[sent[k]])
  BY <1>2, <1>4, SameHeader, EncIsBytes
<1> QED  BY <1>1, <1>2, <1>5, EncIsBytes DEF FrameSize, HeaderLen

\* The next frame ends where its header and its object's bytes end.
LEMMA NextBoundary ==
  ASSUME TypeOK, Boundaries, Alignment, Len(received) + 1 \in 1..Len(sent)
  PROVE  /\ sent[Len(received) + 1] \in Objects
         /\ Len(Enc[sent[Len(received) + 1]]) \in Nat
         /\ starts[Len(received) + 2]
              = drained + HeaderLen + Len(Enc[sent[Len(received) + 1]])
<1> DEFINE k == Len(received) + 1
<1>1. sent[k] \in Objects
  BY Counts
<1>2. starts[k + 1] = starts[k] + HeaderLen + Len(Enc[sent[k]])
  BY DEF Boundaries
<1>3. k + 1 = Len(received) + 2
  BY Counts
<1> QED  BY <1>1, <1>2, <1>3, EncIsBytes DEF Alignment

\* A whole frame in recv_buffer is the frame of the next object to return.
LEMMA NextFrame ==
  ASSUME TypeOK, Boundaries, Contents, Alignment, PrefixDelivery,
         NEW n \in drained..Len(stream), Complete(BufferAt(n))
  PROVE  /\ Len(received) + 1 \in 1..Len(sent)
         /\ drained + FrameSize(BufferAt(n)) = starts[Len(received) + 2]
         /\ starts[Len(received) + 2] <= n
         /\ SubSeq(BufferAt(n), HeaderLen + 1, FrameSize(BufferAt(n)))
              = Enc[sent[Len(received) + 1]]
<1> DEFINE k == Len(received) + 1
           L == Len(Enc[sent[k]])
           buf == BufferAt(n)
<1>1. n - drained >= HeaderLen
  BY BufferSlice DEF Complete
<1>2. k \in 1..Len(sent) /\ FrameSize(buf) = HeaderLen + L
  BY <1>1, NextHeader
<1>3. sent[k] \in Objects /\ L \in Nat /\ Enc[sent[k]] \in Seq(Byte)
  BY <1>2, NextBoundary, EncIsBytes
<1>4. HeaderLen + L <= n - drained
  BY <1>2, BufferSlice DEF Complete
<1>5. starts[k + 1] = drained + HeaderLen + L /\ k + 1 = Len(received) + 2
  <2>1. k + 1 = Len(received) + 2
    BY Counts
  <2> QED  BY <1>2, <2>1, NextBoundary
<1>6. /\ n \in Nat /\ drained \in Nat /\ n <= Len(stream) /\ Len(stream) \in Nat
  BY Counts
<1>7. starts[k + 1] <= n /\ starts[k + 1] <= Len(stream)
      /\ drained + FrameSize(buf) = starts[k + 1]
  <2> HIDE DEF L, buf, k
  <2> QED  BY <1>2, <1>3, <1>4, <1>5, <1>6 DEF HeaderLen
<1>8. \A j \in 1..L : stream[drained + HeaderLen + j] = Enc[sent[k]][j]
  BY <1>2, <1>7 DEF Contents, Alignment
<1>9. \A i \in (HeaderLen + 1)..(HeaderLen + L) : buf[i] \in Byte
  <2>1. buf \in Seq(Byte) /\ Len(buf) = n - drained
    BY BufferSlice
  <2> HIDE DEF L, buf, k
  <2>2. \A i \in (HeaderLen + 1)..(HeaderLen + L) : i \in 1..Len(buf)
    BY <1>3, <1>4, <1>6, <2>1 DEF HeaderLen
  <2> QED  BY <2>1, <2>2
<1> DEFINE payload == SubSeq(buf, HeaderLen + 1, HeaderLen + L)
<1>10. /\ payload \in Seq(Byte) /\ Len(payload) = L
       /\ \A j \in 1..L : payload[j] = buf[HeaderLen + j]
  <2> HIDE DEF buf, L
  <2>1. /\ payload \in Seq(Byte)
        /\ Len(payload) = IF HeaderLen + 1 <= HeaderLen + L
                            THEN (HeaderLen + L) - (HeaderLen + 1) + 1 ELSE 0
        /\ \A j \in 1..((HeaderLen + L) - (HeaderLen + 1) + 1) :
             payload[j] = buf[(HeaderLen + 1) + j - 1]
    BY <1>3, <1>9, SubSeqProperties DEF HeaderLen
  <2> HIDE DEF payload
  <2> QED  BY <1>3, <2>1 DEF HeaderLen
<1>11. \A j \in 1..L : buf[HeaderLen + j] = stream[drained + HeaderLen + j]
  <2>1. \A j \in 1..(n - drained) : buf[j] = stream[drained + j]
    BY BufferSlice
  <2> HIDE DEF buf, L
  <2>2. \A j \in 1..L : HeaderLen + j \in 1..(n - drained)
    BY <1>3, <1>4, <1>6 DEF HeaderLen
  <2>3. \A j \in 1..L : drained + (HeaderLen + j) = drained + HeaderLen + j
    BY <1>3, <1>6 DEF HeaderLen
  <2> QED  BY <2>1, <2>2, <2>3
<1>12. payload = Enc[sent[k]]
  <2> HIDE DEF payload, buf
  <2> QED  BY <1>3, <1>8, <1>10, <1>11, SeqEqual
<1>13. SubSeq(buf, HeaderLen + 1, FrameSize(buf)) = Enc[sent[k]]
  BY <1>2, <1>12
<1> QED  BY <1>2, <1>5, <1>7, <1>13

\* Conversely, a buffer that reaches the end of the next frame is complete.
LEMMA ReachesFrameEnd ==
  ASSUME TypeOK, Boundaries, Contents, Alignment, PrefixDelivery,
         NEW n \in drained..Len(stream),
         Len(received) < Len(sent), starts[Len(received) + 2] <= n
  PROVE  Complete(BufferAt(n))
<1> DEFINE L == Len(Enc[sent[Len(received) + 1]])
<1>1. Len(received) + 1 \in 1..Len(sent)
  BY Counts
<1>2. L \in Nat /\ starts[Len(received) + 2] = drained + HeaderLen + L
  BY <1>1, NextBoundary
<1>3. n \in Nat /\ drained \in Nat
  BY Counts
<1>4. n - drained >= HeaderLen + L /\ n - drained >= HeaderLen
  <2> HIDE DEF L
  <2> QED  BY <1>2, <1>3 DEF HeaderLen
<1> QED  BY <1>4, NextHeader, BufferSlice DEF Complete

-----------------------------------------------------------------------------
(* The invariant is inductive: one lemma for each action.                  *)

LEMMA InitIInv == Init => IInv
<1> SUFFICES ASSUME Init PROVE IInv
  OBVIOUS
<1>1. TypeOK
  BY DEF Init, TypeOK, SenderStates, ReceiverStates
<1>2. Boundaries /\ Contents /\ Alignment /\ Acknowledged /\ EndAfterDrop
  BY DEF Init, Boundaries, Contents, Alignment, Acknowledged, EndAfterDrop
<1>3. PrefixDelivery /\ NoStrandedFrame /\ EofLosesNothing
  BY DEF Init, PrefixDelivery, NoStrandedFrame, EofLosesNothing
<1> QED  BY <1>1, <1>2, <1>3 DEF IInv

\* What recv_buffer holds does not change when send_obj appends to the stream.
LEMMA AppendKeepsBuffer ==
  ASSUME TypeOK, NEW t \in Seq(Byte), stream' = stream \o t,
         UNCHANGED receiverVars, NoStrandedFrame
  PROVE  NoStrandedFrame'
<1>1. SubSeq(stream \o t, drained + 1, read) = SubSeq(stream, drained + 1, read)
  <2>1. drained + 1 \in Nat \ {0} /\ read \in 0..Len(stream)
    BY Counts
  <2> QED  BY <2>1, SliceOfExtension DEF TypeOK
<1>2. BufferAt(read)' = BufferAt(read)
  BY <1>1 DEF BufferAt, receiverVars
<1> QED  BY <1>2 DEF NoStrandedFrame, receiverVars, Complete, FrameSize, FromLeBytes

LEMMA SendSizeStep ==
  ASSUME IInv, NEW o \in Objects, SendSize(o)
  PROVE  IInv'
<1> DEFINE hd == ToLeBytes(Len(Enc[o]))
           L == Len(Enc[o])
<1>0. /\ TypeOK /\ Boundaries /\ Contents /\ PrefixDelivery /\ Alignment
      /\ Acknowledged /\ EndAfterDrop /\ NoStrandedFrame /\ EofLosesNothing
  BY DEF IInv
<1>1. /\ hd \in Seq(Byte) /\ Len(hd) = HeaderLen /\ L \in Nat /\ Enc[o] \in Seq(Byte)
  BY EncIsBytes
<1>2. /\ stream' = stream \o hd /\ sent' = Append(sent, o) /\ spc = "idle" /\ spc' = "payload"
      /\ UNCHANGED <<flushed, acked, read, drained, rpc, received>>
  BY DEF SendSize, receiverVars
<1>c. /\ Len(stream) \in Nat /\ Len(sent) \in Nat /\ Len(received) \in Nat
      /\ Len(received) <= Len(sent) /\ flushed <= Len(stream) /\ flushed \in Nat
  BY <1>0, Counts DEF PrefixDelivery
<1> DEFINE m == Len(sent)
<1>3. /\ Len(starts) = m + 1 /\ starts[m + 1] \in Nat /\ Len(stream) = starts[m + 1]
  BY <1>0, <1>2, <1>c, Counts DEF Boundaries
<1>4. starts' = Append(starts, starts[m + 1] + HeaderLen + L)
  BY <1>3 DEF SendSize
<1> HIDE DEF hd, L
<1>5. /\ stream' \in Seq(Byte) /\ Len(stream') = Len(stream) + HeaderLen
      /\ \A i \in 1..Len(stream) : stream'[i] = stream[i]
      /\ \A j \in 1..HeaderLen : stream'[Len(stream) + j] = hd[j]
  <2>1. stream \in Seq(Byte)
    BY <1>0 DEF TypeOK
  <2>2. /\ stream \o hd \in Seq(Byte) /\ Len(stream \o hd) = Len(stream) + Len(hd)
        /\ \A i \in 1..Len(stream) : (stream \o hd)[i] = stream[i]
        /\ \A j \in 1..Len(hd) : (stream \o hd)[Len(stream) + j] = hd[j]
    BY <1>1, <2>1, Appended, Zenon
  <2> QED  BY <1>1, <1>2, <2>2, Zenon
<1>6. /\ sent' \in Seq(Objects) /\ Len(sent') = m + 1 /\ sent'[m + 1] = o
      /\ \A k \in 1..m : sent'[k] = sent[k]
  BY <1>0, <1>2 DEF TypeOK
<1>7. /\ starts' \in Seq(Nat) /\ Len(starts') = m + 2
      /\ starts'[m + 2] = starts[m + 1] + HeaderLen + L
      /\ \A k \in 1..(m + 1) : starts'[k] = starts[k]
  BY <1>0, <1>1, <1>3, <1>4, <1>c DEF TypeOK, HeaderLen
<1>8. TypeOK'
  <2>1. flushed \in 0..Len(stream')
    BY <1>5, <1>c DEF HeaderLen
  <2> QED  BY <1>0, <1>2, <1>5, <1>6, <1>7, <2>1 DEF TypeOK, SenderStates
<1>9. ASSUME NEW k \in 1..m
      PROVE  /\ starts[k] \in Nat /\ starts[k + 1] \in Nat /\ Len(Enc[sent[k]]) \in Nat
             /\ starts[k] + HeaderLen <= Len(stream) /\ starts[k + 1] <= Len(stream)
             /\ starts[k + 1] = starts[k] + HeaderLen + Len(Enc[sent[k]])
             /\ starts'[k] = starts[k] /\ starts'[k + 1] = starts[k + 1] /\ sent'[k] = sent[k]
  <2>1. /\ k \in 1..(m + 1) /\ k + 1 \in 1..(m + 1) /\ k \in Nat
    BY <1>c
  <2>2. starts[k] \in Nat /\ starts[k + 1] \in Nat /\ sent[k] \in Objects
    BY <1>0, <1>3, <2>1, Counts
  <2>3. starts[k + 1] <= Len(stream)
    <3>1. CASE k = m
      BY <1>3, <1>c, <3>1
    <3>2. CASE k \in 1..(m - 1)
      BY <1>0, <3>2 DEF Boundaries
    <3> QED  BY <1>c, <3>1, <3>2
  <2>4. /\ starts[k] + HeaderLen <= Len(stream)
        /\ starts[k + 1] = starts[k] + HeaderLen + Len(Enc[sent[k]])
    BY <1>0 DEF Boundaries
  <2> QED  BY <1>6, <1>7, <2>1, <2>2, <2>3, <2>4, EncIsBytes
<1> HIDE DEF m
<1>10. Boundaries'
  <2>1. /\ Len(starts') = Len(sent') + 1 /\ starts'[1] = 0
    BY <1>0, <1>6, <1>7, <1>c DEF Boundaries, m
  <2>2. ASSUME NEW k \in 1..(m + 1)
        PROVE  /\ starts'[k + 1] = starts'[k] + HeaderLen + Len(Enc[sent'[k]])
               /\ starts'[k] + HeaderLen <= Len(stream')
    <3>1. CASE k \in 1..m
      <4>1. /\ starts[k] \in Nat /\ starts[k] + HeaderLen <= Len(stream)
            /\ starts'[k + 1] = starts'[k] + HeaderLen + Len(Enc[sent'[k]])
            /\ starts'[k] = starts[k]
        BY <1>9, <3>1
      <4> QED  BY <1>5, <1>c, <4>1 DEF HeaderLen
    <3>2. CASE k = m + 1
      <4>1. k + 1 = m + 2 /\ m + 1 \in 1..(m + 1)
        BY <1>c, <3>2 DEF m
      <4>2. starts'[k] = starts[m + 1] /\ starts'[k + 1] = starts[m + 1] + HeaderLen + L
        BY <1>7, <3>2, <4>1
      <4> QED  BY <1>3, <1>5, <1>6, <3>2, <4>2 DEF HeaderLen, L
    <3> QED  BY <1>c, <3>1, <3>2 DEF m
  <2>3. \A k \in 1..m : starts'[k + 1] <= Len(stream')
    BY <1>5, <1>9, <1>c DEF HeaderLen
  <2>4. /\ Len(stream') = starts'[m + 1] + HeaderLen
        /\ Len(stream') <= starts'[m + 2]
    <3>1. m + 1 \in 1..(m + 1)
      BY <1>c DEF m
    <3> QED  BY <1>1, <1>3, <1>5, <1>7, <3>1 DEF HeaderLen
  <2>5. m + 1 > 0 /\ (m + 1) - 1 = m /\ (m + 1) + 1 = m + 2
    BY <1>c DEF m
  <2> QED  BY <1>2, <1>6, <2>1, <2>2, <2>3, <2>4, <2>5 DEF Boundaries
<1>11. Contents'
  <2>1. ASSUME NEW k \in 1..m
        PROVE  /\ \A j \in 1..HeaderLen :
                    stream'[starts'[k] + j] = ToLeBytes(Len(Enc[sent'[k]]))[j]
               /\ \A j \in 1..Len(Enc[sent'[k]]) :
                    stream'[starts'[k] + HeaderLen + j] = Enc[sent'[k]][j]
    <3>0. /\ starts[k] \in Nat /\ Len(Enc[sent[k]]) \in Nat
          /\ starts[k] + HeaderLen <= Len(stream)
          /\ starts[k] + HeaderLen + Len(Enc[sent[k]]) <= Len(stream)
      BY <1>9
    <3>1. /\ \A j \in 1..HeaderLen : starts[k] + j \in 1..Len(stream)
          /\ \A j \in 1..Len(Enc[sent[k]]) : starts[k] + HeaderLen + j \in 1..Len(stream)
      BY <1>c, <3>0, FrameOffsets, Zenon
    <3>3. /\ \A j \in 1..HeaderLen : stream[starts[k] + j] = ToLeBytes(Len(Enc[sent[k]]))[j]
          /\ \A j \in 1..Len(Enc[sent[k]]) : stream[starts[k] + HeaderLen + j] = Enc[sent[k]][j]
      BY <1>0, <1>9 DEF Contents, m
    <3>4. sent'[k] = sent[k] /\ starts'[k] = starts[k]
      BY <1>9
    <3> QED  BY <1>5, <3>1, <3>3, <3>4
  <2>2. m + 1 \in 1..(m + 1) /\ (m + 1) + 1 = m + 2
    BY <1>c DEF m
  <2>3. \A j \in 1..HeaderLen :
           stream'[starts'[m + 1] + j] = ToLeBytes(Len(Enc[sent'[m + 1]]))[j]
    <3>1. starts'[m + 1] = Len(stream) /\ sent'[m + 1] = o
      BY <1>3, <1>6, <1>7, <2>2
    <3> QED  BY <1>5, <3>1 DEF hd
  <2>4. starts'[m + 2] <= Len(stream') => Len(Enc[sent'[m + 1]]) = 0
    BY <1>1, <1>3, <1>5, <1>6, <1>7 DEF HeaderLen, L
  <2>5. ASSUME NEW k \in 1..(m + 1)
        PROVE  k \in 1..m \/ k = m + 1
    BY <1>c DEF m
  <2> QED  BY <1>6, <2>1, <2>2, <2>3, <2>4, <2>5 DEF Contents
<1>12. PrefixDelivery' /\ Alignment' /\ EofLosesNothing'
  <2>1. \A i \in 1..Len(received) : i \in 1..m
    BY <1>c DEF m
  <2>2. PrefixDelivery'
    BY <1>0, <1>2, <1>6, <1>c, <2>1 DEF PrefixDelivery, m
  <2>3. Len(received) + 1 \in 1..(m + 1)
    BY <1>c DEF m
  <2>4. Alignment'
    BY <1>0, <1>2, <1>7, <2>3 DEF Alignment
  <2> QED  BY <1>0, <1>2, <2>2, <2>4 DEF EofLosesNothing
<1>e. EndAfterDrop'
  BY <1>0, <1>2 DEF EndAfterDrop
<1>13. Acknowledged'
  <2>1. acked = m /\ m \in Nat
    BY <1>0, <1>2, <1>c DEF Acknowledged, m
  <2>2. \A k \in 1..acked : starts'[k + 1] <= flushed
    BY <1>0, <1>9, <2>1 DEF Acknowledged
  <2> QED  BY <1>2, <1>6, <2>1, <2>2 DEF Acknowledged
<1>14. NoStrandedFrame'
  BY <1>0, <1>1, <1>2, AppendKeepsBuffer DEF receiverVars
<1> QED  BY <1>8, <1>10, <1>11, <1>12, <1>13, <1>14, <1>e DEF IInv

LEMMA SendPayloadStep ==
  ASSUME IInv, SendPayload
  PROVE  IInv'
<1> DEFINE m == Len(sent)
           msg == Enc[sent[m]]
           L == Len(msg)
<1>0. /\ TypeOK /\ Boundaries /\ Contents /\ PrefixDelivery /\ Alignment
      /\ Acknowledged /\ EndAfterDrop /\ NoStrandedFrame /\ EofLosesNothing
  BY DEF IInv
<1>1. /\ stream' = stream \o msg /\ spc = "payload" /\ spc' = "flush"
      /\ UNCHANGED <<flushed, sent, starts, acked, read, drained, rpc, received>>
  BY DEF SendPayload, receiverVars
<1>c. /\ Len(stream) \in Nat /\ m \in Nat /\ m > 0 /\ flushed <= Len(stream) /\ flushed \in Nat
      /\ Len(stream) = starts[m] + HeaderLen
  BY <1>0, <1>1, Counts DEF Boundaries
<1>2. /\ msg \in Seq(Byte) /\ L \in Nat /\ starts[m] \in Nat
      /\ starts[m + 1] = starts[m] + HeaderLen + L
  <2>1. m \in 1..Len(sent) /\ m \in 1..Len(starts)
    BY <1>0, <1>c, Counts DEF Boundaries
  <2> QED  BY <1>0, <2>1, Counts, EncIsBytes DEF Boundaries
<1> HIDE DEF msg
<1>3. /\ stream' \in Seq(Byte) /\ Len(stream') = Len(stream) + L
      /\ \A i \in 1..Len(stream) : stream'[i] = stream[i]
      /\ \A j \in 1..L : stream'[Len(stream) + j] = msg[j]
  <2>1. stream \in Seq(Byte)
    BY <1>0 DEF TypeOK
  <2>2. /\ stream \o msg \in Seq(Byte) /\ Len(stream \o msg) = Len(stream) + Len(msg)
        /\ \A i \in 1..Len(stream) : (stream \o msg)[i] = stream[i]
        /\ \A j \in 1..Len(msg) : (stream \o msg)[Len(stream) + j] = msg[j]
    BY <1>2, <2>1, Appended, Zenon
  <2> QED  BY <1>1, <2>2, Zenon
<1> HIDE DEF L
<1>4. TypeOK'
  <2>1. flushed \in 0..Len(stream')
    BY <1>2, <1>3, <1>c
  <2> QED  BY <1>0, <1>1, <1>3, <2>1 DEF TypeOK, SenderStates
<1>5. Len(stream') = starts[m + 1] /\ Len(stream) <= Len(stream')
  BY <1>2, <1>3, <1>c DEF HeaderLen
<1>6. ASSUME NEW k \in 1..m
      PROVE  /\ starts[k] \in Nat /\ Len(Enc[sent[k]]) \in Nat
             /\ starts[k] + HeaderLen <= Len(stream)
             /\ starts[k + 1] = starts[k] + HeaderLen + Len(Enc[sent[k]])
             /\ k # m => starts[k + 1] <= Len(stream)
  <2>1. k \in 1..Len(starts) /\ sent[k] \in Objects /\ (k # m => k \in 1..(m - 1))
    BY <1>0, <1>c, Counts DEF Boundaries
  <2>2. /\ starts[k] + HeaderLen <= Len(stream)
        /\ starts[k + 1] = starts[k] + HeaderLen + Len(Enc[sent[k]])
        /\ k # m => starts[k + 1] <= Len(stream)
    BY <1>0, <2>1 DEF Boundaries
  <2> QED  BY <1>0, <2>1, <2>2, Counts, EncIsBytes
<1>7. Boundaries'
  <2>0. Len(stream') \in Nat
    BY <1>2, <1>3, <1>c
  <2>1. ASSUME NEW k \in 1..m
        PROVE  starts[k] + HeaderLen <= Len(stream')
    <3>1. starts[k] + HeaderLen \in Nat /\ starts[k] + HeaderLen <= Len(stream)
      BY <1>6 DEF HeaderLen
    <3> QED  BY <1>5, <1>c, <2>0, <3>1, AtMost, Zenon
  <2>2. ASSUME NEW k \in 1..(m - 1)
        PROVE  starts[k + 1] <= Len(stream')
    <3>1. k \in 1..m /\ k # m
      BY <1>c
    <3>2. starts[k + 1] \in Nat /\ starts[k + 1] <= Len(stream)
      BY <1>6, <3>1 DEF HeaderLen
    <3> QED  BY <1>5, <1>c, <2>0, <3>2, AtMost, Zenon
  <2>3. Len(stream') <= starts[m + 1]
    BY <1>2, <1>3, <1>5, <1>c
  <2> QED  BY <1>0, <1>1, <1>5, <1>c, <2>1, <2>2, <2>3 DEF Boundaries
<1>8. Contents'
  <2>1. ASSUME NEW k \in 1..m
        PROVE  /\ \A j \in 1..HeaderLen :
                    stream'[starts[k] + j] = ToLeBytes(Len(Enc[sent[k]]))[j]
               /\ \A j \in 1..Len(Enc[sent[k]]) :
                    stream'[starts[k] + HeaderLen + j] = Enc[sent[k]][j]
    <3>1. \A j \in 1..HeaderLen : starts[k] + j \in 1..Len(stream)
      <4>1. starts[k] \in Nat /\ starts[k] + HeaderLen + 0 <= Len(stream)
        BY <1>6, <1>c DEF HeaderLen
      <4> QED  BY <1>c, <4>1, FrameOffsets
    <3>2. \A j \in 1..HeaderLen : stream'[starts[k] + j] = ToLeBytes(Len(Enc[sent[k]]))[j]
      BY <1>0, <1>3, <3>1 DEF Contents, m
    <3>3. CASE k = m
      BY <1>3, <1>c, <3>2, <3>3 DEF msg, L
    <3>4. CASE k # m
      <4>1. /\ starts[k] \in Nat /\ Len(Enc[sent[k]]) \in Nat /\ Len(stream) \in Nat
            /\ starts[k] + HeaderLen + Len(Enc[sent[k]]) <= Len(stream)
            /\ starts[k + 1] <= Len(stream)
        BY <1>6, <1>c, <3>4
      <4>2. \A j \in 1..Len(Enc[sent[k]]) : starts[k] + HeaderLen + j \in 1..Len(stream)
        BY <4>1, FrameOffsets, Zenon
      <4>3. \A j \in 1..Len(Enc[sent[k]]) :
               stream[starts[k] + HeaderLen + j] = Enc[sent[k]][j]
        BY <1>0, <4>1 DEF Contents, m
      <4> QED  BY <1>3, <3>2, <4>2, <4>3
    <3> QED  BY <3>3, <3>4
  <2> QED  BY <1>1, <2>1 DEF Contents
<1>9. PrefixDelivery' /\ Alignment' /\ EofLosesNothing' /\ Acknowledged' /\ EndAfterDrop'
  BY <1>0, <1>1 DEF PrefixDelivery, Alignment, EofLosesNothing, Acknowledged, EndAfterDrop
<1>10. NoStrandedFrame'
  BY <1>0, <1>1, <1>2, AppendKeepsBuffer DEF receiverVars
<1> QED  BY <1>4, <1>7, <1>8, <1>9, <1>10 DEF IInv

\* Acknowledging, writing out or giving up touches no byte of the log.
LEMMA FlushDoneStep ==
  ASSUME IInv, FlushDone
  PROVE  IInv'
<1>0. /\ TypeOK /\ Boundaries /\ Contents /\ PrefixDelivery /\ Alignment
      /\ Acknowledged /\ EndAfterDrop /\ NoStrandedFrame /\ EofLosesNothing
  BY DEF IInv
<1>1. /\ spc = "flush" /\ flushed = Len(stream) /\ spc' = "idle" /\ acked' = acked + 1
      /\ UNCHANGED <<stream, flushed, sent, starts, read, drained, rpc, received>>
  BY DEF FlushDone, receiverVars
<1>2. /\ Len(sent) \in Nat /\ acked = Len(sent) - 1 /\ acked' = Len(sent)
      /\ starts[Len(sent) + 1] = Len(stream)
  BY <1>0, <1>1, Counts DEF Acknowledged, Boundaries
<1>3. TypeOK' /\ Boundaries' /\ Contents' /\ PrefixDelivery' /\ Alignment'
  BY <1>0, <1>1, <1>2 DEF TypeOK, SenderStates, Boundaries, Contents, PrefixDelivery, Alignment
<1>4. Acknowledged'
  <2>1. ASSUME NEW k \in 1..Len(sent) PROVE starts[k + 1] <= flushed
    <3>1. CASE k \in 1..acked
      BY <1>0, <3>1 DEF Acknowledged
    <3>2. CASE k = Len(sent)
      BY <1>0, <1>1, <1>2, <3>2, Counts
    <3> QED  BY <1>2, <3>1, <3>2
  <2> QED  BY <1>1, <1>2, <2>1 DEF Acknowledged
<1>5. NoStrandedFrame'
  BY <1>0, <1>1 DEF NoStrandedFrame, Complete, FrameSize, FromLeBytes, BufferAt
<1>6. EofLosesNothing' /\ EndAfterDrop'
  BY <1>0, <1>1 DEF EofLosesNothing, EndAfterDrop
<1> QED  BY <1>3, <1>4, <1>5, <1>6 DEF IInv

LEMMA TransmitStep ==
  ASSUME IInv, Transmit
  PROVE  IInv'
<1>0. /\ TypeOK /\ Boundaries /\ Contents /\ PrefixDelivery /\ Alignment
      /\ Acknowledged /\ EndAfterDrop /\ NoStrandedFrame /\ EofLosesNothing
  BY DEF IInv
<1>1. /\ flushed' \in (flushed + 1)..Len(stream)
      /\ UNCHANGED <<stream, spc, sent, starts, acked, read, drained, rpc, received>>
  BY DEF Transmit, senderVars, receiverVars
<1>2. /\ flushed \in Nat /\ flushed' \in Nat /\ flushed < flushed' /\ flushed' <= Len(stream)
  BY <1>0, <1>1, Counts
<1>3. TypeOK'
  <2>1. flushed' \in 0..Len(stream) /\ read \in 0..flushed'
    BY <1>0, <1>2, Counts
  <2> QED  BY <1>0, <1>1, <2>1 DEF TypeOK
<1>4. Boundaries' /\ Contents' /\ PrefixDelivery' /\ Alignment'
  BY <1>0, <1>1 DEF Boundaries, Contents, PrefixDelivery, Alignment
<1>5. Acknowledged'
  <2>1. ASSUME NEW k \in 1..acked PROVE starts[k + 1] <= flushed'
    <3>1. k + 1 \in 1..Len(starts)
      BY <1>0, Counts DEF TypeOK, Acknowledged, Boundaries
    <3>2. starts[k + 1] \in Nat /\ starts[k + 1] <= flushed
      BY <1>0, <3>1, Counts DEF Acknowledged
    <3> QED  BY <1>2, <3>2
  <2> QED  BY <1>0, <1>1, <2>1 DEF Acknowledged
<1>6. NoStrandedFrame' /\ EofLosesNothing' /\ EndAfterDrop'
  BY <1>0, <1>1 DEF NoStrandedFrame, EofLosesNothing, EndAfterDrop,
                    Complete, FrameSize, FromLeBytes, BufferAt
<1> QED  BY <1>3, <1>4, <1>5, <1>6 DEF IInv

LEMMA DropSenderStep ==
  ASSUME IInv, DropSender
  PROVE  IInv'
<1>1. /\ spc' = "dropped"
      /\ UNCHANGED <<stream, flushed, sent, starts, acked, read, drained, rpc, received>>
  BY DEF DropSender, receiverVars
<1>2. TypeOK' /\ Boundaries' /\ Contents' /\ PrefixDelivery' /\ Alignment'
  BY <1>1 DEF IInv, TypeOK, SenderStates, Boundaries, Contents, PrefixDelivery, Alignment
<1>3. Acknowledged' /\ EofLosesNothing' /\ EndAfterDrop'
  BY <1>1 DEF IInv, Acknowledged, EofLosesNothing, EndAfterDrop
<1>4. NoStrandedFrame'
  BY <1>1 DEF IInv, NoStrandedFrame, Complete, FrameSize, FromLeBytes, BufferAt
<1> QED  BY <1>2, <1>3, <1>4 DEF IInv

\* The steps of recv_obj leave the log and its history alone.
LEMMA ReceiverKeepsLog ==
  ASSUME Boundaries, Contents, UNCHANGED senderVars
  PROVE  Boundaries' /\ Contents'
  BY DEF senderVars, Boundaries, Contents

\* Returning the first frame of recv_buffer, with n bytes read so far, returns
\* the next object that was sent and leaves recv_buffer at the next boundary.
LEMMA DeliverStep ==
  ASSUME TypeOK, Boundaries, Contents, Alignment, PrefixDelivery,
         NEW n \in read..flushed, Complete(BufferAt(n)), Deliver(BufferAt(n)),
         UNCHANGED senderVars
  PROVE  /\ rpc' = "idle" /\ received' \in Seq(Objects)
         /\ Len(received') = Len(received) + 1
         /\ Len(received) < Len(sent)
         /\ received' = Append(received, sent[Len(received) + 1])
         /\ drained' \in 0..n
         /\ PrefixDelivery' /\ Alignment'
<1> DEFINE k == Len(received) + 1
           buf == BufferAt(n)
<1>1. n \in drained..Len(stream) /\ n \in Nat
  BY Counts
<1>2. /\ k \in 1..Len(sent)
      /\ drained + FrameSize(buf) = starts[Len(received) + 2]
      /\ starts[Len(received) + 2] <= n
      /\ SubSeq(buf, HeaderLen + 1, FrameSize(buf)) = Enc[sent[k]]
  BY <1>1, NextFrame
<1>3. sent[k] \in Objects
  BY <1>2, Counts
<1>4. \A o \in Objects : Decodes(Enc[sent[k]], o) <=> o = sent[k]
  BY <1>3, EncAssumption, Zenon DEF Decodes
<1>5. /\ drained' = starts[Len(received) + 2]
      /\ received' = Append(received, sent[k]) /\ rpc' = "idle"
  <2> HIDE DEF buf, k
  <2>1. /\ drained' = drained + FrameSize(buf)
        /\ \/ \E o \in Objects : /\ Decodes(Enc[sent[k]], o)
                                 /\ received' = Append(received, o) /\ rpc' = "idle"
           \/ \A o \in Objects : ~Decodes(Enc[sent[k]], o)
    BY <1>2, Zenon DEF Deliver, buf
  <2> QED  BY <1>2, <1>3, <1>4, <2>1, Zenon
<1>6. /\ received' \in Seq(Objects) /\ Len(received') = k /\ received'[k] = sent[k]
      /\ \A i \in 1..Len(received) : received'[i] = received[i]
  BY <1>3, <1>5 DEF TypeOK
<1>7. drained' \in 0..n
  <2>1. Len(received) + 2 \in 1..Len(starts)
    BY <1>2, Counts DEF Boundaries
  <2>2. starts[Len(received) + 2] \in Nat
    BY <2>1, Counts
  <2> QED  BY <1>1, <1>2, <1>5, <2>2
<1>8. Alignment'
  <2>1. Len(received') + 1 = Len(received) + 2
    BY <1>6, Counts
  <2> QED  BY <1>5, <2>1 DEF Alignment, senderVars
<1>9. PrefixDelivery'
  <2>1. ASSUME NEW i \in 1..k PROVE received'[i] = sent[i]
    <3>1. CASE i \in 1..Len(received)
      BY <1>6, <3>1 DEF PrefixDelivery
    <3>2. CASE i = k
      BY <1>6, <3>2
    <3> QED  BY <3>1, <3>2, Counts
  <2> QED  BY <1>2, <1>5, <1>6, <2>1 DEF PrefixDelivery, senderVars
<1>10. Len(received) < Len(sent)
  BY <1>2, Counts
<1> QED  BY <1>5, <1>6, <1>7, <1>8, <1>9, <1>10

LEMMA RecvCallStep ==
  ASSUME IInv, RecvCall
  PROVE  IInv'
<1>0. /\ TypeOK /\ Boundaries /\ Contents /\ PrefixDelivery /\ Alignment
      /\ Acknowledged /\ EndAfterDrop /\ NoStrandedFrame /\ EofLosesNothing
  BY DEF IInv
<1>1. /\ rpc = "idle" /\ UNCHANGED <<read, flushed, senderVars>>
      /\ UNCHANGED <<stream, spc, sent, starts, acked>>
  BY DEF RecvCall, senderVars
<1>2. Boundaries' /\ Contents'
  BY <1>0, <1>1, ReceiverKeepsLog
<1>3. Acknowledged'
  BY <1>0, <1>1 DEF Acknowledged
<1>4. CASE Complete(BufferAt(read)) /\ Deliver(BufferAt(read))
  <2>1. read \in read..flushed
    BY <1>0, Counts
  <2>2. /\ rpc' = "idle" /\ received' \in Seq(Objects) /\ drained' \in 0..read
        /\ PrefixDelivery' /\ Alignment'
    BY <1>0, <1>1, <1>4, <2>1, DeliverStep
  <2>3. TypeOK' /\ EndAfterDrop' /\ NoStrandedFrame' /\ EofLosesNothing'
    BY <1>0, <1>1, <2>2 DEF TypeOK, ReceiverStates, EndAfterDrop, NoStrandedFrame, EofLosesNothing
  <2> QED  BY <1>2, <1>3, <2>2, <2>3 DEF IInv
<1>5. CASE ~Complete(BufferAt(read)) /\ rpc' = "reading" /\ UNCHANGED <<drained, received>>
  <2>1. TypeOK' /\ PrefixDelivery' /\ Alignment' /\ EndAfterDrop' /\ EofLosesNothing'
    BY <1>0, <1>1, <1>5
       DEF TypeOK, ReceiverStates, PrefixDelivery, Alignment, EndAfterDrop, EofLosesNothing
  <2>2. NoStrandedFrame'
    BY <1>1, <1>5 DEF NoStrandedFrame, Complete, FrameSize, FromLeBytes, BufferAt
  <2> QED  BY <1>2, <1>3, <2>1, <2>2 DEF IInv
<1> QED  BY <1>4, <1>5 DEF RecvCall

LEMMA ReadChunkStep ==
  ASSUME IInv, ReadChunk
  PROVE  IInv'
<1>0. /\ TypeOK /\ Boundaries /\ Contents /\ PrefixDelivery /\ Alignment
      /\ Acknowledged /\ EndAfterDrop /\ NoStrandedFrame /\ EofLosesNothing
  BY DEF IInv
<1>1. /\ rpc = "reading" /\ UNCHANGED <<flushed, senderVars>>
      /\ UNCHANGED <<stream, spc, sent, starts, acked>>
  BY DEF ReadChunk, senderVars
<1>2. Boundaries' /\ Contents'
  BY <1>0, <1>1, ReceiverKeepsLog
<1>3. Acknowledged'
  BY <1>0, <1>1 DEF Acknowledged
<1>4. PICK n \in 1..ReadSize :
         /\ n <= flushed - read
         /\ read' = read + n
         /\ \/ Complete(BufferAt(read + n)) /\ Deliver(BufferAt(read + n))
            \/ ~Complete(BufferAt(read + n)) /\ UNCHANGED <<drained, rpc, received>>
  BY DEF ReadChunk
<1>5. read + n \in read..flushed /\ read' \in 0..flushed /\ drained \in 0..read'
  BY <1>0, <1>4, BoundAssumption, Counts
<1>6. CASE Complete(BufferAt(read + n)) /\ Deliver(BufferAt(read + n))
  <2>1. /\ rpc' = "idle" /\ received' \in Seq(Objects) /\ drained' \in 0..read'
        /\ PrefixDelivery' /\ Alignment'
    BY <1>0, <1>1, <1>4, <1>5, <1>6, DeliverStep
  <2>2. TypeOK' /\ EndAfterDrop' /\ NoStrandedFrame' /\ EofLosesNothing'
    BY <1>0, <1>1, <1>5, <2>1
       DEF TypeOK, ReceiverStates, EndAfterDrop, NoStrandedFrame, EofLosesNothing
  <2> QED  BY <1>2, <1>3, <2>1, <2>2 DEF IInv
<1>7. CASE ~Complete(BufferAt(read + n)) /\ UNCHANGED <<drained, rpc, received>>
  <2>1. TypeOK' /\ PrefixDelivery' /\ Alignment' /\ EndAfterDrop' /\ EofLosesNothing'
    BY <1>0, <1>1, <1>5, <1>7
       DEF TypeOK, PrefixDelivery, Alignment, EndAfterDrop, EofLosesNothing
  <2>2. NoStrandedFrame'
    BY <1>1, <1>4, <1>7 DEF NoStrandedFrame, Complete, FrameSize, FromLeBytes, BufferAt
  <2> QED  BY <1>2, <1>3, <2>1, <2>2 DEF IInv
<1> QED  BY <1>4, <1>6, <1>7

\* Cancelling recv_obj and a failing read change nothing but where it is.
LEMMA StopReadingStep ==
  ASSUME IInv, CancelRecv \/ ReadError
  PROVE  IInv'
<1>1. /\ rpc = "reading" /\ rpc' \in {"idle", "io_error"}
      /\ UNCHANGED <<stream, flushed, spc, sent, starts, acked, read, drained, received>>
  BY DEF CancelRecv, ReadError, senderVars
<1>2. TypeOK' /\ Boundaries' /\ Contents' /\ PrefixDelivery' /\ Alignment' /\ Acknowledged'
  BY <1>1 DEF IInv, TypeOK, ReceiverStates, Boundaries, Contents, PrefixDelivery,
              Alignment, Acknowledged
<1>3. NoStrandedFrame' /\ EofLosesNothing' /\ EndAfterDrop'
  BY <1>1 DEF NoStrandedFrame, EofLosesNothing, EndAfterDrop
<1> QED  BY <1>2, <1>3 DEF IInv

LEMMA ReadEofStep ==
  ASSUME IInv, ReadEof
  PROVE  IInv'
<1>0. /\ TypeOK /\ Boundaries /\ Contents /\ PrefixDelivery /\ Alignment
      /\ Acknowledged /\ NoStrandedFrame
  BY DEF IInv
<1>1. /\ rpc = "reading" /\ spc = "dropped" /\ read = flushed /\ rpc' = "eof"
      /\ UNCHANGED <<stream, flushed, spc, sent, starts, acked, read, drained, received>>
  BY DEF ReadEof, senderVars
<1>2. TypeOK' /\ Boundaries' /\ Contents' /\ PrefixDelivery' /\ Alignment' /\ Acknowledged'
  BY <1>0, <1>1 DEF TypeOK, ReceiverStates, Boundaries, Contents, PrefixDelivery,
                    Alignment, Acknowledged
<1>3. NoStrandedFrame' /\ EndAfterDrop'
  BY <1>1 DEF NoStrandedFrame, EndAfterDrop
<1>4. Len(received) >= acked
  <2>1. SUFFICES ASSUME Len(received) < acked PROVE FALSE
    BY <1>0, Counts DEF TypeOK
  <2>2. /\ Len(received) + 1 \in 1..acked /\ Len(received) < Len(sent)
        /\ (Len(received) + 1) + 1 = Len(received) + 2
    BY <1>0, <2>1, Counts DEF TypeOK, Acknowledged
  <2>3. starts[Len(received) + 2] <= read
    BY <1>0, <1>1, <2>2 DEF Acknowledged
  <2>4. read \in drained..Len(stream)
    BY <1>0, Counts
  <2>5. Complete(BufferAt(read))
    BY <1>0, <2>2, <2>3, <2>4, ReachesFrameEnd
  <2> QED  BY <1>0, <1>1, <2>5 DEF NoStrandedFrame
<1>5. EofLosesNothing'
  BY <1>1, <1>4 DEF EofLosesNothing
<1> QED  BY <1>2, <1>3, <1>5 DEF IInv

LEMMA StutterStep ==
  ASSUME IInv, UNCHANGED vars
  PROVE  IInv'
<1>1. UNCHANGED <<stream, flushed, read, drained, spc, rpc, sent, starts, acked, received>>
  BY DEF vars
<1>2. TypeOK' /\ PrefixDelivery' /\ Alignment' /\ Acknowledged'
  BY <1>1 DEF IInv, TypeOK, PrefixDelivery, Alignment, Acknowledged
<1>3. Boundaries' /\ Contents'
  BY <1>1 DEF IInv, Boundaries, Contents
<1>4. NoStrandedFrame' /\ EofLosesNothing' /\ EndAfterDrop'
  BY <1>1 DEF IInv, EndAfterDrop, NoStrandedFrame, EofLosesNothing,
              Complete, FrameSize, FromLeBytes, BufferAt
<1> QED  BY <1>2, <1>3, <1>4 DEF IInv

\* Every step of send_obj, of the stream and of recv_obj preserves IInv.
LEMMA NextIInv == IInv /\ [Next]_vars => IInv'
<1> SUFFICES ASSUME IInv, [Next]_vars PROVE IInv'
  OBVIOUS
<1>1. ASSUME NEW o \in Objects, SendSize(o) PROVE IInv'
  BY <1>1, SendSizeStep
<1>2. CASE SendPayload
  BY <1>2, SendPayloadStep
<1>3. CASE FlushDone
  BY <1>3, FlushDoneStep
<1>4. CASE Transmit
  BY <1>4, TransmitStep
<1>5. CASE DropSender
  BY <1>5, DropSenderStep
<1>6. CASE RecvCall
  BY <1>6, RecvCallStep
<1>7. CASE ReadChunk
  BY <1>7, ReadChunkStep
<1>8. CASE CancelRecv \/ ReadError
  BY <1>8, StopReadingStep
<1>9. CASE ReadEof
  BY <1>9, ReadEofStep
<1>10. CASE UNCHANGED vars
  BY <1>10, StutterStep
<1> QED  BY <1>1, <1>2, <1>3, <1>4, <1>5, <1>6, <1>7, <1>8, <1>9, <1>10 DEF Next, Send

-----------------------------------------------------------------------------
(* The theorems.                                                           *)

\* The invariant holds in every reachable state.
THEOREM Invariance == Spec => []IInv
<1>1. Init => IInv
  BY InitIInv
<1>2. IInv /\ [Next]_vars => IInv'
  BY NextIInv
<1> QED  BY <1>1, <1>2, PTL DEF Spec

\* The cursors of the stream and of recv_buffer stay in order
\* (transport.rs:135-157).
THEOREM TypeCorrect == Spec => []TypeOK
<1>1. IInv => TypeOK
  BY DEF IInv
<1> QED  BY <1>1, Invariance, PTL

\* recv_obj returns what send_obj was given, in order, and no frame fails to
\* deserialise: for every set of objects, injective encoding and read size,
\* wherever the stream is cut and recv_obj cancelled (transport.rs:108-160).
THEOREM FramingCorrect == Spec => []PrefixDelivery
<1>1. IInv => PrefixDelivery
  BY DEF IInv
<1> QED  BY <1>1, Invariance, PTL

\* recv_obj never waits for bytes while it holds a whole frame
\* (transport.rs:122-131).
THEOREM NoFrameStranded == Spec => []NoStrandedFrame
<1>1. IInv => NoStrandedFrame
  BY DEF IInv
<1> QED  BY <1>1, Invariance, PTL

\* The end of the stream is reported only after every object whose send_obj
\* returned Ok has been returned (transport.rs:116, 140-144).
THEOREM EndLosesNothing == Spec => []EofLosesNothing
<1>1. IInv => EofLosesNothing
  BY DEF IInv
<1> QED  BY <1>1, Invariance, PTL

-----------------------------------------------------------------------------
(* The refinement of ObjectChannel.                                        *)

\* A step of send_obj is a call, a return or invisible.
LEMMA SenderRefines ==
  ASSUME IInv, UNCHANGED <<rpc, received>>,
         \/ \E o \in Objects : SendSize(o)
         \/ SendPayload \/ FlushDone \/ Transmit \/ DropSender
  PROVE  [Channel!Next]_(Channel!vars)
<1>0. /\ acked \in Nat /\ sent \in Seq(Objects) /\ Acknowledged /\ EndAfterDrop
  BY DEF IInv, TypeOK
<1>1. CASE \E o \in Objects : SendSize(o)
  <2>1. PICK o \in Objects : SendSize(o)
    BY <1>1
  <2>2. /\ spc = "idle" /\ sent' = Append(sent, o) /\ acked' = acked
    BY <2>1 DEF SendSize
  <2>3. acked = Len(sent) /\ rpc # "eof"
    BY <1>0, <2>2 DEF Acknowledged, EndAfterDrop
  <2>4. Channel!Send(o)
    BY <2>2, <2>3 DEF Channel!Send
  <2> QED  BY <2>4 DEF Channel!Next
<1>2. CASE FlushDone
  <2>1. spc = "flush" /\ acked' = acked + 1 /\ sent' = sent
    BY <1>2 DEF FlushDone
  <2>2. acked < Len(sent) /\ rpc # "eof"
    BY <1>0, <2>1 DEF Acknowledged, EndAfterDrop
  <2>3. Channel!Return
    BY <2>1, <2>2 DEF Channel!Return
  <2> QED  BY <2>3 DEF Channel!Next
<1>3. CASE SendPayload \/ Transmit \/ DropSender
  <2>1. UNCHANGED <<sent, acked>>
    BY <1>3 DEF SendPayload, Transmit, DropSender, senderVars
  <2> QED  BY <2>1 DEF Channel!vars
<1> QED  BY <1>1, <1>2, <1>3

\* Returning a frame is a Receive of the channel.
LEMMA DeliveryRefines ==
  ASSUME IInv, rpc \in {"idle", "reading"}, NEW n \in read..flushed,
         Complete(BufferAt(n)), Deliver(BufferAt(n)), UNCHANGED senderVars
  PROVE  Channel!Next
<1>1. /\ rpc' = "idle" /\ Len(received) < Len(sent)
      /\ received' = Append(received, sent[Len(received) + 1])
  BY DeliverStep DEF IInv
<1>2. UNCHANGED <<sent, acked>>
  BY DEF senderVars
<1>3. Channel!Receive
  BY <1>1, <1>2 DEF Channel!Receive
<1> QED  BY <1>3 DEF Channel!Next

\* A step of recv_obj is a Receive, the report of an error, or invisible.
LEMMA ReceiverRefines ==
  ASSUME IInv, RecvCall \/ ReadChunk \/ CancelRecv \/ ReadEof \/ ReadError
  PROVE  [Channel!Next]_(Channel!vars)
<1>0. /\ UNCHANGED senderVars /\ UNCHANGED <<sent, acked>>
  BY DEF RecvCall, ReadChunk, CancelRecv, ReadEof, ReadError, senderVars
<1>1. CASE RecvCall
  <2>1. CASE Complete(BufferAt(read)) /\ Deliver(BufferAt(read))
    <3>1. rpc = "idle" /\ read \in read..flushed
      BY <1>1, Counts DEF RecvCall, IInv
    <3> QED  BY <1>0, <2>1, <3>1, DeliveryRefines
  <2>2. CASE rpc' = "reading" /\ UNCHANGED <<drained, received>>
    BY <1>0, <1>1, <2>2 DEF RecvCall, Channel!vars
  <2> QED  BY <1>1, <2>1, <2>2 DEF RecvCall
<1>2. CASE ReadChunk
  <2>1. PICK n \in 1..ReadSize :
           /\ n <= flushed - read
           /\ \/ Complete(BufferAt(read + n)) /\ Deliver(BufferAt(read + n))
              \/ UNCHANGED <<drained, rpc, received>>
    BY <1>2 DEF ReadChunk
  <2>2. CASE Complete(BufferAt(read + n)) /\ Deliver(BufferAt(read + n))
    <3>1. rpc = "reading" /\ read + n \in read..flushed
      BY <1>2, <2>1, BoundAssumption, Counts DEF ReadChunk, IInv
    <3> QED  BY <1>0, <2>2, <3>1, DeliveryRefines
  <2>3. CASE UNCHANGED <<drained, rpc, received>>
    BY <1>0, <2>3 DEF Channel!vars
  <2> QED  BY <2>1, <2>2, <2>3
<1>3. CASE CancelRecv
  BY <1>0, <1>3 DEF CancelRecv, Channel!vars
<1>4. CASE ReadEof \/ ReadError
  <2>1. rpc = "reading" /\ rpc' \in {"eof", "io_error"} /\ received' = received
    BY <1>4 DEF ReadEof, ReadError
  <2>2. IInv'
    BY <1>4, ReadEofStep, StopReadingStep
  <2>3. rpc' = "eof" => Len(received) >= acked
    BY <1>0, <2>1, <2>2 DEF IInv, EofLosesNothing
  <2>4. Channel!Fail
    BY <1>0, <2>1, <2>3 DEF Channel!Fail
  <2> QED  BY <2>4 DEF Channel!Next
<1> QED  BY <1>1, <1>2, <1>3, <1>4

\* send_obj and recv_obj over the byte stream implement the FIFO channel of
\* objects that the handshake relies on, for every encoding and read size
\* (transport.rs:108-160).
THEOREM ImplementsChannel == Spec => ChannelSpec
<1>1. Init => Channel!Init
  BY DEF Init, Channel!Init
<1>2. IInv /\ [Next]_vars => [Channel!Next]_(Channel!vars)
  <2> SUFFICES ASSUME IInv, [Next]_vars PROVE [Channel!Next]_(Channel!vars)
    OBVIOUS
  <2>1. CASE (\E o \in Objects : SendSize(o))
             \/ SendPayload \/ FlushDone \/ Transmit \/ DropSender
    <3>1. UNCHANGED <<rpc, received>>
      BY <2>1 DEF SendSize, SendPayload, FlushDone, Transmit, DropSender, receiverVars
    <3> QED  BY <2>1, <3>1, SenderRefines
  <2>2. CASE RecvCall \/ ReadChunk \/ CancelRecv \/ ReadEof \/ ReadError
    BY <2>2, ReceiverRefines
  <2>3. CASE UNCHANGED vars
    BY <2>3 DEF vars, Channel!vars
  <2> QED  BY <2>1, <2>2, <2>3 DEF Next, Send
<1> QED  BY <1>1, <1>2, Invariance, PTL DEF Spec, ChannelSpec, Channel!Spec
=============================================================================
