---------------------------- MODULE StreamTransport ----------------------------
(***************************************************************************)
(* StreamTransport (upgrade2webrtc/src/transport.rs): objects over a byte  *)
(* stream, each one as a little-endian u32 length followed by its          *)
(* serialised bytes.  One direction of one connection: a sender calling    *)
(* send_obj, a receiver calling recv_obj from inside tokio::select!, which *)
(* may cancel recv_obj at its only await.                                  *)
(*                                                                         *)
(* The stream is an append-only log of bytes with cursors:                 *)
(*                                                                         *)
(*    0 ... drained ....... read ....... flushed ....... Len(stream)       *)
(*           |--recv_buffer--|---on the wire---|--write buffer--|          *)
(***************************************************************************)
EXTENDS Integers, Sequences

CONSTANTS
  Objects,   \* the objects that may be sent
  Enc,       \* bitcode: the serialised bytes of each object
  ReadSize,  \* size of recv_obj's local buffer (1024 in the code)
  MaxSends   \* bound: the number of send_obj calls

Byte == 0..255
HeaderLen == 4
Shift(n) == n \div 256

\* A length fits in a u32 (the code panics otherwise) and deserialize inverts
\* serialize.
ASSUME EncAssumption ==
  /\ Enc \in [Objects -> Seq(Byte)]
  /\ \A o \in Objects : Shift(Shift(Shift(Len(Enc[o])))) < 256
  /\ \A o, p \in Objects : Enc[o] = Enc[p] => o = p

ASSUME BoundAssumption == ReadSize \in Nat \ {0} /\ MaxSends \in Nat

VARIABLES
  stream,    \* every byte handed to the stream by write_all, in order
  flushed,   \* how many of them have left the sender's BufStream
  read,      \* how many of them recv_obj has read
  drained,   \* how many of them recv_obj has removed from recv_buffer
  spc,       \* where the sender is in send_obj; "dropped" once it is gone
  rpc,       \* where the receiver is: outside recv_obj, in it, or given up
  sent,      \* history: the objects passed to send_obj
  starts,    \* history: where each frame begins, and where the next one will
  acked,     \* history: the number of send_obj calls that returned Ok
  received   \* history: the objects recv_obj returned

senderVars == <<stream, spc, sent, starts, acked>>
receiverVars == <<read, drained, rpc, received>>
vars == <<stream, flushed, read, drained, spc, rpc, sent, starts, acked, received>>

Init ==
  /\ stream = <<>> /\ flushed = 0 /\ read = 0 /\ drained = 0
  /\ spc = "idle" /\ rpc = "idle"
  /\ sent = <<>> /\ starts = <<0>> /\ acked = 0 /\ received = <<>>

-----------------------------------------------------------------------------
(* send_obj *)

\* u32::to_le_bytes and u32::from_le_bytes
ToLeBytes(n) ==
  <<n % 256, Shift(n) % 256, Shift(Shift(n)) % 256, Shift(Shift(Shift(n))) % 256>>
FromLeBytes(b) == b[1] + 256 * (b[2] + 256 * (b[3] + 256 * b[4]))

\* write_all(size)
SendSize(o) ==
  /\ spc = "idle" /\ Len(sent) < MaxSends
  /\ stream' = stream \o ToLeBytes(Len(Enc[o]))
  /\ sent' = Append(sent, o)
  /\ starts' = Append(starts, starts[Len(starts)] + HeaderLen + Len(Enc[o]))
  /\ spc' = "payload"
  /\ UNCHANGED <<flushed, acked, receiverVars>>

\* write_all(msg)
SendPayload ==
  /\ spc = "payload"
  /\ stream' = stream \o Enc[sent[Len(sent)]]
  /\ spc' = "flush"
  /\ UNCHANGED <<flushed, sent, starts, acked, receiverVars>>

\* mutant: send_obj returns without flushing
AckUnflushed ==
  /\ spc = "flush"
  /\ spc' = "idle"
  /\ acked' = acked + 1
  /\ UNCHANGED <<stream, flushed, sent, starts, receiverVars>>

\* flush() returns once the write buffer is empty; send_obj returns Ok
FlushDone ==
  /\ spc = "flush" /\ flushed = Len(stream)
  /\ spc' = "idle"
  /\ acked' = acked + 1
  /\ UNCHANGED <<stream, flushed, sent, starts, receiverVars>>

\* The BufStream writes some of its bytes out: it does so when flushed and
\* whenever it is full, so any part of a frame may leave first.
Transmit ==
  /\ spc # "dropped"
  /\ flushed' \in (flushed + 1)..Len(stream)
  /\ UNCHANGED <<senderVars, receiverVars>>

\* The sending side is dropped: it returned an error, its task was aborted in
\* mid-call or it has finished.  A BufStream does not flush when dropped.
DropSender ==
  /\ spc # "dropped"
  /\ spc' = "dropped"
  /\ UNCHANGED <<stream, flushed, sent, starts, acked, receiverVars>>

-----------------------------------------------------------------------------
(* recv_obj *)

\* recv_buffer once n bytes have been read
BufferAt(n) == SubSeq(stream, drained + 1, n)
FrameSize(buf) == FromLeBytes(buf) + HeaderLen
\* mutant: > for >= in the test that a frame is whole
CompleteStrict(buf) == Len(buf) >= HeaderLen /\ Len(buf) > FrameSize(buf)

Complete(buf) == Len(buf) >= HeaderLen /\ Len(buf) >= FrameSize(buf)
Decodes(payload, o) == Enc[o] = payload

\* Deserialise the first frame of buf, drain it and return
Deliver(buf) ==
  LET payload == SubSeq(buf, HeaderLen + 1, FrameSize(buf))
  IN  /\ drained' = drained + FrameSize(buf)
      /\ \/ \E o \in Objects :
              /\ Decodes(payload, o)
              /\ received' = Append(received, o)
              /\ rpc' = "idle"
         \/ /\ \A o \in Objects : ~Decodes(payload, o)
            /\ rpc' = "deserialize_error"
            /\ UNCHANGED received

\* mutant: recv_obj always reads first
RecvCallSkipsBuffer ==
  /\ rpc = "idle"
  /\ rpc' = "reading"
  /\ UNCHANGED <<read, drained, received, flushed, senderVars>>

\* A call first looks for a whole frame left over in recv_buffer
RecvCall ==
  /\ rpc = "idle"
  /\ \/ Complete(BufferAt(read)) /\ Deliver(BufferAt(read))
     \/ /\ ~Complete(BufferAt(read))
        /\ rpc' = "reading"
        /\ UNCHANGED <<drained, received>>
  /\ UNCHANGED <<read, flushed, senderVars>>

\* mutant: the whole local buffer is kept, not the n bytes that were read
ReadWholeBuffer ==
  /\ rpc = "reading" /\ read < flushed
  /\ read' = read + ReadSize
  /\ UNCHANGED <<drained, rpc, received, flushed, senderVars>>

\* read(&mut buf) returns n > 0 bytes, which complete the first frame or not
ReadChunk ==
  /\ rpc = "reading"
  /\ \E n \in 1..ReadSize :
       /\ n <= flushed - read
       /\ read' = read + n
       /\ \/ Complete(BufferAt(read + n)) /\ Deliver(BufferAt(read + n))
          \/ ~Complete(BufferAt(read + n)) /\ UNCHANGED <<drained, rpc, received>>
  /\ UNCHANGED <<flushed, senderVars>>

\* mutant: the partial frame is a local of the future, lost with it
CancelRecvLosesBuffer ==
  /\ rpc = "reading"
  /\ rpc' = "idle"
  /\ drained' = read
  /\ UNCHANGED <<read, received, flushed, senderVars>>

\* Another select! branch completes first: the recv_obj future is dropped at
\* its await, when every byte it has read is in recv_buffer.
CancelRecv ==
  /\ rpc = "reading"
  /\ rpc' = "idle"
  /\ UNCHANGED <<read, drained, received, flushed, senderVars>>

\* read returns 0: the sender is gone and all that it flushed has been read
ReadEof ==
  /\ rpc = "reading" /\ spc = "dropped" /\ read = flushed
  /\ rpc' = "eof"
  /\ UNCHANGED <<read, drained, received, flushed, senderVars>>

\* read fails
ReadError ==
  /\ rpc = "reading"
  /\ rpc' = "io_error"
  /\ UNCHANGED <<read, drained, received, flushed, senderVars>>

-----------------------------------------------------------------------------
Send == \E o \in Objects : SendSize(o)
Next ==
  \/ Send \/ SendPayload \/ FlushDone \/ Transmit \/ DropSender
  \/ RecvCall \/ ReadChunk \/ CancelRecv \/ ReadEof \/ ReadError

Spec == Init /\ [][Next]_vars

\* The sender finishes a call it has begun and the stream moves bytes; the
\* receiver keeps calling recv_obj (every caller loops) and, select! choosing
\* at random among ready branches, its read is not cancelled every time.
Fairness ==
  /\ WF_vars(SendPayload) /\ WF_vars(FlushDone) /\ WF_vars(Transmit)
  /\ WF_vars(RecvCall) /\ SF_vars(ReadChunk) /\ SF_vars(ReadEof)
FairSpec == Spec /\ Fairness

-----------------------------------------------------------------------------
SenderStates == {"idle", "payload", "flush", "dropped"}
ReceiverStates == {"idle", "reading", "eof", "io_error", "deserialize_error"}

\* The cursors stay in order: recv_obj holds only bytes the peer flushed, and
\* drains only bytes it holds (transport.rs:135-157).
TypeOK ==
  /\ stream \in Seq(Byte)
  /\ flushed \in 0..Len(stream) /\ read \in 0..flushed /\ drained \in 0..read
  /\ spc \in SenderStates /\ rpc \in ReceiverStates
  /\ sent \in Seq(Objects) /\ received \in Seq(Objects)
  /\ starts \in Seq(Nat) /\ acked \in Nat

\* What recv_obj has returned is what send_obj was given, in order, and no
\* frame fails to deserialise, however the stream is cut into reads and
\* wherever recv_obj is cancelled (the "Cancel Safety" contract of recv_obj,
\* transport.rs:20-21, and the framing of 108-160).
PrefixDelivery ==
  /\ rpc # "deserialize_error"
  /\ Len(received) <= Len(sent)
  /\ \A i \in 1..Len(received) : received[i] = sent[i]

\* recv_obj never waits for the stream while a whole frame is already in
\* recv_buffer: a read that returns two frames leaves the second one there,
\* and the peer may be waiting for its answer (transport.rs:122-131).
NoStrandedFrame == rpc = "reading" => ~Complete(BufferAt(read))

\* When the receiver is told the stream ended, it has been given every object
\* whose send_obj returned Ok: a sender may drop the transport right after
\* its last send_obj (transport.rs:116 flushes, 140-144 reports the end).
EofLosesNothing == rpc = "eof" => Len(received) >= acked

Channel == INSTANCE ObjectChannel
             WITH end <- IF rpc \in {"idle", "reading"} THEN "open" ELSE rpc

\* Bytes, cursors and cancellations are invisible to the callers: send_obj and
\* recv_obj implement a FIFO channel of objects that reports its end only after
\* every object whose send_obj returned Ok (transport.rs:108-160).
ChannelSpec == Channel!Spec

\* Every object passed to send_obj is eventually returned by recv_obj, unless
\* the sender is dropped or the stream fails (transport.rs:108-160).
EventualDelivery ==
  \A k \in 1..MaxSends :
    Len(sent) >= k ~> (Len(received) >= k \/ spc = "dropped" \/ rpc = "io_error")
=============================================================================
