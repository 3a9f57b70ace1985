---------------------------- MODULE UnorderedStream ----------------------------
(***************************************************************************)
(* StreamTransport over a stream that is reliable but not ordered: bytes   *)
(* on the wire may change places.  The documentation of StreamTransport    *)
(* says that it "relies on the stream being *reliable* but not necessarily *)
(* ordered" (upgrade2webrtc/src/transport.rs:71).                          *)
(***************************************************************************)
EXTENDS StreamTransport

\* Two bytes on the wire overtake each other
Reorder ==
  /\ \E i, j \in (read + 1)..flushed :
       /\ i < j
       /\ stream' = [stream EXCEPT ![i] = stream[j], ![j] = stream[i]]
  /\ UNCHANGED <<flushed, spc, sent, starts, acked, receiverVars>>

UnorderedNext == Next \/ Reorder
UnorderedSpec == Init /\ [][UnorderedNext]_vars

-----------------------------------------------------------------------------
\* What the documentation asks of an unordered stream at the least: every
\* object that recv_obj returns was sent, and no frame fails to deserialise.
OnlySentObjects ==
  /\ rpc # "deserialize_error"
  /\ \A i \in 1..Len(received) : \E k \in 1..Len(sent) : received[i] = sent[k]
=============================================================================
