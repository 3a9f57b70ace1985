# A TLA+ model of mangle-webrtc

The repository holds two crates. `upgrade2webrtc` turns a stream between two processes (TCP, a
local socket, either of them under TLS) into a WebRTC peer connection: the two sides exchange an
offer, an answer and their ICE candidates over the stream. `webrtc-tunnel` is a command line tool
on top of it that forwards ports over the data channels of such a connection.

## 1. Inventory

| component | state | operations | interacts with |
|---|---|---|---|
| `StreamTransport` (transport.rs) | the stream, `recv_buffer` | `send_obj`, `recv_obj` (inside `select!`, so cancellable), end and failure of the stream | both ends of an upgrade |
| `UpgradeWebRTCClient::upgrade` (client.rs) | peer, channel of candidates, two `done` flags | offer, answer, ICE loop; may be called again on the same connection | `StreamTransport`; the peer's ICE gatherer through a callback |
| the server's task per connection (server.rs) | the same, once per offer | offer, answer, ICE loop, `on_success`, next offer; errors close the peer and call `on_err` | the same |
| `UpgradeWebRTCServer::run` (server.rs) | list of tasks, channel of close requests | accept, spawn, accept error, close, abort, join | listener, TLS acceptor, callbacks holding a `ServerHandle` |
| TLS credentials (tls.rs) | a certificate file and a key file | load, create, crash in between; copy to clients | other processes using the same files |
| tunnel server session (tunnel server.rs) | queue of data channels, one queue of messages per channel, local sockets | route, connect, one transfer, panic | `on_data_channel` of server.rs; the client's data channels |
| tunnel client (tunnel client.rs) | one forwarder task per port with its listener and map of UDP senders, one link task per connection or address, queues of datagrams and replies | accept, open a data channel, forward, reply; fail, Ctrl-C, abort, close, join | local programs, the peer connection |
| channel kinds and qualities (tunnel main.rs, lib.rs) | constants | the data channel configuration of a quality | both ends of the tunnel |
| error types, identifiers, constructors, argument parsing | none | formatting, parsing, wiring | |

What is hard here: `recv_obj` is dropped in mid-read by `select!`; the ICE gatherer runs
concurrently with the handshake that registers its callback; both sides send from inside the loop
that also receives; untagged message types share one stream; a connection may be used for several
upgrades; `run` closes while its tasks are anywhere; two files are written one after the other; the
tunnel's server serves data channels one at a time while messages arrive on all of them; its client
waits for one data channel inside the loop that accepts the next connection, and is interrupted
while its tasks are anywhere. `PROJECT.json`
lists each of these with its line under "hazards".

What makes each part correct: the transport delivers exactly what was sent; the two sides of an
upgrade agree on the type and the session of every message, report success only with every
candidate of the other side, and come to an end; the server stops completely when closed and
accepts whoever connects; one TLS identity survives restarts; the tunnel contacts only configured
ports, forwards what it is given, and its client stops when told to or when a forwarder fails.

## 2. Modules

Each module is named after the part it models; its actions are the steps between two awaits, so
that everything that can interleave in the code can interleave in the model. `PROJECT.json` "map"
gives the source lines of every definition. Operators whose comment says "mutant" are deliberately
wrong variants of the definition that follows them; no specification uses them.

* **StreamTransport**: one direction of one connection, byte by byte. The stream is a log of
  bytes with cursors for what was flushed, read and drained, so `recv_buffer` is a slice of it.
  `SendSize`, `SendPayload`, `FlushDone` are the awaits of `send_obj`; `RecvCall` is the look into
  `recv_buffer`, `ReadChunk`, `ReadEof`, `ReadError` the outcomes of `read`, `CancelRecv` the
  `select!` dropping the future there. `Transmit` (external) moves any number of bytes out of the
  `BufStream`; `DropSender` ends the sender at any await. `Enc` stands for bitcode: any injective
  encoding with lengths below 2^32.
* **ObjectChannel**: what a transport promises its callers, without bytes: a FIFO channel of objects
  that reports its end only after everything acknowledged. StreamTransport implements it
  (`ChannelSpec`); UpgradeHandshake is built on two of them.
* **UnorderedStream**: StreamTransport with bytes changing places, as the documentation allows.
* **CandidateExchange**: what an upgrade promises, without messages: sides publish candidates of a
  session, close their list, learn the other's, and conclude only when both lists are closed and
  everything published was learned.
* **UpgradeHandshake**: client and server task of one connection, with the ICE gatherers. The
  transport is two FIFO channels of whole objects, each an ObjectChannel. An object carries the Rust
  type it was serialised from; asking for another type is a DeserializeError. (bitcode is not self-describing: such a read can in
  principle succeed with nonsense. That case is left out: WireTypesAgree shows it does not arise
  unless a caller reuses a connection after an error.) Objects also carry the number of the upgrade
  call they belong to, which the code does not transmit; only properties look at it. The error paths
  are `BadMessage`, `ConnectionLost`, `WebRTCError`, `AddCandidateError`. The client's `ices`
  vector is always empty, as no server sends a bare `RTCMessage::ICE`, so it is not a variable.
* **UpgradeServer**: `run` with its `select!`, its tasks, its callbacks and closing. `running` is
  `running_tasks`, the list of handles: `Spawn` pushes, `CloseBranch` aborts what is in it (the loop
  has no await), `JoinTask` awaits the first and drops it, `Return` comes with its end; a panic of
  `run` drops it. A task is at one of its awaits: `recv_offer`, `new_peer`, then with a peer
  `set_remote`, `create_answer`, `send_answer`, `set_local`, and in the ICE loop `ice` (the
  `select!`), `send_ice`, `add_ice`. Errors go where the code sends them: before there is a peer
  straight to `on_err` (`FailsWithoutPeer`); afterwards through `returning!` (`WebRTCFails` is
  `webrtc_unwrap!`, `SendFails` and `RecvIceFails` the IOErrors and DeserializeErrors), which awaits
  `peer.close()` (`closing`) before it evaluates the call of `on_err`. An abort takes effect at any
  of these awaits. What is sent and received is left to UpgradeHandshake. `close` counts the
  requests in the `mpsc::channel(1)`. After `add_tls` (`tls`) the handshake lies inside `accept`.
* **TlsCredentials**: several processes in `new_tls_acceptor` over two files, with
  `std::fs::write` as truncate-then-write and crashes anywhere. A pair is a number; certificate and
  key belong together when the numbers are equal. `raced` and `crashed` record the circumstances
  that the properties name.
* **TunnelSession**: the callback `on_data_channel`, the queue of one data channel, and
  `on_success` of the tunnel's server. Messages are numbers, so loss and order show. `quality` gives
  each data channel the configuration of main.rs's `Quality`: TCP is FIFO, ReliableUnordered
  reorders, UDP reorders and loses.
* **TunnelClient**: `client_command`. `fwd` is the forwarder task of each port, `link` the life of
  each connection or address: in the backlog, accepted, opened, then its link task in `select!`, in
  the send loop (`sending`), panicked or ended. A TCP forwarder waits for the data channel to open
  in its own loop (`CreateChannel`, `SpawnLink`, `OpenFails`); a UDP forwarder queues a datagram for
  a known address, forgets an address whose task is gone, or makes a new one (`QueueDatagram`,
  `ForgetAddress`, `NewAddress`, `BindRefused`). `main` is the main task: `select!`, then abort,
  close and join after Ctrl-C, or an immediate return with the error of a forwarder. Bytes,
  datagrams and replies are numbers; `Slice` is what the send loop takes of the bytes it has read,
  `Front` what is forwarded of a datagram. Nothing runs once client_command has returned, as the
  process ends.
* **MC...** modules give the constants small values. The **...Proofs** module of each component
  EXTENDS it with its inductive invariant, lemmas and theorems; **SequenceLemmas** has the facts
  about sequences that several of them use.

Assumed of webrtc-rs, which is not part of the repository, from how the code uses it: gathering
starts with `set_local_description`, hands each candidate and finally None to the callback set at
that moment, awaits the callback, and drops what it finds while none is set; `on_data_channel`
callbacks of different channels run concurrently with each other and with the opening of their
channels; a data channel's messages are dispatched one after the other, to nobody when no handler
is set; `send` on a data channel that is not open is an error, and on one that is open it takes all
it is given; `on_open` is called also when the channel is open already; closing the peer connection
closes its data channels. Of the operating system: binding an address that is bound already may be
refused (`BindResults`). Of tokio: `recv_buf_from` appends to the vector it is given;
`select!` picks at random among the ready branches; an aborted task is dropped at its next await; a
panic in a task ends that task only; `mpsc` senders that wait for room are served in turn.

## 3. Runs

| run | checks | result |
|---|---|---|
| stream_transport | TypeOK, PrefixDelivery, NoStrandedFrame, EofLosesNothing, EventualDelivery, and the refinement ChannelSpec | hold |
| unordered_stream | OnlySentObjects | violated: a length or a payload byte out of place |
| handshake | TypeOK, WireTypesAgree, OwnAnswer, ServerLosesNothing, and the refinement ExchangeSpec | hold, with faults anywhere and connections reused after an error |
| handshake_live | UpgradeReturns, ServerFollows | hold without faults |
| lost_end | ClientUpgrades | violated: the final None is found before the callback is set |
| server | TypeOK, NoTaskOutlivesRun, NoPeerLeaked, CloseReturns, EventuallyAccepted | hold, with and without TLS |
| credentials | TypeOK, IdentityIsStable, FailureIsExplained, ClientsAccepted | hold |
| session | TypeOK, NoGap, OnlyConfigured, EveryChannelServed | hold |
| one_transfer | ForwardsReceived | violated: one transfer per data channel |
| tunnel_client | TypeOK, NoReplyLost, ClosesOnlyOnCtrlC, CtrlCReturns, FailureReturns, ConnectionServed, DatagramPlaced | hold, with faults anywhere |
| tcp_forward | Forwards | violated: the slice that is sent is empty |
| udp_forward | Forwards | violated: the second bind of the listener's address is refused |

The five violations are the disagreements between the code and its documents found while
modelling; "findings" in `PROJECT.json` quotes both. Some exceptions named inside properties are
worth knowing as well: with TLS a client that connects and stays silent blocks `accept` for
everybody (the last disjunct of EventuallyAccepted), a crash between the writes of certificate
and key, next to a left-over key, makes a server no client accepts (the last of ClientsAccepted), a data channel that never opens
holds up every later connection of its port (the last of ConnectionServed), and a message or reply
that comes before `on_message` is set is lost (NoGap and NoReplyLost are about the later ones).
UpgradeReturns depends on room on the transport: both ICE loops send from inside the `select!` that
also receives, and with room for a single object in each direction (WireCap = 1) both wait for ever.
OwnAnswer, and the client's half of ExchangeSpec, hold only for connections that are not reused after an error: a client that
calls `upgrade` again after an error can take the answer to an earlier offer for its own.

Deadlock checking is off everywhere: a sender may stop sending, an upgrade is finished, a server
returns. What must not get stuck is stated as a liveness property instead.

**Bounds.** stream_transport: three sends of payloads of 0, 1 and 2 bytes with reads of up to 7
bytes, so a read may hold a part of a header, exactly one frame, or the end of one and all of the
next. handshake: two candidates, a channel of two, two upgrades in a row: the gatherer blocks on the
full channel and a message left over by the first upgrade would meet the second; the wire holds four
objects, enough for the server to run ahead with its answer and all its candidates; the second
upgrade may follow an error of the first (`ReuseAfterError`), and then the client's conclusions are
not recorded. handshake_live has one candidate and channels of one and
three. server: three connections, one of them silent for ever, with TLS or without: a list of three handles
whose tasks end, panic or are cancelled in any order, and any number of upgrades on each connection.
credentials: three processes, one of
which may not create files, and two generated pairs. session: the four kinds of data channel,
two messages on each of two of them against a channel of one, with every quality. tunnel_client: two
connections to one TCP port, the channel of one of which never opens; three datagrams of one address
against a channel of one, so that the forwarder waits for room; three replies against a channel of
two; configurations with a TCP port, a UDP port, and a TCP port beside a LocalSocket; a second bind
that succeeds or fails. tcp_forward and udp_forward have one port, no faults, and the second bind
refused, as Linux does without SO_REUSEPORT. Symmetry is used only
where all properties are safety properties (candidates, and the two creating processes).

**Fairness.** Weak fairness for every step that a tokio task can take by itself. Strong fairness
where a step is enabled again and again but not continuously because `select!` may take the other
branch: tokio polls the branches in random order, so a branch that is ready infinitely often is
taken. Callbacks waiting for room in an mpsc channel are queued, hence strong fairness of
`QueueChannel`. In TunnelClient one weak fairness condition per tokio task covers all the steps of
that task (a task that can go on does), one per aborted forwarder its cancellation, and one per data
channel outside `NeverOpens` its opening. In UpgradeServer a client that is not silent finishes its TLS handshake or breaks it off (strong
fairness of `HandshakeDone`: an accept error may drop the connection instead). No fairness otherwise
for clients, for a connection's peer, for faults, for local programs, for Ctrl-C, or for what a task
does in UpgradeServer, `on_success` included, except that an aborted one is dropped. Two assumptions are about the caller: in UpgradeHandshake
`on_success` returns (the tunnel's does only when its peer is gone; without that only the
first upgrade on a connection is served), and in UpgradeServer `on_err` ends. `Talkative` names the
local services that send something or close.

## 4. Proofs

Every invariant that a passing run checks is also a theorem, for every value of the constants that
satisfies the assumptions of its module. So are both refinements: StreamTransport implements
ObjectChannel, and UpgradeHandshake implements CandidateExchange.

| module | theorems (Spec => [] of the property in brackets) |
|---|---|
| StreamTransportProofs | TypeCorrect (TypeOK), FramingCorrect (PrefixDelivery), NoFrameStranded (NoStrandedFrame), EndLosesNothing (EofLosesNothing), ImplementsChannel (Spec => ChannelSpec) |
| UpgradeHandshakeProofs | TypeCorrect (TypeOK), TypesAgree (WireTypesAgree), AnswersOwnOffer (OwnAnswer), ServerKeepsCandidates (ServerLosesNothing) |
| ExchangeProofs | ImplementsExchange (Spec => ExchangeSpec) |
| UpgradeServerProofs | TypeCorrect (TypeOK), NothingOutlivesRun (NoTaskOutlivesRun), PeersAccountedFor (NoPeerLeaked), JoinWaitsForAborted (HandlesKept and OnlyAbortedLeft) |
| TlsCredentialsProofs | TypeCorrect (TypeOK), OneIdentity (IdentityIsStable), FailuresExplained (FailureIsExplained), CopiesAccepted (ClientsAccepted) |
| TunnelSessionProofs | TypeCorrect (TypeOK), OnlyConfiguredPorts (OnlyConfigured), TransferWithoutGap (NoGap), OneAtATime (OneTransfer) |
| TunnelClientProofs | TypeCorrect (TypeOK), RepliesKept (NoReplyLost), ClosesWhenTold (ClosesOnlyOnCtrlC), ConnectionsHeld (NoneOrphaned) |

In each module all of them come from one inductive invariant `IInv` (theorem `Invariance`), whose
parts have names and comments of their own (`RInv` in ExchangeProofs). Each was first model-checked
as an invariant of the component's run. The proof that a step preserves it has one step per action
and, where an action disturbs more than one part, one per part.

**StreamTransportProofs.** PrefixDelivery is not inductive: that the next frame deserialises to the
next object follows from where the receiver stands in the log. So IInv records where frames begin
(`Boundaries`: starts are HeaderLen plus the payload's length apart, and the log ends inside the
last frame according to `spc`), what the log holds (`Contents`: a header, then a payload, at each
start), that the receiver has drained exactly the frames it returned (`Alignment`), that
acknowledged frames were flushed (`Acknowledged`) and that the end of the stream is only seen once
the sender is gone (`EndAfterDrop`). The key lemmas are that reading a header back gives the length
written (`FromLeBytes` inverts `ToLeBytes`), and that a buffer aligned with frame k is Complete
exactly when it reaches frame k+1, and then decodes to object k alone. For the refinement every
action is a step of ObjectChannel or a stutter: `SendSize` is Send and `FlushDone` Return, both
impossible after an end of stream by EndAfterDrop; a delivery is Receive, by the lemma that it
returns the next object sent; `ReadEof` is allowed by EofLosesNothing. It makes the step from bytes
to objects in the model of the handshake a theorem for each direction of the transport.

**UpgradeHandshakeProofs.** That the next object has the expected type depends on everything that
is on the wire behind it. So each side's position in a stream is a number: 2n before the offer or
answer of session n, 2n+1 while its candidates come, 2n+2 after their end, which is also 2(n+1). An
object leads from one number to another (`From`, `To`), and `StreamInv` says that what is on a wire
leads without a gap from where its reader stands (`InPlace`) to where its writer stands
(`OutPlace`); a wire that was cut or whose writer has ended may stop short of it (`Complete` is
required only otherwise). `InStep` couples the two directions: a client begins a session only when
the server has ended the one before, so an answer can only be of the client's session. `LoopInv`
says when the ICE loop has sent its None and that nothing follows it. None of this holds once a
client has reused a connection after an error (`reused`), as the finding says.

**ExchangeProofs** extends it with the refinement, whose invariant `RInv` holds on reused connections
too. A gatherer that publishes has not closed its list (`Lists`); what is queued, being sent or on
the wire was published (`Pending`, `Underway`); on the wire to the server an offer is of a later
session than what precedes it and everything else of the same one (`TagsGrow`), so that a
server never begins a session twice and reads only candidates of its own. The heart is a conservation
law: until a side has sent its None, each candidate it published is learned, on the wire, in `out` or
in the channel (`Conserved`); hence on the wire all that is not yet learned comes before the None
(`EndsList`), and a side that has read the None knows the whole list (`Received`, `Final`). It holds
as long as the reader is `Intact`: a client that failed in mid-stream and calls `upgrade` again has
thrown an object away. What a step can do is first classified per side (`SenderStep`,
`ReceiverStep`, `WireOf`), and each part of RInv is shown from that, not action by action. In the
refinement a `HandOver` is Publish or Close, a `RecvCandidate` is Learn (or a stutter for a session
already concluded, by Final), and the step that ends the ICE loop is Conclude.

**UpgradeServerProofs.** NoTaskOutlivesRun says nothing of the list that `run` goes by; what is
inductive is that the list covers the tasks that run (`HandlesKept`), which a push preserves because
it appends (`SpawnKept`) and a join because the handle it drops is that of a task that has ended
(`JoinKept`). With `ListConsumed` it gives NoTaskOutlivesRun, and that the abort loop reaches every
running task (`AbortsAll`), hence `OnlyAbortedLeft`. NoPeerLeaked is inductive: what a step of a task
leaves alone is shown once (`TaskMoves`), and each step then only has to say what it does with the
peer. A connection must not be spawned twice (`OnePlace`).

**TlsCredentialsProofs.** Without a race, a process that creates is alone (`Alone`), so the two
files are as far as it is (`Progress`), those that load find what they saw (`Loads`), and every
later state of the files is known: as provided, or with a new certificate beside the old, a torn or
its own key (`FilesKnown`). Without a crash either, a creation that is over left a matching pair
(`Settled`).

**TunnelSessionProofs** and **TunnelClientProofs** number messages and replies in the order they
came, and show that what is held is a run of consecutive numbers that ends with the latest
(`Latest`): in the session `bytesQ` then `wire`, in the client `written` then `queue`. In the
session, what is missing before them is accounted for by `lost`. That `allowed_channels` has an
entry of the configuration for each key needs that a non-empty set of positions has a greatest one
(`Greatest`), from the well-foundedness of `<` on the naturals. ClosesWhenTold needs that
a forwarder ends with Ok only after the main task's `select!` (`MainOrder`), so that join_next never
returns an Ok there; the fate of accepted connections that a forwarder is busy with them
(`BusyWith`, `NoneOrphaned`).

Assumed are the ASSUMEs of the modules, which TLC evaluates in every run. Besides ranges of bounds
they say: the encoding is injective with lengths below 2^32; `NoCand` is no candidate; the marks
for an absent and a torn file are no pairs; the configuration is a sequence of entries with a kind
and ports; each user has a port.

Only model-checked: all liveness (UpgradeReturns, ServerFollows, CloseReturns, EventuallyAccepted,
EveryChannelServed, CtrlCReturns, FailureReturns, ConnectionServed, DatagramPlaced,
EventualDelivery), which needs fairness and is out of the prover's reach.

## 5. Not modelled

The command line, logging and configuration parsing, error texts and `get_id`, media engine and
STUN settings, certificate subject names and expiry, the TLS record protocol and ICE connectivity checks. LocalSocket listeners behave like the TCP listener and share
its action; the tunnel's LocalSocket channels are `todo!()` on the client and ignored on the server.

In the tunnel's client, two things at its end: after an error the peer connection is closed by a task
that is only spawned (`PeerWrapper`), which the runtime may drop; and at the end of a local TCP
connection `read` returns 0 again and again, which changes no state. The two ends of the tunnel are
not composed: what reaches a data channel from TunnelClient is nothing (TCP) or zeros (UDP), so a
composition would check no forwarding that the two modules do not refute one by one.

## 6. Plan

1. Done: StreamTransport, its proofs and its refinement of ObjectChannel, UpgradeHandshake and
   its refinement of CandidateExchange, UpgradeServer, TlsCredentials, TunnelSession,
   TunnelClient, and the theorems of section 4.
2. When the forwarders forward: TunnelClient composed with TunnelSession against an abstract
   specification of a forwarded connection.
