----------------------------- MODULE UpgradeServer -----------------------------
(***************************************************************************)
(* UpgradeWebRTCServer::run: the accept loop, the tasks it spawns and the  *)
(* list of their handles, the callbacks it hands a ServerHandle to, and    *)
(* closing.  Of a task's upgrade this module has every await and every     *)
(* error path; what the messages say is in UpgradeHandshake.  After        *)
(* add_tls, accept is that of TlsUpgradeTransportServer, which performs    *)
(* the TLS handshake before it returns.                                    *)
(***************************************************************************)
EXTENDS Naturals, Sequences

CONSTANTS
  Conn,      \* the connections clients open
  Silent,    \* those among them on which the client never sends anything
  NoConn,
  Panics     \* whether the callbacks may panic (the tunnel's on_err always does)

ASSUME ServerAssumption ==
  Silent \subseteq Conn /\ NoConn \notin Conn /\ Panics \in BOOLEAN

VARIABLES
  tls,       \* whether add_tls was called on the server
  main,      \* run: in its select!, in on_err, joining, returned or panicked
  backlog,   \* the listener's queue of connections
  shaking,   \* the connection in the middle of accept's TLS handshake
  opened,    \* the connections clients have opened
  task,      \* the await each connection's task is at; "refused" if accept dropped it
  peer,      \* the RTCPeerConnection its task made last
  running,   \* running_tasks: the handles of the spawned tasks
  aborted,   \* the tasks whose handle was aborted
  handles,   \* whether a callback was given a ServerHandle
  close      \* the requests in the channel of close requests

loopVars == <<main, backlog, shaking, opened, running, aborted>>
vars == <<tls, loopVars, task, peer, handles, close>>

CloseCap == 1   \* mpsc::channel(1)

\* The awaits at which a task owns a peer that it has to close, and the others
Upgrading == {"set_remote", "create_answer", "send_answer", "set_local",
              "ice", "send_ice", "add_ice"}
Holding == Upgrading \union {"closing"}
Live == Holding \union {"recv_offer", "new_peer", "on_success", "on_err"}
Running == {k \in Conn : task[k] \in Live}

Init ==
  /\ tls \in BOOLEAN
  /\ main = "select" /\ backlog = <<>> /\ shaking = NoConn /\ opened = {}
  /\ task = [k \in Conn |-> "none"] /\ peer = [k \in Conn |-> "none"]
  /\ running = <<>> /\ aborted = {} /\ handles = FALSE /\ close = 0

-----------------------------------------------------------------------------
(* Outside: clients connect, and whoever holds a ServerHandle closes        *)

Connect(k) ==
  /\ k \notin opened /\ main \notin {"returned", "panicked"}
  /\ opened' = opened \union {k}
  /\ backlog' = Append(backlog, k)
  /\ UNCHANGED <<tls, main, shaking, task, peer, running, aborted, handles, close>>

\* mutant: a channel without a bound
Unbounded == TRUE
HasRoom == close < CloseCap

\* try_send on a channel whose receiver is a local of run: a request that finds
\* no room, or comes after run is gone, changes nothing
CloseServer ==
  /\ handles /\ HasRoom /\ main \notin {"returned", "panicked"}
  /\ close' = close + 1
  /\ UNCHANGED <<tls, loopVars, task, peer, handles>>

-----------------------------------------------------------------------------
(* run's select!, first branch: accept                                      *)

\* mutant: the handle is dropped, which detaches the task
Detached(k) == running
Pushed(k) == Append(running, k)

Spawn(k) ==
  /\ task' = [task EXCEPT ![k] = "recv_offer"]
  /\ running' = Pushed(k)

\* mutant: the connection is handled in the loop, not in a task of its own
LoopIdle == main = "select" /\ shaking = NoConn /\ Running = {}
CanAccept == main = "select" /\ shaking = NoConn

\* The listener's accept returns a connection; with TLS the handshake follows
Accept ==
  /\ CanAccept /\ backlog # <<>>
  /\ backlog' = Tail(backlog)
  /\ IF tls
       THEN shaking' = Head(backlog) /\ UNCHANGED <<task, running>>
       ELSE Spawn(Head(backlog)) /\ UNCHANGED shaking
  /\ UNCHANGED <<tls, main, opened, peer, aborted, handles, close>>

HandshakeDone ==
  /\ main = "select" /\ shaking \notin Silent \union {NoConn}
  /\ Spawn(shaking)
  /\ shaking' = NoConn
  /\ UNCHANGED <<tls, main, backlog, opened, peer, aborted, handles, close>>

\* The connection whose handshake was under way is dropped
DropShaking ==
  /\ shaking' = NoConn
  /\ task' = [k \in Conn |-> IF k = shaking THEN "refused" ELSE task[k]]

\* accept returns an error, from the listener or from the TLS handshake, and
\* run itself awaits on_err
AcceptError ==
  /\ main = "select"
  /\ DropShaking
  /\ main' = "on_err" /\ handles' = TRUE
  /\ UNCHANGED <<tls, backlog, opened, peer, running, aborted, close>>

OnErrReturns ==
  /\ main = "on_err"
  /\ main' = "select"
  /\ UNCHANGED <<tls, backlog, shaking, opened, task, peer, running, aborted, handles, close>>

\* A panic unwinds run: the JoinHandles are dropped, which detaches the tasks
OnErrPanics ==
  /\ main = "on_err" /\ Panics
  /\ main' = "panicked" /\ running' = <<>>
  /\ UNCHANGED <<tls, backlog, shaking, opened, task, peer, aborted, handles, close>>

(* second branch: close_recv                                                *)

\* mutant: break out of the loop without aborting the tasks
NoAborts == {}
Aborts == {running[i] : i \in DOMAIN running}

\* accept is cancelled, and with it a handshake; every handle is aborted, those
\* of tasks that have ended too, before run awaits anything
CloseBranch ==
  /\ main = "select" /\ close > 0
  /\ close' = close - 1
  /\ DropShaking
  /\ aborted' = Aborts
  /\ main' = "joining"
  /\ UNCHANGED <<tls, backlog, opened, peer, running, handles>>

\* for handle in running_tasks: one after the other, in the order of spawning
JoinTask ==
  /\ main = "joining" /\ running # <<>> /\ Head(running) \notin Running
  /\ running' = Tail(running)
  /\ UNCHANGED <<tls, main, backlog, shaking, opened, task, peer, aborted, handles, close>>

Return ==
  /\ main = "joining" /\ running = <<>>
  /\ main' = "returned"
  /\ UNCHANGED <<tls, backlog, shaking, opened, task, peer, running, aborted, handles, close>>

-----------------------------------------------------------------------------
(* A connection's task                                                      *)

\* Task k completes its await and goes on to the next one
GoesTo(k, st) ==
  /\ task' = [task EXCEPT ![k] = st]
  /\ UNCHANGED <<tls, loopVars, close>>

RecvOffer(k) ==
  /\ task[k] = "recv_offer" /\ k \notin Silent
  /\ GoesTo(k, "new_peer")
  /\ UNCHANGED <<peer, handles>>

NewPeer(k) ==
  /\ task[k] = "new_peer"
  /\ GoesTo(k, "set_remote")
  /\ peer' = [peer EXCEPT ![k] = "open"]
  /\ UNCHANGED handles

\* The awaits of an upgrade, in the order in which the code comes to them
Order ==
  {<<"set_remote", "create_answer">>, <<"create_answer", "send_answer">>,
   <<"send_answer", "set_local">>, <<"set_local", "ice">>,
   <<"ice", "send_ice">>, <<"send_ice", "ice">>, <<"ice", "add_ice">>, <<"add_ice", "ice">>}

Proceed(k) ==
  /\ \E st \in Upgrading : <<task[k], st>> \in Order /\ GoesTo(k, st)
  /\ UNCHANGED <<peer, handles>>

\* The last None was received or sent: the peer is moved into on_success
TaskSuccess(k) ==
  /\ task[k] \in {"ice", "send_ice"}
  /\ GoesTo(k, "on_success")
  /\ peer' = [peer EXCEPT ![k] = "given"]
  /\ handles' = TRUE

SuccessReturns(k) ==
  /\ task[k] = "on_success"
  /\ GoesTo(k, "recv_offer")
  /\ UNCHANGED <<peer, handles>>

\* on_success panics: tokio contains it in the task
SuccessPanics(k) ==
  /\ task[k] = "on_success" /\ Panics
  /\ GoesTo(k, "ended")
  /\ UNCHANGED <<peer, handles>>

\* The stream ends or fails while the task waits for an offer, what came does not
\* deserialise, or no peer can be made: on_err, with no peer to close
FailsWithoutPeer(k) ==
  /\ task[k] \in {"recv_offer", "new_peer"}
  /\ GoesTo(k, "on_err")
  /\ handles' = TRUE
  /\ UNCHANGED peer

\* returning!: the peer is closed before $val, the call of on_err, is evaluated
Returning(k) == GoesTo(k, "closing") /\ UNCHANGED <<peer, handles>>

\* webrtc_unwrap!: a WebRTC call fails
WebRTCFails(k) ==
  /\ task[k] \in {"set_remote", "create_answer", "set_local", "ice", "add_ice"}
  /\ Returning(k)

\* mutant: the error of send_obj is handled as that of the first recv_obj is
SendFailsWithoutClose(k) ==
  /\ task[k] \in {"send_answer", "send_ice"}
  /\ GoesTo(k, "on_err")
  /\ handles' = TRUE
  /\ UNCHANGED peer
SendFails(k) ==
  /\ task[k] \in {"send_answer", "send_ice"}
  /\ Returning(k)

\* recv_obj of a candidate returns a DeserializeError or an IOError
RecvIceFails(k) ==
  /\ task[k] = "ice"
  /\ Returning(k)

\* peer.close() is done, whatever it returned
PeerCloses(k) ==
  /\ task[k] = "closing"
  /\ GoesTo(k, "on_err")
  /\ peer' = [peer EXCEPT ![k] = "closed"]
  /\ handles' = TRUE

\* on_err returns, or panics inside the task, which tokio contains
TaskEnds(k) ==
  /\ task[k] = "on_err"
  /\ GoesTo(k, "ended")
  /\ UNCHANGED <<peer, handles>>

\* An aborted task is dropped at its await: a peer it holds is not closed
TaskCancelled(k) ==
  /\ k \in aborted /\ task[k] \in Live
  /\ GoesTo(k, "cancelled")
  /\ UNCHANGED <<peer, handles>>

-----------------------------------------------------------------------------
MainStep ==
  \/ Accept \/ HandshakeDone \/ AcceptError \/ OnErrReturns \/ OnErrPanics
  \/ CloseBranch \/ JoinTask \/ Return
TaskStep(k) ==
  \/ RecvOffer(k) \/ NewPeer(k) \/ Proceed(k)
  \/ TaskSuccess(k) \/ SuccessReturns(k) \/ SuccessPanics(k)
TaskFailure(k) ==
  \/ FailsWithoutPeer(k) \/ WebRTCFails(k) \/ SendFails(k) \/ RecvIceFails(k)
  \/ PeerCloses(k) \/ TaskEnds(k) \/ TaskCancelled(k)

Next ==
  \/ MainStep \/ CloseServer
  \/ \E k \in Conn : Connect(k) \/ TaskStep(k) \/ TaskFailure(k)
Spec == Init /\ [][Next]_vars

\* The runtime runs run and cancels aborted tasks; select! picks at random
\* among its ready branches, so one that is ready again and again is taken.
\* on_err ends.  Of the clients it is assumed that those that are not silent
\* finish their TLS handshake, or break it off; of the tasks, nothing.
Fairness ==
  /\ SF_vars(Accept) /\ SF_vars(HandshakeDone) /\ SF_vars(CloseBranch)
  /\ WF_vars(OnErrReturns \/ OnErrPanics)
  /\ WF_vars(JoinTask) /\ WF_vars(Return)
  /\ \A k \in Conn : WF_vars(TaskCancelled(k))
FairSpec == Spec /\ Fairness

-----------------------------------------------------------------------------
\* The state is well formed, a connection that has a task is in nobody else's
\* hands, and no more close requests are queued than the channel has room for
\* (server.rs:96-270, 119).
TypeOK ==
  /\ tls \in BOOLEAN
  /\ main \in {"select", "on_err", "joining", "returned", "panicked"}
  /\ opened \subseteq Conn /\ backlog \in Seq(opened) /\ shaking \in opened \union {NoConn}
  /\ task \in [Conn -> Live \union {"none", "refused", "ended", "cancelled"}]
  /\ peer \in [Conn -> {"none", "open", "given", "closed"}]
  /\ running \in Seq(Conn) /\ aborted \subseteq Conn
  /\ handles \in BOOLEAN /\ close \in 0..CloseCap
  /\ \A k \in Conn : task[k] # "none" => k # shaking /\ \A i \in DOMAIN backlog : backlog[i] # k

\* When run returns no task is left running, whichever way its connection was
\* accepted and whatever became of the tasks whose handles were awaited before
\* its own: none goes on answering offers or calling back after the server is
\* closed (server.rs:138, 263-269).
NoTaskOutlivesRun == main = "returned" => Running = {}

\* A peer that a task has made is closed or handed to on_success before the task
\* calls on_err, waits for the next offer, makes another peer or ends, whichever
\* of its awaits fails; only an abort leaves it open (server.rs:160-253).
NoPeerLeaked ==
  \A k \in Conn : peer[k] = "open" => task[k] \in Holding \union {"cancelled"}

\* A close request is carried out: run returns, whatever clients and tasks do
\* and even while a TLS handshake hangs (server.rs:257-269), unless on_err
\* panicked in run itself.
CloseReturns == (close > 0) ~> main \in {"returned", "panicked"}

\* A connection is eventually accepted however silent the others are, unless
\* the server stops or, with TLS, a client that sends nothing holds up accept
\* for ever (server.rs:121-138, 311-324).
EventuallyAccepted ==
  \A k \in Conn :
    (k \in opened) ~> \/ task[k] # "none"
                      \/ main \in {"joining", "returned", "panicked"}
                      \/ shaking \in Silent
=============================================================================
