-------------------------- MODULE UpgradeServerProofs --------------------------
(***************************************************************************)
(* For any set of connections, silent or not, with and without TLS, and    *)
(* whether or not callbacks panic: run holds the handle of every task that *)
(* runs (HandlesKept), so that the tasks it waits for when it joins are    *)
(* aborted (OnlyAbortedLeft) and none is left when it returns              *)
(* (NoTaskOutlivesRun); and whichever await of a task fails, the peer it   *)
(* has made does not leak (NoPeerLeaked).                                  *)
(***************************************************************************)
EXTENDS UpgradeServer, TLAPS

\* A connection is in one place: it is queued once, in its handshake, or with
\* its task, and it has none of these before a client opened it.
OnePlace ==
  /\ \A k \in Conn : task[k] # "none" => k \in opened
  /\ \A i, j \in DOMAIN backlog : i # j => backlog[i] # backlog[j]
  /\ \A i \in DOMAIN backlog : backlog[i] # shaking

\* Every running task has its handle in running_tasks, also when handles before
\* or behind it were joined, unless a panic has dropped the list (server.rs:138, 267).
HandlesKept ==
  main # "panicked" => \A k \in Running : \E i \in DOMAIN running : running[i] = k

\* While run joins the tasks, whichever still runs was aborted (server.rs:263-269).
OnlyAbortedLeft == main = "joining" => Running \subseteq aborted

\* run returns with the end of the list.
ListConsumed == main = "returned" => running = <<>>

\* The inductive invariant.
IInv ==
  /\ TypeOK /\ OnePlace
  /\ HandlesKept /\ OnlyAbortedLeft /\ ListConsumed /\ NoPeerLeaked

-----------------------------------------------------------------------------
LEMMA InitIInv == Init => IInv
<1> SUFFICES ASSUME Init PROVE IInv
  OBVIOUS
<1> USE DEF Init
<1>1. TypeOK
  <2>1. task \in [Conn -> {"none"}] /\ peer \in [Conn -> {"none"}]
    OBVIOUS
  <2>2. /\ backlog \in Seq(opened) /\ DOMAIN backlog = {}
        /\ running \in Seq(Conn) /\ close \in 0..CloseCap
    BY DEF CloseCap
  <2> QED
    BY <2>1, <2>2, ServerAssumption DEF TypeOK
<1>2. OnePlace
  BY DEF OnePlace
<1>3. Running = {}
  BY DEF Running, Live, Holding, Upgrading
<1> QED
  BY <1>1, <1>2, <1>3
  DEF IInv, HandlesKept, OnlyAbortedLeft, ListConsumed, NoPeerLeaked

-----------------------------------------------------------------------------
(* The list of handles                                                      *)

\* A task that is spawned is pushed: the list covers it and all it covered before.
LEMMA SpawnKept ==
  ASSUME IInv, NEW k \in Conn, Spawn(k), main = "select", main' = main
  PROVE  running' \in Seq(Conn) /\ HandlesKept'
<1>1. running \in Seq(Conn) /\ running' = Append(running, k)
  BY DEF IInv, TypeOK, Spawn, Pushed
<1>2. /\ running' \in Seq(Conn) /\ DOMAIN running \subseteq DOMAIN running'
      /\ \A i \in DOMAIN running : running'[i] = running[i]
      /\ Len(running) + 1 \in DOMAIN running' /\ running'[Len(running) + 1] = k
  BY <1>1
<1>3. Running' \subseteq Running \union {k}
  BY DEF Spawn, Running, IInv, TypeOK
<1> QED
  BY <1>2, <1>3 DEF IInv, HandlesKept

\* The task whose handle was awaited has ended: the rest of the list covers the
\* tasks that run.
LEMMA JoinKept ==
  ASSUME IInv, JoinTask
  PROVE  running' \in Seq(Conn) /\ HandlesKept'
<1>1. /\ running \in Seq(Conn) /\ running # <<>> /\ running' = Tail(running)
      /\ Head(running) \notin Running /\ main = "joining" /\ Running' = Running
  BY DEF IInv, TypeOK, JoinTask, Running
<1>2. /\ running' \in Seq(Conn)
      /\ \A i \in DOMAIN running :
           i = 1 \/ (i - 1 \in DOMAIN running' /\ running'[i - 1] = running[i])
  BY <1>1
<1>3. \A i \in DOMAIN running :
        running[i] \in Running => \E j \in DOMAIN running' : running'[j] = running[i]
  <2> SUFFICES ASSUME NEW i \in DOMAIN running, running[i] \in Running
               PROVE  \E j \in DOMAIN running' : running'[j] = running[i]
    OBVIOUS
  <2>1. i # 1
    BY <1>1
  <2> QED
    BY <1>2, <2>1
<1> QED
  BY <1>1, <1>2, <1>3 DEF IInv, HandlesKept

\* Aborting every handle of the list aborts every task that runs.
LEMMA AbortsAll ==
  ASSUME IInv, main = "select"
  PROVE  Running \subseteq Aborts /\ Aborts \subseteq Conn
<1>1. running \in Seq(Conn)
  BY DEF IInv, TypeOK
<1> QED
  BY <1>1 DEF IInv, HandlesKept, Aborts

-----------------------------------------------------------------------------
(* The steps of run                                                         *)

LEMMA LoopStep ==
  ASSUME IInv, MainStep
  PROVE  IInv'
<1> USE ServerAssumption DEF OnePlace, HandlesKept, OnlyAbortedLeft, ListConsumed, NoPeerLeaked,
        Running, Live, Holding, Upgrading
<1>1. ASSUME NEW k \in Conn, k \in opened, Spawn(k), main = "select", task[k] = "none",
             UNCHANGED <<tls, main, opened, peer, aborted, handles, close>>,
             backlog' \in Seq(opened), shaking' \in opened \union {NoConn}, k # shaking',
             \A i \in DOMAIN backlog' : backlog'[i] # k /\ backlog'[i] # shaking'
                                        /\ \E j \in DOMAIN backlog : backlog[j] = backlog'[i],
             \A i, j \in DOMAIN backlog' : i # j => backlog'[i] # backlog'[j],
             shaking' = shaking \/ shaking' = NoConn
      PROVE  IInv'
  <2>1. running' \in Seq(Conn) /\ HandlesKept'
    BY <1>1, SpawnKept
  <2>2. task' = [task EXCEPT ![k] = "recv_offer"]
    BY <1>1 DEF Spawn
  <2>3. TypeOK'
    BY <1>1, <2>1, <2>2 DEF IInv, TypeOK
  <2>4. OnePlace' /\ NoPeerLeaked' /\ OnlyAbortedLeft' /\ ListConsumed'
    BY <1>1, <2>2 DEF IInv, TypeOK
  <2> QED
    BY <2>1, <2>3, <2>4 DEF IInv
<1>2. ASSUME Accept PROVE IInv'
  <2> DEFINE k == Head(backlog)
  <2>1. /\ backlog \in Seq(opened) /\ backlog # <<>> /\ backlog' = Tail(backlog)
        /\ k \in opened /\ opened \subseteq Conn /\ main = "select" /\ shaking = NoConn
    BY <1>2 DEF IInv, TypeOK, Accept, CanAccept
  <2>2. /\ backlog' \in Seq(opened)
        /\ \A i \in DOMAIN backlog' : i + 1 \in DOMAIN backlog /\ backlog'[i] = backlog[i + 1]
        /\ 1 \in DOMAIN backlog /\ k = backlog[1]
    BY <2>1
  <2>3. /\ \A i \in DOMAIN backlog' : backlog'[i] # k
        /\ \A i, j \in DOMAIN backlog' : i # j => backlog'[i] # backlog'[j]
        /\ task[k] = "none" /\ k # NoConn
    BY <2>1, <2>2 DEF IInv, TypeOK
  <2>4. CASE tls
    <3>1. TypeOK'
      BY <1>2, <2>1, <2>2, <2>3, <2>4 DEF Accept, IInv, TypeOK
    <3>2. OnePlace'
      BY <1>2, <2>1, <2>2, <2>3, <2>4 DEF Accept, IInv
    <3>3. HandlesKept' /\ OnlyAbortedLeft' /\ ListConsumed' /\ NoPeerLeaked'
      BY <1>2, <2>4 DEF Accept, IInv
    <3> QED
      BY <3>1, <3>2, <3>3 DEF IInv
  <2>5. CASE ~tls
    <3>1. /\ Spawn(k) /\ shaking' = shaking
          /\ UNCHANGED <<tls, main, opened, peer, aborted, handles, close>>
      BY <1>2, <2>5 DEF Accept
    <3>2. \A i \in DOMAIN backlog' :
            backlog'[i] # NoConn /\ \E j \in DOMAIN backlog : backlog[j] = backlog'[i]
      BY <2>1, <2>2
    <3> QED
      BY <1>1, <2>1, <2>2, <2>3, <3>1, <3>2
  <2> QED
    BY <2>4, <2>5 DEF IInv, TypeOK
<1>3. ASSUME HandshakeDone PROVE IInv'
  <2> DEFINE k == shaking
  <2>1. /\ k \in opened /\ opened \subseteq Conn /\ main = "select" /\ task[k] = "none"
        /\ backlog' = backlog /\ backlog \in Seq(opened) /\ shaking' = NoConn /\ Spawn(k)
        /\ UNCHANGED <<tls, main, opened, peer, aborted, handles, close>>
    BY <1>3 DEF IInv, TypeOK, HandshakeDone
  <2>2. \A i \in DOMAIN backlog' : backlog'[i] # k /\ backlog'[i] # NoConn
    BY <2>1 DEF IInv
  <2>3. /\ \A i \in DOMAIN backlog' : \E j \in DOMAIN backlog : backlog[j] = backlog'[i]
        /\ \A i, j \in DOMAIN backlog' : i # j => backlog'[i] # backlog'[j]
    BY <2>1 DEF IInv
  <2>4. k \in Conn /\ k # NoConn
    BY <2>1
  <2> QED
    BY <1>1, <2>1, <2>2, <2>3, <2>4
<1>4. ASSUME DropShaking, UNCHANGED <<tls, backlog, opened, peer, running>>,
             main' \in {"on_err", "joining"}, main = "select",
             aborted' \subseteq Conn, handles' \in BOOLEAN, close' \in 0..CloseCap,
             main' = "joining" => Running \subseteq aborted'
      PROVE  IInv'
  <2>1. /\ shaking' = NoConn /\ task' = [k \in Conn |-> IF k = shaking THEN "refused" ELSE task[k]]
        /\ \A i \in DOMAIN backlog : backlog[i] \in opened
    BY <1>4 DEF DropShaking, IInv, TypeOK
  <2>2. Running' \subseteq Running
    BY <2>1
  <2>3. TypeOK'
    BY <1>4, <2>1 DEF IInv, TypeOK
  <2>4. OnePlace'
    BY <1>4, <2>1 DEF IInv, TypeOK
  <2>5. HandlesKept' /\ OnlyAbortedLeft' /\ ListConsumed'
    BY <1>4, <2>2 DEF IInv
  <2>6. NoPeerLeaked'
    BY <1>4, <2>1 DEF IInv, TypeOK
  <2> QED
    BY <2>3, <2>4, <2>5, <2>6 DEF IInv
<1>5. ASSUME AcceptError PROVE IInv'
  BY <1>4, <1>5 DEF AcceptError, IInv, TypeOK
<1>6. ASSUME CloseBranch PROVE IInv'
  <2>1. close' \in 0..CloseCap /\ handles' \in BOOLEAN
    BY <1>6 DEF CloseBranch, CloseCap, IInv, TypeOK
  <2>2. main = "select" /\ Running \subseteq aborted' /\ aborted' \subseteq Conn
    BY <1>6, AbortsAll DEF CloseBranch
  <2> QED
    BY <1>4, <1>6, <2>1, <2>2 DEF CloseBranch
<1>7. ASSUME OnErrReturns \/ OnErrPanics PROVE IInv'
  <2>1. TypeOK'
    <3>1. running' \in Seq(Conn) /\ main' \in {"select", "panicked"}
      <4>1. running \in Seq(Conn) /\ <<>> \in Seq(Conn)
        BY DEF IInv, TypeOK
      <4>2. running' = running \/ running' = <<>>
        BY <1>7 DEF OnErrReturns, OnErrPanics
      <4>3. main' = "select" \/ main' = "panicked"
        BY <1>7 DEF OnErrReturns, OnErrPanics
      <4> QED
        BY <4>1, <4>2, <4>3
    <3>2. UNCHANGED <<tls, backlog, shaking, opened, task, peer, aborted, handles, close>>
      BY <1>7 DEF OnErrReturns, OnErrPanics
    <3> QED
      BY <3>1, <3>2 DEF IInv, TypeOK
  <2> QED
    BY <1>7, <2>1 DEF OnErrReturns, OnErrPanics, IInv
<1>8. ASSUME JoinTask PROVE IInv'
  <2>1. running' \in Seq(Conn) /\ HandlesKept'
    BY <1>8, JoinKept
  <2>2. TypeOK'
    BY <1>8, <2>1 DEF JoinTask, IInv, TypeOK
  <2>3. OnePlace' /\ OnlyAbortedLeft' /\ ListConsumed' /\ NoPeerLeaked'
    BY <1>8 DEF JoinTask, IInv
  <2> QED
    BY <2>1, <2>2, <2>3 DEF IInv
<1>9. ASSUME Return PROVE IInv'
  <2>1. TypeOK'
    BY <1>9 DEF Return, IInv, TypeOK
  <2> QED
    BY <1>9, <2>1 DEF Return, IInv
<1> QED
  BY <1>2, <1>3, <1>5, <1>6, <1>7, <1>8, <1>9 DEF MainStep

-----------------------------------------------------------------------------
(* The steps of a task                                                      *)

\* A task that goes on, ends or is cancelled leaves run's books in order; what is
\* left to show of each step is what it does with the peer.
LEMMA TaskMoves ==
  ASSUME IInv, NEW k \in Conn, task[k] \in Live,
         NEW st \in Live \union {"ended", "cancelled"}, GoesTo(k, st),
         handles' \in BOOLEAN, NEW p \in {peer[k], "open", "given", "closed"},
         peer' = [peer EXCEPT ![k] = p],
         p = "open" => st \in Holding \union {"cancelled"}
  PROVE  IInv'
<1>1. /\ task' = [task EXCEPT ![k] = st]
      /\ UNCHANGED <<tls, main, backlog, shaking, opened, running, aborted, close>>
  BY DEF GoesTo, loopVars
<1>2. task[k] # "none"
  BY DEF Live, Holding, Upgrading
<1>3. Running' \subseteq Running
  BY <1>1 DEF Running, IInv, TypeOK
<1>4. TypeOK'
  BY <1>1, <1>2 DEF IInv, TypeOK
<1>5. OnePlace'
  BY <1>1, <1>2 DEF IInv, TypeOK, OnePlace
<1>6. HandlesKept' /\ OnlyAbortedLeft' /\ ListConsumed'
  BY <1>1, <1>3 DEF IInv, HandlesKept, OnlyAbortedLeft, ListConsumed
<1>7. NoPeerLeaked'
  BY <1>1 DEF IInv, TypeOK, NoPeerLeaked
<1> QED
  BY <1>4, <1>5, <1>6, <1>7 DEF IInv

LEMMA TaskSteps ==
  ASSUME IInv, NEW k \in Conn, TaskStep(k) \/ TaskFailure(k)
  PROVE  IInv'
<1>1. /\ handles \in BOOLEAN /\ peer \in [Conn -> {"none", "open", "given", "closed"}]
      /\ peer[k] = "open" => task[k] \in Holding \union {"cancelled"}
  BY DEF IInv, TypeOK, NoPeerLeaked
<1>2. ASSUME NEW st \in Live \union {"ended", "cancelled"}, GoesTo(k, st), task[k] \in Live,
             UNCHANGED peer, handles' = TRUE \/ handles' = handles,
             peer[k] = "open" => st \in Holding \union {"cancelled"}
      PROVE  IInv'
  <2>1. peer' = [peer EXCEPT ![k] = peer[k]] /\ handles' \in BOOLEAN
    BY <1>1, <1>2
  <2> QED
    BY <1>2, <2>1, TaskMoves
<1> USE DEF Live, Holding, Upgrading
\* The steps that leave the peer alone: where it is open, the task goes on holding it
<1>3. CASE RecvOffer(k)
  BY <1>1, <1>2, <1>3 DEF RecvOffer
<1>4. CASE Proceed(k)
  <2>1. PICK st \in Upgrading : <<task[k], st>> \in Order /\ GoesTo(k, st)
    BY <1>4 DEF Proceed
  <2>2. task[k] \in Live /\ UNCHANGED <<peer, handles>>
    BY <1>4, <2>1 DEF Proceed, Order
  <2> QED
    BY <1>2, <2>1, <2>2
<1>5. CASE SuccessReturns(k) \/ SuccessPanics(k)
  BY <1>1, <1>2, <1>5 DEF SuccessReturns, SuccessPanics
<1>6. CASE FailsWithoutPeer(k)
  BY <1>1, <1>2, <1>6 DEF FailsWithoutPeer
<1>7. CASE WebRTCFails(k) \/ SendFails(k) \/ RecvIceFails(k)
  BY <1>1, <1>2, <1>7 DEF WebRTCFails, SendFails, RecvIceFails, Returning
<1>8. CASE TaskEnds(k)
  BY <1>1, <1>2, <1>8 DEF TaskEnds
<1>9. CASE TaskCancelled(k)
  BY <1>1, <1>2, <1>9 DEF TaskCancelled
\* The steps that make a peer, hand it on or close it
<1>10. CASE NewPeer(k)
  BY <1>1, <1>10, TaskMoves DEF NewPeer
<1>11. CASE TaskSuccess(k)
  BY <1>1, <1>11, TaskMoves DEF TaskSuccess
<1>12. CASE PeerCloses(k)
  BY <1>1, <1>12, TaskMoves DEF PeerCloses
<1> QED
  BY <1>3, <1>4, <1>5, <1>6, <1>7, <1>8, <1>9, <1>10, <1>11, <1>12 DEF TaskStep, TaskFailure

-----------------------------------------------------------------------------
\* Every step preserves the invariant, whichever process takes it.
LEMMA StepIInv == IInv /\ [Next]_vars => IInv'
<1> SUFFICES ASSUME IInv, [Next]_vars PROVE IInv'
  OBVIOUS
<1> USE DEF OnePlace, HandlesKept, OnlyAbortedLeft, ListConsumed, NoPeerLeaked, Running
<1>1. ASSUME NEW k \in Conn, Connect(k) PROVE IInv'
  <2>1. TypeOK'
    BY <1>1, ServerAssumption DEF Connect, IInv, TypeOK
  <2>2. OnePlace'
    BY <1>1, ServerAssumption DEF Connect, IInv, TypeOK
  <2>3. HandlesKept' /\ OnlyAbortedLeft' /\ ListConsumed' /\ NoPeerLeaked'
    BY <1>1 DEF Connect, IInv
  <2> QED
    BY <2>1, <2>2, <2>3 DEF IInv
<1>2. ASSUME CloseServer PROVE IInv'
  <2>1. TypeOK'
    BY <1>2 DEF CloseServer, HasRoom, CloseCap, loopVars, IInv, TypeOK
  <2> QED
    BY <1>2, <2>1 DEF CloseServer, loopVars, IInv
<1>3. ASSUME UNCHANGED vars PROVE IInv'
  BY <1>3 DEF vars, loopVars, IInv, TypeOK
<1> QED
  BY <1>1, <1>2, <1>3, LoopStep, TaskSteps DEF Next

\* A connection is in one place, the list of handles covers the running tasks, and
\* no peer leaks, for any set of connections (server.rs:96-270).
THEOREM Invariance == Spec => []IInv
  BY InitIInv, StepIInv, PTL DEF Spec

\* The state of run and of its tasks stays well formed, a connection that has a
\* task is in nobody else's hands, and the channel of close requests never holds
\* more than one (server.rs:96-270).
THEOREM TypeCorrect == Spec => []TypeOK
<1>1. IInv => TypeOK
  BY DEF IInv
<1> QED
  BY <1>1, Invariance, PTL

\* A server that run has returned from answers no offer and calls nobody back:
\* every task it spawned had its handle in running_tasks until it was awaited,
\* however the tasks ended and in whatever order (server.rs:138, 257-269).
THEOREM NothingOutlivesRun == Spec => []NoTaskOutlivesRun
<1>1. IInv => NoTaskOutlivesRun
  BY DEF IInv, HandlesKept, ListConsumed, NoTaskOutlivesRun
<1> QED
  BY <1>1, Invariance, PTL

\* run's join waits only for tasks that it aborted, so for none that could go on
\* for ever waiting for its client: the handles it aborts are those of all tasks
\* that run, and no task is spawned afterwards (server.rs:263-269).
THEOREM JoinWaitsForAborted == Spec => [](HandlesKept /\ OnlyAbortedLeft)
<1>1. IInv => HandlesKept /\ OnlyAbortedLeft
  BY DEF IInv
<1> QED
  BY <1>1, Invariance, PTL

\* Whichever await of a task fails, in the first upgrade on its connection or a
\* later one, the peer connection it made is closed or handed on before on_err is
\* called, before another is made and before the task ends (server.rs:155-253).
THEOREM PeersAccountedFor == Spec => []NoPeerLeaked
<1>1. IInv => NoPeerLeaked
  BY DEF IInv
<1> QED
  BY <1>1, Invariance, PTL
=============================================================================
