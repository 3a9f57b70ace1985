--------------------------- MODULE CandidateExchange ---------------------------
(***************************************************************************)
(* What an upgrade promises, whatever the transport does: each side        *)
(* publishes the ICE candidates of a session, closes its list, and reports *)
(* the session upgraded only when both lists are closed and it has learned *)
(* every candidate the other side published.                               *)
(***************************************************************************)
CONSTANTS Cand, Session

VARIABLES published, closed, learned, concluded
vars == <<published, closed, learned, concluded>>

Side == {"client", "server"}
Other(s) == IF s = "client" THEN "server" ELSE "client"

Init ==
  /\ published = [s \in Side |-> {}] /\ closed = [s \in Side |-> {}]
  /\ learned = [s \in Side |-> {}] /\ concluded = [s \in Side |-> {}]

Publish(s, r, c) ==
  /\ r \notin closed[s]
  /\ published' = [published EXCEPT ![s] = @ \union {<<r, c>>}]
  /\ UNCHANGED <<closed, learned, concluded>>

Close(s, r) ==
  /\ r \notin closed[s]
  /\ closed' = [closed EXCEPT ![s] = @ \union {r}]
  /\ UNCHANGED <<published, learned, concluded>>

Learn(s, r, c) ==
  /\ <<r, c>> \in published[Other(s)]
  /\ r \notin concluded[s]
  /\ learned' = [learned EXCEPT ![s] = @ \union {<<r, c>>}]
  /\ UNCHANGED <<published, closed, concluded>>

Conclude(s, r) ==
  /\ r \notin concluded[s]
  /\ \A t \in Side : r \in closed[t]
  /\ \A p \in published[Other(s)] : p[1] = r => p \in learned[s]
  /\ concluded' = [concluded EXCEPT ![s] = @ \union {r}]
  /\ UNCHANGED <<published, closed, learned>>

Next ==
  \E s \in Side, r \in Session :
    \/ Close(s, r) \/ Conclude(s, r)
    \/ \E c \in Cand : Publish(s, r, c) \/ Learn(s, r, c)

Spec == Init /\ [][Next]_vars
=============================================================================
