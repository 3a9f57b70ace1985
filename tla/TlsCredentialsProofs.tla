------------------------- MODULE TlsCredentialsProofs -------------------------
(***************************************************************************)
(* For any number of processes that share the files, any number of crashes *)
(* and restarts and any number of pairs generated: without a race one      *)
(* identity is served for ever (IdentityIsStable), every failed start has  *)
(* one of the known causes (FailureIsExplained), and clients with a copy   *)
(* of the root certificate are accepted (ClientsAccepted).                 *)
(***************************************************************************)
EXTENDS TlsCredentials, TLAPS

\* What the administrator provided stays on record, and no process removes a
\* certificate.
Provided ==
  /\ provided \in {Absent, 0} \X {Absent, 0}
  /\ cert = Absent => provided[1] = Absent

\* A process that creates holds a pair it has generated, one that loads a key
\* that parsed.
HoldsPair ==
  \A p \in Server :
    /\ pc[p] \in Creating => \E n \in 1..MaxPairs : held[p] = <<n, n>>
    /\ pc[p] = "open_cert" => held[p][2] \in Pair

\* Unless processes raced, the one that creates is the only one to start.
Alone == \A p \in Server : pc[p] \in Creating => ~Others(p, Starting)

\* How far a creation has come, by the state of the two files.
Progress ==
  \A p \in Server :
    /\ pc[p] = "create_cert" => cert = Absent
    /\ pc[p] = "write_cert" => cert = Torn
    /\ pc[p] \in {"create_key", "write_key"} => cert = held[p][1]
    /\ pc[p] = "write_key" => key = Torn
    /\ pc[p] \in Creating => served = {}

\* What a process that loads the files has found in them is still there.
Loads ==
  \A p \in Server :
    /\ pc[p] \in {"open_key", "open_cert"} => cert # Absent
    /\ pc[p] = "open_cert" => key \in Pair /\ held[p][2] = key

Untouched == cert = provided[1] /\ key = provided[2]

\* The files are as provided, or a creation has replaced the missing
\* certificate and the key is the old one, a torn one or the one that belongs
\* to the certificate.
FilesKnown ==
  \/ Untouched
  \/ /\ provided[1] = Absent /\ cert # Absent
     /\ key = provided[2] \/ key = Torn \/ (key = cert /\ cert \in Pair)

\* Without a crash, a creation that is over has left a matching pair.
Settled ==
  (\A p \in Server : pc[p] \notin Creating) =>
    Untouched \/ (cert \in Pair /\ key = cert)

\* The clients' copies are copies of the certificate that is there.
CopiesCurrent == trusted \subseteq {cert}

NoRace == Alone /\ Progress /\ Loads /\ FilesKnown /\ CopiesCurrent

\* The inductive invariant.
IInv ==
  /\ TypeOK /\ Provided /\ HoldsPair
  /\ ~raced => NoRace
  /\ ~raced /\ ~crashed => Settled
  /\ IdentityIsStable /\ FailureIsExplained /\ ClientsAccepted

-----------------------------------------------------------------------------
LEMMA InitIInv == Init => IInv
<1> SUFFICES ASSUME Init PROVE IInv
  OBVIOUS
<1> USE CredentialsAssumption DEF Init, Pair, Content, Creating, Starting
<1>1. TypeOK /\ Provided /\ HoldsPair
  <2>1. held \in [Server -> Content \X Content] /\ pc \in [Server -> {"down"}]
    OBVIOUS
  <2>2. provided \in {Absent, 0} \X {Absent, 0}
    OBVIOUS
  <2> QED
    <3>1. TypeOK
      <4>1. /\ cert \in Content /\ key \in Content /\ served \subseteq Pair \X Pair
            /\ trusted \subseteq Pair
        OBVIOUS
      <4>2. pc \in [Server -> Starting \union {"down", "failed", "serving"}]
        OBVIOUS
      <4>3. made \in 0..MaxPairs
        OBVIOUS
      <4>4. crashed \in BOOLEAN /\ raced \in BOOLEAN
        OBVIOUS
      <4> HIDE DEF Init, Pair, Content, Starting
      <4> QED
        BY <2>1, <4>1, <4>2, <4>3, <4>4 DEF TypeOK
    <3>2. Provided /\ HoldsPair
      BY <2>1, <2>2 DEF Provided, HoldsPair
    <3> QED
      BY <3>1, <3>2
<1>2. NoRace /\ Settled
  BY DEF NoRace, Alone, Progress, Loads, FilesKnown, Untouched, CopiesCurrent, Settled
<1> QED
  BY <1>1, <1>2 DEF IInv, IdentityIsStable, FailureIsExplained, ClientsAccepted

LEMMA StartKeeps == ASSUME IInv, NEW p \in Server, Start(p) PROVE IInv'
<1> USE CredentialsAssumption DEF IInv, Start, Exists, Goto, files, history, Creating,
      Starting, Pair
<1>1. TypeOK' /\ Provided' /\ HoldsPair'
  <2>1. CASE Exists
    BY <2>1 DEF TypeOK, Provided, HoldsPair, Content
  <2>2. CASE ~Exists /\ p \in Creators
    <3>1. made + 1 \in 1..MaxPairs /\ made' = made + 1
      BY <2>2 DEF TypeOK
    <3>2. held'[p] = <<made', made'>> /\ held' \in [Server -> Content \X Content]
      BY <2>2, <3>1 DEF TypeOK, Content
    <3>3. \A q \in Server \ {p} : held'[q] = held[q] /\ pc'[q] = pc[q]
      BY <2>2 DEF TypeOK
    <3> QED
      <4>1. HoldsPair'
        BY <2>2, <3>1, <3>2, <3>3 DEF HoldsPair
      <4>2. TypeOK' /\ Provided'
        <5> HIDE DEF Pair, Starting, Creating
        <5>1. pc' \in [Server -> Starting \union {"down", "failed", "serving"}]
          BY <2>2 DEF TypeOK, Starting, Creating
        <5>2. made' \in 0..MaxPairs
          BY <3>1
        <5>3. raced' \in BOOLEAN
          BY <2>2
        <5>4. TypeOK'
          BY <2>2, <3>2, <5>1, <5>2, <5>3 DEF TypeOK
        <5> QED
          BY <2>2, <5>4 DEF Provided
      <4> QED
        BY <4>1, <4>2
  <2>3. CASE ~Exists /\ p \notin Creators
    BY <2>3 DEF TypeOK, Provided, HoldsPair
  <2> QED
    BY <2>1, <2>2, <2>3
<1>2. ASSUME ~raced' PROVE NoRace'
  <2> USE <1>1, <1>2 DEF TypeOK, Provided, HoldsPair, Content
  <2>1. Alone'
    BY DEF NoRace, Alone, Others
  <2>2. Progress'
    BY DEF NoRace, Progress, IdentityIsStable
  <2>3. Loads'
    BY DEF NoRace, Loads
  <2>4. FilesKnown'
    BY DEF NoRace, FilesKnown, Untouched
  <2>5. CopiesCurrent'
    BY DEF NoRace, CopiesCurrent
  <2> QED
    BY <2>1, <2>2, <2>3, <2>4, <2>5 DEF NoRace
<1>3. ASSUME ~raced', ~crashed' PROVE Settled'
  BY <1>1, <1>3 DEF Settled, Untouched, TypeOK
<1>4. IdentityIsStable'
  BY <1>1 DEF IdentityIsStable, TypeOK
<1>5. FailureIsExplained'
  BY <1>1 DEF FailureIsExplained, Provided, TypeOK
<1>6. ClientsAccepted'
  BY <1>1 DEF ClientsAccepted, TypeOK
<1> QED
  BY <1>1, <1>2, <1>3, <1>4, <1>5, <1>6

LEMMA OpenKeyKeeps == ASSUME IInv, NEW p \in Server, OpenKey(p) PROVE IInv'
<1> USE CredentialsAssumption DEF IInv, OpenKey, Parses, Goto, files, history, Creating,
      Starting, Pair
<1>1. TypeOK' /\ Provided' /\ HoldsPair'
  BY DEF TypeOK, Provided, HoldsPair, Content
<1>2. ASSUME ~raced' PROVE NoRace'
  <2> USE <1>1, <1>2 DEF TypeOK, Provided, HoldsPair, Content
  <2>1. Alone'
    BY DEF NoRace, Alone, Others
  <2>2. Progress'
    BY DEF NoRace, Progress
  <2>3. Loads'
    BY DEF NoRace, Loads
  <2>4. FilesKnown'
    BY DEF NoRace, FilesKnown, Untouched
  <2>5. CopiesCurrent'
    BY DEF NoRace, CopiesCurrent
  <2> QED
    BY <2>1, <2>2, <2>3, <2>4, <2>5 DEF NoRace
<1>3. ASSUME ~raced', ~crashed' PROVE Settled'
  BY <1>1, <1>3 DEF Settled, Untouched
<1>4. IdentityIsStable'
  BY <1>1 DEF IdentityIsStable
<1>5. FailureIsExplained'
  BY <1>1 DEF FailureIsExplained, NoRace, Settled, Untouched, Provided, Alone, Others, Loads
<1>6. ClientsAccepted'
  BY <1>1 DEF ClientsAccepted
<1> QED
  BY <1>1, <1>2, <1>3, <1>4, <1>5, <1>6

LEMMA OpenCertKeeps == ASSUME IInv, NEW p \in Server, OpenCert(p) PROVE IInv'
<1> USE CredentialsAssumption DEF IInv, OpenCert, Parses, Goto, files, history, Creating,
      Starting, Pair
<1>1. TypeOK' /\ Provided' /\ HoldsPair'
  <2>1. held[p][2] \in Content /\ pc[p] \notin Creating
    BY DEF TypeOK
  <2>2. CASE cert \in Pair
    <3>1. held' \in [Server -> Content \X Content]
      BY <2>1, <2>2 DEF TypeOK
    <3>2. served' \subseteq Pair \X Pair
      BY <2>1, <2>2 DEF TypeOK, HoldsPair
    <3> QED
      <4>1. HoldsPair' /\ Provided'
        BY <2>2, <3>1, <3>2 DEF TypeOK, Provided, HoldsPair
      <4>2. pc' \in [Server -> Starting \union {"down", "failed", "serving"}]
        BY <2>2 DEF TypeOK
      <4> HIDE DEF Pair, Starting, Creating
      <4>3. TypeOK'
        BY <2>2, <3>1, <3>2, <4>2 DEF TypeOK
      <4> QED
        BY <4>1, <4>3
  <2>3. CASE cert \notin Pair
    BY <2>3 DEF TypeOK, Provided, HoldsPair
  <2> QED
    BY <2>2, <2>3
<1>2. ASSUME ~raced' PROVE NoRace'
  <2> USE <1>1, <1>2 DEF TypeOK, Provided, HoldsPair, Content
  <2>1. Alone'
    BY DEF NoRace, Alone, Others
  <2>2. Progress'
    BY DEF NoRace, Alone, Others, Progress
  <2>3. Loads'
    BY DEF NoRace, Loads
  <2>4. FilesKnown'
    BY DEF NoRace, FilesKnown, Untouched
  <2>5. CopiesCurrent'
    BY DEF NoRace, CopiesCurrent
  <2> QED
    BY <2>1, <2>2, <2>3, <2>4, <2>5 DEF NoRace
<1>3. ASSUME ~raced', ~crashed' PROVE Settled'
  BY <1>1, <1>3 DEF Settled, Untouched, TypeOK
<1>4. IdentityIsStable'
  BY <1>1 DEF NoRace, IdentityIsStable, Loads
<1>5. FailureIsExplained'
  BY <1>1
  DEF FailureIsExplained, NoRace, Settled, Untouched, Provided, Alone, Others, Loads,
      TypeOK
<1>6. ClientsAccepted'
  BY <1>1
  DEF ClientsAccepted, Accepts, NoRace, CopiesCurrent, FilesKnown, Settled, Untouched,
      Provided, Alone, Others, Loads
<1> QED
  BY <1>1, <1>2, <1>3, <1>4, <1>5, <1>6

LEMMA CreateCertKeeps == ASSUME IInv, NEW p \in Server, CreateCert(p) PROVE IInv'
<1> USE CredentialsAssumption DEF IInv, CreateCert, Goto, files, history, Creating, Starting, Pair
<1>1. TypeOK' /\ Provided' /\ HoldsPair'
  BY DEF TypeOK, Provided, HoldsPair, Content
<1>2. ASSUME ~raced' PROVE NoRace'
  <2> USE <1>1, <1>2 DEF TypeOK, Provided, HoldsPair, Content
  <2>1. Alone'
    BY DEF NoRace, Alone, Others
  <2>2. Progress'
    BY DEF NoRace, Alone, Others, Progress
  <2>3. Loads'
    BY DEF NoRace, Loads
  <2>4. FilesKnown'
    BY DEF NoRace, FilesKnown, Progress, Untouched
  <2>5. CopiesCurrent'
    BY DEF NoRace, CopiesCurrent, Progress
  <2> QED
    BY <2>1, <2>2, <2>3, <2>4, <2>5 DEF NoRace
<1>3. ASSUME ~raced', ~crashed' PROVE Settled'
  BY <1>1, <1>3 DEF Settled
<1>4. IdentityIsStable'
  BY <1>1 DEF NoRace, IdentityIsStable, Progress
<1>5. FailureIsExplained'
  BY <1>1 DEF FailureIsExplained
<1>6. ClientsAccepted'
  BY <1>1 DEF ClientsAccepted
<1> QED
  BY <1>1, <1>2, <1>3, <1>4, <1>5, <1>6

LEMMA WriteCertKeeps == ASSUME IInv, NEW p \in Server, WriteCert(p) PROVE IInv'
<1> USE CredentialsAssumption DEF IInv, WriteCert, Goto, files, history, Creating, Starting, Pair
<1>1. TypeOK' /\ Provided' /\ HoldsPair'
  BY DEF TypeOK, Provided, HoldsPair, Content
<1>2. ASSUME ~raced' PROVE NoRace'
  <2> USE <1>1, <1>2 DEF TypeOK, Provided, HoldsPair, Content
  <2>1. Alone'
    BY DEF NoRace, Alone, Others
  <2>2. Progress'
    BY DEF NoRace, Alone, Others, Progress
  <2>3. Loads'
    BY DEF NoRace, Loads
  <2>4. FilesKnown'
    <3>1. PICK n \in 1..MaxPairs : held[p] = <<n, n>>
      OBVIOUS
    <3>2. cert = Torn /\ cert' = n /\ n # Absent
      BY <3>1 DEF NoRace, Progress
    <3>3. Torn \notin Pair /\ Torn \notin {Absent, 0}
      OBVIOUS
    <3> QED
      BY <3>2, <3>3 DEF NoRace, FilesKnown, Untouched
  <2>5. CopiesCurrent'
    BY DEF NoRace, CopiesCurrent, Progress
  <2> QED
    BY <2>1, <2>2, <2>3, <2>4, <2>5 DEF NoRace
<1>3. ASSUME ~raced', ~crashed' PROVE Settled'
  BY <1>1, <1>3 DEF Settled
<1>4. IdentityIsStable'
  BY <1>1 DEF NoRace, IdentityIsStable, Progress
<1>5. FailureIsExplained'
  BY <1>1 DEF FailureIsExplained
<1>6. ClientsAccepted'
  BY <1>1 DEF ClientsAccepted
<1> QED
  BY <1>1, <1>2, <1>3, <1>4, <1>5, <1>6

LEMMA CreateKeyKeeps == ASSUME IInv, NEW p \in Server, CreateKey(p) PROVE IInv'
<1> USE CredentialsAssumption DEF IInv, CreateKey, Goto, files, history, Creating, Starting, Pair
<1>1. TypeOK' /\ Provided' /\ HoldsPair'
  BY DEF TypeOK, Provided, HoldsPair, Content
<1>2. ASSUME ~raced' PROVE NoRace'
  <2> USE <1>1, <1>2 DEF TypeOK, Provided, HoldsPair, Content
  <2>1. Alone'
    BY DEF NoRace, Alone, Others
  <2>2. Progress'
    BY DEF NoRace, Progress
  <2>3. Loads'
    BY DEF NoRace, Alone, Others, Loads
  <2>4. FilesKnown'
    BY DEF NoRace, FilesKnown, Progress, Untouched
  <2>5. CopiesCurrent'
    BY DEF NoRace, CopiesCurrent
  <2> QED
    BY <2>1, <2>2, <2>3, <2>4, <2>5 DEF NoRace
<1>3. ASSUME ~raced', ~crashed' PROVE Settled'
  BY <1>1, <1>3 DEF Settled
<1>4. IdentityIsStable'
  BY <1>1 DEF NoRace, IdentityIsStable, Progress
<1>5. FailureIsExplained'
  BY <1>1 DEF FailureIsExplained
<1>6. ClientsAccepted'
  BY <1>1 DEF ClientsAccepted
<1> QED
  BY <1>1, <1>2, <1>3, <1>4, <1>5, <1>6

LEMMA WriteKeyKeeps == ASSUME IInv, NEW p \in Server, WriteKey(p) PROVE IInv'
<1> USE CredentialsAssumption DEF IInv, WriteKey, SavedKey, Goto, files, history, Creating,
      Starting, Pair
<1>1. TypeOK' /\ Provided' /\ HoldsPair'
  BY DEF TypeOK, Provided, HoldsPair
<1>2. ASSUME ~raced' PROVE NoRace'
  <2> USE <1>1, <1>2 DEF TypeOK, Provided, HoldsPair, Content
  <2>1. Alone'
    BY DEF NoRace, Alone, Others
  <2>2. Progress'
    BY DEF NoRace, Alone, Others, Progress
  <2>3. Loads'
    BY DEF NoRace, Alone, Others, Loads
  <2>4. FilesKnown'
    BY DEF NoRace, FilesKnown, Progress, Untouched
  <2>5. CopiesCurrent'
    BY DEF NoRace, CopiesCurrent
  <2> QED
    BY <2>1, <2>2, <2>3, <2>4, <2>5 DEF NoRace
<1>3. ASSUME ~raced', ~crashed' PROVE Settled'
  BY <1>1, <1>3 DEF NoRace, Settled, Progress, HoldsPair
<1>4. IdentityIsStable'
  BY <1>1 DEF NoRace, IdentityIsStable, Progress
<1>5. FailureIsExplained'
  BY <1>1 DEF FailureIsExplained
<1>6. ClientsAccepted'
  BY <1>1 DEF ClientsAccepted, Accepts, NoRace, CopiesCurrent, Provided, Progress, HoldsPair
<1> QED
  BY <1>1, <1>2, <1>3, <1>4, <1>5, <1>6

LEMMA CrashKeeps == ASSUME IInv, NEW p \in Server, Crash(p) PROVE IInv'
<1> USE CredentialsAssumption DEF IInv, Crash, Goto, files, history, Creating, Starting, Pair
<1>1. TypeOK' /\ Provided' /\ HoldsPair'
  BY DEF TypeOK, Provided, HoldsPair
<1>2. ASSUME ~raced' PROVE NoRace'
  <2> USE <1>1, <1>2 DEF TypeOK, Provided, HoldsPair, Content
  <2>1. Alone'
    BY DEF NoRace, Alone, Others
  <2>2. Progress'
    BY DEF NoRace, Progress
  <2>3. Loads'
    BY DEF NoRace, Loads
  <2>4. FilesKnown'
    BY DEF NoRace, FilesKnown, Untouched
  <2>5. CopiesCurrent'
    BY DEF NoRace, CopiesCurrent
  <2> QED
    BY <2>1, <2>2, <2>3, <2>4, <2>5 DEF NoRace
<1>3. ASSUME ~raced', ~crashed' PROVE Settled'
  BY <1>1, <1>3
<1>4. IdentityIsStable'
  BY <1>1 DEF IdentityIsStable
<1>5. FailureIsExplained'
  BY <1>1 DEF FailureIsExplained
<1>6. ClientsAccepted'
  BY <1>1 DEF ClientsAccepted
<1> QED
  BY <1>1, <1>2, <1>3, <1>4, <1>5, <1>6

LEMMA StopKeeps == ASSUME IInv, NEW p \in Server, Stop(p) PROVE IInv'
<1> USE CredentialsAssumption DEF IInv, Stop, Goto, files, history, Creating, Starting, Pair
<1>1. TypeOK' /\ Provided' /\ HoldsPair'
  BY DEF TypeOK, Provided, HoldsPair
<1>2. ASSUME ~raced' PROVE NoRace'
  <2> USE <1>1, <1>2 DEF TypeOK, Provided, HoldsPair, Content
  <2>1. Alone'
    BY DEF NoRace, Alone, Others
  <2>2. Progress'
    BY DEF NoRace, Progress
  <2>3. Loads'
    BY DEF NoRace, Loads
  <2>4. FilesKnown'
    BY DEF NoRace, FilesKnown, Untouched
  <2>5. CopiesCurrent'
    BY DEF NoRace, CopiesCurrent
  <2> QED
    BY <2>1, <2>2, <2>3, <2>4, <2>5 DEF NoRace
<1>3. ASSUME ~raced', ~crashed' PROVE Settled'
  BY <1>1, <1>3 DEF Settled, Untouched
<1>4. IdentityIsStable'
  BY <1>1 DEF IdentityIsStable
<1>5. FailureIsExplained'
  BY <1>1 DEF FailureIsExplained
<1>6. ClientsAccepted'
  BY <1>1 DEF ClientsAccepted
<1> QED
  BY <1>1, <1>2, <1>3, <1>4, <1>5, <1>6

\* The key of an acceptor belongs to its certificate, or a crash left the new
\* certificate beside an old key.
LEMMA ServedMatch ==
  ASSUME IInv, ~raced, NEW i \in served
  PROVE  i = <<cert, cert>> \/ (crashed /\ provided = <<Absent, 0>>)
<1> USE CredentialsAssumption DEF IInv, NoRace
<1>1. i \in Pair \X Pair /\ cert = i[1] /\ key = i[2]
  BY DEF TypeOK, IdentityIsStable
<1>2. \A p \in Server : pc[p] \notin Creating
  BY DEF Progress
<1>3. Torn \notin Pair /\ Absent \notin Pair
  BY DEF Pair
<1>4. CASE key = cert
  <2>1. i = <<i[1], i[2]>>
    BY <1>1
  <2> QED
    BY <1>1, <1>4, <2>1
<1>5. CASE key # cert
  <2>1. provided[1] = Absent /\ provided[2] = 0
    BY <1>1, <1>3, <1>5 DEF FilesKnown, Untouched, Provided
  <2>2. provided = <<Absent, 0>>
    BY <2>1 DEF Provided
  <2>3. crashed
    BY <1>1, <1>2, <1>3, <1>5, <2>1 DEF Settled, Untouched
  <2> QED
    BY <2>2, <2>3
<1> QED
  BY <1>4, <1>5

\* A client's copy of the root certificate is one of the pair that is served.
LEMMA CopyRootKeeps == ASSUME IInv, CopyRoot PROVE IInv'
<1> USE DEF IInv, CopyRoot, files
<1>1. TypeOK' /\ Provided' /\ HoldsPair'
  BY DEF TypeOK, Provided, HoldsPair
<1>2. ASSUME ~raced' PROVE NoRace'
  BY <1>2 DEF NoRace, Alone, Others, Progress, Loads, FilesKnown, Untouched, CopiesCurrent
<1>3. ASSUME ~raced', ~crashed' PROVE Settled'
  BY <1>3 DEF Settled, Untouched
<1>4. IdentityIsStable' /\ FailureIsExplained'
  BY DEF IdentityIsStable, FailureIsExplained
<1>5. ClientsAccepted'
  BY ServedMatch DEF ClientsAccepted, Accepts
<1> QED
  BY <1>1, <1>2, <1>3, <1>4, <1>5

LEMMA StepIInv == IInv /\ [Next]_vars => IInv'
<1> SUFFICES ASSUME IInv, [Next]_vars PROVE IInv'
  OBVIOUS
<1>1. ASSUME NEW p \in Server, Step(p) PROVE IInv'
  BY <1>1, StartKeeps, OpenKeyKeeps, OpenCertKeeps, CreateCertKeeps, WriteCertKeeps,
     CreateKeyKeeps, WriteKeyKeeps, CrashKeeps, StopKeeps DEF Step
<1>2. ASSUME UNCHANGED vars PROVE IInv'
  BY <1>2
  DEF vars, files, history, IInv, TypeOK, Provided, HoldsPair, NoRace, Alone, Others, Progress,
      Loads, FilesKnown, Untouched, CopiesCurrent, Settled, IdentityIsStable,
      FailureIsExplained, ClientsAccepted
<1> QED
  BY <1>1, <1>2, CopyRootKeeps DEF Next

\* The identity, race and crash bookkeeping above holds in every reachable state, for
\* any set of processes in new_tls_acceptor (tls.rs:77-122).
THEOREM Invariance == Spec => []IInv
  BY InitIInv, StepIInv, PTL DEF Spec

\* The two files, the processes and what they hold stay well formed; an acceptor
\* is only ever made from a certificate and a key that parse (tls.rs:77-122).
THEOREM TypeCorrect == Spec => []TypeOK
<1>1. IInv => TypeOK
  BY DEF IInv
<1> QED
  BY <1>1, Invariance, PTL

\* Unless two processes raced, whatever crashes and restarts happen every
\* acceptor has the identity of the first one, and the files keep it
\* (new_tls_acceptor, tls.rs:77-102).
THEOREM OneIdentity == Spec => []IdentityIsStable
<1>1. IInv => IdentityIsStable
  BY DEF IInv
<1> QED
  BY <1>1, Invariance, PTL

\* new_tls_acceptor returns an error only for a cause in the list: a creation
\* that was interrupted or raced, or what the administrator provided
\* (tls.rs:78-107).
THEOREM FailuresExplained == Spec => []FailureIsExplained
<1>1. IInv => FailureIsExplained
  BY DEF IInv
<1> QED
  BY <1>1, Invariance, PTL

\* A client whose root store has a copy of the certificate file accepts every
\* acceptor, but for a race or a crash between the two writes beside an old key
\* (tls.rs:79-102, 124-147).
THEOREM CopiesAccepted == Spec => []ClientsAccepted
<1>1. IInv => ClientsAccepted
  BY DEF IInv
<1> QED
  BY <1>1, Invariance, PTL
=============================================================================
