---------------------------- MODULE TlsCredentials ----------------------------
(***************************************************************************)
(* tls.rs: new_tls_acceptor loads the server's root certificate and key    *)
(* from two files or, with create_if_missing, makes them; the clients'     *)
(* new_tls_connector trusts the root certificate they were given a copy    *)
(* of.  Server processes start, crash anywhere and start again, and may    *)
(* share the files.                                                        *)
(*                                                                         *)
(* A key pair is a number, and so is the certificate made with it.         *)
(***************************************************************************)
EXTENDS Integers, FiniteSets

CONSTANTS
  Server,           \* the processes that use the files
  Creators,         \* those among them configured with create_if_missing
  MaxPairs,         \* bound: the number of pairs generated
  Absent, Torn      \* contents of a file: not there, partly written

ASSUME CredentialsAssumption ==
  /\ Creators \subseteq Server /\ MaxPairs \in Nat
  /\ Absent # Torn /\ {Absent, Torn} \intersect 0..MaxPairs = {}

Pair == 0..MaxPairs  \* 0 is the pair the administrator may have provided
Content == Pair \union {Absent, Torn}

VARIABLES
  cert, key,    \* the two files
  pc,           \* where each process is in new_tls_acceptor
  held,         \* what each process has read or generated, as <<cert, key>>
  made,         \* how many pairs were generated
  provided,     \* history: the two files in the beginning
  served,       \* history: the <<cert, key>> that acceptors were made from
  trusted,      \* history: the root certificates clients have copied
  crashed,      \* history: a process stopped inside new_tls_acceptor
  raced         \* history: one process was creating while another started

files == <<cert, key>>
history == <<provided, served, trusted>>
vars == <<files, pc, held, made, history, crashed, raced>>

Creating == {"create_cert", "write_cert", "create_key", "write_key"}
Starting == {"open_key", "open_cert"} \union Creating
Others(p, S) == \E q \in Server \ {p} : pc[q] \in S

Init ==
  /\ cert \in {Absent, 0} /\ key \in {Absent, 0}
  /\ pc = [p \in Server |-> "down"] /\ held = [p \in Server |-> <<Absent, Absent>>]
  /\ made = 0 /\ provided = <<cert, key>>
  /\ served = {} /\ trusted = {} /\ crashed = FALSE /\ raced = FALSE

Goto(p, l) == pc' = [pc EXCEPT ![p] = l]

-----------------------------------------------------------------------------
(* new_tls_acceptor *)

\* mutant: an existing certificate is replaced
NeverExists == FALSE
Exists == cert # Absent

\* try_exists(certificate) decides: load, generate a pair, or fail
Start(p) ==
  /\ pc[p] \in {"down", "failed"}
  /\ \/ /\ Exists
        /\ Goto(p, "open_key")
        /\ raced' = (raced \/ Others(p, Creating))
        /\ UNCHANGED <<made, held>>
     \/ /\ ~Exists /\ p \in Creators /\ made < MaxPairs
        /\ made' = made + 1 /\ held' = [held EXCEPT ![p] = <<made + 1, made + 1>>]
        /\ Goto(p, "create_cert")
        /\ raced' = (raced \/ Others(p, Starting))
     \/ /\ ~Exists /\ p \notin Creators
        /\ Goto(p, "failed")
        /\ UNCHANGED <<made, held, raced>>
  /\ UNCHANGED <<files, history, crashed>>

\* mutant: whatever is in the file is accepted
ParsesAny(content) == TRUE
Parses(content) == content \in Pair

\* The key is read: it must be there and parse
OpenKey(p) ==
  /\ pc[p] = "open_key"
  /\ held' = [held EXCEPT ![p] = <<Absent, key>>]
  /\ Goto(p, IF Parses(key) THEN "open_cert" ELSE "failed")
  /\ UNCHANGED <<files, made, history, crashed, raced>>

\* The certificate is read and joined with the key: that they belong together
\* is not checked.  The acceptor serves the certificate re-signed with the key.
OpenCert(p) ==
  /\ pc[p] = "open_cert"
  /\ \/ /\ Parses(cert)
        /\ held' = [held EXCEPT ![p] = <<cert, @[2]>>]
        /\ served' = served \union {<<cert, held[p][2]>>}
        /\ Goto(p, "serving")
     \/ /\ ~Parses(cert)
        /\ Goto(p, "failed")
        /\ UNCHANGED <<held, served>>
  /\ UNCHANGED <<files, made, provided, trusted, crashed, raced>>

\* std::fs::write truncates the file, then writes it
CreateCert(p) ==
  /\ pc[p] = "create_cert" /\ Goto(p, "write_cert")
  /\ cert' = Torn
  /\ UNCHANGED <<key, held, made, history, crashed, raced>>
WriteCert(p) ==
  /\ pc[p] = "write_cert" /\ Goto(p, "create_key")
  /\ cert' = held[p][1]
  /\ UNCHANGED <<key, held, made, history, crashed, raced>>
CreateKey(p) ==
  /\ pc[p] = "create_key" /\ Goto(p, "write_key")
  /\ key' = Torn
  /\ UNCHANGED <<cert, held, made, history, crashed, raced>>

\* mutant: the key is not saved
KeyForgotten(p) == key
SavedKey(p) == held[p][2]

WriteKey(p) ==
  /\ pc[p] = "write_key" /\ Goto(p, "serving")
  /\ key' = SavedKey(p)
  /\ served' = served \union {held[p]}
  /\ UNCHANGED <<cert, held, made, provided, trusted, crashed, raced>>

-----------------------------------------------------------------------------
(* Around it *)

\* The process dies inside new_tls_acceptor, or a write fails and it returns
Crash(p) ==
  /\ pc[p] \in Starting /\ Goto(p, "down")
  /\ crashed' = TRUE
  /\ UNCHANGED <<files, held, made, history, raced>>

\* A serving process stops
Stop(p) ==
  /\ pc[p] = "serving" /\ Goto(p, "down")
  /\ UNCHANGED <<files, held, made, history, crashed, raced>>

\* A client is given a copy of the root certificate; new_tls_connector puts
\* that one certificate in its root store
CopyRoot ==
  /\ cert \in Pair \ trusted
  /\ trusted' = trusted \union {cert}
  /\ UNCHANGED <<files, pc, held, made, provided, served, crashed, raced>>

\* What a client with root certificate c makes of a server's chain: its root
\* must be c and signed with c's key
Accepts(c, pair) == pair = <<c, c>>

-----------------------------------------------------------------------------
Step(p) ==
  \/ Start(p) \/ OpenKey(p) \/ OpenCert(p) \/ CreateCert(p) \/ WriteCert(p)
  \/ CreateKey(p) \/ WriteKey(p) \/ Crash(p) \/ Stop(p)
Next == CopyRoot \/ \E p \in Server : Step(p)
Spec == Init /\ [][Next]_vars

-----------------------------------------------------------------------------
\* The state is well formed, and an acceptor was made from two whole files
\* (tls.rs:77-122).
TypeOK ==
  /\ cert \in Content /\ key \in Content /\ made \in 0..MaxPairs
  /\ pc \in [Server -> Starting \union {"down", "failed", "serving"}]
  /\ held \in [Server -> Content \X Content]
  /\ served \subseteq Pair \X Pair /\ trusted \subseteq Pair
  /\ crashed \in BOOLEAN /\ raced \in BOOLEAN

\* Unless two processes raced, one identity is served for ever: from the first
\* acceptor on, the files hold what it was made from, through every crash and
\* restart (tls.rs:77-102).
IdentityIsStable == ~raced => \A i \in served : cert = i[1] /\ key = i[2]

\* A start fails only because a creation was interrupted or raced, or because
\* the administrator provided a certificate without its key, or none and
\* did not let the process create one (tls.rs:78-107).
FailureIsExplained ==
  \A p \in Server : pc[p] = "failed" =>
    \/ crashed \/ raced
    \/ provided = <<0, Absent>>
    \/ provided[1] = Absent /\ p \notin Creators

\* A client with a copy of the root certificate is accepted by every acceptor,
\* or a crash between the two writes left a new certificate beside the old key
\* of a lost certificate, or processes raced (tls.rs:79-102, 124-147).
ClientsAccepted ==
  \A c \in trusted, i \in served :
    \/ Accepts(c, i)
    \/ raced
    \/ crashed /\ provided = <<Absent, 0>>
=============================================================================
