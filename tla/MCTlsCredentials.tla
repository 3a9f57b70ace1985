--------------------------- MODULE MCTlsCredentials ---------------------------
(***************************************************************************)
(* Three processes share the files; one of them may not create them.       *)
(***************************************************************************)
EXTENDS TlsCredentials, TLC

CONSTANTS p1, p2, p3
ThreeServers == {p1, p2, p3}
TwoCreators == {p1, p2}
ServerSymmetry == Permutations(TwoCreators)
=============================================================================
