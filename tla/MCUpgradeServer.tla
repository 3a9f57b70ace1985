---------------------------- MODULE MCUpgradeServer ----------------------------
(***************************************************************************)
(* Three connections, one of which stays silent.                           *)
(***************************************************************************)
EXTENDS UpgradeServer

CONSTANTS k1, k2, k3
ThreeConns == {k1, k2, k3}
OneSilent == {k3}
=============================================================================
