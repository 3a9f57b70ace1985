-------------------------- MODULE MCUpgradeHandshake --------------------------
(***************************************************************************)
(* Small instances of UpgradeHandshake.                                    *)
(***************************************************************************)
EXTENDS UpgradeHandshake, TLC

CONSTANTS c1, c2
OneCand == {c1}
TwoCands == {c1, c2}
CandSymmetry == Permutations(TwoCands)
=============================================================================
