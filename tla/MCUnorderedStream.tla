--------------------------- MODULE MCUnorderedStream ---------------------------
(***************************************************************************)
(* One object of two different bytes is enough.                            *)
(***************************************************************************)
EXTENDS UnorderedStream

MCObjects == {"ice"}
MCEnc == [ice |-> <<2, 1>>]
=============================================================================
