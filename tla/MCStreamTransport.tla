--------------------------- MODULE MCStreamTransport ---------------------------
(***************************************************************************)
(* Three objects: an empty payload, one byte, and two bytes that look like *)
(* the beginning of a header.                                              *)
(***************************************************************************)
EXTENDS StreamTransport

MCObjects == {"unit", "none", "ice"}
MCEnc == [unit |-> <<>>, none |-> <<1>>, ice |-> <<2, 0>>]
=============================================================================
