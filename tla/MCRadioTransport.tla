--------------------------- MODULE MCRadioTransport ---------------------------
(* Instances of RadioTransport for TLC. *)
EXTENDS RadioTransport
=============================================================================
