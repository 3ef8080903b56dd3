--------------------------- MODULE MCActivityHealth ---------------------------
(* Instances of ActivityHealth for TLC. *)
EXTENDS ActivityHealth
=============================================================================
