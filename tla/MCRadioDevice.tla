----------------------------- MODULE MCRadioDevice -----------------------------
(* Instances of RadioDevice for TLC. *)
EXTENDS RadioDevice
=============================================================================
