---------------------------- MODULE MCStatusService ----------------------------
(* Instances of StatusService for TLC. *)
EXTENDS StatusService
=============================================================================
