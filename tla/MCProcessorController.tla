------------------------- MODULE MCProcessorController -------------------------
(* Instances of ProcessorController for TLC. *)
EXTENDS ProcessorController
=============================================================================
