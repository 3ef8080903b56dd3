--------------------------- MODULE MCStreamPipeline ---------------------------
(* Instances of StreamPipeline for TLC. *)
EXTENDS StreamPipeline

bounds(packets, epochs, contexts, malformed, losses, reorders, duplicates) ==
  [packets |-> packets, epochs |-> epochs, contexts |-> contexts,
   malformed |-> malformed, losses |-> losses, reorders |-> reorders,
   duplicates |-> duplicates, inFlight |-> 2]

\* One epoch with losses up to the largest gap; restarts with losses; restarts
\* with a loss, a late packet and a packet that comes twice.
Mixed == {bounds(6, 1, 1, 1, 3, 0, 0), bounds(4, 2, 1, 0, 2, 0, 0),
          bounds(4, 2, 0, 0, 1, 1, 1)}

\* A restart and no fault.
Restart == {bounds(4, 2, 0, 0, 0, 0, 0)}
=============================================================================
