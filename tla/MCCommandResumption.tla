-------------------------- MODULE MCCommandResumption --------------------------
(* Instances of CommandResumption for TLC. *)
EXTENDS CommandResumption

CONSTANTS t1, t2    \* tunings in range

\* Two configurations that the radio accepts and one above its highest rate.
MCWanted == {[rate |-> MaxRate, bandwidth |-> MaxRate, tuning |-> t1],
             [rate |-> MaxRate, bandwidth |-> MaxRate, tuning |-> t2],
             [rate |-> MaxRate + 1, bandwidth |-> MaxRate, tuning |-> t1]}
=============================================================================
