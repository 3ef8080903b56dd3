----------------------------- MODULE ControlSlot -----------------------------
(***************************************************************************)
(* sdr::ControlSlot (include/sdr/status.hpp, src/status.cpp): the          *)
(* mutex-protected record of who owns a radio's VRT control connection.    *)
(* Every member function locks the mutex for its whole body, so each one   *)
(* is one atomic operator here.                                            *)
(*                                                                         *)
(* Time stamps are kept as ages: idle is now - last_liveness_ in ticks,    *)
(* saturated one tick past StaleTimeout, where no comparison changes any   *)
(* more.  The steady clock never runs backwards, so the guards             *)
(* `now < last_liveness_' are never taken and have no counterpart.         *)
(***************************************************************************)
EXTENDS Naturals

CONSTANTS
  GenerationLimit,  \* 2^64 in the code: next_generation_ wraps to 0 there
  StaleTimeout      \* ticks after the last liveness before an owner is stale

ASSUME GenerationLimitAssumption == GenerationLimit \in Nat \ {0, 1}
ASSUME StaleTimeoutAssumption == StaleTimeout \in Nat \ {0}

VARIABLES
  active_generation,  \* active_generation_, NoGeneration when it is empty
  next_generation,    \* next_generation_, NoGeneration once it is exhausted
  idle                \* age of last_liveness_

slotVars == <<active_generation, next_generation, idle>>

\* std::nullopt and the exhausted counter are both the generation 0, which
\* acquire() never hands out.
NoGeneration == 0
Generations == 0 .. (GenerationLimit - 1)

SlotTypeOK ==
  /\ active_generation \in Generations
  /\ next_generation \in Generations
  /\ idle \in 0 .. (StaleTimeout + 1)

SlotInit ==
  /\ active_generation = NoGeneration
  /\ next_generation = 1
  /\ idle = 0

-----------------------------------------------------------------------------

canAcquire == active_generation = NoGeneration /\ next_generation # NoGeneration

\* The counter advances modulo its width; after the last generation it is
\* NoGeneration and stays there.
successor(g) == IF g + 1 = GenerationLimit THEN NoGeneration ELSE g + 1

\* acquire(now): the caller receives the generation that was next.
acquire ==
  /\ canAcquire
  /\ active_generation' = next_generation
  /\ next_generation' = successor(next_generation)
  /\ idle' = 0

\* observe_liveness(generation, now): a late observation of an earlier
\* generation is ignored.
observe_liveness(g) ==
  /\ idle' = IF active_generation = g THEN 0 ELSE idle
  /\ UNCHANGED <<active_generation, next_generation>>

\* release(generation): only the generation that owns the slot frees it.
release(g) ==
  /\ active_generation' = IF active_generation = g THEN NoGeneration
                                                   ELSE active_generation
  /\ UNCHANGED <<next_generation, idle>>

\* The condition under which release_if_stale(now, timeout) frees the slot.
isStale == active_generation # NoGeneration /\ idle >= StaleTimeout

release_if_stale ==
  /\ isStale
  /\ active_generation' = NoGeneration
  /\ UNCHANGED <<next_generation, idle>>

\* One tick of the steady clock, seen from the slot.
slotTick ==
  /\ idle' = IF idle <= StaleTimeout THEN idle + 1 ELSE idle
  /\ UNCHANGED <<active_generation, next_generation>>
=============================================================================
