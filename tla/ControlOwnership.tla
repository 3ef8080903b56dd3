--------------------------- MODULE ControlOwnership ---------------------------
(***************************************************************************)
(* What a radio promises about its control connection, independent of      *)
(* sockets and slots: at most one controller owns the radio; nobody takes  *)
(* over from an owner; every grant carries a generation that was never     *)
(* used before; and an owner that stays silent for the whole stale timeout *)
(* has lost the radio before any more time passes.                         *)
(***************************************************************************)
EXTENDS Naturals

CONSTANT StaleTimeout

VARIABLES
  owner,   \* generation of the owning connection, 0 when the radio is free
  last,    \* largest generation ever used up
  silent   \* ticks since the owner was last known to be alive

ownershipVars == <<owner, last, silent>>

OwnershipInit == owner = 0 /\ last = 0 /\ silent = 0

Grant ==
  /\ owner = 0
  /\ owner' > last
  /\ last' = owner'
  /\ silent' = 0

\* A connection that fails while it is being set up uses up a generation.
Burn ==
  /\ owner = 0
  /\ owner' = 0
  /\ last' > last
  /\ silent' = 0

KeepAlive ==
  /\ owner # 0
  /\ silent' = 0
  /\ UNCHANGED <<owner, last>>

Release ==
  /\ owner # 0
  /\ owner' = 0
  /\ UNCHANGED <<last, silent>>

Pass ==
  /\ owner # 0 => silent < StaleTimeout
  /\ silent' = IF silent <= StaleTimeout THEN silent + 1 ELSE silent
  /\ UNCHANGED <<owner, last>>

OwnershipNext == Grant \/ Burn \/ KeepAlive \/ Release \/ Pass

OwnershipSpec == OwnershipInit /\ [][OwnershipNext]_ownershipVars
=============================================================================
