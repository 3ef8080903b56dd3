---------------------------- MODULE ActivityHealth ----------------------------
(***************************************************************************)
(* sdr::telemetry::Reporter and its ActivityHealth policy                  *)
(* (src/telemetry.cpp): what a role reports about its own health.  The     *)
(* role calls activity() when something succeeded and heartbeat() with its *)
(* cumulative error counter whenever a report is due.  Every member        *)
(* function holds the Reporter's mutex for its whole body.                 *)
(*                                                                         *)
(* Time points are kept as ages in ticks; an age is capped past the last   *)
(* value that a comparison tells apart, and None is an empty optional.     *)
(* The policy's test for an activity in the future cannot succeed here:    *)
(* both times are read from one steady clock under one lock.               *)
(***************************************************************************)
EXTENDS Integers

CONSTANTS
  Interval,    \* VRT_TELEMETRY_INTERVAL_MS in ticks
  MaxErrors,   \* bound: the role's error counter
  MaxResets    \* bound: times the counter starts again

ASSUME HealthAssumption ==
  Interval \in Nat \ {0} /\ MaxErrors \in Nat /\ MaxResets \in Nat

None == -1
FreshFor == 2 * Interval
MaxAge == FreshFor + 2
Ages == {None} \cup 0 .. MaxAge
States == {"unknown", "idle", "degraded", "healthy", "failed"}

VARIABLES
  errorTotal,  \* the role's cumulative error counter, and its resets so far
  resets,
  activity,    \* age of activity_
  errors,      \* ActivityHealth::errors_
  observed,    \* previous_ is set
  recovery,    \* age of recovery_since_
  failed_,     \* ActivityHealth::failed_
  due,         \* ticks until next_
  report,      \* state of the last event emitted
  stopped,     \* the role has reported its shutdown
  trouble      \* age of the last report that showed an error or a reset
               \* (no state of the code)

health == <<errors, observed, recovery, failed_>>
role == <<errorTotal, resets, stopped>>
vars == <<role, activity, health, due, report, trouble>>

\* Every variable keeps its type.
TypeOK ==
  /\ errorTotal \in 0 .. MaxErrors /\ resets \in 0 .. MaxResets
  /\ errors \in 0 .. MaxErrors /\ observed \in BOOLEAN
  /\ activity \in Ages /\ recovery \in Ages /\ trouble \in Ages
  /\ failed_ \in BOOLEAN /\ due \in 0 .. Interval
  /\ report \in States /\ stopped \in BOOLEAN

Init ==
  /\ errorTotal = 0 /\ resets = 0 /\ activity = None
  /\ errors = 0 /\ observed = FALSE /\ recovery = None /\ failed_ = FALSE
  /\ due = 0 /\ report = "unknown" /\ stopped = FALSE /\ trouble = None

-----------------------------------------------------------------------------
(* ActivityHealth::assess.                                                 *)

reset == observed /\ errorTotal < errors
troubled == reset \/ errorTotal > errors

\* Seeded fault: a reset does not ask for recovery.
recoverySince_errorsOnly == IF errorTotal > errors THEN 0 ELSE recovery

\* Age of recovery_since_ when this observation is taken into account.
recoverySince == IF troubled THEN 0 ELSE recovery
recentActivity == activity # None /\ activity <= FreshFor
recovered ==
  \/ recoverySince = None
  \/ activity < recoverySince /\ recoverySince >= Interval

\* The state reported: the first condition that applies.
state(final) ==
  IF failed_ THEN "failed"
  ELSE IF final \/ reset THEN "unknown"
  ELSE IF troubled THEN "degraded"
  ELSE IF ~recentActivity THEN "idle"
  ELSE IF recovered THEN "healthy" ELSE "unknown"

\* Seeded fault: errors are compared with those of the first report.
assess_lifetime(final) ==
  /\ recovery' = IF state(final) = "healthy" THEN None ELSE recoverySince
  /\ observed' = TRUE
  /\ UNCHANGED <<errors, failed_>>

assess(final) ==
  /\ recovery' = IF state(final) = "healthy" THEN None ELSE recoverySince
  /\ errors' = errorTotal
  /\ observed' = TRUE
  /\ UNCHANGED failed_

-----------------------------------------------------------------------------
(* Reporter.                                                               *)

\* Seeded fault: the next report is scheduled from the last, not from now.
heartbeat_drifts(final) ==
  /\ ~stopped
  /\ final \/ due = 0
  /\ assess(final)
  /\ report' = state(final)
  /\ due' = due + Interval
  /\ stopped' = final
  /\ trouble' = IF troubled THEN 0 ELSE trouble
  /\ UNCHANGED <<errorTotal, resets, activity>>

heartbeat(final) ==
  /\ ~stopped
  /\ final \/ due = 0
  /\ assess(final)
  /\ report' = state(final)
  /\ due' = Interval
  /\ stopped' = final
  /\ trouble' = IF troubled THEN 0 ELSE trouble
  /\ UNCHANGED <<errorTotal, resets, activity>>

Activity ==
  /\ ~stopped
  /\ activity' = 0
  /\ UNCHANGED <<role, health, due, report, trouble>>

\* A caught fatal error.
failed ==
  /\ ~failed_
  /\ failed_' = TRUE /\ report' = "failed"
  /\ UNCHANGED <<role, activity, errors, observed, recovery, due, trouble>>

-----------------------------------------------------------------------------
(* The role and the clock.                                                 *)

CountError ==
  /\ ~stopped /\ errorTotal < MaxErrors
  /\ errorTotal' = errorTotal + 1
  /\ UNCHANGED <<resets, stopped, activity, health, due, report, trouble>>

CounterReset ==
  /\ ~stopped /\ resets < MaxResets
  /\ errorTotal' = 0 /\ resets' = resets + 1
  /\ UNCHANGED <<stopped, activity, health, due, report, trouble>>

\* The roles' loops poll several times a tick, so a due report is not late.
older(a) == IF a \in {None, MaxAge} THEN a ELSE a + 1
Tick ==
  /\ due > 0
  /\ activity' = older(activity) /\ recovery' = older(recovery)
  /\ trouble' = older(trouble)
  /\ due' = due - 1
  /\ UNCHANGED <<role, errors, observed, failed_, report>>

Stopped == stopped /\ UNCHANGED vars

Next ==
  \/ \E final \in BOOLEAN : heartbeat(final)
  \/ Activity \/ failed \/ CountError \/ CounterReset \/ Tick \/ Stopped

Spec == Init /\ [][Next]_vars

\* A due report is made and time passes; the role goes on succeeding, in some
\* tick or other.  Errors, resets and the end of the role are left open.
Fairness ==
  /\ WF_vars(heartbeat(FALSE)) /\ WF_vars(Tick)
  /\ SF_vars(Activity /\ activity # 0)

FairSpec == Spec /\ Fairness

-----------------------------------------------------------------------------
(* Properties.                                                             *)

\* docs/HEALTH_POLICY.md: a report of health rests on recent activity and a
\* counter that has not moved since the report before; and after any report of
\* an error or reset, however long ago and whatever was reported since, on
\* activity later than it and at least an interval without trouble.
HealthyIsEarned ==
  [][due = 0 /\ due' > 0 /\ report' = "healthy" =>
       /\ activity \in 0 .. FreshFor
       /\ errorTotal = errors
       /\ trouble # None => activity < trouble /\ trouble >= Interval]_vars

\* An error does not stick: a role that goes on working and counts no more
\* errors is reported healthy again, unless it failed or ended.
HealthReturns == []<>(report = "healthy" \/ failed_ \/ stopped)
=============================================================================
