------------------------- MODULE ActivityHealthProofs -------------------------
(***************************************************************************)
(* Proofs about ActivityHealth for every interval, counter and number of   *)
(* resets.                                                                 *)
(***************************************************************************)
EXTENDS ActivityHealth, TLAPS

LEMMA AgesAreNumbers ==
  /\ FreshFor \in Nat /\ Interval <= FreshFor /\ MaxAge = FreshFor + 2
  /\ \A a \in Ages : a \in Int /\ (a = None \/ a \in 0 .. MaxAge) /\ older(a) \in Ages
  /\ 0 \in Ages /\ None \in Ages
BY HealthAssumption DEF FreshFor, MaxAge, Ages, None, older

\* The recovery that is under way began with the last trouble.  When the policy
\* forgets it, trouble stays an interval old, and what activity there was is
\* later than it or by now too old to count.
Trouble ==
  /\ ~observed => errors = 0
  /\ recovery \in {None, trouble}
  /\ recovery = None /\ trouble # None =>
       /\ trouble >= Interval
       /\ activity < trouble \/ activity > FreshFor

IInv == TypeOK /\ Trouble

LEMMA Initially == Init => IInv
<1>. SUFFICES ASSUME Init PROVE IInv
  OBVIOUS
<1>1. TypeOK
  <2>1. /\ 0 \in 0 .. MaxErrors /\ 0 \in 0 .. MaxResets /\ 0 \in 0 .. Interval
        /\ "unknown" \in States
    BY HealthAssumption DEF States
  <2>2. None \in Ages
    BY AgesAreNumbers
  <2>. QED BY <2>1, <2>2 DEF Init, TypeOK
<1>2. Trouble
  BY DEF Init, Trouble
<1>. QED BY <1>1, <1>2 DEF IInv

LEMMA HealthyState ==
  ASSUME NEW final \in BOOLEAN, state(final) = "healthy"
  PROVE  ~troubled /\ recentActivity /\ recovered
BY DEF state, troubled

LEMMA HeartbeatStep ==
  ASSUME IInv, NEW final \in BOOLEAN, heartbeat(final)
  PROVE  IInv'
<1>1. TypeOK'
  <2>1. state(final) \in States
    BY DEF state, States
  <2>2. recoverySince \in Ages
    BY AgesAreNumbers DEF recoverySince, IInv, TypeOK
  <2>3. recovery' \in Ages /\ trouble' \in Ages
    BY <2>2, AgesAreNumbers DEF heartbeat, assess, IInv, TypeOK
  <2>. QED BY <2>1, <2>3, HealthAssumption DEF heartbeat, assess, IInv, TypeOK
<1>2. Trouble'
  <2>1. /\ UNCHANGED activity /\ observed' = TRUE
        /\ trouble' = IF troubled THEN 0 ELSE trouble
        /\ recovery' = IF state(final) = "healthy" THEN None ELSE recoverySince
    BY DEF heartbeat, assess
  <2>2. CASE troubled
    <3>1. state(final) # "healthy" /\ recoverySince = 0
      BY <2>2, HealthyState DEF recoverySince
    <3>. QED BY <2>1, <2>2, <3>1 DEF Trouble, None
  <2>3. CASE ~troubled /\ state(final) # "healthy"
    BY <2>1, <2>3 DEF IInv, Trouble, recoverySince
  <2>4. CASE ~troubled /\ state(final) = "healthy"
    <3>1. recovered /\ recoverySince = recovery
      BY <2>4, HealthyState DEF recoverySince
    <3>. QED BY <2>1, <2>4, <3>1 DEF IInv, Trouble, recovered
  <2>. QED BY <2>2, <2>3, <2>4
<1>. QED BY <1>1, <1>2 DEF IInv

\* Ages grow together until they are capped.
LEMMA TickStep == ASSUME IInv, Tick PROVE IInv'
<1>1. TypeOK'
  BY AgesAreNumbers, HealthAssumption DEF Tick, role, IInv, TypeOK
<1>2. Trouble'
  <2>1. /\ activity' = older(activity) /\ recovery' = older(recovery)
        /\ trouble' = older(trouble) /\ UNCHANGED <<errors, observed>>
    BY DEF Tick
  <2>2. activity \in Ages /\ trouble \in Ages /\ recovery \in Ages
    BY DEF IInv, TypeOK
  <2>3. \A a \in Ages : /\ older(a) = None <=> a = None
                        /\ a # None => older(a) >= a
    BY AgesAreNumbers DEF older, None
  <2>4. recovery' \in {None, trouble'}
    BY <2>1, <2>2, <2>3 DEF IInv, Trouble, older
  <2>5. ASSUME recovery = None, trouble # None
        PROVE  trouble' >= Interval /\ (activity' < trouble' \/ activity' > FreshFor)
    <3>1. trouble >= Interval /\ (activity < trouble \/ activity > FreshFor)
      BY <2>5 DEF IInv, Trouble
    <3>2. trouble' >= Interval
      <4>1. trouble' >= trouble /\ trouble' \in Int /\ trouble \in Int
        BY <2>1, <2>2, <2>3, <2>5, AgesAreNumbers
      <4>. QED BY <3>1, <4>1, HealthAssumption
    <3>3. CASE activity = None
      <4>1. activity' = None /\ trouble' \in Int /\ trouble' >= 0
        BY <2>1, <2>2, <2>3, <2>5, <3>3, AgesAreNumbers DEF older
      <4>. QED BY <3>2, <4>1 DEF None
    <3>4. CASE activity # None /\ activity > FreshFor
      <4>1. activity' >= activity /\ activity' \in Int /\ activity \in Int
        BY <2>1, <2>2, <2>3, <3>4, AgesAreNumbers
      <4>. QED BY <3>2, <3>4, <4>1, AgesAreNumbers
    <3>5. CASE activity # None /\ activity < trouble
      <4>1. /\ activity \in 0 .. MaxAge /\ trouble \in 0 .. MaxAge
            /\ MaxAge \in Nat /\ FreshFor \in Nat /\ MaxAge = FreshFor + 2
        BY <2>2, <2>5, <3>5, AgesAreNumbers
      <4>2. activity' = activity + 1
        BY <2>1, <3>5, <4>1 DEF older
      <4>3. trouble' = IF trouble = MaxAge THEN trouble ELSE trouble + 1
        BY <2>1, <2>5, <4>1 DEF older
      <4>. QED BY <3>2, <3>5, <4>1, <4>2, <4>3
    <3>. QED BY <3>1, <3>2, <3>3, <3>4, <3>5
  <2>. QED BY <2>1, <2>2, <2>3, <2>4, <2>5 DEF IInv, Trouble
<1>. QED BY <1>1, <1>2 DEF IInv

LEMMA Invariance == Spec => []IInv
<1>1. IInv /\ [Next]_vars => IInv'
  <2>. SUFFICES ASSUME IInv, [Next]_vars PROVE IInv'
    OBVIOUS
  <2>1. ASSUME NEW final \in BOOLEAN, heartbeat(final) PROVE IInv'
    BY <2>1, HeartbeatStep
  <2>2. CASE Activity
    <3>1. TypeOK'
      BY <2>2, AgesAreNumbers DEF Activity, role, health, IInv, TypeOK
    <3>2. Trouble'
      <4>1. trouble # None /\ trouble >= Interval => 0 < trouble
        BY HealthAssumption, AgesAreNumbers DEF IInv, TypeOK
      <4>. QED BY <2>2, <4>1 DEF Activity, health, IInv, Trouble
    <3>. QED BY <3>1, <3>2 DEF IInv
  <2>3. CASE failed
    BY <2>3 DEF failed, role, IInv, TypeOK, Trouble, States
  <2>4. CASE CountError
    BY <2>4, HealthAssumption DEF CountError, health, IInv, TypeOK, Trouble
  <2>5. CASE CounterReset
    BY <2>5, HealthAssumption DEF CounterReset, health, IInv, TypeOK, Trouble
  <2>6. CASE Tick
    BY <2>6, TickStep
  <2>7. CASE UNCHANGED vars
    BY <2>7 DEF vars, role, health, IInv, TypeOK, Trouble
  <2>. QED BY <2>1, <2>2, <2>3, <2>4, <2>5, <2>6, <2>7 DEF Next, Stopped
<1>. QED BY <1>1, Initially, PTL DEF Spec

\* Types of the reporter's state.
THEOREM HealthTypeCorrect == Spec => []TypeOK
<1>1. IInv => TypeOK
  BY DEF IInv
<1>. QED BY <1>1, Invariance, PTL

\* Health is earned: by activity later than the last trouble, an interval after
\* it, whatever was reported in between.
THEOREM HealthyTheorem == Spec => HealthyIsEarned
<1>1. ASSUME IInv, [Next]_vars, due = 0, due' > 0, report' = "healthy"
      PROVE  /\ activity \in 0 .. FreshFor /\ errorTotal = errors
             /\ trouble # None => activity < trouble /\ trouble >= Interval
  <2>1. PICK final \in BOOLEAN : heartbeat(final)
    BY <1>1 DEF Next, Activity, failed, CountError, CounterReset, Tick, Stopped, vars
  <2>2. state(final) = "healthy"
    BY <1>1, <2>1 DEF heartbeat
  <2>3. ~troubled /\ recentActivity /\ recovered /\ recoverySince = recovery
    BY <2>2, HealthyState DEF recoverySince
  <2>4. activity \in 0 .. FreshFor
    BY <1>1, <2>3, AgesAreNumbers DEF recentActivity, IInv, TypeOK
  <2>5. errorTotal = errors
    BY <1>1, <2>3, HealthAssumption DEF troubled, reset, IInv, TypeOK, Trouble
  <2>6. trouble # None => activity < trouble /\ trouble >= Interval
    BY <1>1, <2>3, <2>4, AgesAreNumbers DEF recovered, IInv, Trouble, TypeOK
  <2>. QED BY <2>4, <2>5, <2>6
<1>. QED BY <1>1, Invariance, PTL DEF Spec, HealthyIsEarned
=============================================================================
