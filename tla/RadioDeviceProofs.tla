--------------------------- MODULE RadioDeviceProofs ---------------------------
(***************************************************************************)
(* The device's invariants for every range of settings and every number of *)
(* samples, proved with TLAPS.                                             *)
(***************************************************************************)
EXTENDS RadioDevice, TLAPS

\* The source runs only through the adapter's stream, and settings are replaced
\* by valid ones as a whole or not at all: together they are inductive.
DeviceInv == DeviceTypeOK /\ StreamAgrees /\ OrdinalAccounts

LEMMA DeviceInitInv == DeviceInit => DeviceInv
BY DeviceAssumption
DEF DeviceInit, DeviceInv, DeviceTypeOK, StreamAgrees, OrdinalAccounts, Settings, Rates,
    Results, valid, booted, NoSamples

\* Why the stream action cannot fail once the settings are in force: who commits
\* is the adapter, and an adapter has its stream.
LEMMA StreamLives == ASSUME DeviceInv, adapter PROVE stream.exists
BY DEF DeviceInv, StreamAgrees

\* What commit does with a batch, by its ends.
LEMMA CommitInv ==
  ASSUME DeviceInv, NEW s \in Settings, NEW action \in StreamActions, commit(s, action)
  PROVE  DeviceInv'
<1>. USE DeviceAssumption DEF DeviceInv, DeviceTypeOK, StreamAgrees, OrdinalAccounts,
     Settings, Results
<1>1. CASE ~valid(s)
  BY <1>1 DEF commit
<1>2. CASE valid(s) /\ action = "start"
  <2>1. /\ device' = [device EXCEPT !.settings = s, !.streaming = TRUE, !.ordinal = 0]
        /\ stream' = [stream EXCEPT !.active = TRUE] /\ samples' = NoSamples
        /\ result' = "executed" /\ UNCHANGED adapter /\ adapter
    BY <1>2, StreamLives DEF commit, activated, applied
  <2>2. DeviceTypeOK'
    BY <2>1, <1>2 DEF valid, NoSamples
  <2>3. StreamAgrees' /\ OrdinalAccounts'
    BY <2>1, StreamLives DEF NoSamples
  <2>. QED BY <2>2, <2>3
<1>3. CASE valid(s) /\ action = "stop"
  <2>1. /\ device' = [device EXCEPT !.settings = s, !.streaming = FALSE]
        /\ stream' = [stream EXCEPT !.active = FALSE] /\ samples' = samples
        /\ result' = "executed" /\ UNCHANGED adapter /\ adapter
    BY <1>3, StreamLives DEF commit, applied
  <2>. QED BY <2>1, <1>3 DEF valid
<1>4. CASE valid(s) /\ action = "none"
  BY <1>4 DEF commit, valid, applied
<1>. QED BY <1>1, <1>2, <1>3, <1>4 DEF StreamActions

LEMMA BeginInv ==
  ASSUME DeviceInv, NEW action \in StreamActions, begin(action)
  PROVE  DeviceInv'
<1>. USE DEF DeviceInv, DeviceTypeOK, StreamAgrees, OrdinalAccounts, Results
<1>1. CASE activateStream /\ result' = "executed" /\ UNCHANGED adapter /\ adapter
  <2>1. /\ device' = [device EXCEPT !.ordinal = 0, !.streaming = TRUE]
        /\ stream' = [stream EXCEPT !.active = TRUE] /\ samples' = NoSamples
    BY <1>1 DEF activateStream, activated
  <2>2. DeviceTypeOK'
    BY <2>1, <1>1 DEF NoSamples
  <2>3. StreamAgrees' /\ OrdinalAccounts'
    BY <2>1, <1>1 DEF NoSamples
  <2>. QED BY <2>2, <2>3
<1>2. CASE deactivateStream /\ result' = "executed" /\ UNCHANGED adapter
  BY <1>2 DEF deactivateStream
<1>3. CASE result' \in {"executed", "failed"} /\ UNCHANGED <<device, stream, samples, adapter>>
  BY <1>3
<1>. QED BY <1>1, <1>2, <1>3 DEF begin

\* Samples of a window that fails are counted as read, like those of one that
\* succeeds.
LEMMA ProduceInv ==
  ASSUME DeviceInv, NEW n \in Nat, NEW k \in 0 .. n, produce(n, k)
  PROVE  DeviceInv'
BY DeviceAssumption
DEF produce, readable, DeviceInv, DeviceTypeOK, StreamAgrees, OrdinalAccounts, Results

LEMMA SetterInv ==
  ASSUME DeviceInv, NEW f \in Fields, NEW s \in Settings, Setter(f, s)
  PROVE  DeviceInv'
BY DEF Setter, valid, DeviceInv, DeviceTypeOK, StreamAgrees, OrdinalAccounts, Settings

LEMMA SkipInv ==
  ASSUME DeviceInv, NEW n \in Nat, SkipSamples(n)
  PROVE  DeviceInv'
BY DEF SkipSamples, DeviceInv, DeviceTypeOK, StreamAgrees, OrdinalAccounts, Results

LEMMA AdapterInv ==
  ASSUME DeviceInv, CreateAdapter \/ DestroyAdapter
  PROVE  DeviceInv'
<1>. USE DEF DeviceInv, DeviceTypeOK, StreamAgrees, OrdinalAccounts, Results
<1>1. CASE CreateAdapter
  <2>1. ~stream.exists /\ ~stream.active /\ ~device.streaming
    BY <1>1 DEF CreateAdapter
  <2>2. /\ stream' = [exists |-> TRUE, active |-> FALSE] /\ adapter' = TRUE
        /\ UNCHANGED <<device, result, samples>>
    BY <1>1 DEF CreateAdapter
  <2>. QED BY <2>1, <2>2
<1>2. CASE DestroyAdapter
  BY <1>2 DEF DestroyAdapter
<1>. QED BY <1>1, <1>2

LEMMA DeviceStepInv == DeviceInv /\ [DeviceNext]_deviceVars => DeviceInv'
<1>. SUFFICES ASSUME DeviceInv, [DeviceNext]_deviceVars PROVE DeviceInv'
  OBVIOUS
<1>1. ASSUME NEW f \in Fields, NEW s \in Settings, Setter(f, s) PROVE DeviceInv'
  BY <1>1, SetterInv
<1>2. ASSUME NEW n \in 1 .. MaxOrdinal, SkipSamples(n) PROVE DeviceInv'
  BY <1>2, SkipInv
<1>3. CASE CreateAdapter \/ DestroyAdapter
  BY <1>3, AdapterInv
<1>4. ASSUME NEW s \in Settings, NEW action \in StreamActions, commit(s, action)
      PROVE  DeviceInv'
  BY <1>4, CommitInv
<1>5. ASSUME NEW action \in StreamActions, begin(action) PROVE DeviceInv'
  BY <1>5, BeginInv
<1>6. ASSUME NEW n \in 0 .. MaxElements + 1, NEW k \in 0 .. n, produce(n, k)
      PROVE  DeviceInv'
  BY <1>6, ProduceInv
<1>7. CASE UNCHANGED deviceVars
  BY <1>7 DEF deviceVars, DeviceInv, DeviceTypeOK, StreamAgrees, OrdinalAccounts
<1>. QED BY <1>1, <1>2, <1>3, <1>4, <1>5, <1>6, <1>7 DEF DeviceNext

LEMMA DeviceInvariance == DeviceSpec => []DeviceInv
<1>. QED BY DeviceInitInv, DeviceStepInv, PTL DEF DeviceSpec

\* Settings stay jointly valid, whichever of them change together.
THEOREM DeviceTypeCorrect == DeviceSpec => []DeviceTypeOK
BY DeviceInvariance, PTL DEF DeviceInv

\* The streaming flag that the controller is told agrees with the stream.
THEOREM StreamTheorem == DeviceSpec => []StreamAgrees
BY DeviceInvariance, PTL DEF DeviceInv

\* The ordinal accounts for every sample since the activation.
THEOREM OrdinalTheorem == DeviceSpec => []OrdinalAccounts
BY DeviceInvariance, PTL DEF DeviceInv

\* A commit is all or nothing.  The case to exclude is the stream action that
\* throws when the settings are already in force.
THEOREM FailedCommitTheorem == DeviceSpec => FailedCommitIsVoid
<1>1. ASSUME DeviceInv, NEW s \in Settings, NEW action \in StreamActions,
             commit(s, action), result' = "failed"
      PROVE  UNCHANGED <<device, stream>>
  <2>1. stream.exists
    BY <1>1, StreamLives DEF commit
  <2>. QED BY <1>1, <2>1 DEF commit
<1>2. ASSUME NEW action \in StreamActions, begin(action), result' = "failed"
      PROVE  UNCHANGED <<device, stream>>
  BY <1>2 DEF begin
<1>3. ASSUME DeviceInv, DeviceNext, result # "failed", result' = "failed"
      PROVE  UNCHANGED <<device, stream>>
  <2>1. \/ \E s \in Settings, action \in StreamActions : commit(s, action)
        \/ \E action \in StreamActions : begin(action)
    BY <1>3 DEF DeviceNext, Setter, SkipSamples, CreateAdapter, DestroyAdapter, produce
  <2>. QED BY <1>1, <1>2, <1>3, <2>1
<1>4. DeviceInv /\ [DeviceNext]_deviceVars
        => [result # "failed" /\ result' = "failed" => UNCHANGED <<device, stream>>]_deviceVars
  BY <1>3 DEF deviceVars
<1>. QED BY DeviceInvariance, <1>4, PTL DEF DeviceSpec, FailedCommitIsVoid
=============================================================================
