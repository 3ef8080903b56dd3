----------------------------- MODULE RadioDevice -----------------------------
(***************************************************************************)
(* The radio's device: VirtualRadio behind SoapyVirtualDevice, driven for  *)
(* the VITA runtime by VrtRadioAdapter (src/virtual_radio.cpp,             *)
(* src/soapy_virtual_device.cpp, src/vrt_radio_adapter.cpp).  Every member *)
(* of the Soapy device holds its mutex for its whole body, so a call is a  *)
(* step; commit, begin and produce are made by the radio's main thread,    *)
(* the only user of the adapter's stream.                                  *)
(*                                                                         *)
(* A setting is compared with its limits, never computed with: center      *)
(* frequency and gain, whose limits are independent, are one `tuning'.     *)
(* Samples are counted, not synthesised; the oscillator's phase is reset   *)
(* and advanced exactly where the sample ordinal is and is left out.       *)
(***************************************************************************)
EXTENDS Integers

CONSTANTS
  MaxRate,      \* highest sample rate; the lowest is 1
  Tunings,      \* center frequencies and gains in range
  OutOfRange,   \* one that is not
  MaxElements,  \* samples one read may ask for (1024)
  MaxOrdinal    \* bound: samples since activation

ASSUME DeviceAssumption ==
  /\ MaxRate \in Nat \ {0} /\ MaxElements \in Nat \ {0} /\ MaxOrdinal \in Nat
  /\ Tunings # {} /\ OutOfRange \notin Tunings

VARIABLES
  device,   \* VirtualRadio: settings_, streaming_, sample_ordinal_
  stream,   \* SoapyVirtualDevice::stream_: whether it exists, and its active flag
  adapter,  \* a VrtRadioAdapter exists and holds the stream
  result,   \* what the adapter last told the runtime
  samples   \* since activation: handed to packets, and dropped: read for a window
            \* that failed, or skipped (no state of the code)

deviceVars == <<device, stream, adapter, result, samples>>

Rates == 0 .. MaxRate + 1
Settings == [rate : Rates, bandwidth : Rates, tuning : Tunings \cup {OutOfRange}]
Fields == {"rate", "bandwidth", "tuning"}
StreamActions == {"none", "start", "stop"}
Results == {"none", "executed", "failed", "produced", "unsupported", "invalid_state"}

\* Seeded fault: the bandwidth is compared with the highest rate.
valid_independent(s) ==
  s.rate \in 1 .. MaxRate /\ s.bandwidth \in 1 .. MaxRate /\ s.tuning \in Tunings

\* VirtualRadio::validate.
valid(s) ==
  s.rate \in 1 .. MaxRate /\ s.bandwidth \in 1 .. s.rate /\ s.tuning \in Tunings

\* The process constructs the device, applies the configured defaults, and
\* creates the adapter, which sets the stream up.
booted(defaults) ==
  [settings |-> defaults, streaming |-> FALSE, ordinal |-> 0]
NoSamples == [handed |-> 0, dropped |-> 0]
DeviceInit ==
  /\ \E defaults \in Settings : valid(defaults) /\ device = booted(defaults)
  /\ stream = [exists |-> TRUE, active |-> FALSE]
  /\ adapter = TRUE /\ result = "none" /\ samples = NoSamples

-----------------------------------------------------------------------------
(* SoapyVirtualDevice.                                                     *)

\* Seeded fault: an activation goes on counting.
activated_keepsOrdinal(d) == [d EXCEPT !.streaming = TRUE]

activated(d) == [d EXCEPT !.ordinal = 0, !.streaming = TRUE]

\* require_stream: both throw without a stream, before they have done anything.
activateStream ==
  /\ stream.exists
  /\ device' = activated(device) /\ stream' = [stream EXCEPT !.active = TRUE]
  /\ samples' = NoSamples
\* Seeded fault: the source goes on although its stream is inactive.
deactivateStream_streamOnly ==
  /\ stream.exists
  /\ stream' = [stream EXCEPT !.active = FALSE]
  /\ UNCHANGED <<device, samples>>

deactivateStream ==
  /\ stream.exists
  /\ stream' = [stream EXCEPT !.active = FALSE]
  /\ device' = [device EXCEPT !.streaming = FALSE]
  /\ UNCHANGED samples

\* readStream and VirtualRadio::read: an active stream reads all that is asked
\* for, an inactive one nothing.
readable(n) == stream.active /\ n \in 1 .. MaxElements

\* VirtualRadio::skip_samples.
SkipSamples(n) ==
  /\ device.ordinal + n <= MaxOrdinal
  /\ device' = [device EXCEPT !.ordinal = @ + n]
  /\ samples' = [samples EXCEPT !.dropped = @ + n]
  /\ UNCHANGED <<stream, adapter, result>>

\* A setter of one field (setSampleRate, setFrequency, setBandwidth, setGain):
\* it throws, and changes nothing, unless all fields are valid together.
Setter(f, s) ==
  /\ \A g \in Fields \ {f} : s[g] = device.settings[g]
  /\ device' = IF valid(s) THEN [device EXCEPT !.settings = s] ELSE device
  /\ UNCHANGED <<stream, adapter, result, samples>>

-----------------------------------------------------------------------------
(* VrtRadioAdapter.                                                        *)

CreateAdapter ==
  /\ ~stream.exists    \* setupStream throws if there is one
  /\ stream' = [exists |-> TRUE, active |-> FALSE] /\ adapter' = TRUE
  /\ UNCHANGED <<device, result, samples>>

\* Seeded fault: the runtime's binding outlives the adapter's stream.
DestroyAdapter_staysBound ==
  /\ adapter
  /\ stream' = [exists |-> FALSE, active |-> FALSE]
  /\ device' = [device EXCEPT !.streaming = FALSE]
  /\ UNCHANGED <<adapter, result, samples>>

\* ~VrtRadioAdapter: deactivateStream and closeStream.  The binding shares the
\* adapter's ownership, so no call comes through it afterwards.
DestroyAdapter ==
  /\ adapter
  /\ stream' = [exists |-> FALSE, active |-> FALSE] /\ adapter' = FALSE
  /\ device' = [device EXCEPT !.streaming = FALSE]
  /\ UNCHANGED <<result, samples>>

\* commit, where s is the present settings with the plan's eligible fields
\* written over them and action its DiscreteIO32 field.  One try block holds
\* apply_settings, which throws if s is not valid, and then the stream action,
\* which throws without a stream: then s is in force although commit has failed.
applied(s) == [device EXCEPT !.settings = s]
commit(s, action) ==
  /\ adapter
  /\ \/ /\ ~valid(s)
        /\ result' = "failed" /\ UNCHANGED <<device, stream, samples>>
     \/ /\ valid(s) /\ action # "none" /\ ~stream.exists
        /\ result' = "failed" /\ device' = applied(s) /\ UNCHANGED <<stream, samples>>
     \/ /\ valid(s) /\ (action # "none" => stream.exists) /\ result' = "executed"
        /\ \/ /\ action = "start"
              /\ device' = activated(applied(s))
              /\ stream' = [stream EXCEPT !.active = TRUE] /\ samples' = NoSamples
           \/ /\ action = "stop"
              /\ device' = [applied(s) EXCEPT !.streaming = FALSE]
              /\ stream' = [stream EXCEPT !.active = FALSE] /\ UNCHANGED samples
           \/ /\ action = "none"
              /\ device' = applied(s) /\ UNCHANGED <<stream, samples>>
  /\ UNCHANGED adapter

\* begin of one field: only the stream action touches the device, and any other
\* value than start or stop of it fails; other fields are reported executed.
begin(action) ==
  /\ adapter
  /\ \/ action = "start" /\ activateStream /\ result' = "executed"
     \/ action = "stop" /\ deactivateStream /\ result' = "executed"
     \/ /\ action = "none" /\ result' \in {"executed", "failed"}
        /\ UNCHANGED <<device, stream, samples>>
  /\ UNCHANGED adapter

\* Seeded fault: samples of a failed window are not counted as read.
produce_rewinds(n, k) ==
  /\ adapter
  /\ \/ n > MaxElements /\ result' = "unsupported" /\ UNCHANGED <<device, samples>>
     \/ /\ n \in 1 .. MaxElements /\ stream.active
        /\ device.ordinal + n <= MaxOrdinal
        /\ result' = IF k = n THEN "produced" ELSE "invalid_state"
        /\ device' = [device EXCEPT !.ordinal = @ + k]
        /\ samples' = IF k = n THEN [samples EXCEPT !.handed = @ + n]
                               ELSE [samples EXCEPT !.dropped = @ + n]
  /\ UNCHANGED <<stream, adapter>>

\* produce of n samples; a write into the packet's window may fail at sample
\* k + 1, when the device has already gone on.
produce(n, k) ==
  /\ adapter
  /\ \/ n > MaxElements /\ result' = "unsupported" /\ UNCHANGED <<device, samples>>
     \/ /\ n <= MaxElements /\ ~readable(n)
        /\ result' = "invalid_state" /\ UNCHANGED <<device, samples>>
     \/ /\ readable(n) /\ device.ordinal + n <= MaxOrdinal
        /\ result' = IF k = n THEN "produced" ELSE "invalid_state"
        /\ device' = [device EXCEPT !.ordinal = @ + n]
        /\ samples' = IF k = n THEN [samples EXCEPT !.handed = @ + n]
                               ELSE [samples EXCEPT !.dropped = @ + n]
  /\ UNCHANGED <<stream, adapter>>

-----------------------------------------------------------------------------

DeviceNext ==
  \/ \E f \in Fields, s \in Settings : Setter(f, s)
  \/ \E n \in 1 .. MaxOrdinal : SkipSamples(n)
  \/ CreateAdapter \/ DestroyAdapter
  \/ \E s \in Settings, action \in StreamActions : commit(s, action)
  \/ \E action \in StreamActions : begin(action)
  \/ \E n \in 0 .. MaxElements + 1 : \E k \in 0 .. n : produce(n, k)

DeviceSpec == DeviceInit /\ [][DeviceNext]_deviceVars

-----------------------------------------------------------------------------
(* Properties.                                                             *)

\* Types of the device's state.  The settings are jointly valid at every moment,
\* although fields are changed one at a time and in subsets, and a change of one
\* can invalidate another.
DeviceTypeOK ==
  /\ device \in [settings : Settings, streaming : BOOLEAN, ordinal : Nat]
  /\ device.settings.rate \in 1 .. MaxRate
  /\ device.settings.bandwidth \in 1 .. device.settings.rate
  /\ device.settings.tuning \in Tunings
  /\ stream \in [exists : BOOLEAN, active : BOOLEAN]
  /\ adapter \in BOOLEAN /\ result \in Results
  /\ samples \in [handed : Nat, dropped : Nat]

\* The flag that status and controller see agrees with the stream that delivers:
\* the source runs exactly while the adapter's stream exists and is active.
StreamAgrees ==
  /\ device.streaming <=> stream.active
  /\ stream.active => stream.exists
  /\ stream.exists <=> adapter

\* The sample ordinal counts the samples read since the last activation: those
\* handed to packets and those lost with a window that failed, and no others.
OrdinalAccounts ==
  device.ordinal = samples.handed + samples.dropped

\* A commit is all or nothing.  One that fails has changed neither settings nor
\* stream, although it applies the settings first and can still fail after that:
\* the stream the action needs lives exactly as long as the adapter that commits.
FailedCommitIsVoid ==
  [][result # "failed" /\ result' = "failed" => UNCHANGED <<device, stream>>]_deviceVars
=============================================================================
