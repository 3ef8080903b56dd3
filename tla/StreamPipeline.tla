---------------------------- MODULE StreamPipeline ----------------------------
(***************************************************************************)
(* One sample stream from a radio to a detection.  The radio sends a       *)
(* context and data packets over UDP; ProcessorCore::consume               *)
(* (apps/udp_pipeline.cpp) assembles FFT windows, fills gaps of the packet *)
(* count with missing samples and sends one spectrum per window over UDP;  *)
(* DetectorCore::consume judges each spectrum, and run_detector reports a  *)
(* silent stream.  The streams share no state, so one stands for all.      *)
(*                                                                         *)
(* Time is counted in sample periods.  A sample is represented by the time *)
(* at which the radio took it, a missing one by Missing.                   *)
(***************************************************************************)
EXTENDS Integers, Sequences

CONSTANTS
  CountModulus,   \* packet counts are modulo this (16 in the code)
  PacketPairs,    \* samples per full packet
  FftSize,        \* samples per window
  QueueLimit,     \* config.queue_limit: spectra per datagram
  FirstTime,      \* time of the first sample
  Silence,        \* ticks until a stream is reported unavailable (5 s)
  Bounds          \* bounds, of which a behaviour has one

ASSUME SizeAssumption ==
  /\ CountModulus \in Nat \ {0, 1} /\ PacketPairs \in Nat \ {0}
  /\ FftSize \in Nat \ {0} /\ PacketPairs <= FftSize
  /\ QueueLimit \in Nat \ {0} /\ FirstTime \in Nat \ {0} /\ Silence \in Nat \ {0}
\* packets, starts and contexts that the radio sends; malformed datagrams of each
\* hop; losses on each, and failed sends; datagrams reordered and duplicated; and
\* datagrams in flight.
Bound == [packets : Nat, epochs : Nat, contexts : Nat, malformed : Nat, losses : Nat,
          reorders : Nat, duplicates : Nat, inFlight : Nat \ {0}]
ASSUME BoundAssumption == Bounds \subseteq Bound /\ Bounds # {}

Missing == 0
Settings == {1, 2}     \* center frequency and sample rate
Reasons == {"limits", "invalid_envelope", "invalid_context", "invalid_data",
            "invalid_samples", "waiting_context", "timestamp_range"}
None == -1

NoPacket == [kind |-> "none"]

VARIABLES
  source,     \* the radio
  air,        \* datagrams from radio to processor, in the order sent
  stream,     \* ProcessorCore::StreamState
  metrics,    \* ProcessorMetrics
  wire,       \* spectra from processor to detector
  detector,   \* DetectorCore and run_detector's view of the stream
  network,    \* faults so far
  bound,      \* the bound of this behaviour (no state of the code)
  audit       \* first and last accepted data packet, number accepted, first
              \* spectrum that reached the detector (no state of the code)

vars == <<source, air, stream, metrics, wire, detector, network, bound, audit>>

Init ==
  /\ source = [started |-> FALSE, time |-> FirstTime, packets |-> 0, settings |-> 1,
               epoch |-> 0, epochs |-> 0, contexts |-> 0, short |-> FALSE]
  /\ air = <<>> /\ wire = <<>>
  /\ stream = [metadata_valid |-> FALSE, settings |-> 0, epoch |-> 0,
               window |-> <<>>, begin |-> 0, count |-> None, previous_pairs |-> 0,
               ordinal |-> 0, discontinuities |-> 0, sequence_gaps |-> 0,
               sequence |-> 0]
  /\ metrics = [datagrams |-> 0, malformed |-> 0,
                discards |-> [x \in Reasons |-> 0], context_updates |-> 0,
                packet_gaps |-> 0, spectra |-> 0, unavailable |-> 0,
                send_failures |-> 0]
  /\ detector = [sequence |-> None, datagrams |-> 0, detections |-> 0, gapped |-> 0,
                 zero |-> 0, malformed |-> 0, sequence_gaps |-> 0, unavailable |-> 0,
                 seen |-> FALSE, silent |-> 0, reported |-> FALSE]
  /\ bound \in Bounds
  /\ network = [lost |-> 0, reordered |-> 0, duplicated |-> 0]
  /\ audit = [first |-> NoPacket, last |-> NoPacket, accepted |-> 0, spectrum |-> None]

-----------------------------------------------------------------------------
(* The radio (external runtime): a start announces settings and epoch in a *)
(* context, then packets follow with consecutive counts.                   *)

context == [kind |-> "context", settings |-> source.settings, epoch |-> source.epoch]
room == Len(air) < bound.inFlight

\* A start, or a restart at a later epoch with the same or other settings.
RadioStart ==
  /\ source.epochs < bound.epochs /\ room
  /\ \E s \in Settings :
       LET t == IF source.started THEN source.time + 1 ELSE source.time
       IN  /\ source' = [source EXCEPT !.started = TRUE, !.settings = s,
                !.short = FALSE, !.epochs = @ + 1, !.time = t, !.epoch = t]
           /\ air' = Append(air, [kind |-> "context", settings |-> s, epoch |-> t])
  /\ UNCHANGED <<stream, metrics, wire, detector, network, audit, bound>>

RadioContext ==
  /\ source.started /\ source.contexts < bound.contexts /\ room
  /\ source' = [source EXCEPT !.contexts = @ + 1]
  /\ air' = Append(air, context)
  /\ UNCHANGED <<stream, metrics, wire, detector, network, audit, bound>>

\* A burst ends in a short packet; the next samples belong to a later start.
RadioSend(n) ==
  /\ source.started /\ ~source.short /\ source.packets < bound.packets /\ room
  /\ air' = Append(air, [kind |-> "data", index |-> source.packets,
                         count |-> source.packets % CountModulus,
                         time |-> source.time, pairs |-> n])
  /\ source' = [source EXCEPT !.packets = @ + 1, !.time = @ + n,
                              !.short = n < PacketPairs]
  /\ UNCHANGED <<stream, metrics, wire, detector, network, audit, bound>>

-----------------------------------------------------------------------------
(* UDP between radio and processor.                                        *)

Lose ==
  /\ air # <<>> /\ network.lost < bound.losses
  /\ network' = [network EXCEPT !.lost = @ + 1]
  /\ air' = Tail(air)
  /\ UNCHANGED <<source, stream, metrics, wire, detector, audit, bound>>

\* The i-th datagram in flight arrives: in order, before the one sent just
\* before it, or with a copy of it still to come.
arrives(i) ==
  \/ i = 1 /\ air' = Tail(air) /\ UNCHANGED network
  \/ /\ i = 2 /\ network.reordered < bound.reorders
     /\ air' = <<Head(air)>> \o SubSeq(air, 3, Len(air))
     /\ network' = [network EXCEPT !.reordered = @ + 1]
  \/ /\ i = 1 /\ network.duplicated < bound.duplicates
     /\ air' = air
     /\ network' = [network EXCEPT !.duplicated = @ + 1]

-----------------------------------------------------------------------------
(* ProcessorCore::consume.                                                 *)

counted(m) == [m EXCEPT !.datagrams = @ + 1]
\* Seeded fault: a discard without its reason.
discarded_unclassified(m, reason) == [counted(m) EXCEPT !.malformed = @ + 1]

discarded(m, reason) ==
  [counted(m) EXCEPT !.malformed = @ + 1, !.discards[reason] = @ + 1]

\* A datagram that is too large or does not decode.
ConsumeMalformed(reason) ==
  /\ reason \notin {"waiting_context", "timestamp_range"}
  /\ metrics.malformed < bound.malformed
  /\ metrics' = discarded(metrics, reason)
  /\ UNCHANGED <<source, air, stream, wire, detector, network, audit, bound>>

\* A context with other settings discards the window that was being filled.
clears(p) == stream.window # <<>> /\ stream.settings # p.settings
ConsumeContext(i, p) ==
  /\ p.kind = "context" /\ arrives(i)
  /\ stream' = [stream EXCEPT !.metadata_valid = TRUE, !.settings = p.settings,
       !.epoch = p.epoch,
       !.window = IF clears(p) THEN <<>> ELSE @,
       !.discontinuities = IF clears(p) THEN @ + 1 ELSE @]
  /\ metrics' = [counted(metrics) EXCEPT !.context_updates = @ + 1]
  /\ UNCHANGED <<source, wire, detector, audit, bound>>

ConsumeEarly(i, p) ==
  /\ p.kind = "data" /\ ~stream.metadata_valid /\ arrives(i)
  /\ metrics' = discarded(metrics, "waiting_context")
  /\ UNCHANGED <<source, stream, wire, detector, audit, bound>>

\* Seeded fault: the count is compared with the last one, not with the next.
gap_offByOne(p) ==
  IF stream.count = None THEN 0 ELSE (p.count - stream.count) % CountModulus

\* Packets between the last one and p, as the counts tell.
gap(p) ==
  IF stream.count = None THEN 0
  ELSE (p.count - ((stream.count + 1) % CountModulus)) % CountModulus
\* Seeded fault: the missing packets are taken to be as long as this one.
missingPairs_ofThis(p) == gap(p) * p.pairs

missingPairs(p) == gap(p) * stream.previous_pairs
noticed(p) ==
  [stream EXCEPT !.count = p.count, !.previous_pairs = p.pairs,
     !.discontinuities = IF gap(p) > 0 THEN @ + 1 ELSE @,
     !.sequence_gaps = @ + gap(p)]

\* subtract_samples fails: the gap would begin before time 0.
ConsumeOutOfRange(i, p) ==
  /\ p.kind = "data" /\ stream.metadata_valid /\ missingPairs(p) > p.time
  /\ arrives(i)
  /\ stream' = noticed(p)
  /\ metrics' = [discarded(metrics, "timestamp_range") EXCEPT !.packet_gaps = @ + gap(p)]
  /\ UNCHANGED <<source, wire, detector, audit, bound>>

\* append, for every missing and every real sample: the window being filled
\* followed by them, cut into windows.  A window begins at the time given with
\* its first sample, which for a real sample is its packet's.
appended(p) ==
  stream.window \o [i \in 1 .. missingPairs(p) |-> Missing]
                \o [i \in 1 .. p.pairs |-> p.time + i - 1]
beginAt(p, i) ==
  LET old == Len(stream.window) IN
  IF i <= old THEN stream.begin
  ELSE IF i <= old + missingPairs(p) THEN p.time - missingPairs(p) + (i - old - 1)
  ELSE p.time
\* Seeded fault: a window is closed by the sample after its last.
windows_late(p) ==
  IF appended(p) = <<>> THEN 0 ELSE (Len(appended(p)) - 1) \div FftSize

windows(p) == Len(appended(p)) \div FftSize
\* Seeded fault: the ordinal is read when the window is full.
spectrum_lateOrdinal(p, k) ==
  LET from == (k - 1) * FftSize + 1 IN
  [sequence |-> stream.sequence + k - 1,
   begin |-> beginAt(p, from),
   epoch |-> stream.epoch,
   ordinal |-> stream.ordinal,
   samples |-> SubSeq(appended(p), from, k * FftSize)]

spectrum(p, k) ==
  LET from == (k - 1) * FftSize + 1 IN
  [sequence |-> stream.sequence + k - 1,
   begin |-> beginAt(p, from),
   epoch |-> stream.epoch,
   ordinal |-> stream.ordinal - Len(stream.window) + (k - 1) * FftSize,
   samples |-> SubSeq(appended(p), from, k * FftSize)]
sentWindows(p) == IF windows(p) < QueueLimit THEN windows(p) ELSE QueueLimit

increasing(n, m) ==
  {f \in [1 .. n -> 1 .. m] : \A i, j \in 1 .. n : i < j => f[i] < f[j]}

\* run_processor sends what consume returns; sends are the sends that succeed.
ConsumeData(i, p) ==
  /\ p.kind = "data" /\ stream.metadata_valid /\ missingPairs(p) <= p.time
  /\ arrives(i)
  /\ LET kept == windows(p) * FftSize + 1 IN
     stream' = [noticed(p) EXCEPT
       !.ordinal = @ + missingPairs(p) + p.pairs,
       !.sequence = @ + windows(p),
       !.window = SubSeq(appended(p), kept, Len(appended(p))),
       !.begin = IF kept <= Len(appended(p)) THEN beginAt(p, kept) ELSE @]
  /\ \E n \in 0 .. sentWindows(p) : \E sends \in increasing(n, sentWindows(p)) :
       /\ sentWindows(p) - n + metrics.send_failures <= bound.losses
       /\ wire' = wire \o [k \in 1 .. n |-> spectrum(p, sends[k])]
       /\ metrics' = [counted(metrics) EXCEPT
            !.packet_gaps = @ + gap(p), !.spectra = @ + sentWindows(p),
            !.unavailable = @ + windows(p) - sentWindows(p),
            !.send_failures = @ + sentWindows(p) - n]
  /\ audit' = [audit EXCEPT !.first = IF @ = NoPacket THEN p ELSE @,
                             !.last = p, !.accepted = @ + 1]
  /\ UNCHANGED <<source, detector, bound>>

-----------------------------------------------------------------------------
(* The detector.                                                           *)

gapped(x) == \E i \in 1 .. FftSize : x.samples[i] = Missing

\* Seeded fault: the sequence of a gapped spectrum is not compared.
sequenceGap_validOnly(x) ==
  /\ detector.sequence # None /\ x.sequence # detector.sequence + 1
  /\ ~gapped(x)

sequenceGap(x) == detector.sequence # None /\ x.sequence # detector.sequence + 1

\* DetectorCore::consume; detect_frequency finds nothing in a zero spectrum.
Detect ==
  /\ wire # <<>>
  /\ LET x == Head(wire) IN
     \E kind \in IF gapped(x) THEN {"gapped"} ELSE {"zero", "detections"} :
       detector' = [detector EXCEPT
         !.datagrams = @ + 1, ![kind] = @ + 1,
         !.sequence_gaps = IF sequenceGap(x) THEN @ + 1 ELSE @,
         !.sequence = x.sequence, !.seen = TRUE,
         !.silent = 0, !.reported = FALSE]
  /\ wire' = Tail(wire)
  /\ audit' = [audit EXCEPT !.spectrum = IF @ = None THEN Head(wire).sequence ELSE @]
  /\ UNCHANGED <<source, air, stream, metrics, network, bound>>

\* A datagram that is too large, does not decode or is of another FFT size.
DetectMalformed ==
  /\ detector.malformed < bound.malformed
  /\ detector' = [detector EXCEPT !.datagrams = @ + 1, !.malformed = @ + 1]
  /\ UNCHANGED <<source, air, stream, metrics, wire, network, audit, bound>>

LoseSpectrum ==
  /\ wire # <<>> /\ network.lost < bound.losses
  /\ network' = [network EXCEPT !.lost = @ + 1]
  /\ wire' = Tail(wire)
  /\ UNCHANGED <<source, air, stream, metrics, detector, audit, bound>>

\* run_detector: a stream that was seen and is silent is reported once.
Pause ==
  /\ detector' = [detector EXCEPT
       !.silent = IF @ < Silence THEN @ + 1 ELSE @]
  /\ UNCHANGED <<source, air, stream, metrics, wire, network, audit, bound>>

\* Seeded fault: the report is not remembered.
Unavailable_again ==
  /\ detector.seen /\ ~detector.reported /\ detector.silent >= Silence
  /\ detector' = [detector EXCEPT !.unavailable = @ + 1]
  /\ UNCHANGED <<source, air, stream, metrics, wire, network, audit, bound>>

Unavailable ==
  /\ detector.seen /\ ~detector.reported /\ detector.silent >= Silence
  /\ detector' = [detector EXCEPT !.unavailable = @ + 1, !.reported = TRUE]
  /\ UNCHANGED <<source, air, stream, metrics, wire, network, audit, bound>>

-----------------------------------------------------------------------------

Next ==
  \/ RadioStart \/ RadioContext \/ \E n \in 1 .. PacketPairs : RadioSend(n)
  \/ Lose \/ LoseSpectrum
  \/ \E reason \in Reasons : ConsumeMalformed(reason)
  \/ \E i \in 1 .. Len(air) :
       \/ ConsumeContext(i, air[i]) \/ ConsumeEarly(i, air[i])
       \/ ConsumeOutOfRange(i, air[i]) \/ ConsumeData(i, air[i])
  \/ Detect \/ DetectMalformed \/ Pause \/ Unavailable

Spec == Init /\ [][Next]_vars

-----------------------------------------------------------------------------
(* Properties.                                                             *)

Packet ==
  [kind : {"context"}, settings : Settings, epoch : Nat]
    \cup [kind : {"data"}, index : Nat, count : 0 .. CountModulus - 1,
          time : Nat, pairs : 1 .. PacketPairs]
Spectrum == [sequence : Nat, begin : Nat, epoch : Nat, ordinal : Nat,
             samples : [1 .. FftSize -> Nat]]

\* Types; a window under construction is never full and has no sample that the
\* ordinal does not count; a spectrum is of one full window.
TypeOK ==
  /\ source \in [started : BOOLEAN, time : Nat, packets : Nat, settings : Settings,
                 epoch : Nat, epochs : Nat, contexts : Nat, short : BOOLEAN]
  /\ air \in Seq(Packet) /\ Len(air) <= bound.inFlight
  /\ stream \in [metadata_valid : BOOLEAN, settings : {0} \cup Settings, epoch : Nat,
                 window : Seq(Nat), begin : Nat, count : {None} \cup 0 .. CountModulus - 1,
                 previous_pairs : 0 .. PacketPairs, ordinal : Nat, discontinuities : Nat,
                 sequence_gaps : Nat, sequence : Nat]
  /\ Len(stream.window) < FftSize /\ Len(stream.window) <= stream.ordinal
  /\ metrics \in [datagrams : Nat, malformed : Nat, discards : [Reasons -> Nat],
                  context_updates : Nat, packet_gaps : Nat, spectra : Nat,
                  unavailable : Nat, send_failures : Nat]
  /\ wire \in Seq(Spectrum)
  /\ detector \in [sequence : {None} \cup Nat, datagrams : Nat, detections : Nat,
                   gapped : Nat, zero : Nat, malformed : Nat, sequence_gaps : Nat,
                   unavailable : Nat, seen : BOOLEAN, silent : 0 .. Silence,
                   reported : BOOLEAN]
  /\ network \in [lost : Nat, reordered : Nat, duplicated : Nat]
  /\ bound \in Bounds

\* Every datagram is accounted for once: as a context, as accepted data or
\* under one discard reason; consume() has no path that counts twice or not.
DiscardAccounting ==
  /\ metrics.datagrams =
       metrics.malformed + metrics.context_updates + audit.accepted
  /\ metrics.malformed =
       metrics.discards["limits"] + metrics.discards["invalid_envelope"]
         + metrics.discards["invalid_context"] + metrics.discards["invalid_data"]
         + metrics.discards["invalid_samples"] + metrics.discards["waiting_context"]
         + metrics.discards["timestamp_range"]

\* Spectra cut the sample ordinals into disjoint windows in order, whatever the
\* network did; the samples still in the window follow the last spectrum.
WindowOrdinals ==
  /\ \A k \in 1 .. Len(wire) - 1 :
       /\ wire[k].sequence < wire[k + 1].sequence
       /\ wire[k].ordinal + FftSize * (wire[k + 1].sequence - wire[k].sequence)
            <= wire[k + 1].ordinal
  /\ wire # <<>> =>
       wire[Len(wire)].ordinal + FftSize <= stream.ordinal - Len(stream.window)

\* While the radio runs one epoch, packets arrive in order and fewer than
\* CountModulus in a row are lost, gap filling restores the timeline exactly: a
\* real sample stands where its time says, and a window begins at its begin.
\* (A window that begins inside a packet is given its packet's time; the
\* deployment avoids it with FFT sizes that are multiples of the packet size.)
steady ==
  /\ FftSize % PacketPairs = 0
  /\ network.reordered = 0 /\ network.duplicated = 0 /\ source.epochs <= 1
onTime(samples, begin) ==
  \A i \in 1 .. Len(samples) : samples[i] \in {Missing, begin + i - 1}
TimelineExact ==
  steady /\ network.lost < CountModulus =>
    /\ onTime(stream.window, stream.begin)
    /\ \A k \in 1 .. Len(wire) : onTime(wire[k].samples, wire[k].begin)
    /\ audit.accepted > 0 =>
         stream.ordinal = audit.last.time + audit.last.pairs - audit.first.time

\* Under the same conditions the gaps counted are the packets that did not
\* arrive between the first and the last accepted one; a short packet is none.
GapCountExact ==
  steady /\ network.lost < CountModulus /\ audit.accepted > 0 =>
    metrics.packet_gaps =
      audit.last.index - audit.first.index + 1 - audit.accepted

\* A detector that has noticed no sequence gap has seen every spectrum between
\* its first and its latest: neither a failed send, a full output queue nor the
\* network lose one silently.
NoSilentSpectrumLoss ==
  detector.sequence_gaps = 0 /\ audit.spectrum # None =>
    detector.datagrams - detector.malformed = detector.sequence - audit.spectrum + 1

\* A stream is reported unavailable at most once for each spectrum received.
UnavailableOnce == detector.unavailable <= detector.datagrams - detector.malformed

\* IMPLEMEMTATION.md: "Preserve gap and validity metadata": a spectrum without
\* missing samples is of consecutive samples.
ValidWindowsContiguous ==
  \A k \in 1 .. Len(wire) :
    ~gapped(wire[k]) =>
      \A i \in 1 .. FftSize - 1 :
        wire[k].samples[i + 1] = wire[k].samples[i] + 1
=============================================================================
