------------------------- MODULE StreamPipelineProofs -------------------------
(***************************************************************************)
(* Proofs about one stream, whatever the network does and for every size.  *)
(* The window ordinals rest on the phase of a spectrum: its ordinal less   *)
(* FftSize samples for each spectrum before it.  A lost sample can only    *)
(* raise the phase, so it never falls along the wire nor from there to the *)
(* window being filled.                                                    *)
(*                                                                         *)
(* The timeline of one epoch rests on SteadyInv: in flight are, in order,  *)
(* all packets from some index on, and between that index and the last     *)
(* accepted packet no more are missing than were lost, so fewer than the   *)
(* modulus of the counts.  The counts therefore tell the gap, which ends   *)
(* where the packet begins, and all of it is whole packets.                *)
(***************************************************************************)
EXTENDS StreamPipeline, SequenceTheorems, TLAPS

phase(x) == x.ordinal - FftSize * x.sequence
streamPhase == stream.ordinal - Len(stream.window) - FftSize * stream.sequence

Ordered ==
  /\ \A k \in 1 .. Len(wire) :
       wire[k].sequence < stream.sequence /\ phase(wire[k]) <= streamPhase
  /\ \A j, k \in 1 .. Len(wire) : j < k =>
       wire[j].sequence < wire[k].sequence /\ phase(wire[j]) <= phase(wire[k])

AuditOK == audit \in [first : Packet \cup {NoPacket}, last : Packet \cup {NoPacket},
                      accepted : Nat, spectrum : {None} \cup Nat]

\* The detector has a latest spectrum exactly when it has a first one.
Seen ==
  /\ audit.spectrum = None <=> detector.sequence = None
  /\ detector.sequence = None => detector.datagrams = detector.malformed

\* A stream that may still be reported has had a spectrum since the last report.
Reported ==
  /\ detector.seen /\ ~detector.reported =>
       detector.unavailable + 1 <= detector.datagrams - detector.malformed
  /\ UnavailableOnce

Inv == TypeOK /\ AuditOK

-----------------------------------------------------------------------------
(* Arithmetic of windows.                                                  *)

\* Cutting a samples into windows of b leaves fewer than b.
LEMMA WindowDivision ==
  ASSUME NEW a \in Nat, NEW b \in Nat \ {0}
  PROVE  /\ a \div b \in Nat
         /\ (a \div b) * b \in Nat
         /\ (a \div b) * b <= a /\ a < (a \div b) * b + b
  BY SMT

LEMMA WindowOrder ==
  ASSUME NEW b \in Nat, NEW i \in Nat, NEW j \in Nat, i <= j
  PROVE  i * b <= j * b /\ i * b \in Nat
  BY SMT

LEMMA Distribute ==
  ASSUME NEW b \in Nat, NEW i \in Int, NEW j \in Int
  PROVE  /\ b * (i + j) = b * i + b * j /\ b * (i - j) = b * i - b * j
         /\ b * i = i * b /\ b * i \in Int
         /\ (i + j) * b = i * b + j * b /\ (i - j) * b = i * b - j * b
  BY SMT

-----------------------------------------------------------------------------
(* What consume makes of a data packet.                                    *)

LEMMA GapLemma ==
  ASSUME TypeOK, NEW p \in Packet, p.kind = "data"
  PROVE  gap(p) \in 0 .. CountModulus - 1 /\ missingPairs(p) \in Nat
         /\ p.count \in 0 .. CountModulus - 1 /\ p.time \in Nat
         /\ p.pairs \in 1 .. PacketPairs
  <1>1. p.count \in 0 .. CountModulus - 1 /\ p.time \in Nat
        /\ p.pairs \in 1 .. PacketPairs
    BY DEF Packet
  <1>2. gap(p) \in 0 .. CountModulus - 1
    <2>1. CASE stream.count = None
      BY <2>1, SizeAssumption DEF gap
    <2>2. CASE stream.count # None
      <3>1. stream.count \in 0 .. CountModulus - 1 /\ CountModulus \in Nat \ {0}
        BY <2>2, SizeAssumption DEF TypeOK
      <3>2. (stream.count + 1) % CountModulus \in 0 .. CountModulus - 1
        BY <3>1
      <3> DEFINE n == (stream.count + 1) % CountModulus
      <3> HIDE DEF n
      <3>3. n \in Int
        BY <3>2 DEF n
      <3>4. p.count - n \in Int
        BY <1>1, <3>1, <3>3
      <3>5. (p.count - n) % CountModulus \in 0 .. CountModulus - 1
        BY <3>1, <3>4
      <3>6. QED
        BY <2>2, <3>5 DEF gap, n
    <2>3. QED
      BY <2>1, <2>2
  <1>3. missingPairs(p) \in Nat
    <2>1. gap(p) \in Nat /\ stream.previous_pairs \in Nat
      BY <1>2, SizeAssumption DEF TypeOK
    <2> DEFINE g == gap(p)
    <2>2. g \in Nat /\ g * stream.previous_pairs \in Nat
      <3> HIDE DEF g
      <3>1. g \in Nat
        BY <2>1 DEF g
      <3>2. QED
        BY <3>1, <2>1
    <2>3. QED
      BY <2>2 DEF missingPairs
  <1>4. QED
    BY <1>1, <1>2, <1>3

\* The samples at hand: those of the window, the missing ones and the new ones.
LEMMA AppendedLemma ==
  ASSUME TypeOK, NEW p \in Packet, p.kind = "data"
  PROVE  /\ appended(p) \in Seq(Nat)
         /\ Len(appended(p)) = Len(stream.window) + missingPairs(p) + p.pairs
         /\ Len(stream.window) \in Nat
  <1> DEFINE m == missingPairs(p)
             filler == [i \in 1 .. m |-> Missing]
             real == [i \in 1 .. p.pairs |-> p.time + i - 1]
  <1>1. m \in Nat /\ p.time \in Nat /\ p.pairs \in Nat
    BY GapLemma, SizeAssumption
  <1>2. filler \in Seq(Nat) /\ Len(filler) = m
    <2> HIDE DEF m
    <2>1. \A i \in 1 .. m : Missing \in Nat
      BY DEF Missing
    <2>2. QED
      BY <1>1, <2>1
  <1>3. real \in Seq(Nat) /\ Len(real) = p.pairs
    <2>1. \A i \in 1 .. p.pairs : p.time + i - 1 \in Nat
      BY <1>1
    <2>2. QED
      BY <1>1, <2>1
  <1>4. stream.window \in Seq(Nat)
    BY DEF TypeOK
  <1>5. appended(p) = stream.window \o filler \o real
    BY DEF appended
  <1> HIDE DEF filler, real, m
  <1>6. stream.window \o filler \in Seq(Nat)
        /\ Len(stream.window \o filler) = Len(stream.window) + m
    BY <1>2, <1>4, ConcatProperties
  <1>7. (stream.window \o filler) \o real \in Seq(Nat)
        /\ Len((stream.window \o filler) \o real)
             = Len(stream.window \o filler) + Len(real)
    BY <1>3, <1>6, ConcatProperties
  <1>8. Len(stream.window) \in Nat
    BY <1>4
  <1>9. QED
    BY <1>1, <1>3, <1>5, <1>6, <1>7, <1>8 DEF m

LEMMA WindowsLemma ==
  ASSUME TypeOK, NEW p \in Packet, p.kind = "data"
  PROVE  /\ windows(p) \in Nat
         /\ windows(p) * FftSize \in Nat
         /\ windows(p) * FftSize <= Len(appended(p))
         /\ Len(appended(p)) < windows(p) * FftSize + FftSize
         /\ sentWindows(p) \in 0 .. windows(p)
  <1>1. Len(appended(p)) \in Nat
    BY AppendedLemma
  <1>2. FftSize \in Nat \ {0} /\ QueueLimit \in Nat
    BY SizeAssumption
  <1> DEFINE a == Len(appended(p))
  <1> HIDE DEF a
  <1>3. windows(p) = a \div FftSize
    BY DEF windows, a
  <1>4. a \div FftSize \in Nat /\ (a \div FftSize) * FftSize \in Nat
        /\ (a \div FftSize) * FftSize <= a /\ a < (a \div FftSize) * FftSize + FftSize
    BY <1>1, <1>2, WindowDivision DEF a
  <1>5. windows(p) \in Nat /\ windows(p) * FftSize \in Nat
        /\ windows(p) * FftSize <= a /\ a < windows(p) * FftSize + FftSize
    BY <1>3, <1>4
  <1>6. sentWindows(p) \in 0 .. windows(p)
    BY <1>2, <1>5 DEF sentWindows
  <1>7. QED
    BY <1>5, <1>6 DEF a

\* The time a window is given as its begin is one.
LEMMA BeginLemma ==
  ASSUME TypeOK, NEW p \in Packet, p.kind = "data", missingPairs(p) <= p.time,
         NEW i \in Nat \ {0}
  PROVE  beginAt(p, i) \in Nat
  <1> DEFINE m == missingPairs(p)
             old == Len(stream.window)
  <1>1. m \in Nat /\ p.time \in Nat /\ m <= p.time
    BY GapLemma
  <1>2. old \in Nat /\ stream.begin \in Nat
    BY AppendedLemma DEF TypeOK
  <1>3. beginAt(p, i) = IF i <= old THEN stream.begin
                        ELSE IF i <= old + m THEN p.time - m + (i - old - 1)
                        ELSE p.time
    BY DEF beginAt
  <1> HIDE DEF m, old
  <1>4. ~(i <= old) => i - old - 1 \in Nat
    BY <1>2
  <1>5. p.time - m \in Nat
    BY <1>1
  <1>6. QED
    BY <1>1, <1>2, <1>3, <1>4, <1>5

\* The k-th spectrum is one of a full window; its phase is that of the stream.
LEMMA SpectrumLemma ==
  ASSUME TypeOK, NEW p \in Packet, p.kind = "data", missingPairs(p) <= p.time,
         NEW k \in 1 .. windows(p)
  PROVE  /\ spectrum(p, k) \in Spectrum
         /\ spectrum(p, k).sequence = stream.sequence + k - 1
         /\ phase(spectrum(p, k)) = streamPhase
  <1> DEFINE from == (k - 1) * FftSize + 1
             to == k * FftSize
             A == appended(p)
             left == Len(stream.window)
  <1>1. FftSize \in Nat \ {0} /\ windows(p) \in Nat /\ k \in Nat /\ k - 1 \in Nat
    BY SizeAssumption, WindowsLemma
  <1>2. A \in Seq(Nat) /\ Len(A) \in Nat /\ left \in Nat
    BY AppendedLemma
  <1>3. to <= windows(p) * FftSize /\ to \in Nat
    BY <1>1, WindowOrder
  <1>4. to <= Len(A)
    BY <1>2, <1>3, WindowsLemma
  <1>5. (k - 1) * FftSize \in Nat /\ to = (k - 1) * FftSize + FftSize
    <2>1. (k - 1) * FftSize \in Nat
      BY <1>1, WindowOrder
    <2>2. (k - 1) * FftSize = k * FftSize - 1 * FftSize
      BY <1>1, Distribute
    <2>3. QED
      BY <1>1, <1>3, <2>1, <2>2
  <1> DEFINE base == (k - 1) * FftSize
  <1>6. SubSeq(A, from, to) \in [1 .. FftSize -> Nat]
    <2> HIDE DEF A, to
    <2>1. base \in Nat /\ to = base + FftSize /\ from = base + 1
      BY <1>5
    <2> HIDE DEF base, from
    <2>2. \A i \in from .. to : A[i] \in Nat
      BY <1>1, <1>2, <1>4, <2>1
    <2>3. SubSeq(A, from, to) \in Seq(Nat)
          /\ Len(SubSeq(A, from, to)) = IF from <= to THEN to - from + 1 ELSE 0
      BY <1>1, <2>1, <2>2, SubSeqProperties
    <2>4. Len(SubSeq(A, from, to)) = FftSize
      BY <1>1, <2>1, <2>3
    <2>5. QED
      BY <2>3, <2>4, LenProperties
  <1>7. beginAt(p, from) \in Nat
    <2>1. from \in Nat \ {0}
      BY <1>5
    <2>2. QED
      BY <2>1, BeginLemma
  <1>8. stream.sequence \in Nat /\ stream.epoch \in Nat /\ stream.ordinal \in Nat
        /\ left <= stream.ordinal
    BY DEF TypeOK
  <1>9. spectrum(p, k) = [sequence |-> stream.sequence + k - 1,
                          begin |-> beginAt(p, from), epoch |-> stream.epoch,
                          ordinal |-> stream.ordinal - left + base,
                          samples |-> SubSeq(A, from, to)]
    BY DEF spectrum
  <1>10. stream.sequence + k - 1 \in Nat /\ stream.ordinal - left + base \in Nat
    <2> HIDE DEF base, left
    <2>1. base \in Nat
      BY <1>5 DEF base
    <2>2. QED
      BY <1>1, <1>2, <1>8, <2>1
  <1>11. phase(spectrum(p, k)) = streamPhase
    <2>1. spectrum(p, k).ordinal = stream.ordinal - left + base
          /\ spectrum(p, k).sequence = stream.sequence + (k - 1)
      BY <1>1, <1>8, <1>9
    <2>2. FftSize * (stream.sequence + (k - 1))
            = FftSize * stream.sequence + FftSize * (k - 1)
          /\ FftSize * (k - 1) = (k - 1) * FftSize
      BY <1>1, <1>8, Distribute
    <2>3. FftSize * stream.sequence \in Int
      BY <1>1, <1>8, Distribute
    <2> DEFINE s == FftSize * stream.sequence
               o == spectrum(p, k).ordinal
               q == FftSize * spectrum(p, k).sequence
    <2>4. q = s + base /\ o = stream.ordinal - left + base
      BY <2>1, <2>2
    <2>5. phase(spectrum(p, k)) = o - q /\ streamPhase = stream.ordinal - left - s
      BY DEF phase, streamPhase
    <2>6. s \in Int /\ base \in Int
      BY <1>5, <2>3
    <2> HIDE DEF s, base, left, o, q
    <2>7. o - q = stream.ordinal - left - s
      BY <1>2, <1>8, <2>4, <2>6
    <2>8. QED
      BY <2>5, <2>7, Zenon
  <1>12. QED
    BY <1>6, <1>7, <1>8, <1>9, <1>10, <1>11 DEF Spectrum

-----------------------------------------------------------------------------
(* Datagrams on their way.                                                 *)

LEMMA ArrivesLemma ==
  ASSUME TypeOK, NEW i \in 1 .. Len(air), arrives(i)
  PROVE  /\ air' \in Seq(Packet) /\ Len(air') <= bound.inFlight
         /\ network' \in [lost : Nat, reordered : Nat, duplicated : Nat]
         /\ air[i] \in Packet
  <1>1. air \in Seq(Packet) /\ Len(air) <= bound.inFlight /\ bound.inFlight \in Nat
        /\ Len(air) \in Nat
        /\ network \in [lost : Nat, reordered : Nat, duplicated : Nat]
    <2>1. air \in Seq(Packet) /\ Len(air) <= bound.inFlight
          /\ network \in [lost : Nat, reordered : Nat, duplicated : Nat]
          /\ bound \in Bound
      BY BoundAssumption DEF TypeOK
    <2>2. bound.inFlight \in Nat
      BY <2>1 DEF Bound
    <2>3. QED
      BY <2>1, <2>2
  <1>2. air # <<>> /\ air[i] \in Packet
    BY <1>1
  <1>3. CASE i = 1 /\ air' = Tail(air) /\ UNCHANGED network
    BY <1>1, <1>2, <1>3
  <1>4. CASE /\ i = 2
             /\ air' = <<Head(air)>> \o SubSeq(air, 3, Len(air))
             /\ network' = [network EXCEPT !.reordered = @ + 1]
    <2> DEFINE rest == SubSeq(air, 3, Len(air))
    <2>1. \A j \in 3 .. Len(air) : air[j] \in Packet
      BY <1>1
    <2>2. rest \in Seq(Packet)
          /\ Len(rest) = IF 3 <= Len(air) THEN Len(air) - 3 + 1 ELSE 0
      BY <1>1, <2>1, SubSeqProperties
    <2>3. <<Head(air)>> \in Seq(Packet) /\ Len(<<Head(air)>>) = 1
      BY <1>1, <1>2
    <2> HIDE DEF rest
    <2>4. <<Head(air)>> \o rest \in Seq(Packet)
          /\ Len(<<Head(air)>> \o rest) = 1 + Len(rest)
      BY <2>2, <2>3, ConcatProperties
    <2>5. 2 <= Len(air)
      BY <1>1, <1>4
    <2>6. Len(<<Head(air)>> \o rest) <= bound.inFlight
      BY <1>1, <2>2, <2>4, <2>5
    <2>7. air' = <<Head(air)>> \o rest
      BY <1>4 DEF rest
    <2>8. network' \in [lost : Nat, reordered : Nat, duplicated : Nat]
      <3>1. network \in [lost : Nat, reordered : Nat, duplicated : Nat]
        BY <1>1
      <3>2. network' = [network EXCEPT !.reordered = @ + 1]
        BY <1>4
      <3>3. QED
        BY <3>1, <3>2
    <2>9. QED
      BY <1>2, <2>4, <2>6, <2>7, <2>8
  <1>5. CASE air' = air /\ network' = [network EXCEPT !.duplicated = @ + 1]
    BY <1>1, <1>2, <1>5
  <1>6. QED
    BY <1>3, <1>4, <1>5 DEF arrives

-----------------------------------------------------------------------------
(* Types.                                                                  *)

\* The spectra that are sent, and their order.
LEMMA SentLemma ==
  ASSUME TypeOK, NEW p \in Packet, p.kind = "data", missingPairs(p) <= p.time,
         NEW n \in 0 .. sentWindows(p), NEW sends \in increasing(n, sentWindows(p))
  PROVE  LET new == [k \in 1 .. n |-> spectrum(p, sends[k])] IN
         /\ new \in Seq(Spectrum) /\ Len(new) = n
         /\ \A k \in 1 .. n :
              /\ sends[k] \in 1 .. windows(p)
              /\ new[k].sequence = stream.sequence + sends[k] - 1
              /\ phase(new[k]) = streamPhase
         /\ \A j, k \in 1 .. n : j < k => sends[j] < sends[k]
  <1> DEFINE new == [k \in 1 .. n |-> spectrum(p, sends[k])]
  <1>1. windows(p) \in Nat /\ sentWindows(p) \in 0 .. windows(p) /\ n \in Nat
    BY WindowsLemma
  <1>2. \A k \in 1 .. n : sends[k] \in 1 .. sentWindows(p)
    BY DEF increasing
  <1>3. \A k \in 1 .. n : sends[k] \in 1 .. windows(p)
    BY <1>1, <1>2
  <1>4. \A k \in 1 .. n :
          /\ spectrum(p, sends[k]) \in Spectrum
          /\ spectrum(p, sends[k]).sequence = stream.sequence + sends[k] - 1
          /\ phase(spectrum(p, sends[k])) = streamPhase
    BY <1>3, SpectrumLemma
  <1>5. new \in Seq(Spectrum) /\ Len(new) = n
    BY <1>1, <1>4
  <1>6. \A k \in 1 .. n : new[k] = spectrum(p, sends[k])
    OBVIOUS
  <1>7. \A j, k \in 1 .. n : j < k => sends[j] < sends[k]
    BY DEF increasing
  <1> HIDE DEF new
  <1>8. \A k \in 1 .. n :
          new[k].sequence = stream.sequence + sends[k] - 1 /\ phase(new[k]) = streamPhase
    BY <1>4, <1>6
  <1>9. QED
    BY <1>3, <1>5, <1>7, <1>8 DEF new

\* What a data packet leaves in the window.
LEMMA KeptLemma ==
  ASSUME TypeOK, NEW p \in Packet, p.kind = "data"
  PROVE  LET kept == windows(p) * FftSize + 1
             rest == SubSeq(appended(p), kept, Len(appended(p)))
         IN  /\ kept \in Nat \ {0}
             /\ rest \in Seq(Nat)
             /\ Len(rest) = Len(stream.window) + missingPairs(p) + p.pairs
                              - windows(p) * FftSize
             /\ Len(rest) < FftSize
             /\ Len(rest) <= stream.ordinal + missingPairs(p) + p.pairs
  <1> DEFINE base == windows(p) * FftSize
             A == appended(p)
             rest == SubSeq(A, base + 1, Len(A))
  <1>1. base \in Nat /\ base <= Len(A) /\ Len(A) < base + FftSize
    BY WindowsLemma
  <1>2. A \in Seq(Nat) /\ Len(stream.window) \in Nat
        /\ Len(A) = Len(stream.window) + missingPairs(p) + p.pairs
    BY AppendedLemma
  <1>3. stream.ordinal \in Nat /\ Len(stream.window) <= stream.ordinal
        /\ FftSize \in Nat
    BY SizeAssumption DEF TypeOK
  <1>4. missingPairs(p) \in Nat /\ p.pairs \in Nat
    BY GapLemma, SizeAssumption
  <1> HIDE DEF base, A
  <1>5. Len(A) \in Nat /\ \A i \in base + 1 .. Len(A) : A[i] \in Nat
    BY <1>1, <1>2
  <1>6. rest \in Seq(Nat)
        /\ Len(rest) = IF base + 1 <= Len(A) THEN Len(A) - (base + 1) + 1 ELSE 0
    BY <1>1, <1>5, SubSeqProperties
  <1>7. Len(rest) = Len(A) - base
    BY <1>1, <1>5, <1>6
  <1> HIDE DEF rest
  <1>8. rest \in Seq(Nat) /\ Len(rest) < FftSize /\ base + 1 \in Nat \ {0}
        /\ Len(rest) = Len(stream.window) + missingPairs(p) + p.pairs - base
        /\ Len(rest) <= stream.ordinal + missingPairs(p) + p.pairs
    <2> DEFINE L == Len(stream.window)
               m == missingPairs(p)
               n == p.pairs
               a == Len(A)
               r == Len(rest)
    <2>1. L \in Nat /\ m \in Nat /\ n \in Nat /\ a = L + m + n /\ r = a - base
          /\ base \in Nat /\ base <= a /\ a < base + FftSize /\ L <= stream.ordinal
      BY <1>1, <1>2, <1>3, <1>4, <1>7
    <2> HIDE DEF L, m, n, a, r
    <2>2. r < FftSize /\ r = L + m + n - base /\ r <= stream.ordinal + m + n
          /\ base + 1 \in Nat \ {0}
      BY <1>3, <2>1
    <2>3. QED
      BY <1>6, <2>2 DEF L, m, n, r
  <1>9. QED
    BY <1>8 DEF base, A, rest

LEMMA NoticedLemma ==
  ASSUME TypeOK, NEW p \in Packet, p.kind = "data"
  PROVE  /\ noticed(p) \in [metadata_valid : BOOLEAN, settings : {0} \cup Settings,
                 epoch : Nat, window : Seq(Nat), begin : Nat,
                 count : {None} \cup 0 .. CountModulus - 1,
                 previous_pairs : 0 .. PacketPairs, ordinal : Nat, discontinuities : Nat,
                 sequence_gaps : Nat, sequence : Nat]
         /\ noticed(p).window = stream.window /\ noticed(p).ordinal = stream.ordinal
         /\ noticed(p).sequence = stream.sequence /\ noticed(p).begin = stream.begin
         /\ gap(p) \in Nat
  <1>1. gap(p) \in 0 .. CountModulus - 1 /\ p.count \in 0 .. CountModulus - 1
        /\ p.pairs \in 1 .. PacketPairs
    BY GapLemma
  <1>2. CountModulus \in Nat /\ PacketPairs \in Nat
    BY SizeAssumption
  <1>3. gap(p) \in Nat /\ p.pairs \in 0 .. PacketPairs
    BY <1>1, <1>2
  <1>4. stream.discontinuities \in Nat /\ stream.sequence_gaps \in Nat
    BY DEF TypeOK
  <1> DEFINE d == IF gap(p) > 0 THEN stream.discontinuities + 1
                  ELSE stream.discontinuities
             g == stream.sequence_gaps + gap(p)
  <1>5. d \in Nat /\ g \in Nat
    BY <1>3, <1>4
  <1>6. noticed(p) = [stream EXCEPT !.count = p.count, !.previous_pairs = p.pairs,
                        !.discontinuities = d, !.sequence_gaps = g]
    BY DEF noticed
  <1> HIDE DEF d, g
  <1>7. stream \in [metadata_valid : BOOLEAN, settings : {0} \cup Settings, epoch : Nat,
                    window : Seq(Nat), begin : Nat,
                    count : {None} \cup 0 .. CountModulus - 1,
                    previous_pairs : 0 .. PacketPairs, ordinal : Nat, discontinuities : Nat,
                    sequence_gaps : Nat, sequence : Nat]
    BY DEF TypeOK
  <1>8. QED
    BY <1>1, <1>3, <1>5, <1>6, <1>7

\* ConsumeData keeps the types.
LEMMA DataTypes ==
  ASSUME Inv, NEW i \in 1 .. Len(air), ConsumeData(i, air[i])
  PROVE  Inv'
  <1> DEFINE p == air[i]
             kept == windows(p) * FftSize + 1
             rest == SubSeq(appended(p), kept, Len(appended(p)))
             start == IF kept <= Len(appended(p)) THEN beginAt(p, kept) ELSE stream.begin
  <1>1. TypeOK /\ p.kind = "data" /\ missingPairs(p) <= p.time /\ arrives(i)
        /\ UNCHANGED <<source, detector, bound>>
    BY DEF ConsumeData, Inv
  <1>2. p \in Packet
    BY <1>1, ArrivesLemma
  <1>3. windows(p) \in Nat /\ sentWindows(p) \in 0 .. windows(p)
        /\ windows(p) * FftSize \in Nat
    BY <1>1, <1>2, WindowsLemma
  <1>4. kept \in Nat \ {0} /\ rest \in Seq(Nat) /\ Len(rest) < FftSize
        /\ Len(rest) <= stream.ordinal + missingPairs(p) + p.pairs
    BY <1>1, <1>2, KeptLemma
  <1>5. start \in Nat
    <2>1. beginAt(p, kept) \in Nat
      BY <1>1, <1>2, <1>4, BeginLemma
    <2>2. stream.begin \in Nat
      BY <1>1 DEF TypeOK
    <2>3. QED
      BY <2>1, <2>2
  <1>6. missingPairs(p) \in Nat /\ p.pairs \in Nat /\ stream.ordinal \in Nat
        /\ stream.sequence \in Nat
    <2>1. missingPairs(p) \in Nat /\ p.pairs \in Nat
      BY <1>1, <1>2, GapLemma, SizeAssumption
    <2>2. stream.ordinal \in Nat /\ stream.sequence \in Nat
      BY <1>1 DEF TypeOK
    <2>3. QED
      BY <2>1, <2>2
  <1>7. stream' = [noticed(p) EXCEPT
                     !.ordinal = stream.ordinal + missingPairs(p) + p.pairs,
                     !.sequence = stream.sequence + windows(p),
                     !.window = rest, !.begin = start]
    <2>1. noticed(p).ordinal = stream.ordinal /\ noticed(p).sequence = stream.sequence
          /\ noticed(p).begin = stream.begin
      BY <1>1, <1>2, NoticedLemma
    <2>2. stream' = [noticed(p) EXCEPT
                       !.ordinal = @ + missingPairs(p) + p.pairs,
                       !.sequence = @ + windows(p), !.window = rest,
                       !.begin = IF kept <= Len(appended(p)) THEN beginAt(p, kept) ELSE @]
      BY DEF ConsumeData
    <2> HIDE DEF p, kept, rest
    <2>3. QED
      BY <2>1, <2>2
  <1>8. /\ stream' \in [metadata_valid : BOOLEAN, settings : {0} \cup Settings,
                epoch : Nat, window : Seq(Nat), begin : Nat,
                count : {None} \cup 0 .. CountModulus - 1,
                previous_pairs : 0 .. PacketPairs, ordinal : Nat, discontinuities : Nat,
                sequence_gaps : Nat, sequence : Nat]
        /\ stream'.window = rest /\ stream'.sequence = stream.sequence + windows(p)
        /\ stream'.ordinal = stream.ordinal + missingPairs(p) + p.pairs
    <2> DEFINE o == stream.ordinal + missingPairs(p) + p.pairs
               q == stream.sequence + windows(p)
    <2>1. o \in Nat /\ q \in Nat
      BY <1>3, <1>6, SMTT(30)
    <2>2. noticed(p) \in [metadata_valid : BOOLEAN, settings : {0} \cup Settings,
                 epoch : Nat, window : Seq(Nat), begin : Nat,
                 count : {None} \cup 0 .. CountModulus - 1,
                 previous_pairs : 0 .. PacketPairs, ordinal : Nat, discontinuities : Nat,
                 sequence_gaps : Nat, sequence : Nat]
      BY <1>1, <1>2, NoticedLemma
    <2>3. stream' = [noticed(p) EXCEPT !.ordinal = o, !.sequence = q, !.window = rest,
                                       !.begin = start]
      BY <1>7
    <2>4. rest \in Seq(Nat) /\ start \in Nat
      BY <1>4, <1>5
    <2> HIDE DEF o, q, rest, start, p
    <2>5. QED
      BY <2>1, <2>2, <2>3, <2>4 DEF o, q
  <1>9. PICK n \in 0 .. sentWindows(p) : \E sends \in increasing(n, sentWindows(p)) :
          /\ wire' = wire \o [k \in 1 .. n |-> spectrum(p, sends[k])]
          /\ metrics' = [counted(metrics) EXCEPT
               !.packet_gaps = @ + gap(p), !.spectra = @ + sentWindows(p),
               !.unavailable = @ + windows(p) - sentWindows(p),
               !.send_failures = @ + sentWindows(p) - n]
    BY DEF ConsumeData
  <1>10. wire' \in Seq(Spectrum)
    <2>1. PICK sends \in increasing(n, sentWindows(p)) :
            wire' = wire \o [k \in 1 .. n |-> spectrum(p, sends[k])]
      BY <1>9
    <2>2. [k \in 1 .. n |-> spectrum(p, sends[k])] \in Seq(Spectrum)
      BY <1>1, <1>2, SentLemma
    <2>3. wire \in Seq(Spectrum)
      BY <1>1 DEF TypeOK
    <2>4. QED
      BY <2>1, <2>2, <2>3, ConcatProperties
  <1>11. metrics' \in [datagrams : Nat, malformed : Nat, discards : [Reasons -> Nat],
                       context_updates : Nat, packet_gaps : Nat, spectra : Nat,
                       unavailable : Nat, send_failures : Nat]
    <2> DEFINE w == windows(p)
               s == sentWindows(p)
               g == gap(p)
    <2>1. metrics' = [metrics EXCEPT !.datagrams = @ + 1,
               !.packet_gaps = @ + g, !.spectra = @ + s,
               !.unavailable = @ + w - s,
               !.send_failures = @ + s - n]
      BY <1>9 DEF counted
    <2>2. metrics \in [datagrams : Nat, malformed : Nat, discards : [Reasons -> Nat],
                       context_updates : Nat, packet_gaps : Nat, spectra : Nat,
                       unavailable : Nat, send_failures : Nat]
      BY <1>1 DEF TypeOK
    <2>3. g \in Nat /\ w \in Nat /\ s \in 0 .. w /\ n \in 0 .. s
      BY <1>1, <1>2, <1>3, NoticedLemma
    <2> HIDE DEF w, s, g
    <2>4. metrics.unavailable + w - s \in Nat /\ metrics.send_failures + s - n \in Nat
          /\ metrics.packet_gaps + g \in Nat /\ metrics.spectra + s \in Nat
          /\ metrics.datagrams + 1 \in Nat
      <3> DEFINE u == metrics.unavailable
                 f == metrics.send_failures
                 x == metrics.packet_gaps
                 y == metrics.spectra
                 z == metrics.datagrams
      <3>1. u \in Nat /\ f \in Nat /\ x \in Nat /\ y \in Nat /\ z \in Nat
        BY <2>2
      <3>2. g \in Nat /\ w \in Nat /\ s \in Nat /\ n \in Nat /\ s <= w /\ n <= s
        BY <2>3
      <3> HIDE DEF u, f, x, y, z
      <3>3. u + w - s \in Nat /\ f + s - n \in Nat /\ x + g \in Nat /\ y + s \in Nat
            /\ z + 1 \in Nat
        BY <3>1, <3>2
      <3>4. QED
        BY <3>3 DEF u, f, x, y, z
    <2>5. QED
      BY <2>1, <2>2, <2>4
  <1>12. AuditOK'
    <2>1. audit' = [audit EXCEPT !.first = IF @ = NoPacket THEN p ELSE @,
                                 !.last = p, !.accepted = @ + 1]
      BY DEF ConsumeData
    <2> DEFINE first == IF audit.first = NoPacket THEN p ELSE audit.first
    <2> DEFINE count == audit.accepted + 1
               records == Packet \cup {NoPacket}
    <2>2. audit' = [audit EXCEPT !.first = first, !.last = p, !.accepted = count]
      BY <2>1
    <2>3. audit \in [first : records, last : records, accepted : Nat,
                     spectrum : {None} \cup Nat]
      BY DEF AuditOK, Inv
    <2>4. first \in records /\ p \in records /\ count \in Nat
      BY <1>2, <2>3
    <2> HIDE DEF first, p, count, records
    <2>5. audit' \in [first : records, last : records, accepted : Nat,
                      spectrum : {None} \cup Nat]
      BY <2>2, <2>3, <2>4
    <2>6. QED
      BY <2>5 DEF AuditOK, records
  <1>13. air' \in Seq(Packet) /\ Len(air') <= bound.inFlight
         /\ network' \in [lost : Nat, reordered : Nat, duplicated : Nat]
    BY <1>1, ArrivesLemma
  <1> HIDE DEF rest, p
  <1>14. TypeOK'
    BY <1>1, <1>4, <1>8, <1>10, <1>11, <1>13 DEF TypeOK
  <1>15. QED
    BY <1>12, <1>14 DEF Inv

\* The radio's actions; Append is the only change of the air.
LEMMA RadioTypes ==
  ASSUME Inv, RadioStart \/ RadioContext \/ \E n \in 1 .. PacketPairs : RadioSend(n)
  PROVE  Inv'
  <1>1. TypeOK /\ AuditOK
    BY DEF Inv
  <1>2. bound \in Bound /\ bound.inFlight \in Nat
    BY <1>1, BoundAssumption DEF TypeOK, Bound
  <1> DEFINE Source == [started : BOOLEAN, time : Nat, packets : Nat,
                        settings : Settings, epoch : Nat, epochs : Nat,
                        contexts : Nat, short : BOOLEAN]
  <1>3. SUFFICES ASSUME NEW x \in Packet, air' = Append(air, x),
                        room, source' \in Source
                 PROVE  Inv'
    <2>1. source \in Source /\ FirstTime \in Nat /\ PacketPairs \in Nat
          /\ CountModulus \in Nat \ {0}
      BY <1>1, SizeAssumption DEF TypeOK
    <2>2. CASE RadioStart
      <3>1. PICK s \in Settings :
              LET t == IF source.started THEN source.time + 1 ELSE source.time
              IN  /\ source' = [source EXCEPT !.started = TRUE, !.settings = s,
                       !.short = FALSE, !.epochs = @ + 1, !.time = t, !.epoch = t]
                  /\ air' = Append(air, [kind |-> "context", settings |-> s, epoch |-> t])
        BY <2>2 DEF RadioStart
      <3> DEFINE t == IF source.started THEN source.time + 1 ELSE source.time
                 x == [kind |-> "context", settings |-> s, epoch |-> t]
      <3>2. t \in Nat
        BY <2>1
      <3> DEFINE e == source.epochs + 1
      <3>3. source' = [source EXCEPT !.started = TRUE, !.settings = s,
                         !.short = FALSE, !.epochs = e, !.time = t, !.epoch = t]
            /\ air' = Append(air, x) /\ e \in Nat
        BY <2>1, <3>1
      <3> HIDE DEF t, e
      <3>4. x \in Packet
        BY <3>2 DEF Packet
      <3>5. source' \in Source
        BY <2>1, <3>2, <3>3
      <3>6. room
        BY <2>2 DEF RadioStart
      <3>7. QED
        BY <1>3, <3>3, <3>4, <3>5, <3>6
    <2>3. CASE RadioContext
      <3>1. context \in Packet
        BY <2>1 DEF context, Packet
      <3>2. source' \in Source
        BY <2>1, <2>3, SMTT(30) DEF RadioContext
      <3>3. room /\ air' = Append(air, context)
        BY <2>3 DEF RadioContext
      <3>4. QED
        BY <1>3, <3>1, <3>2, <3>3
    <2>4. ASSUME NEW n \in 1 .. PacketPairs, RadioSend(n) PROVE Inv'
      <3> DEFINE c == source.packets % CountModulus
                 x == [kind |-> "data", index |-> source.packets, count |-> c,
                       time |-> source.time, pairs |-> n]
                 b == n < PacketPairs
      <3>1. c \in 0 .. CountModulus - 1
        BY <2>1
      <3>2. air' = Append(air, x) /\ room
        BY <2>4 DEF RadioSend
      <3> DEFINE q == source.packets + 1
                 t == source.time + n
      <3>3. source' = [source EXCEPT !.packets = q, !.time = t, !.short = b]
        BY <2>4 DEF RadioSend
      <3>4. source.packets \in Nat /\ source.time \in Nat
        BY <2>1
      <3> HIDE DEF c
      <3>5. x \in Packet
        BY <3>1, <3>4 DEF Packet
      <3>6. b \in BOOLEAN /\ q \in Nat /\ t \in Nat
        BY <2>1, <3>4
      <3> HIDE DEF b, q, t
      <3>7. source' \in Source
        BY <2>1, <3>3, <3>6
      <3>8. QED
        BY <1>3, <3>2, <3>5, <3>7
    <2>5. QED
      BY <2>2, <2>3, <2>4
  <1>4. UNCHANGED <<stream, metrics, wire, detector, network, audit, bound>>
    BY DEF RadioStart, RadioContext, RadioSend
  <1>5. air' \in Seq(Packet) /\ Len(air') <= bound.inFlight
    <2>1. air \in Seq(Packet) /\ Len(air) < bound.inFlight
      BY <1>1, <1>3 DEF TypeOK, room
    <2>2. Append(air, x) \in Seq(Packet) /\ Len(Append(air, x)) = Len(air) + 1
          /\ Len(air) \in Nat
      BY <1>3, <2>1
    <2>3. Len(air) + 1 <= bound.inFlight
      BY <1>2, <2>1, <2>2
    <2>4. QED
      BY <1>3, <2>2, <2>3
  <1>6. TypeOK' /\ AuditOK'
    BY <1>1, <1>3, <1>4, <1>5 DEF TypeOK, AuditOK
  <1>7. QED
    BY <1>6 DEF Inv

\* The processor's other actions.
LEMMA ConsumeTypes ==
  ASSUME Inv,
         \/ \E reason \in Reasons : ConsumeMalformed(reason)
         \/ \E i \in 1 .. Len(air) : \/ ConsumeContext(i, air[i])
                                     \/ ConsumeEarly(i, air[i])
                                     \/ ConsumeOutOfRange(i, air[i])
  PROVE  Inv'
  <1> DEFINE Metrics == [datagrams : Nat, malformed : Nat, discards : [Reasons -> Nat],
                         context_updates : Nat, packet_gaps : Nat, spectra : Nat,
                         unavailable : Nat, send_failures : Nat]
             Stream == [metadata_valid : BOOLEAN, settings : {0} \cup Settings,
                epoch : Nat, window : Seq(Nat), begin : Nat,
                count : {None} \cup 0 .. CountModulus - 1,
                previous_pairs : 0 .. PacketPairs, ordinal : Nat, discontinuities : Nat,
                sequence_gaps : Nat, sequence : Nat]
             Network == [lost : Nat, reordered : Nat, duplicated : Nat]
  <1>1. TypeOK /\ AuditOK /\ metrics \in Metrics /\ stream \in Stream
        /\ network \in Network
    BY DEF Inv, TypeOK
  <1>2. SUFFICES ASSUME metrics' \in Metrics, stream' \in Stream,
                        Len(stream'.window) < FftSize,
                        Len(stream'.window) <= stream'.ordinal,
                        air' \in Seq(Packet), Len(air') <= bound.inFlight,
                        network' \in Network, audit' = audit,
                        UNCHANGED <<source, wire, detector, bound>>
                 PROVE  Inv'
    <2>1. ASSUME NEW reason \in Reasons, NEW m \in Metrics
          PROVE  discarded(m, reason) \in Metrics /\ counted(m) \in Metrics
      <3>1. m.datagrams + 1 \in Nat /\ m.malformed + 1 \in Nat
            /\ m.discards \in [Reasons -> Nat] /\ m.discards[reason] + 1 \in Nat
        BY <2>1
      <3>2. counted(m) \in Metrics
        BY <2>1, <3>1 DEF counted
      <3>3. discarded(m, reason) = [m EXCEPT !.datagrams = m.datagrams + 1,
              !.malformed = m.malformed + 1,
              !.discards = [m.discards EXCEPT ![reason] = m.discards[reason] + 1]]
        BY <2>1 DEF discarded, counted
      <3>4. [m.discards EXCEPT ![reason] = m.discards[reason] + 1] \in [Reasons -> Nat]
        BY <3>1
      <3>5. discarded(m, reason) \in Metrics
        BY <2>1, <3>1, <3>3, <3>4
      <3>6. QED
        BY <3>2, <3>5
    <2>2. ASSUME NEW reason \in Reasons, ConsumeMalformed(reason) PROVE Inv'
      <3>1. discarded(metrics, reason) \in Metrics
        BY <1>1, <2>1
      <3>2. metrics' = discarded(metrics, reason)
            /\ UNCHANGED <<source, air, stream, wire, detector, network, audit, bound>>
        BY <2>2 DEF ConsumeMalformed
      <3>3. metrics' \in Metrics
        BY <3>1, <3>2
      <3> HIDE DEF Metrics
      <3>4. QED
        BY <1>1, <1>2, <3>2, <3>3 DEF TypeOK
    <2>3. ASSUME NEW i \in 1 .. Len(air), ConsumeContext(i, air[i]) PROVE Inv'
      <3> DEFINE p == air[i]
                 d == IF clears(p) THEN stream.discontinuities + 1
                      ELSE stream.discontinuities
                 w == IF clears(p) THEN <<>> ELSE stream.window
      <3>1. air' \in Seq(Packet) /\ Len(air') <= bound.inFlight /\ network' \in Network
            /\ p \in Packet
        BY <1>1, <2>3, ArrivesLemma DEF ConsumeContext
      <3>2. p.settings \in Settings /\ p.epoch \in Nat
        BY <2>3, <3>1 DEF ConsumeContext, Packet
      <3>3. stream' = [stream EXCEPT !.metadata_valid = TRUE, !.settings = p.settings,
                         !.epoch = p.epoch, !.window = w, !.discontinuities = d]
        BY <2>3 DEF ConsumeContext
      <3>4. d \in Nat /\ w \in Seq(Nat) /\ w \in {<<>>, stream.window}
        BY <1>1, SMTT(30)
      <3> HIDE DEF d, w, p
      <3>5. stream' \in Stream /\ stream'.window = w /\ stream'.ordinal = stream.ordinal
        BY <1>1, <3>2, <3>3, <3>4
      <3>6. Len(w) < FftSize /\ Len(w) <= stream.ordinal
        <4>1. Len(<<>>) = 0 /\ FftSize \in Nat \ {0} /\ stream.ordinal \in Nat
          BY <1>1, SizeAssumption
        <4>2. Len(stream.window) < FftSize /\ Len(stream.window) <= stream.ordinal
          BY <1>1 DEF TypeOK
        <4>3. CASE w = <<>>
          BY <4>1, <4>3
        <4>4. CASE w = stream.window
          BY <4>2, <4>4
        <4>5. QED
          BY <3>4, <4>3, <4>4
      <3>7. metrics' \in Metrics
        <4> DEFINE n == metrics.datagrams + 1
                   c == metrics.context_updates + 1
        <4>1. n \in Nat /\ c \in Nat
          <5>1. metrics.datagrams \in Nat /\ metrics.context_updates \in Nat
            BY <1>1
          <5> HIDE DEF Metrics, Stream, Network
          <5>2. QED
            BY <5>1
        <4>2. metrics' = [metrics EXCEPT !.datagrams = n, !.context_updates = c]
          BY <1>1, <2>3 DEF ConsumeContext, counted
        <4> HIDE DEF n, c
        <4>3. QED
          BY <1>1, <4>1, <4>2
      <3>8. UNCHANGED <<source, wire, detector, audit, bound>>
        BY <2>3 DEF ConsumeContext
      <3> HIDE DEF Metrics, Stream, Network
      <3>9. QED
        BY <1>2, <3>1, <3>5, <3>6, <3>7, <3>8
    <2>4. ASSUME NEW i \in 1 .. Len(air), ConsumeEarly(i, air[i]) PROVE Inv'
      <3>1. air' \in Seq(Packet) /\ Len(air') <= bound.inFlight /\ network' \in Network
        BY <1>1, <2>4, ArrivesLemma DEF ConsumeEarly
      <3>2. "waiting_context" \in Reasons
        BY DEF Reasons
      <3>3. metrics' \in Metrics
        BY <1>1, <2>1, <2>4, <3>2 DEF ConsumeEarly
      <3>4. UNCHANGED <<source, stream, wire, detector, audit, bound>>
        BY <2>4 DEF ConsumeEarly
      <3> HIDE DEF Metrics, Network
      <3>5. QED
        BY <1>1, <1>2, <3>1, <3>3, <3>4 DEF TypeOK
    <2>5. ASSUME NEW i \in 1 .. Len(air), ConsumeOutOfRange(i, air[i]) PROVE Inv'
      <3> DEFINE p == air[i]
                 m == discarded(metrics, "timestamp_range")
      <3>1. air' \in Seq(Packet) /\ Len(air') <= bound.inFlight /\ network' \in Network
            /\ p \in Packet /\ p.kind = "data"
        BY <1>1, <2>5, ArrivesLemma DEF ConsumeOutOfRange
      <3>2. "timestamp_range" \in Reasons
        BY DEF Reasons
      <3>3. m \in Metrics
        BY <1>1, <2>1, <3>2
      <3>4. stream' = noticed(p) /\ metrics' = [m EXCEPT !.packet_gaps = @ + gap(p)]
            /\ UNCHANGED <<source, wire, detector, audit, bound>>
        BY <2>5 DEF ConsumeOutOfRange
      <3>5. noticed(p) \in Stream /\ gap(p) \in Nat
            /\ noticed(p).window = stream.window /\ noticed(p).ordinal = stream.ordinal
        BY <1>1, <3>1, NoticedLemma
      <3> DEFINE g == gap(p)
      <3> HIDE DEF m, p, g
      <3>6. metrics' \in Metrics
        <4>1. m.packet_gaps + g \in Nat
          BY <3>3, <3>5, SMTT(30) DEF g
        <4>2. QED
          BY <3>3, <3>4, <4>1 DEF g
      <3> HIDE DEF Metrics, Stream, Network
      <3>7. QED
        BY <1>1, <1>2, <3>1, <3>4, <3>5, <3>6 DEF TypeOK
    <2>6. QED
      BY <2>2, <2>3, <2>4, <2>5
  <1>3. QED
    <2> HIDE DEF Metrics, Stream, Network
    <2>1. TypeOK'
      BY <1>1, <1>2 DEF TypeOK, Metrics, Stream, Network
    <2>2. AuditOK'
      BY <1>1, <1>2 DEF AuditOK
    <2>3. QED
      BY <2>1, <2>2 DEF Inv

\* The detector, the losses and the clock.
LEMMA DetectTypes ==
  ASSUME Inv, Lose \/ LoseSpectrum \/ Detect \/ DetectMalformed \/ Pause \/ Unavailable
  PROVE  Inv'
  <1> DEFINE Detector == [sequence : {None} \cup Nat, datagrams : Nat, detections : Nat,
                          gapped : Nat, zero : Nat, malformed : Nat, sequence_gaps : Nat,
                          unavailable : Nat, seen : BOOLEAN, silent : 0 .. Silence,
                          reported : BOOLEAN]
             Network == [lost : Nat, reordered : Nat, duplicated : Nat]
  <1>1. TypeOK /\ AuditOK /\ detector \in Detector /\ network \in Network
        /\ air \in Seq(Packet) /\ Len(air) <= bound.inFlight /\ wire \in Seq(Spectrum)
        /\ Silence \in Nat
    BY SizeAssumption DEF Inv, TypeOK
  <1>2. SUFFICES ASSUME detector' \in Detector, network' \in Network,
                        air' \in Seq(Packet), Len(air') <= bound.inFlight,
                        wire' \in Seq(Spectrum), AuditOK',
                        UNCHANGED <<source, stream, metrics, bound>>
                 PROVE  Inv'
    <2>1. detector.datagrams + 1 \in Nat /\ detector.malformed + 1 \in Nat
          /\ detector.sequence_gaps + 1 \in Nat /\ detector.unavailable + 1 \in Nat
          /\ detector.gapped + 1 \in Nat /\ detector.zero + 1 \in Nat
          /\ detector.detections + 1 \in Nat
      <3>1. detector.datagrams \in Nat /\ detector.malformed \in Nat
            /\ detector.sequence_gaps \in Nat /\ detector.unavailable \in Nat
            /\ detector.gapped \in Nat /\ detector.zero \in Nat
            /\ detector.detections \in Nat
        BY <1>1
      <3> HIDE DEF Detector
      <3>2. QED
        BY <3>1, SMTT(30)
    <2>2. CASE Lose
      <3>1. Tail(air) \in Seq(Packet) /\ Len(Tail(air)) <= bound.inFlight
        <4>1. bound.inFlight \in Nat /\ air # <<>>
          BY <1>1, <2>2, BoundAssumption DEF TypeOK, Bound, Lose
        <4>2. Tail(air) \in Seq(Packet) /\ Len(Tail(air)) = Len(air) - 1
              /\ Len(air) \in Nat
          BY <1>1, <4>1
        <4>3. QED
          BY <1>1, <4>1, <4>2
      <3>2. network' \in Network
        BY <1>1, <2>2, SMTT(30) DEF Lose
      <3>3. air' = Tail(air)
            /\ UNCHANGED <<source, stream, metrics, wire, detector, audit, bound>>
        BY <2>2 DEF Lose
      <3> HIDE DEF Detector, Network
      <3>4. QED
        BY <1>1, <1>2, <3>1, <3>2, <3>3 DEF AuditOK
    <2>3. CASE LoseSpectrum
      <3>1. network' \in Network
        <4> DEFINE n == network.lost + 1
        <4>1. n \in Nat /\ network' = [network EXCEPT !.lost = n]
          BY <1>1, <2>3 DEF LoseSpectrum
        <4> HIDE DEF n
        <4>2. QED
          BY <1>1, <4>1
      <3>2. wire # <<>> /\ wire' = Tail(wire)
            /\ UNCHANGED <<source, air, stream, metrics, detector, audit, bound>>
        BY <2>3 DEF LoseSpectrum
      <3> HIDE DEF Detector, Network
      <3>3. wire' \in Seq(Spectrum)
        BY <1>1, <3>2
      <3>4. QED
        BY <1>1, <1>2, <3>1, <3>2, <3>3 DEF AuditOK
    <2>4. CASE Detect
      <3> DEFINE x == Head(wire)
                 g == IF sequenceGap(x) THEN detector.sequence_gaps + 1
                      ELSE detector.sequence_gaps
      <3>1. wire # <<>> /\ wire' = Tail(wire)
            /\ audit' = [audit EXCEPT !.spectrum = IF @ = None THEN Head(wire).sequence
                                                   ELSE @]
            /\ UNCHANGED <<source, air, stream, metrics, network, bound>>
        BY <2>4 DEF Detect
      <3>2. wire' \in Seq(Spectrum) /\ x \in Spectrum
        BY <1>1, <3>1
      <3>3. x.sequence \in Nat
        BY <3>2 DEF Spectrum
      <3>4. AuditOK'
        <4> DEFINE first == IF audit.spectrum = None THEN x.sequence ELSE audit.spectrum
                   records == Packet \cup {NoPacket}
        <4>1. audit \in [first : records, last : records, accepted : Nat,
                         spectrum : {None} \cup Nat]
          BY <1>1 DEF AuditOK
        <4>2. audit' = [audit EXCEPT !.spectrum = first] /\ first \in {None} \cup Nat
          BY <3>1, <3>3, <4>1
        <4> HIDE DEF first, records
        <4>3. audit' \in [first : records, last : records, accepted : Nat,
                          spectrum : {None} \cup Nat]
          BY <4>1, <4>2
        <4>4. QED
          BY <4>3 DEF AuditOK, records
      <3>5. g \in Nat
        BY <1>1, <2>1
      <3> DEFINE n == detector.datagrams + 1
      <3>6. detector' \in Detector
        <4>1. PICK kind \in {"gapped", "zero", "detections"} :
                detector' = [detector EXCEPT !.datagrams = n,
                  ![kind] = @ + 1, !.sequence_gaps = g, !.sequence = x.sequence,
                  !.seen = TRUE, !.silent = 0, !.reported = FALSE]
          BY <2>4 DEF Detect
        <4>2. detector[kind] + 1 \in Nat /\ n \in Nat /\ 0 \in 0 .. Silence
          <5>1. CASE kind = "gapped"
            BY <1>1, <2>1, <5>1
          <5>2. CASE kind = "zero"
            BY <1>1, <2>1, <5>2
          <5>3. CASE kind = "detections"
            BY <1>1, <2>1, <5>3
          <5>4. QED
            BY <5>1, <5>2, <5>3
        <4> DEFINE c == detector[kind] + 1
        <4>3. detector' = [detector EXCEPT !.datagrams = n, ![kind] = c,
                 !.sequence_gaps = g, !.sequence = x.sequence,
                 !.seen = TRUE, !.silent = 0, !.reported = FALSE]
          BY <4>1
        <4>4. c \in Nat /\ n \in Nat
          BY <4>2
        <4> HIDE DEF c, n, g, x
        <4>5. CASE kind = "gapped"
          BY <1>1, <3>3, <3>5, <4>2, <4>3, <4>4, <4>5
        <4>6. CASE kind = "zero"
          BY <1>1, <3>3, <3>5, <4>2, <4>3, <4>4, <4>6
        <4>7. CASE kind = "detections"
          BY <1>1, <3>3, <3>5, <4>2, <4>3, <4>4, <4>7
        <4>8. QED
          BY <4>5, <4>6, <4>7
      <3> HIDE DEF Detector, Network
      <3>7. QED
        BY <1>1, <1>2, <3>1, <3>2, <3>4, <3>6
    <2>5. CASE DetectMalformed
      <3> DEFINE n == detector.datagrams + 1
                 m == detector.malformed + 1
      <3>1. detector' = [detector EXCEPT !.datagrams = n, !.malformed = m]
            /\ UNCHANGED <<source, air, stream, metrics, wire, network, audit, bound>>
        BY <2>5 DEF DetectMalformed
      <3>2. n \in Nat /\ m \in Nat
        BY <2>1
      <3> HIDE DEF n, m
      <3>3. detector' \in Detector
        BY <1>1, <3>1, <3>2
      <3> HIDE DEF Detector, Network
      <3>4. QED
        BY <1>1, <1>2, <3>1, <3>3 DEF AuditOK
    <2>6. CASE Pause
      <3> DEFINE n == IF detector.silent < Silence THEN detector.silent + 1
                      ELSE detector.silent
      <3>1. detector' = [detector EXCEPT !.silent = n]
            /\ UNCHANGED <<source, air, stream, metrics, wire, network, audit, bound>>
        BY <2>6 DEF Pause
      <3>2. n \in 0 .. Silence
        <4>1. detector.silent \in 0 .. Silence
          BY <1>1
        <4> HIDE DEF Detector
        <4>2. QED
          BY <1>1, <4>1
      <3> HIDE DEF n
      <3>3. detector' \in Detector
        BY <1>1, <3>1, <3>2
      <3> HIDE DEF Detector, Network
      <3>4. QED
        BY <1>1, <1>2, <3>1, <3>3 DEF AuditOK
    <2>7. CASE Unavailable
      <3> DEFINE n == detector.unavailable + 1
      <3>1. detector' = [detector EXCEPT !.unavailable = n, !.reported = TRUE]
            /\ UNCHANGED <<source, air, stream, metrics, wire, network, audit, bound>>
        BY <2>7 DEF Unavailable
      <3>2. n \in Nat
        BY <2>1
      <3> HIDE DEF n
      <3>3. detector' \in Detector
        BY <1>1, <3>1, <3>2
      <3> HIDE DEF Detector, Network
      <3>4. QED
        BY <1>1, <1>2, <3>1, <3>3 DEF AuditOK
    <2>8. QED
      BY <2>2, <2>3, <2>4, <2>5, <2>6, <2>7
  <1>3. QED
    <2> HIDE DEF Detector, Network
    <2>1. TypeOK'
      BY <1>1, <1>2 DEF TypeOK, Detector, Network
    <2>2. QED
      BY <1>2, <2>1 DEF Inv

LEMMA InitTypes == Init => Inv
  <1> SUFFICES ASSUME Init PROVE Inv
    OBVIOUS
  <1>1. source \in [started : BOOLEAN, time : Nat, packets : Nat, settings : Settings,
                    epoch : Nat, epochs : Nat, contexts : Nat, short : BOOLEAN]
    BY SizeAssumption DEF Init, Settings
  <1>2. air \in Seq(Packet) /\ Len(air) = 0 /\ wire \in Seq(Spectrum)
    BY DEF Init
  <1>3. stream \in [metadata_valid : BOOLEAN, settings : {0} \cup Settings, epoch : Nat,
                 window : Seq(Nat), begin : Nat, count : {None} \cup 0 .. CountModulus - 1,
                 previous_pairs : 0 .. PacketPairs, ordinal : Nat, discontinuities : Nat,
                 sequence_gaps : Nat, sequence : Nat]
    <2>1. <<>> \in Seq(Nat) /\ 0 \in 0 .. PacketPairs
      BY SizeAssumption
    <2>2. QED
      BY <2>1 DEF Init
  <1>4. Len(stream.window) = 0 /\ stream.ordinal = 0
    BY DEF Init
  <1>5. metrics \in [datagrams : Nat, malformed : Nat, discards : [Reasons -> Nat],
                  context_updates : Nat, packet_gaps : Nat, spectra : Nat,
                  unavailable : Nat, send_failures : Nat]
    BY DEF Init
  <1>6. detector \in [sequence : {None} \cup Nat, datagrams : Nat, detections : Nat,
                   gapped : Nat, zero : Nat, malformed : Nat, sequence_gaps : Nat,
                   unavailable : Nat, seen : BOOLEAN, silent : 0 .. Silence,
                   reported : BOOLEAN]
    BY SizeAssumption DEF Init
  <1>7. network \in [lost : Nat, reordered : Nat, duplicated : Nat] /\ bound \in Bounds
    BY DEF Init
  <1>8. Len(air) <= bound.inFlight
    <2>1. bound.inFlight \in Nat
      BY <1>7, BoundAssumption DEF Bound
    <2>2. QED
      BY <1>2, <2>1
  <1>9. AuditOK
    BY DEF Init, AuditOK
  <1>10. Len(stream.window) < FftSize /\ Len(stream.window) <= stream.ordinal
    BY <1>4, SizeAssumption
  <1>11. QED
    BY <1>1, <1>2, <1>3, <1>5, <1>6, <1>7, <1>8, <1>9, <1>10 DEF Inv, TypeOK

LEMMA TypeStep == Inv /\ [Next]_vars => Inv'
  <1> SUFFICES ASSUME Inv, [Next]_vars PROVE Inv'
    OBVIOUS
  <1>1. CASE \/ RadioStart \/ RadioContext \/ \E n \in 1 .. PacketPairs : RadioSend(n)
    BY <1>1, RadioTypes
  <1>2. CASE \/ \E reason \in Reasons : ConsumeMalformed(reason)
             \/ \E i \in 1 .. Len(air) : \/ ConsumeContext(i, air[i])
                                         \/ ConsumeEarly(i, air[i])
                                         \/ ConsumeOutOfRange(i, air[i])
    BY <1>2, ConsumeTypes
  <1>3. CASE \E i \in 1 .. Len(air) : ConsumeData(i, air[i])
    BY <1>3, DataTypes
  <1>4. CASE Lose \/ LoseSpectrum \/ Detect \/ DetectMalformed \/ Pause \/ Unavailable
    BY <1>4, DetectTypes
  <1>5. CASE UNCHANGED vars
    BY <1>5 DEF vars, Inv, TypeOK, AuditOK
  <1>6. QED
    BY <1>1, <1>2, <1>3, <1>4, <1>5 DEF Next

-----------------------------------------------------------------------------
(* Window ordinals.                                                        *)

LEMMA PhaseType ==
  ASSUME TypeOK
  PROVE  /\ streamPhase \in Int /\ stream.sequence \in Nat
         /\ \A k \in 1 .. Len(wire) :
              phase(wire[k]) \in Int /\ wire[k].sequence \in Nat
                /\ wire[k].ordinal \in Nat
         /\ Len(wire) \in Nat
  <1>1. FftSize \in Nat /\ stream.sequence \in Nat /\ stream.ordinal \in Nat
        /\ stream.window \in Seq(Nat) /\ wire \in Seq(Spectrum)
    BY SizeAssumption DEF TypeOK
  <1> DEFINE L == Len(stream.window)
             s == FftSize * stream.sequence
  <1>2. L \in Nat /\ s \in Int
    BY <1>1, Distribute
  <1>3. streamPhase = stream.ordinal - L - s
    BY DEF streamPhase
  <1> HIDE DEF L, s
  <1>4. streamPhase \in Int
    BY <1>1, <1>2, <1>3
  <1>5. ASSUME NEW k \in 1 .. Len(wire)
        PROVE  phase(wire[k]) \in Int /\ wire[k].sequence \in Nat
                 /\ wire[k].ordinal \in Nat
    <2>1. wire[k] \in Spectrum
      BY <1>1
    <2>2. wire[k].sequence \in Nat /\ wire[k].ordinal \in Nat
      BY <2>1 DEF Spectrum
    <2> DEFINE q == FftSize * wire[k].sequence
               o == wire[k].ordinal
    <2>3. q \in Int /\ o \in Int
      BY <1>1, <2>2, Distribute
    <2>4. phase(wire[k]) = o - q
      BY DEF phase
    <2> HIDE DEF q, o
    <2>5. phase(wire[k]) \in Int
      BY <2>3, <2>4
    <2>6. QED
      BY <2>2, <2>5
  <1>6. QED
    BY <1>1, <1>4, <1>5

\* Losing or reading a spectrum, or clearing the window, keeps the order.
LEMMA OrderedKept ==
  ASSUME Inv, Inv', Ordered, wire' = wire \/ (wire # <<>> /\ wire' = Tail(wire)),
         stream'.sequence = stream.sequence, streamPhase <= streamPhase'
  PROVE  Ordered'
  <1>1. streamPhase \in Int /\ streamPhase' \in Int /\ Len(wire) \in Nat
        /\ \A k \in 1 .. Len(wire) : phase(wire[k]) \in Int /\ wire[k].sequence \in Nat
    <2>1. streamPhase \in Int /\ Len(wire) \in Nat
          /\ \A k \in 1 .. Len(wire) : phase(wire[k]) \in Int /\ wire[k].sequence \in Nat
      BY PhaseType DEF Inv
    <2> DEFINE L == Len(stream'.window)
               s == FftSize * stream'.sequence
    <2>2. stream'.sequence \in Nat /\ stream'.ordinal \in Nat
          /\ stream'.window \in Seq(Nat) /\ FftSize \in Nat
      BY SizeAssumption DEF Inv, TypeOK
    <2>3. L \in Nat /\ s \in Int
      BY <2>2, Distribute
    <2>4. streamPhase' = stream'.ordinal - L - s
      BY DEF streamPhase
    <2> HIDE DEF L, s
    <2>5. streamPhase' \in Int
      BY <2>2, <2>3, <2>4
    <2>6. QED
      BY <2>1, <2>5
  <1>2. stream'.sequence \in Nat
    BY DEF Inv, TypeOK
  <1>3. \E d \in {0, 1} :
          /\ Len(wire') + d = Len(wire) /\ Len(wire') \in Nat
          /\ \A k \in 1 .. Len(wire') : wire'[k] = wire[k + d]
    <2>1. CASE wire' = wire
      <3>1. Len(wire') + 0 = Len(wire) /\ Len(wire') \in Nat
            /\ \A k \in 1 .. Len(wire') : wire'[k] = wire[k + 0]
        BY <1>1, <2>1
      <3>2. QED
        BY <3>1
    <2>2. CASE wire # <<>> /\ wire' = Tail(wire)
      <3>1. wire \in Seq(Spectrum)
        BY DEF Inv, TypeOK
      <3>2. Len(wire') + 1 = Len(wire) /\ Len(wire') \in Nat
            /\ \A k \in 1 .. Len(wire') : wire'[k] = wire[k + 1]
        BY <2>2, <3>1
      <3>3. QED
        BY <3>2
    <2>3. QED
      BY <2>1, <2>2
  <1>4. PICK d \in {0, 1} :
          /\ Len(wire') + d = Len(wire) /\ Len(wire') \in Nat
          /\ \A k \in 1 .. Len(wire') : wire'[k] = wire[k + d]
    BY <1>3
  <1>5. \A k \in 1 .. Len(wire') :
          k + d \in 1 .. Len(wire) /\ wire'[k] = wire[k + d]
    BY <1>1, <1>4
  <1>6. \A k \in 1 .. Len(wire') :
          wire'[k].sequence < stream'.sequence /\ phase(wire'[k]) <= streamPhase'
    <2> SUFFICES ASSUME NEW k \in 1 .. Len(wire')
                 PROVE  wire'[k].sequence < stream'.sequence
                          /\ phase(wire'[k]) <= streamPhase'
      OBVIOUS
    <2> DEFINE x == wire[k + d]
    <2>1. wire'[k] = x /\ x.sequence < stream.sequence /\ phase(x) <= streamPhase
          /\ phase(x) \in Int
      BY <1>1, <1>5 DEF Ordered
    <2> HIDE DEF x
    <2>2. phase(x) <= streamPhase'
      BY <1>1, <2>1
    <2>3. QED
      BY <2>1, <2>2
  <1>7. \A j, k \in 1 .. Len(wire') : j < k =>
          wire'[j].sequence < wire'[k].sequence /\ phase(wire'[j]) <= phase(wire'[k])
    <2> SUFFICES ASSUME NEW j \in 1 .. Len(wire'), NEW k \in 1 .. Len(wire'), j < k
                 PROVE  wire'[j].sequence < wire'[k].sequence
                          /\ phase(wire'[j]) <= phase(wire'[k])
      OBVIOUS
    <2>1. j + d \in 1 .. Len(wire) /\ k + d \in 1 .. Len(wire) /\ j + d < k + d
      BY <1>4, <1>5
    <2>2. wire'[j] = wire[j + d] /\ wire'[k] = wire[k + d]
      BY <1>5
    <2>3. wire[j + d].sequence < wire[k + d].sequence
          /\ phase(wire[j + d]) <= phase(wire[k + d])
      BY <2>1 DEF Ordered
    <2>4. QED
      BY <2>2, <2>3, Zenon
  <1>8. QED
    BY <1>6, <1>7 DEF Ordered, phase

\* A data packet leaves the phase of the stream as it is, and every spectrum it
\* completes has that phase.
LEMMA OrderedData ==
  ASSUME Inv, Inv', Ordered, NEW i \in 1 .. Len(air), ConsumeData(i, air[i])
  PROVE  Ordered'
  <1> DEFINE p == air[i]
  <1>1. TypeOK /\ p.kind = "data" /\ missingPairs(p) <= p.time /\ arrives(i)
        /\ p \in Packet
    BY ArrivesLemma DEF ConsumeData, Inv
  <1>2. windows(p) \in Nat /\ windows(p) * FftSize \in Nat
        /\ missingPairs(p) \in Nat /\ p.pairs \in Nat /\ FftSize \in Nat
    BY <1>1, WindowsLemma, GapLemma, SizeAssumption, SMTT(30)
  <1>3. stream'.sequence = stream.sequence + windows(p)
        /\ stream'.ordinal = stream.ordinal + missingPairs(p) + p.pairs
        /\ stream'.window = SubSeq(appended(p), windows(p) * FftSize + 1,
                                   Len(appended(p)))
    <2> DEFINE kept == windows(p) * FftSize + 1
               rest == SubSeq(appended(p), kept, Len(appended(p)))
               start == IF kept <= Len(appended(p)) THEN beginAt(p, kept)
                        ELSE stream.begin
    <2>1. stream' = [noticed(p) EXCEPT
                       !.ordinal = @ + missingPairs(p) + p.pairs,
                       !.sequence = @ + windows(p), !.window = rest,
                       !.begin = IF kept <= Len(appended(p)) THEN beginAt(p, kept) ELSE @]
      BY DEF ConsumeData
    <2>2. noticed(p) \in [metadata_valid : BOOLEAN, settings : {0} \cup Settings,
                 epoch : Nat, window : Seq(Nat), begin : Nat,
                 count : {None} \cup 0 .. CountModulus - 1,
                 previous_pairs : 0 .. PacketPairs, ordinal : Nat, discontinuities : Nat,
                 sequence_gaps : Nat, sequence : Nat]
          /\ noticed(p).ordinal = stream.ordinal /\ noticed(p).sequence = stream.sequence
      BY <1>1, NoticedLemma
    <2> HIDE DEF p, rest, kept
    <2>3. stream'.sequence = stream.sequence + windows(p)
          /\ stream'.ordinal = stream.ordinal + missingPairs(p) + p.pairs
          /\ stream'.window = rest
      BY <2>1, <2>2
    <2>4. QED
      BY <2>3 DEF p, rest, kept
  <1>4. streamPhase' = streamPhase
    <2> DEFINE L == Len(stream.window)
               M == Len(stream'.window)
               m == missingPairs(p)
               n == p.pairs
               b == windows(p) * FftSize
               s == FftSize * stream.sequence
               o == stream.ordinal
    <2>1. M = L + m + n - b
      BY <1>1, <1>3, KeptLemma
    <2>2. L \in Nat /\ o \in Nat /\ stream.sequence \in Nat
      BY <1>1, AppendedLemma DEF TypeOK
    <2>3. FftSize * stream'.sequence = s + b
      <3> DEFINE w == windows(p)
                 q == stream.sequence
      <3>1. stream'.sequence = q + w /\ q \in Nat /\ w \in Nat
        BY <1>2, <1>3, <2>2
      <3> HIDE DEF w, q
      <3>2. FftSize * (q + w) = FftSize * q + w * FftSize
        BY <1>2, <3>1, Distribute
      <3>3. QED
        BY <3>1, <3>2 DEF w, q
    <2>4. s \in Int /\ b \in Nat /\ m \in Nat /\ n \in Nat
      BY <1>2, <2>2, Distribute
    <2>5. streamPhase = o - L - s /\ streamPhase' = stream'.ordinal - M - (s + b)
      BY <2>3 DEF streamPhase
    <2>6. stream'.ordinal = o + m + n
      BY <1>3
    <2> HIDE DEF L, M, m, n, b, s, o
    <2>7. stream'.ordinal - M - (s + b) = o - L - s
      BY <2>1, <2>2, <2>4, <2>6
    <2>8. QED
      BY <2>5, <2>7, Zenon
  <1>5. PICK n \in 0 .. sentWindows(p) : \E sends \in increasing(n, sentWindows(p)) :
          wire' = wire \o [k \in 1 .. n |-> spectrum(p, sends[k])]
    BY DEF ConsumeData
  <1>5b. PICK sends \in increasing(n, sentWindows(p)) :
          wire' = wire \o [k \in 1 .. n |-> spectrum(p, sends[k])]
    BY <1>5
  <1> DEFINE new == [k \in 1 .. n |-> spectrum(p, sends[k])]
             W == Len(wire)
  <1>6. /\ new \in Seq(Spectrum) /\ Len(new) = n
        /\ \A k \in 1 .. n :
             /\ sends[k] \in 1 .. windows(p)
             /\ new[k].sequence = stream.sequence + sends[k] - 1
             /\ phase(new[k]) = streamPhase
        /\ \A j, k \in 1 .. n : j < k => sends[j] < sends[k]
    BY <1>1, SentLemma
  <1>7. /\ streamPhase \in Int /\ stream.sequence \in Nat /\ W \in Nat
        /\ \A k \in 1 .. W : phase(wire[k]) \in Int /\ wire[k].sequence \in Nat
    BY <1>1, PhaseType
  <1>8. n \in Nat /\ wire \in Seq(Spectrum)
    BY <1>1, <1>6, WindowsLemma DEF TypeOK
  <1>9. wire' = wire \o new
    BY <1>5b
  <1> HIDE DEF new
  <1>10. Len(wire') = W + n
         /\ \A k \in 1 .. W + n : wire'[k] = IF k <= W THEN wire[k] ELSE new[k - W]
    BY <1>6, <1>8, <1>9, ConcatProperties
  <1> HIDE DEF p, W
  <1>11. \A k \in 1 .. W : wire'[k] = wire[k] /\ wire[k].sequence < stream.sequence
                             /\ phase(wire[k]) <= streamPhase
    BY <1>7, <1>8, <1>10 DEF Ordered, W
  <1>12. \A k \in W + 1 .. W + n :
           /\ k - W \in 1 .. n /\ wire'[k] = new[k - W]
           /\ wire'[k].sequence = stream.sequence + sends[k - W] - 1
           /\ phase(wire'[k]) = streamPhase
           /\ sends[k - W] \in 1 .. windows(p)
    <2> SUFFICES ASSUME NEW k \in W + 1 .. W + n
                 PROVE  /\ k - W \in 1 .. n /\ wire'[k] = new[k - W]
                        /\ wire'[k].sequence = stream.sequence + sends[k - W] - 1
                        /\ phase(wire'[k]) = streamPhase
                        /\ sends[k - W] \in 1 .. windows(p)
      OBVIOUS
    <2>1. k - W \in 1 .. n /\ k \in 1 .. W + n /\ ~(k <= W)
      BY <1>7, <1>8
    <2>2. wire'[k] = new[k - W]
      BY <1>10, <2>1
    <2>3. QED
      BY <1>6, <2>1, <2>2
  <1>13. \A k \in 1 .. W + n :
           wire'[k].sequence < stream'.sequence /\ phase(wire'[k]) <= streamPhase
    <2> SUFFICES ASSUME NEW k \in 1 .. W + n
                 PROVE  wire'[k].sequence < stream'.sequence
                          /\ phase(wire'[k]) <= streamPhase
      OBVIOUS
    <2>1. CASE k \in 1 .. W
      <3>1. wire'[k] = wire[k] /\ wire[k].sequence < stream.sequence
            /\ phase(wire[k]) <= streamPhase /\ wire[k].sequence \in Nat
        BY <1>7, <1>11, <2>1
      <3>2. wire[k].sequence < stream'.sequence
        BY <1>2, <1>3, <1>7, <3>1, SMTT(30)
      <3>3. QED
        BY <3>1, <3>2, Zenon
    <2>2. CASE k \in W + 1 .. W + n
      <3> DEFINE t == sends[k - W]
      <3>1. wire'[k].sequence = stream.sequence + t - 1 /\ t \in 1 .. windows(p)
            /\ phase(wire'[k]) = streamPhase
        BY <1>12, <2>2
      <3> HIDE DEF t
      <3>2. wire'[k].sequence < stream'.sequence
        BY <1>2, <1>3, <1>7, <3>1, SMTT(30)
      <3>3. phase(wire'[k]) <= streamPhase
        BY <1>7, <3>1
      <3>4. QED
        BY <3>2, <3>3
    <2>3. QED
      BY <1>7, <1>8, <2>1, <2>2
  <1>14. ASSUME NEW j \in 1 .. W + n, NEW k \in 1 .. W + n, j < k
         PROVE  wire'[j].sequence < wire'[k].sequence
                  /\ phase(wire'[j]) <= phase(wire'[k])
    <2>1. CASE k <= W
      <3>1. j \in 1 .. W /\ k \in 1 .. W
        BY <1>7, <1>14, <2>1
      <3>2. wire[j].sequence < wire[k].sequence /\ phase(wire[j]) <= phase(wire[k])
        BY <1>14, <3>1 DEF Ordered, W
      <3>3. wire'[j] = wire[j] /\ wire'[k] = wire[k]
        BY <1>11, <3>1
      <3>4. QED
        BY <3>2, <3>3, Zenon
    <2>2. CASE j <= W /\ ~(k <= W)
      <3>1. j \in 1 .. W /\ k \in W + 1 .. W + n
        BY <1>7, <1>8, <2>2
      <3> DEFINE t == sends[k - W]
      <3>2. wire'[j].sequence < stream.sequence /\ phase(wire'[j]) <= streamPhase
            /\ wire'[j].sequence \in Nat
        BY <1>7, <1>11, <3>1
      <3>3. wire'[k].sequence = stream.sequence + t - 1 /\ t \in 1 .. windows(p)
            /\ phase(wire'[k]) = streamPhase
        BY <1>12, <3>1
      <3> HIDE DEF t
      <3>4. wire'[j].sequence < wire'[k].sequence
        BY <1>2, <1>7, <3>2, <3>3, SMTT(30)
      <3>5. QED
        BY <3>2, <3>3, <3>4
    <2>3. CASE ~(j <= W)
      <3>1. j \in W + 1 .. W + n /\ k \in W + 1 .. W + n /\ j - W < k - W
        BY <1>7, <1>8, <1>14, <2>3
      <3> DEFINE t == sends[k - W]
                 u == sends[j - W]
      <3>2. u < t /\ u \in 1 .. windows(p) /\ t \in 1 .. windows(p)
        BY <1>6, <1>12, <3>1
      <3>3. wire'[j].sequence = stream.sequence + u - 1
            /\ wire'[k].sequence = stream.sequence + t - 1
            /\ phase(wire'[j]) = streamPhase /\ phase(wire'[k]) = streamPhase
        BY <1>12, <3>1
      <3> HIDE DEF t, u
      <3>4. wire'[j].sequence < wire'[k].sequence
        BY <1>2, <1>7, <3>2, <3>3
      <3>5. phase(wire'[j]) <= phase(wire'[k])
        BY <1>7, <3>3
      <3>6. QED
        BY <3>4, <3>5
    <2>4. QED
      BY <1>14, <2>1, <2>2, <2>3
  <1>15. QED
    BY <1>4, <1>10, <1>13, <1>14 DEF Ordered, phase

LEMMA OrderedStep == Inv /\ Inv' /\ Ordered /\ [Next]_vars => Ordered'
  <1> SUFFICES ASSUME Inv, Inv', Ordered, [Next]_vars PROVE Ordered'
    OBVIOUS
  <1>1. streamPhase \in Int /\ stream.sequence \in Nat /\ FftSize \in Nat
    BY PhaseType, SizeAssumption DEF Inv
  <1>2. CASE \E i \in 1 .. Len(air) : ConsumeData(i, air[i])
    BY <1>2, OrderedData
  <1>3. ASSUME UNCHANGED stream, wire' = wire \/ (wire # <<>> /\ wire' = Tail(wire))
        PROVE  Ordered'
    <2>1. streamPhase' = streamPhase /\ stream'.sequence = stream.sequence
      BY <1>3 DEF streamPhase
    <2>2. streamPhase <= streamPhase'
      BY <1>1, <2>1
    <2>3. QED
      BY <1>3, <2>1, <2>2, OrderedKept
  <1>4. ASSUME NEW i \in 1 .. Len(air), ConsumeContext(i, air[i]) PROVE Ordered'
    <2> DEFINE w == IF clears(air[i]) THEN <<>> ELSE stream.window
               L == Len(stream.window)
               M == Len(stream'.window)
               s == FftSize * stream.sequence
    <2>1. stream' = [stream EXCEPT !.metadata_valid = TRUE, !.settings = air[i].settings,
                       !.epoch = air[i].epoch, !.window = w,
                       !.discontinuities = IF clears(air[i]) THEN @ + 1 ELSE @]
          /\ wire' = wire
      BY <1>4 DEF ConsumeContext
    <2>2. L \in Nat /\ Len(<<>>) = 0 /\ stream.ordinal \in Nat
      BY DEF Inv, TypeOK
    <2>3. stream'.window = w /\ stream'.sequence = stream.sequence
          /\ stream'.ordinal = stream.ordinal
      BY <2>1 DEF Inv, TypeOK
    <2>4. M \in Nat /\ M <= L
      BY <2>2, <2>3
    <2>5. streamPhase = stream.ordinal - L - s
          /\ streamPhase' = stream.ordinal - M - s
      BY <2>3 DEF streamPhase
    <2>6. s \in Int
      BY <1>1, Distribute
    <2> HIDE DEF L, M, s, w
    <2>7. streamPhase <= streamPhase'
      BY <2>2, <2>4, <2>5, <2>6
    <2>8. QED
      BY <2>1, <2>3, <2>7, OrderedKept
  <1>5. ASSUME NEW i \in 1 .. Len(air), ConsumeOutOfRange(i, air[i]) PROVE Ordered'
    <2>1. stream' = noticed(air[i]) /\ wire' = wire /\ air[i].kind = "data"
          /\ arrives(i)
      BY <1>5 DEF ConsumeOutOfRange
    <2>2. air[i] \in Packet
      BY <2>1, ArrivesLemma DEF Inv
    <2>3. stream'.window = stream.window /\ stream'.sequence = stream.sequence
          /\ stream'.ordinal = stream.ordinal
      BY <2>1, <2>2, NoticedLemma DEF Inv
    <2>4. streamPhase' = streamPhase
      BY <2>3 DEF streamPhase
    <2>5. streamPhase <= streamPhase'
      BY <1>1, <2>4
    <2>6. QED
      BY <2>1, <2>3, <2>5, OrderedKept
  <1>6. CASE \/ RadioStart \/ RadioContext \/ \E n \in 1 .. PacketPairs : RadioSend(n)
             \/ \E reason \in Reasons : ConsumeMalformed(reason)
             \/ \E i \in 1 .. Len(air) : ConsumeEarly(i, air[i])
    <2>1. UNCHANGED <<stream, wire>>
      BY <1>6 DEF RadioStart, RadioContext, RadioSend, ConsumeMalformed, ConsumeEarly
    <2>2. QED
      BY <2>1, <1>3
  <1>7. CASE Lose \/ LoseSpectrum \/ Detect \/ DetectMalformed \/ Pause \/ Unavailable
    <2>1. UNCHANGED stream /\ (wire' = wire \/ (wire # <<>> /\ wire' = Tail(wire)))
      BY <1>7 DEF Lose, LoseSpectrum, Detect, DetectMalformed, Pause, Unavailable
    <2>2. QED
      BY <2>1, <1>3
  <1>8. CASE UNCHANGED vars
    BY <1>3, <1>8 DEF vars
  <1>9. QED
    BY <1>2, <1>4, <1>5, <1>6, <1>7, <1>8 DEF Next

\* The phases of two spectra in order are the samples between them.
LEMMA OrderedImplies == Inv /\ Ordered => WindowOrdinals
  <1> SUFFICES ASSUME Inv, Ordered PROVE WindowOrdinals
    OBVIOUS
  <1>1. /\ streamPhase \in Int /\ stream.sequence \in Nat /\ Len(wire) \in Nat
        /\ \A k \in 1 .. Len(wire) : wire[k].sequence \in Nat /\ wire[k].ordinal \in Nat
    BY PhaseType DEF Inv
  <1>2. FftSize \in Nat \ {0} /\ stream.ordinal \in Nat /\ Len(stream.window) \in Nat
    BY SizeAssumption DEF Inv, TypeOK
  <1>3. ASSUME NEW k \in 1 .. Len(wire) - 1
        PROVE  /\ wire[k].sequence < wire[k + 1].sequence
               /\ wire[k].ordinal
                    + FftSize * (wire[k + 1].sequence - wire[k].sequence)
                    <= wire[k + 1].ordinal
    <2>1. k \in 1 .. Len(wire) /\ k + 1 \in 1 .. Len(wire) /\ k < k + 1
      BY <1>1
    <2> DEFINE x == wire[k]
               y == wire[k + 1]
               a == FftSize * x.sequence
               b == FftSize * y.sequence
    <2>2. x.sequence < y.sequence /\ phase(x) <= phase(y)
      BY <2>1 DEF Ordered
    <2>3. x.ordinal \in Nat /\ y.ordinal \in Nat /\ x.sequence \in Nat
          /\ y.sequence \in Nat
      BY <1>1, <2>1
    <2>4. FftSize * (y.sequence - x.sequence) = b - a /\ a \in Int /\ b \in Int
      BY <1>2, <2>3, Distribute, SMTT(30)
    <2>5. x.ordinal - a <= y.ordinal - b
      BY <2>2 DEF phase
    <2> HIDE DEF x, y, a, b
    <2>6. x.ordinal + (b - a) <= y.ordinal
      BY <2>3, <2>4, <2>5
    <2>7. QED
      BY <2>2, <2>4, <2>6 DEF x, y
  <1>4. ASSUME wire # <<>>
        PROVE  wire[Len(wire)].ordinal + FftSize
                 <= stream.ordinal - Len(stream.window)
    <2>1. Len(wire) \in 1 .. Len(wire)
      BY <1>1, <1>4 DEF Inv, TypeOK
    <2> DEFINE x == wire[Len(wire)]
               a == FftSize * x.sequence
               s == FftSize * stream.sequence
               L == Len(stream.window)
               c == stream.sequence - 1
    <2>2. x.sequence < stream.sequence /\ phase(x) <= streamPhase
      BY <2>1 DEF Ordered
    <2>3. x.ordinal \in Nat /\ x.sequence \in Nat
      BY <1>1, <2>1
    <2>4. a \in Int /\ s \in Int /\ c \in Nat /\ x.sequence <= c
      BY <1>1, <1>2, <2>2, <2>3, Distribute
    <2>5. x.sequence * FftSize <= c * FftSize /\ x.sequence * FftSize = a
      BY <1>2, <2>3, <2>4, WindowOrder, Distribute
    <2>6. c * FftSize = s - FftSize
      <3>1. (stream.sequence - 1) * FftSize = stream.sequence * FftSize - 1 * FftSize
            /\ stream.sequence * FftSize = s
        BY <1>1, <1>2, Distribute
      <3>2. QED
        BY <1>2, <3>1
    <2>7. x.ordinal - a <= stream.ordinal - L - s
      BY <2>2 DEF phase, streamPhase
    <2> HIDE DEF x, a, s, L, c
    <2>8. a <= s - FftSize
      BY <2>5, <2>6
    <2>9. x.ordinal + FftSize <= stream.ordinal - L
      BY <1>2, <2>3, <2>4, <2>7, <2>8 DEF L
    <2>10. QED
      BY <2>9 DEF x, L
  <1>5. QED
    BY <1>3, <1>4 DEF WindowOrdinals

-----------------------------------------------------------------------------
(* Accounts of the processor.                                              *)

total(d) == d["limits"] + d["invalid_envelope"] + d["invalid_context"]
              + d["invalid_data"] + d["invalid_samples"] + d["waiting_context"]
              + d["timestamp_range"]

LEMMA TotalLemma ==
  ASSUME NEW d \in [Reasons -> Nat], NEW r \in Reasons
  PROVE  total([d EXCEPT ![r] = @ + 1]) = total(d) + 1 /\ total(d) \in Nat
  <1> DEFINE e == [d EXCEPT ![r] = @ + 1]
  <1>1. d["limits"] \in Nat /\ d["invalid_envelope"] \in Nat
        /\ d["invalid_context"] \in Nat /\ d["invalid_data"] \in Nat
        /\ d["invalid_samples"] \in Nat /\ d["waiting_context"] \in Nat
        /\ d["timestamp_range"] \in Nat
    BY DEF Reasons
  <1>2. \A x \in Reasons : e[x] = IF x = r THEN d[x] + 1 ELSE d[x]
    OBVIOUS
  <1> HIDE DEF e
  <1>3. total(e) = total(d) + 1
    <2>1. CASE r = "limits"
      BY <1>1, <1>2, <2>1 DEF total, Reasons
    <2>2. CASE r = "invalid_envelope"
      BY <1>1, <1>2, <2>2 DEF total, Reasons
    <2>3. CASE r = "invalid_context"
      BY <1>1, <1>2, <2>3 DEF total, Reasons
    <2>4. CASE r = "invalid_data"
      BY <1>1, <1>2, <2>4 DEF total, Reasons
    <2>5. CASE r = "invalid_samples"
      BY <1>1, <1>2, <2>5, SMTT(30) DEF total, Reasons
    <2>6. CASE r = "waiting_context"
      BY <1>1, <1>2, <2>6 DEF total, Reasons
    <2>7. CASE r = "timestamp_range"
      BY <1>1, <1>2, <2>7 DEF total, Reasons
    <2>8. QED
      BY <2>1, <2>2, <2>3, <2>4, <2>5, <2>6, <2>7 DEF Reasons
  <1>4. total(d) \in Nat
    BY <1>1 DEF total
  <1>5. QED
    BY <1>3, <1>4 DEF e

\* A step that counts one more datagram.
LEMMA CountedStep ==
  ASSUME Inv, DiscardAccounting,
         \/ \E r \in Reasons :
              /\ metrics'.datagrams = metrics.datagrams + 1
              /\ metrics'.malformed = metrics.malformed + 1
              /\ metrics'.discards = [metrics.discards EXCEPT ![r] = @ + 1]
              /\ metrics'.context_updates = metrics.context_updates
              /\ audit'.accepted = audit.accepted
         \/ /\ metrics'.datagrams = metrics.datagrams + 1
            /\ metrics'.malformed = metrics.malformed
            /\ metrics'.discards = metrics.discards
            /\ metrics'.context_updates + audit'.accepted
                 = metrics.context_updates + audit.accepted + 1
            /\ metrics'.context_updates \in Nat /\ audit'.accepted \in Nat
         \/ metrics' = metrics /\ audit'.accepted = audit.accepted
  PROVE  DiscardAccounting'
  <1>1. metrics.malformed \in Nat /\ metrics.context_updates \in Nat
        /\ metrics.datagrams \in Nat /\ metrics.discards \in [Reasons -> Nat]
        /\ audit.accepted \in Nat
    BY DEF Inv, TypeOK, AuditOK
  <1>2. metrics.datagrams = metrics.malformed + metrics.context_updates + audit.accepted
        /\ metrics.malformed = total(metrics.discards)
    BY DEF DiscardAccounting, total
  <1>3. SUFFICES
          /\ metrics'.datagrams
               = metrics'.malformed + metrics'.context_updates + audit'.accepted
          /\ metrics'.malformed = total(metrics'.discards)
    BY DEF DiscardAccounting, total
  <1>4. CASE \E r \in Reasons :
              /\ metrics'.datagrams = metrics.datagrams + 1
              /\ metrics'.malformed = metrics.malformed + 1
              /\ metrics'.discards = [metrics.discards EXCEPT ![r] = @ + 1]
              /\ metrics'.context_updates = metrics.context_updates
              /\ audit'.accepted = audit.accepted
    <2>1. total(metrics'.discards) = total(metrics.discards) + 1
      BY <1>1, <1>4, TotalLemma
    <2>2. metrics'.malformed = total(metrics'.discards)
      BY <1>2, <1>4, <2>1
    <2> DEFINE m == metrics.malformed
               c == metrics.context_updates
               a == audit.accepted
    <2>3. metrics'.datagrams = (m + c + a) + 1 /\ metrics'.malformed = m + 1
          /\ metrics'.context_updates = c /\ audit'.accepted = a
          /\ m \in Nat /\ c \in Nat /\ a \in Nat
      BY <1>1, <1>2, <1>4
    <2> HIDE DEF m, c, a
    <2>4. metrics'.datagrams
            = metrics'.malformed + metrics'.context_updates + audit'.accepted
      BY <2>3
    <2>5. QED
      BY <2>2, <2>4
  <1>5. CASE /\ metrics'.datagrams = metrics.datagrams + 1
             /\ metrics'.malformed = metrics.malformed
             /\ metrics'.discards = metrics.discards
             /\ metrics'.context_updates + audit'.accepted
                  = metrics.context_updates + audit.accepted + 1
             /\ metrics'.context_updates \in Nat /\ audit'.accepted \in Nat
    <2> DEFINE m == metrics.malformed
               c == metrics.context_updates
               a == audit.accepted
               d == metrics'.context_updates
               b == audit'.accepted
    <2>1. metrics'.datagrams = (m + c + a) + 1 /\ metrics'.malformed = m
          /\ d + b = c + a + 1 /\ m \in Nat /\ c \in Nat /\ a \in Nat
          /\ d \in Nat /\ b \in Nat
      BY <1>1, <1>2, <1>5
    <2> HIDE DEF m, c, a, d, b
    <2>2. metrics'.datagrams = metrics'.malformed + d + b
      BY <2>1
    <2>3. QED
      BY <1>2, <1>5, <2>2 DEF d, b
  <1>6. CASE metrics' = metrics /\ audit'.accepted = audit.accepted
    BY <1>2, <1>6
  <1>7. QED
    BY <1>4, <1>5, <1>6

LEMMA DiscardStep == Inv /\ Inv' /\ DiscardAccounting /\ [Next]_vars => DiscardAccounting'
  <1> SUFFICES ASSUME Inv, Inv', DiscardAccounting, [Next]_vars
               PROVE  DiscardAccounting'
    OBVIOUS
  <1>1. metrics \in [datagrams : Nat, malformed : Nat, discards : [Reasons -> Nat],
                     context_updates : Nat, packet_gaps : Nat, spectra : Nat,
                     unavailable : Nat, send_failures : Nat]
        /\ metrics.context_updates \in Nat /\ audit.accepted \in Nat
    BY DEF Inv, TypeOK, AuditOK
  <1>2. metrics'.context_updates \in Nat /\ audit'.accepted \in Nat
    BY DEF Inv, TypeOK, AuditOK
  <1>3. ASSUME NEW r \in Reasons
        PROVE  /\ discarded(metrics, r).datagrams = metrics.datagrams + 1
               /\ discarded(metrics, r).malformed = metrics.malformed + 1
               /\ discarded(metrics, r).discards
                    = [metrics.discards EXCEPT ![r] = @ + 1]
               /\ discarded(metrics, r).context_updates = metrics.context_updates
    BY <1>1 DEF discarded, counted
  <1>4. ASSUME NEW reason \in Reasons, ConsumeMalformed(reason)
        PROVE  DiscardAccounting'
    <2>1. metrics' = discarded(metrics, reason) /\ audit' = audit
      BY <1>4 DEF ConsumeMalformed
    <2>2. QED
      BY <1>3, <2>1, CountedStep
  <1>5. ASSUME NEW i \in 1 .. Len(air), ConsumeEarly(i, air[i])
        PROVE  DiscardAccounting'
    <2>1. metrics' = discarded(metrics, "waiting_context") /\ audit' = audit
          /\ "waiting_context" \in Reasons
      BY <1>5 DEF ConsumeEarly, Reasons
    <2>2. QED
      BY <1>3, <2>1, CountedStep
  <1>6. ASSUME NEW i \in 1 .. Len(air), ConsumeOutOfRange(i, air[i])
        PROVE  DiscardAccounting'
    <2> DEFINE m == discarded(metrics, "timestamp_range")
    <2>1. metrics' = [m EXCEPT !.packet_gaps = @ + gap(air[i])] /\ audit' = audit
          /\ "timestamp_range" \in Reasons
      BY <1>6 DEF ConsumeOutOfRange, Reasons
    <2>2. metrics'.datagrams = m.datagrams /\ metrics'.malformed = m.malformed
          /\ metrics'.discards = m.discards
          /\ metrics'.context_updates = m.context_updates
      BY <1>1, <2>1 DEF discarded, counted
    <2>3. QED
      BY <1>3, <2>1, <2>2, CountedStep
  <1>7. ASSUME NEW i \in 1 .. Len(air), ConsumeContext(i, air[i])
        PROVE  DiscardAccounting'
    <2>1. metrics'.datagrams = metrics.datagrams + 1
          /\ metrics'.malformed = metrics.malformed
          /\ metrics'.discards = metrics.discards
          /\ metrics'.context_updates = metrics.context_updates + 1
          /\ audit' = audit
      BY <1>1, <1>7 DEF ConsumeContext, counted
    <2>2. metrics'.context_updates + audit'.accepted
            = metrics.context_updates + audit.accepted + 1
      <3> DEFINE c == metrics.context_updates
      <3>1. metrics'.context_updates = c + 1 /\ audit'.accepted = audit.accepted
            /\ c \in Nat
        BY <1>1, <2>1
      <3> HIDE DEF c
      <3>2. metrics'.context_updates + audit'.accepted = c + audit.accepted + 1
        BY <1>1, <3>1, SMTT(30)
      <3>3. QED
        BY <3>2 DEF c
    <2>3. QED
      BY <1>2, <2>1, <2>2, CountedStep
  <1>8. ASSUME NEW i \in 1 .. Len(air), ConsumeData(i, air[i])
        PROVE  DiscardAccounting'
    <2>1. audit'.accepted = audit.accepted + 1
      <3> DEFINE first == IF audit.first = NoPacket THEN air[i] ELSE audit.first
      <3>1. audit' = [audit EXCEPT !.first = first, !.last = air[i],
                                   !.accepted = @ + 1]
        BY <1>8 DEF ConsumeData
      <3> HIDE DEF first
      <3>2. QED
        BY <3>1 DEF Inv, AuditOK
    <2>2. PICK n \in 0 .. sentWindows(air[i]) :
            metrics' = [counted(metrics) EXCEPT
               !.packet_gaps = @ + gap(air[i]), !.spectra = @ + sentWindows(air[i]),
               !.unavailable = @ + windows(air[i]) - sentWindows(air[i]),
               !.send_failures = @ + sentWindows(air[i]) - n]
      BY <1>8 DEF ConsumeData
    <2>3. metrics'.datagrams = metrics.datagrams + 1
          /\ metrics'.malformed = metrics.malformed
          /\ metrics'.discards = metrics.discards
          /\ metrics'.context_updates = metrics.context_updates
      BY <1>1, <2>2 DEF counted
    <2>4. metrics'.context_updates + audit'.accepted
            = metrics.context_updates + audit.accepted + 1
      <3> DEFINE c == metrics.context_updates
      <3>1. metrics'.context_updates = c /\ c \in Nat
        BY <1>1, <2>3
      <3> HIDE DEF c
      <3>2. metrics'.context_updates + audit'.accepted = c + audit.accepted + 1
        BY <1>1, <2>1, <3>1
      <3>3. QED
        BY <3>2 DEF c
    <2>5. QED
      BY <1>2, <2>3, <2>4, CountedStep
  <1>9. CASE \/ RadioStart \/ RadioContext \/ \E n \in 1 .. PacketPairs : RadioSend(n)
             \/ Lose \/ LoseSpectrum \/ DetectMalformed \/ Pause \/ Unavailable
             \/ UNCHANGED vars
    <2>1. UNCHANGED <<metrics, audit>>
      BY <1>9 DEF RadioStart, RadioContext, RadioSend, Lose, LoseSpectrum,
                  DetectMalformed, Pause, Unavailable, vars
    <2>2. QED
      BY <2>1, CountedStep
  <1>10. CASE Detect
    <2>1. metrics' = metrics /\ audit'.accepted = audit.accepted
      BY <1>10 DEF Detect, Inv, AuditOK
    <2>2. QED
      BY <2>1, CountedStep
  <1>11. QED
    BY <1>4, <1>5, <1>6, <1>7, <1>8, <1>9, <1>10 DEF Next

-----------------------------------------------------------------------------
(* Accounts of the detector.                                               *)

DetectorInv == Seen /\ NoSilentSpectrumLoss /\ Reported

LEMMA DetectorStep == Inv /\ DetectorInv /\ [Next]_vars => DetectorInv'
  <1> SUFFICES ASSUME Inv, DetectorInv, [Next]_vars PROVE DetectorInv'
    OBVIOUS
  <1> DEFINE Q == {None} \cup Nat
  <1>1. detector \in [sequence : Q, datagrams : Nat, detections : Nat,
                   gapped : Nat, zero : Nat, malformed : Nat, sequence_gaps : Nat,
                   unavailable : Nat, seen : BOOLEAN, silent : 0 .. Silence,
                   reported : BOOLEAN]
        /\ audit.spectrum \in Q /\ wire \in Seq(Spectrum)
    BY DEF Inv, TypeOK, AuditOK
  <1>2. /\ detector.datagrams \in Nat /\ detector.malformed \in Nat
        /\ detector.sequence_gaps \in Nat /\ detector.unavailable \in Nat
        /\ detector.seen \in BOOLEAN /\ detector.reported \in BOOLEAN
        /\ detector.sequence \in Q
    BY <1>1
  <1>3. CASE detector' = detector /\ audit'.spectrum = audit.spectrum
    BY <1>3 DEF DetectorInv, Seen, NoSilentSpectrumLoss, Reported, UnavailableOnce
  <1>4. CASE Detect
    <2> DEFINE x == Head(wire)
               g == IF sequenceGap(x) THEN detector.sequence_gaps + 1
                    ELSE detector.sequence_gaps
               first == IF audit.spectrum = None THEN x.sequence ELSE audit.spectrum
               d == detector.datagrams
               m == detector.malformed
               u == detector.unavailable
    <2>1. x.sequence \in Nat
      <3>1. x \in Spectrum
        BY <1>1, <1>4 DEF Detect
      <3>2. QED
        BY <3>1 DEF Spectrum
    <2>2. audit'.spectrum = first
      BY <1>4 DEF Detect, Inv, AuditOK
    <2>3. detector'.sequence = x.sequence /\ detector'.datagrams = d + 1
          /\ detector'.malformed = m /\ detector'.sequence_gaps = g
          /\ detector'.unavailable = u
      BY <1>1, <1>4 DEF Detect
    <2>4. d \in Nat /\ m \in Nat /\ u \in Nat
      BY <1>2
    <2>5. None \notin Nat
      BY DEF None
    <2>6. Seen'
      BY <2>1, <2>2, <2>3, <2>5, <1>1 DEF Seen
    <2>7. NoSilentSpectrumLoss'
      <3> SUFFICES ASSUME g = 0 PROVE (d + 1) - m = x.sequence - first + 1
        BY <2>2, <2>3 DEF NoSilentSpectrumLoss
      <3>1. ~sequenceGap(x) /\ detector.sequence_gaps = 0
        BY <1>2
      <3>2. CASE detector.sequence = None
        <4>1. audit.spectrum = None /\ d = m
          BY <3>2 DEF DetectorInv, Seen
        <4>2. first = x.sequence
          BY <4>1
        <4> HIDE DEF x, first, d, m
        <4>3. QED
          BY <2>1, <2>4, <4>1, <4>2
      <3>3. CASE detector.sequence # None
        <4>1. audit.spectrum # None /\ x.sequence = detector.sequence + 1
          BY <3>1, <3>3 DEF DetectorInv, Seen, sequenceGap
        <4>2. d - m = detector.sequence - audit.spectrum + 1
          BY <3>1, <4>1 DEF DetectorInv, NoSilentSpectrumLoss
        <4>3. first = audit.spectrum /\ detector.sequence \in Nat
              /\ audit.spectrum \in Nat
          BY <1>1, <1>2, <3>3, <4>1
        <4> HIDE DEF x, first, d, m
        <4>4. QED
          BY <2>1, <2>4, <4>1, <4>2, <4>3
      <3>4. QED
        BY <3>2, <3>3
    <2>8. Reported'
      <3>1. u <= d - m
        BY DEF DetectorInv, Reported, UnavailableOnce
      <3> HIDE DEF d, m, u
      <3>2. u + 1 <= (d + 1) - m /\ u <= (d + 1) - m
        BY <2>4, <3>1
      <3>3. QED
        BY <2>3, <3>2 DEF Reported, UnavailableOnce
    <2>9. QED
      BY <2>6, <2>7, <2>8 DEF DetectorInv
  <1>5. CASE DetectMalformed
    <2> DEFINE d == detector.datagrams
               m == detector.malformed
    <2>1. detector'.datagrams = d + 1 /\ detector'.malformed = m + 1
          /\ detector'.sequence = detector.sequence
          /\ detector'.sequence_gaps = detector.sequence_gaps
          /\ detector'.unavailable = detector.unavailable
          /\ detector'.seen = detector.seen /\ detector'.reported = detector.reported
          /\ audit' = audit
      BY <1>1, <1>5 DEF DetectMalformed
    <2>2. d \in Nat /\ m \in Nat
      BY <1>2
    <2> HIDE DEF d, m
    <2>3. (d + 1) - (m + 1) = d - m /\ (d = m => d + 1 = m + 1)
      BY <2>2
    <2>4. detector'.datagrams - detector'.malformed
            = detector.datagrams - detector.malformed
      BY <2>1, <2>3 DEF d, m
    <2>5. Seen'
      BY <2>1, <2>3 DEF DetectorInv, Seen, d, m
    <2>6. NoSilentSpectrumLoss' /\ Reported'
      BY <2>1, <2>4 DEF DetectorInv, NoSilentSpectrumLoss, Reported, UnavailableOnce
    <2>7. QED
      BY <2>5, <2>6 DEF DetectorInv
  <1>6. CASE Pause
    <2>1. detector'.datagrams = detector.datagrams
          /\ detector'.malformed = detector.malformed
          /\ detector'.sequence = detector.sequence
          /\ detector'.sequence_gaps = detector.sequence_gaps
          /\ detector'.unavailable = detector.unavailable
          /\ detector'.seen = detector.seen /\ detector'.reported = detector.reported
          /\ audit' = audit
      BY <1>1, <1>6 DEF Pause
    <2>2. QED
      BY <2>1 DEF DetectorInv, Seen, NoSilentSpectrumLoss, Reported, UnavailableOnce
  <1>7. CASE Unavailable
    <2> DEFINE d == detector.datagrams
               m == detector.malformed
               u == detector.unavailable
    <2>1. detector'.datagrams = d /\ detector'.malformed = m
          /\ detector'.sequence = detector.sequence
          /\ detector'.sequence_gaps = detector.sequence_gaps
          /\ detector'.unavailable = u + 1
          /\ detector'.reported = TRUE /\ audit' = audit
      BY <1>1, <1>7 DEF Unavailable
    <2>2. Seen' /\ NoSilentSpectrumLoss'
      BY <2>1 DEF DetectorInv, Seen, NoSilentSpectrumLoss
    <2>3. detector.seen /\ ~detector.reported
      BY <1>7 DEF Unavailable
    <2>4. u + 1 <= d - m
      BY <2>3 DEF DetectorInv, Reported
    <2>5. Reported'
      BY <2>1, <2>4 DEF Reported, UnavailableOnce
    <2>6. QED
      BY <2>2, <2>5 DEF DetectorInv
  <1>8. CASE \/ RadioStart \/ RadioContext \/ \E n \in 1 .. PacketPairs : RadioSend(n)
             \/ Lose \/ LoseSpectrum \/ UNCHANGED vars
             \/ \E reason \in Reasons : ConsumeMalformed(reason)
             \/ \E i \in 1 .. Len(air) : \/ ConsumeContext(i, air[i])
                                         \/ ConsumeEarly(i, air[i])
                                         \/ ConsumeOutOfRange(i, air[i])
    <2>1. UNCHANGED <<detector, audit>>
      BY <1>8 DEF RadioStart, RadioContext, RadioSend, Lose, LoseSpectrum, vars,
                  ConsumeMalformed, ConsumeContext, ConsumeEarly, ConsumeOutOfRange
    <2>2. QED
      BY <1>3, <2>1
  <1>9. ASSUME NEW i \in 1 .. Len(air), ConsumeData(i, air[i]) PROVE DetectorInv'
    <2> DEFINE f == IF audit.first = NoPacket THEN air[i] ELSE audit.first
    <2>1. audit' = [audit EXCEPT !.first = f, !.last = air[i], !.accepted = @ + 1]
          /\ detector' = detector
      BY <1>9 DEF ConsumeData
    <2> HIDE DEF f
    <2>2. audit'.spectrum = audit.spectrum
      BY <2>1 DEF Inv, AuditOK
    <2>3. QED
      BY <1>3, <2>1, <2>2
  <1>10. QED
    BY <1>4, <1>5, <1>6, <1>7, <1>8, <1>9 DEF Next

-----------------------------------------------------------------------------
(* Multiples, and counts modulo the modulus.                               *)

\* Two remainders that differ by a multiple of the divisor are equal.
LEMMA Between ==
  ASSUME NEW b \in Nat \ {0}, NEW x \in Int, NEW r \in 0 .. b - 1, NEW s \in 0 .. b - 1,
         r = x * b + s
  PROVE  r = s
  <1>1. CASE x = 0
    BY <1>1
  <1>2. CASE x >= 1
    <2>1. x * b >= b
      BY <1>2
    <2> DEFINE y == x * b
    <2>2. y \in Int /\ y >= b /\ r = y + s
      BY <2>1
    <2> HIDE DEF y
    <2> QED BY <2>2
  <1>3. CASE x <= -1
    <2>1. x * b <= -b
      BY <1>3
    <2> DEFINE y == x * b
    <2>2. y \in Int /\ y <= -b /\ r = y + s
      BY <2>1
    <2> HIDE DEF y
    <2> QED BY <2>2
  <1> QED BY <1>1, <1>2, <1>3

\* Division and remainder, and that only the remainder satisfies the equation.
LEMMA ModDivision ==
  ASSUME NEW a \in Int, NEW b \in Nat \ {0}
  PROVE  a % b \in 0 .. b - 1 /\ a \div b \in Int /\ a = (a \div b) * b + (a % b)
  <1>1. a % b \in 0 .. b - 1
    BY SMT
  <1>2. a \div b \in Int
    BY SMT
  <1>3. a = (a \div b) * b + (a % b)
    BY SMT
  <1> QED BY <1>1, <1>2, <1>3

LEMMA ModUnique ==
  ASSUME NEW a \in Int, NEW b \in Nat \ {0}, NEW q \in Int, NEW r \in 0 .. b - 1, a = q * b + r
  PROVE  a % b = r
  <1> DEFINE s == a % b
             t == a \div b
  <1>1. s \in 0 .. b - 1 /\ t \in Int /\ a = t * b + s
    BY ModDivision
  <1> HIDE DEF s, t
  <1>2. (t - q) * b = t * b - q * b /\ t * b \in Int /\ q * b \in Int
    BY <1>1
  <1>3. r = (t - q) * b + s
    BY <1>1, <1>2
  <1>4. r = s
    BY <1>1, <1>3, Between
  <1> QED BY <1>4 DEF s

\* A remainder of 0 means a multiple.
LEMMA Multiples ==
  ASSUME NEW b \in Nat \ {0}, NEW x \in Int
  PROVE  x % b = 0 <=> \E q \in Int : x = q * b
  <1>1. ASSUME x % b = 0 PROVE \E q \in Int : x = q * b
    <2>1. x \div b \in Int /\ x = (x \div b) * b
      BY <1>1, ModDivision
    <2> QED
      BY <2>1
  <1>2. ASSUME NEW q \in Int, x = q * b PROVE x % b = 0
    BY <1>2, ModUnique
  <1> QED
    BY <1>1, <1>2

\* Sums, differences and products of multiples.
LEMMA MultiplesAdd ==
  ASSUME NEW b \in Nat \ {0}, NEW x \in Int, NEW y \in Int, x % b = 0, y % b = 0
  PROVE  (x + y) % b = 0 /\ (x - y) % b = 0
  <1>1. PICK q \in Int, r \in Int : x = q * b /\ y = r * b
    BY Multiples
  <1>2. x + y = (q + r) * b /\ x - y = (q - r) * b
    BY <1>1, Distribute
  <1> QED
    BY <1>1, <1>2, Multiples

LEMMA MultiplesTimes ==
  ASSUME NEW b \in Nat \ {0}, NEW x \in Int, NEW k \in Int, x % b = 0
  PROVE  k * x \in Int /\ (k * x) % b = 0
  <1>1. PICK q \in Int : x = q * b
    BY Multiples
  <1>2. k * (q * b) = (k * q) * b /\ k * q \in Int /\ k * x \in Int
    BY <1>1
  <1> QED
    BY <1>1, <1>2, Multiples

LEMMA MultiplesApart ==
  ASSUME NEW b \in Nat \ {0}, NEW x \in Int, NEW y \in Int, x % b = 0, y % b = 0,
         y <= x, x < y + b
  PROVE  x = y
  <1>1. (x - y) % b = 0 /\ x - y \in Int
    <2>1. x - y \in Int
      OBVIOUS
    <2> QED
      BY <2>1, MultiplesAdd
  <1>2. PICK q \in Int : x - y = q * b
    BY <1>1, Multiples
  <1>3. x - y = 0
    BY <1>1, <1>2, Between, x - y \in 0 .. b - 1, 0 \in 0 .. b - 1
  <1> QED
    BY <1>3

\* The counts of two packets tell how many are between them, if fewer than the
\* modulus are.
LEMMA CountsTell ==
  ASSUME NEW m \in Nat \ {0}, NEW i \in Int, NEW j \in Int, j < i, i - j - 1 < m
  PROVE  ((i % m) - (((j % m) + 1) % m)) % m = i - j - 1
  <1> DEFINE u == i % m
             v == j % m
             s == (v + 1) % m
             a == i \div m
             b == j \div m
             c == (v + 1) \div m
  <1>1. u \in Int /\ v \in Int /\ a \in Int /\ b \in Int
        /\ i = a * m + u /\ j = b * m + v
    BY ModDivision
  <1>2. s \in Int /\ c \in Int /\ v + 1 = c * m + s
    <2>1. v + 1 \in Int
      BY <1>1
    <2> HIDE DEF v
    <2>2. (v + 1) % m \in 0 .. m - 1 /\ (v + 1) \div m \in Int
          /\ v + 1 = ((v + 1) \div m) * m + ((v + 1) % m)
      BY <2>1, ModDivision
    <2> QED
      BY <2>2
  <1> HIDE DEF u, v, s, a, b, c
  <1>3. (b + c - a) * m = b * m + c * m - a * m
        /\ a * m \in Int /\ b * m \in Int /\ c * m \in Int /\ b + c - a \in Int
    BY <1>1, <1>2
  <1>4. u - s = (b + c - a) * m + (i - j - 1) /\ u - s \in Int
    BY <1>1, <1>2, <1>3
  <1>5. i - j - 1 \in 0 .. m - 1
    OBVIOUS
  <1>6. (u - s) % m = i - j - 1
    BY <1>3, <1>4, <1>5, ModUnique
  <1> QED
    BY <1>6 DEF u, v, s

-----------------------------------------------------------------------------
(* The timeline of one epoch.                                              *)

\* While the conditions of TimelineExact last.
Steady == steady /\ network.lost < CountModulus

timeOf(index) == FirstTime + PacketPairs * index
\* A packet of a burst is where its index says; only the last may be short.
placed(p) ==
  /\ p.kind = "data" /\ p.index \in 0 .. source.packets - 1
  /\ p.count = p.index % CountModulus /\ p.time = timeOf(p.index)
  /\ p.pairs = PacketPairs \/ (source.short /\ p.index = source.packets - 1)

SourceOK ==
  /\ source.started => source.epochs = 1
  /\ ~source.started => /\ source.packets = 0 /\ source.time = FirstTime
                        /\ ~source.short /\ air = <<>> /\ ~stream.metadata_valid
  /\ ~source.short => source.time = timeOf(source.packets)
  /\ stream.metadata_valid => stream.settings = source.settings

\* In flight are the packets from lo on, in order, and contexts of the epoch.
queued(lo) ==
  /\ \A k \in 1 .. Len(air) :
       IF air[k].kind = "data" THEN placed(air[k]) /\ lo <= air[k].index
       ELSE air[k].settings = source.settings
  /\ \A j, k \in 1 .. Len(air) :
       j < k /\ air[j].kind = "data" /\ air[k].kind = "data" => air[j].index < air[k].index
  /\ \A i \in lo .. source.packets - 1 :
       \E k \in 1 .. Len(air) : air[k].kind = "data" /\ air[k].index = i
\* Those that are missing between the last accepted packet and lo were lost.
lag(lo) ==
  audit.accepted > 0 => /\ audit.last.index < lo
                        /\ lo - audit.last.index - 1 <= network.lost
InOrder == \E lo \in 0 .. source.packets : queued(lo) /\ lag(lo)

\* What the stream has taken over from the accepted packets.
Fresh ==
  audit.accepted = 0 =>
    /\ stream.count = None /\ stream.window = <<>> /\ stream.ordinal = 0
    /\ metrics.packet_gaps = 0 /\ wire = <<>> /\ audit.first = NoPacket
Followed ==
  audit.accepted > 0 =>
    /\ stream.metadata_valid
    /\ placed(audit.last) /\ placed(audit.first)
    /\ stream.count = audit.last.count /\ stream.previous_pairs = audit.last.pairs
    /\ metrics.packet_gaps = audit.last.index - audit.first.index + 1 - audit.accepted
    /\ stream.ordinal = audit.last.time + audit.last.pairs - audit.first.time
    /\ stream.window # <<>> =>
         stream.begin + Len(stream.window) = audit.last.time + audit.last.pairs
    /\ audit.last.pairs = PacketPairs => Len(stream.window) % PacketPairs = 0
OnTime ==
  /\ onTime(stream.window, stream.begin)
  /\ \A k \in 1 .. Len(wire) : onTime(wire[k].samples, wire[k].begin)

SteadyInv == Steady => SourceOK /\ InOrder /\ Fresh /\ Followed /\ OnTime

\* The types of what an invariant speaks of.
LEMMA SteadyTypes ==
  ASSUME Inv
  PROVE  /\ source.packets \in Nat /\ source.time \in Nat /\ source.epochs \in Nat
         /\ source.short \in BOOLEAN /\ source.started \in BOOLEAN
         /\ source.settings \in Settings
         /\ source \in [started : BOOLEAN, time : Nat, packets : Nat, settings : Settings,
                        epoch : Nat, epochs : Nat, contexts : Nat, short : BOOLEAN]
         /\ air \in Seq(Packet) /\ Len(air) \in Nat
         /\ \A k \in 1 .. Len(air) : air[k] \in Packet
         /\ network \in [lost : Nat, reordered : Nat, duplicated : Nat]
         /\ audit.accepted \in Nat
         /\ CountModulus \in Nat \ {0} /\ PacketPairs \in Nat \ {0}
         /\ FftSize \in Nat \ {0} /\ FirstTime \in Nat
  <1>1. source \in [started : BOOLEAN, time : Nat, packets : Nat, settings : Settings,
                    epoch : Nat, epochs : Nat, contexts : Nat, short : BOOLEAN]
    BY DEF Inv, TypeOK
  <1>2. air \in Seq(Packet) /\ network \in [lost : Nat, reordered : Nat, duplicated : Nat]
        /\ audit.accepted \in Nat
    BY DEF Inv, TypeOK, AuditOK
  <1>3. Len(air) \in Nat /\ \A k \in 1 .. Len(air) : air[k] \in Packet
    BY <1>2
  <1> QED
    BY <1>1, <1>2, <1>3, SizeAssumption

LEMMA PlacedTypes ==
  ASSUME Inv, NEW p \in Packet, placed(p)
  PROVE  /\ p.kind = "data" /\ p.index \in 0 .. source.packets - 1 /\ p.index \in Nat
         /\ p.time \in Nat /\ p.pairs \in 1 .. PacketPairs /\ p.pairs \in Nat
         /\ p.count = p.index % CountModulus
  BY SizeAssumption DEF placed, Packet

\* The faults that end the steady condition are never taken back.
LEMMA SteadyBefore ==
  ASSUME Inv, Steady', source'.epochs >= source.epochs,
         network'.lost \in Nat, network'.lost >= network.lost,
         source'.epochs \in Nat,
         network'.reordered = network.reordered, network'.duplicated = network.duplicated
  PROVE  Steady
  <1>1. network.lost < CountModulus
    <2>1. network'.lost < CountModulus /\ CountModulus \in Nat /\ network.lost \in Nat
      BY SizeAssumption, SteadyTypes DEF Steady
    <2>2. network'.lost \in Nat
      OBVIOUS
    <2> QED
      BY <2>1, <2>2
  <1>2. source.epochs <= 1
    BY SteadyTypes DEF Steady, steady
  <1> QED
    BY <1>1, <1>2 DEF Steady, steady

\* The first datagram in flight leaves.
LEMMA HeadLeaves ==
  ASSUME Inv, NEW lo \in 0 .. source.packets, queued(lo),
         air # <<>>, air' = Tail(air), UNCHANGED source
  PROVE  /\ Head(air).kind = "data" =>
              /\ placed(Head(air)) /\ Head(air).index = lo
              /\ lo + 1 \in 0 .. source.packets /\ queued(lo + 1)'
         /\ Head(air).kind # "data" =>
              Head(air).settings = source.settings /\ queued(lo)'
  <1>1. /\ Head(air) = air[1] /\ Len(air) \in Nat \ {0} /\ Len(air') = Len(air) - 1
        /\ \A k \in 1 .. Len(air') : air'[k] = air[k + 1] /\ k + 1 \in 1 .. Len(air)
        /\ 1 \in 1 .. Len(air)
    BY SteadyTypes, HeadTailProperties, EmptySeq
  <1>3. /\ source.packets \in Nat /\ lo \in Nat
        /\ \A k \in 1 .. Len(air) : air[k] \in Packet
    BY SteadyTypes
  <1>4. \A k \in 1 .. Len(air) :
          IF air[k].kind = "data" THEN placed(air[k]) /\ lo <= air[k].index
          ELSE air[k].settings = source.settings
    BY DEF queued
  <1>5. \A j, k \in 1 .. Len(air) :
          j < k /\ air[j].kind = "data" /\ air[k].kind = "data" => air[j].index < air[k].index
    BY DEF queued
  <1>6. \A i \in lo .. source.packets - 1 :
          \E k \in 1 .. Len(air) : air[k].kind = "data" /\ air[k].index = i
    BY DEF queued
  <1>7. \A k \in 1 .. Len(air) :
          air[k].kind = "data" => air[k].index \in 0 .. source.packets - 1
    BY <1>3, <1>4, PlacedTypes
  <1>8. \A j, k \in 1 .. Len(air') :
          j < k /\ air'[j].kind = "data" /\ air'[k].kind = "data"
            => air'[j].index < air'[k].index
    BY <1>1, <1>5
  <1>9. CASE air[1].kind = "data"
    <2>1. placed(air[1]) /\ lo <= air[1].index /\ air[1].index \in 0 .. source.packets - 1
      BY <1>1, <1>4, <1>7, <1>9
    <2>2. air[1].index = lo
      <3>1. PICK k \in 1 .. Len(air) : air[k].kind = "data" /\ air[k].index = lo
        BY <1>3, <1>6, <2>1
      <3>2. k # 1 => air[1].index < air[k].index
        BY <1>1, <1>5, <1>9, <3>1
      <3> QED
        BY <1>3, <2>1, <3>1, <3>2
    <2>3. \A k \in 2 .. Len(air) : air[k].kind = "data" => lo + 1 <= air[k].index
      <3>1. \A k \in 2 .. Len(air) : air[k].kind = "data" => air[1].index < air[k].index
        BY <1>1, <1>5, <1>9
      <3> QED
        BY <1>1, <1>3, <1>7, <2>2, <3>1
    <2>4. \A k \in 1 .. Len(air') :
            (IF air[k].kind = "data" THEN placed(air[k]) /\ lo + 1 <= air[k].index
             ELSE air[k].settings = source.settings)'
      <3> SUFFICES ASSUME NEW k \in 1 .. Len(air')
                   PROVE  (IF air[k].kind = "data" THEN placed(air[k]) /\ lo + 1 <= air[k].index
                           ELSE air[k].settings = source.settings)'
        OBVIOUS
      <3>1. air'[k] = air[k + 1] /\ k + 1 \in 2 .. Len(air)
        BY <1>1
      <3>2. placed(air[k])' <=> placed(air[k + 1])
        BY <3>1 DEF placed
      <3> QED
        BY <1>4, <2>3, <3>1, <3>2
    <2>5. \A i \in lo + 1 .. source.packets - 1 :
            \E k \in 1 .. Len(air') : air'[k].kind = "data" /\ air'[k].index = i
      <3> SUFFICES ASSUME NEW i \in lo + 1 .. source.packets - 1
                   PROVE  \E k \in 1 .. Len(air') : air'[k].kind = "data" /\ air'[k].index = i
        OBVIOUS
      <3>1. PICK k \in 1 .. Len(air) : air[k].kind = "data" /\ air[k].index = i
        BY <1>3, <1>6
      <3>2. k # 1
        BY <1>3, <2>2, <3>1
      <3>3. k - 1 \in 1 .. Len(air') /\ air'[k - 1] = air[k]
        BY <1>1, <3>2
      <3> QED
        BY <3>1, <3>3
    <2>6. queued(lo + 1)'
      BY <1>8, <2>4, <2>5 DEF queued
    <2> QED
      BY <1>1, <1>3, <1>9, <2>1, <2>2, <2>6
  <1>10. CASE air[1].kind # "data"
    <2>1. \A k \in 1 .. Len(air') :
            (IF air[k].kind = "data" THEN placed(air[k]) /\ lo <= air[k].index
             ELSE air[k].settings = source.settings)'
      <3> SUFFICES ASSUME NEW k \in 1 .. Len(air')
                   PROVE  (IF air[k].kind = "data" THEN placed(air[k]) /\ lo <= air[k].index
                           ELSE air[k].settings = source.settings)'
        OBVIOUS
      <3>1. air'[k] = air[k + 1] /\ k + 1 \in 1 .. Len(air)
        BY <1>1
      <3>2. placed(air[k])' <=> placed(air[k + 1])
        BY <3>1 DEF placed
      <3> QED
        BY <1>4, <3>1, <3>2
    <2>2. \A i \in lo .. source.packets - 1 :
            \E k \in 1 .. Len(air') : air'[k].kind = "data" /\ air'[k].index = i
      <3> SUFFICES ASSUME NEW i \in lo .. source.packets - 1
                   PROVE  \E k \in 1 .. Len(air') : air'[k].kind = "data" /\ air'[k].index = i
        OBVIOUS
      <3>1. PICK k \in 1 .. Len(air) : air[k].kind = "data" /\ air[k].index = i
        BY <1>6
      <3>2. k - 1 \in 1 .. Len(air') /\ air'[k - 1] = air[k]
        BY <1>1, <1>10, <3>1
      <3> QED
        BY <3>1, <3>2
    <2>3. queued(lo)'
      BY <1>8, <2>1, <2>2 DEF queued
    <2> QED
      BY <1>1, <1>4, <1>10, <2>3
  <1> QED
    BY <1>1, <1>9, <1>10

\* A packet or a context is sent after all that is in flight.
LEMMA SentLast ==
  ASSUME Inv, NEW lo \in 0 .. source.packets, queued(lo), NEW p \in Packet,
         air' = Append(air, p), source'.settings = source.settings,
         \A k \in 1 .. Len(air) : placed(air[k]) => placed(air[k])',
         \/ p.kind = "context" /\ p.settings = source.settings
            /\ source'.packets = source.packets
         \/ p.kind = "data" /\ placed(p)' /\ p.index = source.packets
            /\ source'.packets = source.packets + 1
  PROVE  lo \in 0 .. source'.packets /\ queued(lo)'
  <1> DEFINE n == Len(air)
  <1>1. /\ n \in Nat /\ Len(air') = n + 1 /\ air'[n + 1] = p
        /\ \A k \in 1 .. n : air'[k] = air[k]
        /\ 1 .. Len(air') = 1 .. n \cup {n + 1}
        /\ source.packets \in Nat /\ lo \in Nat
        /\ \A k \in 1 .. n : air[k] \in Packet
    BY SteadyTypes, AppendProperties
  <1> HIDE DEF n
  <1>2. \A k \in 1 .. n :
          IF air[k].kind = "data" THEN placed(air[k]) /\ lo <= air[k].index
          ELSE air[k].settings = source.settings
    BY DEF queued, n
  <1>3. \A k \in 1 .. n : air[k].kind = "data" =>
          air[k].index \in 0 .. source.packets - 1 /\ placed(air[k])'
    BY <1>1, <1>2, PlacedTypes DEF n
  <1>4. \A k \in 1 .. Len(air') :
          (IF air[k].kind = "data" THEN placed(air[k]) /\ lo <= air[k].index
           ELSE air[k].settings = source.settings)'
    <2> SUFFICES ASSUME NEW k \in 1 .. Len(air')
                 PROVE  (IF air[k].kind = "data" THEN placed(air[k]) /\ lo <= air[k].index
                         ELSE air[k].settings = source.settings)'
      OBVIOUS
    <2>1. CASE k \in 1 .. n
      <3>1. air'[k] = air[k]
        BY <1>1, <2>1
      <3> QED
        BY <1>2, <1>3, <2>1, <3>1
    <2>2. CASE k = n + 1
      <3>1. air'[k] = p
        BY <1>1, <2>2
      <3>2. placed(air[k])' <=> placed(p)'
        BY <3>1 DEF placed
      <3>3. p.kind = "data" => lo <= p.index
        BY <1>1
      <3>4. p.kind = "context" => p.kind # "data"
        OBVIOUS
      <3> QED
        BY <3>1, <3>2, <3>3, <3>4
    <2> QED
      BY <1>1, <2>1, <2>2
  <1>5. \A j, k \in 1 .. Len(air') :
          j < k /\ air'[j].kind = "data" /\ air'[k].kind = "data"
            => air'[j].index < air'[k].index
    <2> SUFFICES ASSUME NEW j \in 1 .. Len(air'), NEW k \in 1 .. Len(air'), j < k,
                        air'[j].kind = "data", air'[k].kind = "data"
                 PROVE  air'[j].index < air'[k].index
      OBVIOUS
    <2>1. j \in 1 .. n /\ air'[j] = air[j]
      BY <1>1
    <2>2. CASE k \in 1 .. n
      BY <1>1, <2>1, <2>2 DEF queued, n
    <2>3. CASE k = n + 1
      <3>1. p.kind = "data" /\ p.index = source.packets
        BY <1>1, <2>3
      <3> QED
        BY <1>1, <1>3, <2>1, <2>3, <3>1
    <2> QED
      BY <1>1, <2>2, <2>3
  <1>6. \A i \in lo .. source'.packets - 1 :
          \E k \in 1 .. Len(air') : air'[k].kind = "data" /\ air'[k].index = i
    <2> SUFFICES ASSUME NEW i \in lo .. source'.packets - 1
                 PROVE  \E k \in 1 .. Len(air') : air'[k].kind = "data" /\ air'[k].index = i
      OBVIOUS
    <2>1. CASE i \in lo .. source.packets - 1
      <3>1. PICK k \in 1 .. n : air[k].kind = "data" /\ air[k].index = i
        BY <2>1 DEF queued, n
      <3> QED
        BY <1>1, <3>1
    <2>2. CASE i \notin lo .. source.packets - 1
      <3>1. p.kind = "data" /\ p.index = source.packets /\ i = source.packets
        BY <1>1, <2>2
      <3> QED
        BY <1>1, <3>1
    <2> QED
      BY <2>1, <2>2
  <1>7. lo \in 0 .. source'.packets
    BY <1>1
  <1> QED
    BY <1>4, <1>5, <1>6, <1>7 DEF queued

\* What does not touch the window, the accounts and the accepted packets.
LEMMA StreamKept ==
  ASSUME Inv, Fresh, Followed, OnTime,
         stream.metadata_valid => stream'.metadata_valid,
         stream'.count = stream.count, stream'.window = stream.window,
         stream'.begin = stream.begin, stream'.ordinal = stream.ordinal,
         stream'.previous_pairs = stream.previous_pairs,
         metrics'.packet_gaps = metrics.packet_gaps,
         audit'.accepted = audit.accepted, audit'.first = audit.first,
         audit'.last = audit.last,
         wire' = wire \/ (wire # <<>> /\ wire' = Tail(wire)),
         audit.accepted > 0 => /\ placed(audit.first) => placed(audit.first)'
                               /\ placed(audit.last) => placed(audit.last)'
  PROVE  Fresh' /\ Followed' /\ OnTime'
  <1>1. Fresh'
    BY DEF Fresh
  <1>2. Followed'
    <2> SUFFICES ASSUME audit.accepted > 0 PROVE Followed'
      BY DEF Followed
    <2>1. placed(audit.first)' /\ placed(audit.last)'
      BY DEF Followed
    <2> QED
      BY <2>1 DEF Followed
  <1>3. \A k \in 1 .. Len(wire') : onTime(wire'[k].samples, wire'[k].begin)
    <2>1. CASE wire' = wire
      BY <2>1 DEF OnTime
    <2>2. CASE wire # <<>> /\ wire' = Tail(wire)
      <3>1. wire \in Seq(Spectrum)
        BY DEF Inv, TypeOK
      <3>2. \A k \in 1 .. Len(wire') : k + 1 \in 1 .. Len(wire) /\ wire'[k] = wire[k + 1]
        BY <2>2, <3>1, HeadTailProperties, LenProperties
      <3> QED
        BY <3>2 DEF OnTime
    <2> QED
      BY <2>1, <2>2
  <1>4. OnTime'
    BY <1>3 DEF OnTime, onTime
  <1> QED
    BY <1>1, <1>2, <1>4

\* What happens behind the processor, or beside the stream.
LEMMA SteadyBehind ==
  ASSUME Inv, SteadyInv, UNCHANGED <<source, air, stream>>,
         network'.lost \in Nat, network'.lost >= network.lost,
         network'.reordered = network.reordered, network'.duplicated = network.duplicated,
         metrics'.packet_gaps = metrics.packet_gaps,
         audit'.accepted = audit.accepted, audit'.first = audit.first,
         audit'.last = audit.last,
         wire' = wire \/ (wire # <<>> /\ wire' = Tail(wire))
  PROVE  SteadyInv'
  <1> SUFFICES ASSUME Steady' PROVE (SourceOK /\ InOrder /\ Fresh /\ Followed /\ OnTime)'
    BY DEF SteadyInv
  <1>1. source'.epochs \in Nat /\ source'.epochs >= source.epochs
    BY SteadyTypes
  <1>2. SourceOK /\ InOrder /\ Fresh /\ Followed /\ OnTime
    BY <1>1, SteadyBefore DEF SteadyInv
  <1>3. Fresh' /\ Followed' /\ OnTime'
    <2>1. placed(audit.first) => placed(audit.first)'
      BY DEF placed
    <2>2. placed(audit.last) => placed(audit.last)'
      BY DEF placed
    <2> QED
      BY <1>2, <2>1, <2>2, StreamKept
  <1>4. SourceOK'
    BY <1>2 DEF SourceOK
  <1>5. InOrder'
    <2>1. PICK lo \in 0 .. source.packets : queued(lo) /\ lag(lo)
      BY <1>2 DEF InOrder
    <2>2. queued(lo)'
      BY <2>1 DEF queued, placed
    <2>3. lag(lo)'
      <3> SUFFICES ASSUME audit.accepted > 0
                   PROVE  /\ audit.last.index < lo
                          /\ lo - audit.last.index - 1 <= network'.lost
        BY DEF lag
      <3>1. /\ audit.last.index < lo
            /\ lo - audit.last.index - 1 <= network.lost
        BY <2>1 DEF lag
      <3>2. audit.last \in Packet /\ placed(audit.last)
        BY <1>2 DEF Followed, placed, Inv, AuditOK, NoPacket
      <3>3. audit.last.index \in Nat /\ network.lost \in Nat /\ source.packets \in Nat
        BY <3>2, PlacedTypes, SteadyTypes
      <3> QED
        BY <3>1, <3>3
    <2> QED
      BY <2>1, <2>2, <2>3 DEF InOrder
  <1> QED
    BY <1>3, <1>4, <1>5

-----------------------------------------------------------------------------
(* Steps of the radio and of the network.                                  *)

\* The only start of the epoch.
LEMMA SteadyRadioStart ==
  ASSUME Inv, SteadyInv, RadioStart
  PROVE  SteadyInv'
  <1> SUFFICES ASSUME Steady' PROVE (SourceOK /\ InOrder /\ Fresh /\ Followed /\ OnTime)'
    BY DEF SteadyInv
  <1> DEFINE t == IF source.started THEN source.time + 1 ELSE source.time
  <1>1. PICK s \in Settings :
          /\ source' = [source EXCEPT !.started = TRUE, !.settings = s,
               !.short = FALSE, !.epochs = @ + 1, !.time = t, !.epoch = t]
          /\ air' = Append(air, [kind |-> "context", settings |-> s, epoch |-> t])
    BY DEF RadioStart
  <1>2. /\ source'.started = TRUE /\ source'.settings = s /\ source'.short = FALSE
        /\ source'.epochs = source.epochs + 1 /\ source'.time = t
        /\ source'.packets = source.packets
    BY <1>1, SteadyTypes
  <1>3. UNCHANGED <<stream, metrics, wire, audit, network>>
    BY DEF RadioStart
  <1>4. source.epochs = 0
    BY <1>2, SteadyTypes DEF Steady, steady
  <1>5. SourceOK /\ InOrder /\ Fresh /\ Followed /\ OnTime
    <2>1. Steady
      BY <1>2, <1>3, SteadyTypes, SteadyBefore
    <2> QED
      BY <2>1 DEF SteadyInv
  <1>6. /\ ~source.started /\ source.packets = 0 /\ source.time = FirstTime
        /\ air = <<>> /\ ~stream.metadata_valid
    BY <1>4, <1>5 DEF SourceOK
  <1>7. audit.accepted = 0
    BY <1>5, <1>6, SteadyTypes DEF Followed
  <1>8. SourceOK'
    <2>1. timeOf(0) = FirstTime
      BY SteadyTypes DEF timeOf
    <2> QED
      BY <1>2, <1>3, <1>4, <1>6, <2>1 DEF SourceOK, timeOf
  <1>9. Fresh' /\ Followed' /\ OnTime'
    BY <1>3, <1>5, <1>7 DEF Fresh, Followed, OnTime, onTime
  <1>10. InOrder'
    <2> DEFINE p == [kind |-> "context", settings |-> s, epoch |-> t]
    <2>1. Len(air') = 1 /\ air'[1] = p
      BY <1>1, <1>6
    <2>2. \A k \in 1 .. Len(air') : k = 1 /\ air'[k].kind # "data" /\ air'[k].settings = s
      BY <2>1
    <2>3. queued(0)'
      BY <1>2, <1>6, <2>2 DEF queued
    <2>4. lag(0)'
      BY <1>3, <1>7 DEF lag
    <2> QED
      BY <1>2, <1>6, <2>3, <2>4 DEF InOrder
  <1> QED
    BY <1>8, <1>9, <1>10

\* A step of a started radio.
LEMMA SteadyRadioContext ==
  ASSUME Inv, Inv', SteadyInv, RadioContext
  PROVE  SteadyInv'
  <1> SUFFICES ASSUME Steady' PROVE (SourceOK /\ InOrder /\ Fresh /\ Followed /\ OnTime)'
    BY DEF SteadyInv
  <1>1. /\ source' = [source EXCEPT !.contexts = @ + 1]
        /\ air' = Append(air, context) /\ source.started
        /\ UNCHANGED <<stream, metrics, wire, audit, network>>
    BY DEF RadioContext
  <1>2. /\ source'.started = source.started /\ source'.settings = source.settings
        /\ source'.short = source.short /\ source'.epochs = source.epochs
        /\ source'.time = source.time /\ source'.packets = source.packets
    BY <1>1, SteadyTypes
  <1>3. SourceOK /\ InOrder /\ Fresh /\ Followed /\ OnTime
    <2>1. Steady
      BY <1>1, <1>2, SteadyTypes, SteadyBefore
    <2> QED
      BY <2>1 DEF SteadyInv
  <1>4. SourceOK'
    BY <1>1, <1>2, <1>3 DEF SourceOK, timeOf
  <1>5. Fresh' /\ Followed' /\ OnTime'
    <2>1. placed(audit.first) => placed(audit.first)'
      BY <1>1, <1>2 DEF placed, timeOf
    <2>2. placed(audit.last) => placed(audit.last)'
      BY <1>1, <1>2 DEF placed, timeOf
    <2> QED
      BY <1>1, <1>3, <2>1, <2>2, StreamKept
  <1>6. InOrder'
    <2>1. PICK lo \in 0 .. source.packets : queued(lo) /\ lag(lo)
      BY <1>3 DEF InOrder
    <2>2. context \in Packet
      <3>1. source.epoch \in Nat /\ source.settings \in Settings
        BY SteadyTypes
      <3> QED
        BY <3>1 DEF context, Packet
    <2>3. context.kind = "context" /\ context.settings = source.settings
      BY DEF context
    <2>4. \A k \in 1 .. Len(air) : placed(air[k]) => placed(air[k])'
      <3> SUFFICES ASSUME NEW k \in 1 .. Len(air), placed(air[k]) PROVE placed(air[k])'
        OBVIOUS
      <3>1. air'[k] = air[k]
        BY <1>1, <2>2, SteadyTypes, AppendProperties
      <3> QED
        BY <1>2, <3>1 DEF placed, timeOf
    <2>5. lo \in 0 .. source'.packets /\ queued(lo)'
      <3> HIDE DEF context
      <3> QED
        BY <1>1, <1>2, <2>1, <2>2, <2>3, <2>4, SentLast
    <2>6. lag(lo)'
      BY <1>1, <2>1 DEF lag
    <2> QED
      BY <2>5, <2>6 DEF InOrder
  <1> QED
    BY <1>4, <1>5, <1>6

\* A packet continues the time of those before it.
LEMMA SteadyRadioSend ==
  ASSUME Inv, Inv', SteadyInv, NEW n \in 1 .. PacketPairs, RadioSend(n)
  PROVE  SteadyInv'
  <1> SUFFICES ASSUME Steady' PROVE (SourceOK /\ InOrder /\ Fresh /\ Followed /\ OnTime)'
    BY DEF SteadyInv
  <1>0. source.packets % CountModulus \in 0 .. CountModulus - 1
    <2> DEFINE q == source.packets
    <2>1. q \in Int
      BY SteadyTypes
    <2> HIDE DEF q
    <2>2. q % CountModulus \in 0 .. CountModulus - 1
      BY <2>1, SteadyTypes, ModDivision
    <2> QED
      BY <2>2 DEF q
  <1> PICK p \in Packet :
        p = [kind |-> "data", index |-> source.packets,
             count |-> source.packets % CountModulus,
             time |-> source.time, pairs |-> n]
    BY <1>0, SteadyTypes DEF Packet
  <1>1. /\ source' = [source EXCEPT !.packets = @ + 1, !.time = @ + n,
                                    !.short = n < PacketPairs]
        /\ air' = Append(air, p) /\ source.started /\ ~source.short
        /\ UNCHANGED <<stream, metrics, wire, audit, network>>
    BY DEF RadioSend
  <1>2. /\ source'.started = source.started /\ source'.settings = source.settings
        /\ source'.short = (n < PacketPairs) /\ source'.epochs = source.epochs
        /\ source'.time = source.time + n /\ source'.packets = source.packets + 1
    BY <1>1, SteadyTypes
  <1>3. SourceOK /\ InOrder /\ Fresh /\ Followed /\ OnTime
    <2>1. Steady
      BY <1>1, <1>2, SteadyTypes, SteadyBefore
    <2> QED
      BY <2>1 DEF SteadyInv
  <1>4. source.time = timeOf(source.packets)
    BY <1>1, <1>3 DEF SourceOK
  <1>5. timeOf(source.packets + 1) = timeOf(source.packets) + PacketPairs
    <2> DEFINE q == source.packets
               b == PacketPairs
    <2>1. q \in Nat /\ b \in Nat /\ FirstTime \in Nat
      BY SteadyTypes
    <2> HIDE DEF q, b
    <2>2. b * (q + 1) = b * q + b * 1 /\ b * q \in Int /\ b * 1 = b
      BY <2>1, Distribute
    <2>3. FirstTime + b * (q + 1) = FirstTime + b * q + b
      BY <2>1, <2>2
    <2> QED
      BY <2>3 DEF timeOf, q, b
  <1>6. SourceOK'
    <2>1. ~source'.short => n = PacketPairs
      <3>1. n < PacketPairs \/ n = PacketPairs
        BY SteadyTypes
      <3> QED
        BY <1>2, <3>1, Zenon
    <2>2. ~source'.short => source'.time = timeOf(source'.packets)
      BY <1>2, <1>4, <1>5, <2>1
    <2> QED
      BY <1>1, <1>2, <1>3, <2>2 DEF SourceOK, timeOf
  <1>7. ASSUME NEW x \in Packet, placed(x)
        PROVE  /\ x.kind = "data" /\ x.index \in 0 .. source'.packets - 1
               /\ x.count = x.index % CountModulus /\ x.time = timeOf(x.index)
               /\ x.pairs = PacketPairs
    <2>1. /\ x.kind = "data" /\ x.index \in 0 .. source.packets - 1
          /\ x.count = x.index % CountModulus /\ x.time = timeOf(x.index)
          /\ x.pairs = PacketPairs
      BY <1>1, <1>7 DEF placed
    <2> QED
      BY <1>2, <2>1, SteadyTypes, SMTT(30)
  <1>8. Fresh' /\ Followed' /\ OnTime'
    <2>1. audit.accepted > 0 => /\ placed(audit.first) => placed(audit.first)'
                                /\ placed(audit.last) => placed(audit.last)'
      <3> SUFFICES ASSUME audit.accepted > 0
                   PROVE  placed(audit.first)' /\ placed(audit.last)'
        OBVIOUS
      <3>1. placed(audit.first) /\ placed(audit.last)
        BY <1>3 DEF Followed
      <3>2. audit.first \in Packet /\ audit.last \in Packet
        BY <3>1 DEF placed, Inv, AuditOK, NoPacket
      <3> QED
        BY <1>1, <1>7, <3>1, <3>2 DEF placed, timeOf
    <2> QED
      BY <1>1, <1>3, <2>1, StreamKept
  <1>9. InOrder'
    <2>1. PICK lo \in 0 .. source.packets : queued(lo) /\ lag(lo)
      BY <1>3 DEF InOrder
    <2>4. /\ p.kind = "data" /\ p.index = source.packets /\ p.time = source.time
          /\ p.count = source.packets % CountModulus /\ p.pairs = n
      OBVIOUS
    <2>5. \A k \in 1 .. Len(air) : placed(air[k]) => placed(air[k])'
      <3> SUFFICES ASSUME NEW k \in 1 .. Len(air), placed(air[k]) PROVE placed(air[k])'
        OBVIOUS
      <3>1. air'[k] = air[k] /\ air[k] \in Packet
        BY <1>1, SteadyTypes, AppendProperties
      <3> QED
        BY <1>7, <3>1 DEF placed, timeOf
    <2>6. placed(p)'
      <3>1. p.index \in 0 .. source'.packets - 1 /\ p.index = source'.packets - 1
        BY <1>2, <2>4, SteadyTypes, SMTT(30)
      <3>2. p.pairs = PacketPairs \/ source'.short
        <4>1. n < PacketPairs \/ n = PacketPairs
          BY SteadyTypes
        <4> QED
          BY <1>2, <2>4, <4>1, Zenon
      <3>3. p.time = timeOf(p.index)
        BY <1>4, <2>4
      <3> QED
        BY <2>4, <3>1, <3>2, <3>3 DEF placed, timeOf
    <2>7. lo \in 0 .. source'.packets /\ queued(lo)'
      BY <1>1, <1>2, <2>1, <2>4, <2>5, <2>6, SentLast
    <2>8. lag(lo)'
      BY <1>1, <2>1 DEF lag
    <2> QED
      BY <2>7, <2>8 DEF InOrder
  <1> QED
    BY <1>6, <1>8, <1>9

-----------------------------------------------------------------------------
(* What arrives.                                                           *)

\* The accepted packets are placed ones.
LEMMA LagTypes ==
  ASSUME Inv, Followed, audit.accepted > 0
  PROVE  /\ audit.last \in Packet /\ placed(audit.last) /\ audit.last.index \in Nat
         /\ audit.first \in Packet /\ placed(audit.first) /\ audit.first.index \in Nat
         /\ network.lost \in Nat
  <1>1. placed(audit.last) /\ placed(audit.first)
    BY DEF Followed
  <1>2. audit.last \in Packet /\ audit.first \in Packet
    BY <1>1 DEF placed, Inv, AuditOK, NoPacket
  <1> QED
    BY <1>1, <1>2, PlacedTypes, SteadyTypes

\* A loss raises what may be missing by one, and the count of losses with it.
LEMMA SteadyLose ==
  ASSUME Inv, Inv', SteadyInv, Lose
  PROVE  SteadyInv'
  <1> SUFFICES ASSUME Steady' PROVE (SourceOK /\ InOrder /\ Fresh /\ Followed /\ OnTime)'
    BY DEF SteadyInv
  <1>1. /\ air # <<>> /\ air' = Tail(air)
        /\ network' = [network EXCEPT !.lost = @ + 1]
        /\ UNCHANGED <<source, stream, metrics, wire, audit>>
    BY DEF Lose
  <1>2. /\ network'.lost = network.lost + 1 /\ network.lost \in Nat
        /\ network'.reordered = network.reordered
        /\ network'.duplicated = network.duplicated
    BY <1>1, SteadyTypes
  <1>3. SourceOK /\ InOrder /\ Fresh /\ Followed /\ OnTime
    <2>1. Steady
      BY <1>1, <1>2, SteadyTypes, SteadyBefore
    <2> QED
      BY <2>1 DEF SteadyInv
  <1>4. SourceOK'
    BY <1>1, <1>3 DEF SourceOK, timeOf
  <1>5. Fresh' /\ Followed' /\ OnTime'
    <2>1. placed(audit.first) => placed(audit.first)'
      BY <1>1 DEF placed, timeOf
    <2>2. placed(audit.last) => placed(audit.last)'
      BY <1>1 DEF placed, timeOf
    <2> QED
      BY <1>1, <1>3, <2>1, <2>2, StreamKept
  <1>6. InOrder'
    <2>1. PICK lo \in 0 .. source.packets : queued(lo) /\ lag(lo)
      BY <1>3 DEF InOrder
    <2>2. lo \in Nat
      BY SteadyTypes
    <2>3. lag(lo)' /\ lag(lo + 1)'
      <3>0. audit' = audit
        BY <1>1
      <3> SUFFICES ASSUME audit.accepted > 0
                   PROVE  /\ audit.last.index < lo /\ audit.last.index < lo + 1
                          /\ lo - audit.last.index - 1 <= network'.lost
                          /\ (lo + 1) - audit.last.index - 1 <= network'.lost
        BY <3>0 DEF lag
      <3>1. audit.last.index < lo /\ lo - audit.last.index - 1 <= network.lost
        BY <2>1 DEF lag
      <3>2. audit.last.index \in Nat
        BY <1>3, LagTypes
      <3> QED
        BY <1>2, <2>2, <3>1, <3>2
    <2>4. CASE Head(air).kind = "data"
      <3>1. lo + 1 \in 0 .. source.packets /\ queued(lo + 1)'
        BY <1>1, <2>1, <2>4, HeadLeaves
      <3> QED
        BY <1>1, <2>3, <3>1 DEF InOrder
    <2>5. CASE Head(air).kind # "data"
      <3>1. queued(lo)'
        BY <1>1, <2>1, <2>5, HeadLeaves
      <3> QED
        BY <1>1, <2>3, <3>1 DEF InOrder
    <2> QED
      BY <2>4, <2>5
  <1> QED
    BY <1>4, <1>5, <1>6

\* Without reordering and duplicates it is the first datagram that arrives.
LEMMA SteadyArrival ==
  ASSUME Inv, Steady', UNCHANGED source, NEW i \in 1 .. Len(air), arrives(i)
  PROVE  /\ i = 1 /\ air # <<>> /\ air[i] = Head(air) /\ Head(air) \in Packet
         /\ air' = Tail(air) /\ UNCHANGED network /\ Steady
  <1>1. network'.reordered = 0 /\ network'.duplicated = 0
    BY DEF Steady, steady
  <1>2. network.reordered \in Nat /\ network.duplicated \in Nat
        /\ network \in [lost : Nat, reordered : Nat, duplicated : Nat]
    BY SteadyTypes
  <1>3. network' # [network EXCEPT !.reordered = @ + 1]
    BY <1>1, <1>2
  <1>4. network' # [network EXCEPT !.duplicated = @ + 1]
    BY <1>1, <1>2
  <1>5. i = 1 /\ air' = Tail(air) /\ UNCHANGED network
    BY <1>3, <1>4 DEF arrives
  <1>6. air # <<>> /\ air[1] = Head(air) /\ air[1] \in Packet
    BY <1>5, SteadyTypes, EmptySeq
  <1> QED
    BY <1>5, <1>6 DEF Steady, steady

\* A context of the epoch announces the settings the stream already has.
LEMMA SteadyContext ==
  ASSUME Inv, Inv', SteadyInv, NEW i \in 1 .. Len(air), ConsumeContext(i, air[i])
  PROVE  SteadyInv'
  <1> SUFFICES ASSUME Steady' PROVE (SourceOK /\ InOrder /\ Fresh /\ Followed /\ OnTime)'
    BY DEF SteadyInv
  <1> DEFINE p == Head(air)
  <1>1. arrives(i) /\ UNCHANGED <<source, wire, audit>>
    BY DEF ConsumeContext
  <1>2. /\ air[i] = p /\ air # <<>> /\ air' = Tail(air) /\ UNCHANGED network /\ Steady
        /\ p \in Packet
    BY <1>1, SteadyArrival
  <1>3. p.kind = "context" /\ p.kind # "data"
    BY <1>2 DEF ConsumeContext
  <1>4. SourceOK /\ InOrder /\ Fresh /\ Followed /\ OnTime
    BY <1>2 DEF SteadyInv
  <1>5. PICK lo \in 0 .. source.packets : queued(lo) /\ lag(lo)
    BY <1>4 DEF InOrder
  <1>6. p.settings = source.settings /\ queued(lo)'
    BY <1>1, <1>2, <1>3, <1>5, HeadLeaves
  <1>7. ~clears(p)
    <2> SUFFICES ASSUME stream.window # <<>> PROVE stream.settings = p.settings
      BY DEF clears
    <2>1. audit.accepted > 0
      BY <1>4, SteadyTypes, SMTT(30) DEF Fresh
    <2> QED
      BY <1>4, <1>6, <2>1 DEF Followed, SourceOK
  <1>8. /\ stream'.metadata_valid = TRUE /\ stream'.settings = source.settings
        /\ stream'.count = stream.count /\ stream'.window = stream.window
        /\ stream'.begin = stream.begin /\ stream'.ordinal = stream.ordinal
        /\ stream'.previous_pairs = stream.previous_pairs
    <2>1. stream' = [stream EXCEPT !.metadata_valid = TRUE, !.settings = p.settings,
            !.epoch = p.epoch,
            !.window = IF clears(p) THEN <<>> ELSE @,
            !.discontinuities = IF clears(p) THEN @ + 1 ELSE @]
      BY <1>2 DEF ConsumeContext
    <2> QED
      BY <1>6, <1>7, <2>1 DEF Inv, TypeOK
  <1>9. metrics'.packet_gaps = metrics.packet_gaps
    BY DEF ConsumeContext, counted, Inv, TypeOK
  <1>10. Fresh' /\ Followed' /\ OnTime'
    <2>1. placed(audit.first) => placed(audit.first)'
      BY <1>1 DEF placed, timeOf
    <2>2. placed(audit.last) => placed(audit.last)'
      BY <1>1 DEF placed, timeOf
    <2> QED
      BY <1>1, <1>4, <1>8, <1>9, <2>1, <2>2, StreamKept
  <1>11. SourceOK'
    <2>1. source.started
      BY <1>2, <1>4 DEF SourceOK
    <2> QED
      BY <1>1, <1>4, <1>8, <2>1 DEF SourceOK, timeOf
  <1>12. InOrder'
    <2>1. lag(lo)'
      BY <1>1, <1>2, <1>5 DEF lag
    <2> QED
      BY <1>1, <1>6, <2>1 DEF InOrder
  <1> QED
    BY <1>10, <1>11, <1>12

\* Data before the first context is discarded; the timeline has not begun.
LEMMA SteadyEarly ==
  ASSUME Inv, Inv', SteadyInv, NEW i \in 1 .. Len(air), ConsumeEarly(i, air[i])
  PROVE  SteadyInv'
  <1> SUFFICES ASSUME Steady' PROVE (SourceOK /\ InOrder /\ Fresh /\ Followed /\ OnTime)'
    BY DEF SteadyInv
  <1> DEFINE p == Head(air)
  <1>1. arrives(i) /\ UNCHANGED <<source, stream, wire, audit>> /\ ~stream.metadata_valid
    BY DEF ConsumeEarly
  <1>2. /\ air[i] = p /\ air # <<>> /\ air' = Tail(air) /\ UNCHANGED network /\ Steady
    BY <1>1, SteadyArrival
  <1>3. p.kind = "data"
    BY <1>2 DEF ConsumeEarly
  <1>4. SourceOK /\ InOrder /\ Fresh /\ Followed /\ OnTime
    BY <1>2 DEF SteadyInv
  <1>5. ~(audit.accepted > 0)
    BY <1>1, <1>4 DEF Followed
  <1>6. metrics'.packet_gaps = metrics.packet_gaps
    BY DEF ConsumeEarly, discarded, counted, Inv, TypeOK
  <1>7. Fresh' /\ Followed' /\ OnTime'
    BY <1>1, <1>4, <1>5, <1>6, StreamKept
  <1>8. SourceOK'
    BY <1>1, <1>2, <1>4 DEF SourceOK, timeOf
  <1>9. InOrder'
    <2>1. PICK lo \in 0 .. source.packets : queued(lo)
      BY <1>4 DEF InOrder
    <2>2. lo + 1 \in 0 .. source.packets /\ queued(lo + 1)'
      BY <1>1, <1>2, <1>3, <2>1, HeadLeaves
    <2>3. lag(lo + 1)'
      BY <1>1, <1>5 DEF lag
    <2> QED
      BY <1>1, <2>2, <2>3 DEF InOrder
  <1> QED
    BY <1>7, <1>8, <1>9

\* The gap that the counts tell is of the packets lost since the last one.
LEMMA GapTold ==
  ASSUME Inv, Steady, Fresh, Followed, NEW p \in Packet, placed(p), lag(p.index)
  PROVE  /\ audit.accepted = 0 => gap(p) = 0 /\ missingPairs(p) = 0
         /\ audit.accepted > 0 =>
              /\ gap(p) = p.index - audit.last.index - 1
              /\ audit.last.pairs = PacketPairs
              /\ p.time - missingPairs(p) = audit.last.time + audit.last.pairs
         /\ missingPairs(p) \in Nat /\ missingPairs(p) <= p.time
         /\ missingPairs(p) % PacketPairs = 0
  <1>1. /\ p.kind = "data" /\ p.index \in Nat /\ p.index \in 0 .. source.packets - 1
        /\ p.count = p.index % CountModulus /\ p.time \in Nat /\ p.time = timeOf(p.index)
        /\ CountModulus \in Nat \ {0} /\ PacketPairs \in Nat \ {0} /\ FirstTime \in Nat
        /\ source.packets \in Nat
    BY PlacedTypes, SteadyTypes DEF placed
  <1>2. CASE audit.accepted = 0
    <2>1. gap(p) = 0
      BY <1>2 DEF Fresh, gap
    <2>2. stream.previous_pairs \in Nat
      BY SizeAssumption DEF Inv, TypeOK
    <2>3. missingPairs(p) = 0
      BY <2>1, <2>2 DEF missingPairs
    <2>4. 0 % PacketPairs = 0
      BY <1>1, Multiples, 0 = 0 * PacketPairs
    <2> QED
      BY <1>1, <1>2, <2>1, <2>3, <2>4
  <1>3. CASE audit.accepted > 0
    <2> DEFINE l == audit.last.index
               m == p.index - l - 1
               b == PacketPairs
    <2>1. /\ l \in Nat /\ network.lost \in Nat /\ l \in 0 .. source.packets - 1
          /\ audit.last.count = l % CountModulus /\ audit.last.time = timeOf(l)
          /\ b = PacketPairs
      BY <1>3, LagTypes, PlacedTypes DEF placed
    <2>2. l < p.index /\ m <= network.lost /\ network.lost < CountModulus
      BY <1>3 DEF lag, Steady
    <2>3. m \in Nat /\ m < CountModulus
      <3> HIDE DEF l
      <3> QED BY <1>1, <2>1, <2>2
    <2>4. audit.last.pairs = b
      <3>1. l # source.packets - 1
        <4> HIDE DEF l
        <4> QED BY <1>1, <2>1, <2>2
      <3> QED
        BY <1>3, <3>1, LagTypes DEF placed
    <2>5. stream.count = l % CountModulus /\ stream.count # None /\ stream.previous_pairs = b
      <3>1. stream.count = l % CountModulus /\ stream.previous_pairs = b
        BY <1>3, <2>1, <2>4 DEF Followed
      <3>2. l % CountModulus \in 0 .. CountModulus - 1
        <4>1. l \in Int
          BY <2>1
        <4> HIDE DEF l
        <4>2. l % CountModulus \in 0 .. CountModulus - 1
          BY <1>1, <4>1, ModDivision
        <4> QED
          BY <4>2
      <3> QED
        BY <1>1, <3>1, <3>2 DEF None
    <2>6. gap(p) = m
      <3>1. gap(p) = ((p.index % CountModulus) - (((l % CountModulus) + 1) % CountModulus))
                       % CountModulus
        BY <1>1, <2>5 DEF gap
      <3> DEFINE i == p.index
      <3>2. i \in Int /\ l \in Int /\ l < i /\ i - l - 1 < CountModulus
        BY <1>1, <2>1, <2>2, <2>3
      <3> HIDE DEF i, l
      <3>3. ((i % CountModulus) - (((l % CountModulus) + 1) % CountModulus)) % CountModulus
              = i - l - 1
        BY <1>1, <3>2, CountsTell
      <3> QED
        BY <3>1, <3>3 DEF i
    <2>7. missingPairs(p) = m * b /\ m * b \in Nat
      <3>1. missingPairs(p) = m * b
        BY <2>5, <2>6 DEF missingPairs
      <3> HIDE DEF m, b
      <3>2. b \in Nat
        BY <1>1, <2>1
      <3> QED
        BY <2>3, <3>1, <3>2
    <2>8. p.time - m * b = timeOf(l) + b
      <3> DEFINE i == p.index
      <3>1. i \in Nat /\ l \in Nat /\ b \in Nat /\ m = i - l - 1
        BY <1>1, <2>1
      <3>2. p.time = FirstTime + b * i /\ timeOf(l) = FirstTime + b * l
        BY <1>1 DEF timeOf
      <3> HIDE DEF i, l, m, b
      <3>3. m * b = b * m /\ b * (i - l) = b * i - b * l
            /\ b * ((i - l) - 1) = b * (i - l) - b * 1
            /\ b * i \in Int /\ b * l \in Int /\ b * 1 = b
        BY <2>3, <3>1, Distribute
      <3>4. m = (i - l) - 1
        BY <3>1
      <3>5. m * b = b * i - b * l - b
        BY <3>1, <3>3, <3>4
      <3> QED
        BY <1>1, <3>1, <3>2, <3>3, <3>5
    <2>9. m * b <= p.time
      <3>1. timeOf(l) \in Nat
        <4>1. timeOf(l) = audit.last.time
          BY <2>1
        <4>2. audit.last.time \in Nat
          BY <1>3, LagTypes, PlacedTypes
        <4> QED
          BY <4>1, <4>2
      <3> DEFINE u == m * b
                 v == timeOf(l)
      <3>2. u \in Nat /\ v \in Nat /\ b \in Nat /\ p.time - u = v + b
        BY <1>1, <2>7, <2>8, <3>1
      <3> HIDE DEF u, v, b
      <3>3. u <= p.time
        BY <1>1, <3>2
      <3> QED
        BY <3>3 DEF u
    <2>10. (m * b) % b = 0
      <3> HIDE DEF m, b
      <3>1. b \in Nat \ {0} /\ m \in Int
        BY <1>1, <2>1, <2>3
      <3>2. m * b \in Int
        BY <3>1
      <3> QED
        BY <3>1, <3>2, Multiples
    <2>11. p.time - missingPairs(p) = audit.last.time + audit.last.pairs
      BY <2>1, <2>4, <2>7, <2>8
    <2> QED
      BY <1>3, <2>1, <2>4, <2>6, <2>7, <2>9, <2>10, <2>11
  <1> QED
    BY <1>2, <1>3, SteadyTypes

\* With the timeline kept the gap never begins before time 0.
LEMMA SteadyOutOfRange ==
  ASSUME Inv, Inv', SteadyInv, NEW i \in 1 .. Len(air), ConsumeOutOfRange(i, air[i])
  PROVE  SteadyInv'
  <1> SUFFICES ASSUME Steady' PROVE FALSE
    BY DEF SteadyInv
  <1> DEFINE p == Head(air)
  <1>1. arrives(i) /\ UNCHANGED <<source, wire, audit>>
    BY DEF ConsumeOutOfRange
  <1>2. /\ air[i] = p /\ air # <<>> /\ air' = Tail(air) /\ Steady /\ p \in Packet
    BY <1>1, SteadyArrival
  <1>3. p.kind = "data" /\ missingPairs(p) > p.time
    BY <1>2 DEF ConsumeOutOfRange
  <1>4. InOrder /\ Fresh /\ Followed
    BY <1>2 DEF SteadyInv
  <1>5. PICK lo \in 0 .. source.packets : queued(lo) /\ lag(lo)
    BY <1>4 DEF InOrder
  <1>6. placed(p) /\ p.index = lo
    BY <1>1, <1>2, <1>3, <1>5, HeadLeaves
  <1>7. missingPairs(p) <= p.time /\ missingPairs(p) \in Nat /\ p.time \in Nat
    BY <1>2, <1>4, <1>5, <1>6, GapTold, PlacedTypes
  <1> QED
    BY <1>3, <1>7

\* Where the window being filled would have begun, seen from a packet.
origin(p) == p.time - missingPairs(p) - Len(stream.window)

\* A sample at hand is missing or of the time that its place tells.
LEMMA AppendedTimes ==
  ASSUME TypeOK, NEW p \in Packet, p.kind = "data",
         onTime(stream.window, stream.begin),
         stream.window # <<>> => stream.begin = origin(p)
  PROVE  /\ origin(p) \in Int
         /\ \A i \in 1 .. Len(appended(p)) :
              appended(p)[i] \in {Missing, origin(p) + i - 1}
  <1> DEFINE W == stream.window
             m == missingPairs(p)
             filler == [i \in 1 .. m |-> Missing]
             real == [i \in 1 .. p.pairs |-> p.time + i - 1]
             old == Len(W)
             T == origin(p)
  <1>1. m \in Nat /\ p.time \in Nat /\ p.pairs \in Nat
    BY GapLemma, SizeAssumption
  <1>2. W \in Seq(Nat) /\ old \in Nat
    BY AppendedLemma DEF TypeOK
  <1>3. filler \in Seq(Nat) /\ Len(filler) = m
    <2> HIDE DEF m
    <2>1. \A i \in 1 .. m : Missing \in Nat
      BY DEF Missing
    <2> QED
      BY <1>1, <2>1
  <1>4. real \in Seq(Nat) /\ Len(real) = p.pairs
    <2>1. \A i \in 1 .. p.pairs : p.time + i - 1 \in Nat
      BY <1>1
    <2> QED
      BY <1>1, <2>1
  <1>5. appended(p) = (W \o filler) \o real
    BY DEF appended
  <1>6. Len(appended(p)) = old + m + p.pairs
    BY AppendedLemma
  <1>7. T = p.time - m - old /\ T \in Int
    BY <1>1, <1>2 DEF origin
  <1>8. /\ \A i \in 1 .. m : filler[i] = Missing
        /\ \A i \in 1 .. p.pairs : real[i] = p.time + i - 1
    OBVIOUS
  <1>9. \A i \in 1 .. old : W[i] \in {Missing, T + i - 1}
    <2> SUFFICES ASSUME NEW i \in 1 .. old PROVE W[i] \in {Missing, T + i - 1}
      OBVIOUS
    <2>1. W # <<>>
      BY <1>2, EmptySeq
    <2>2. stream.begin = T
      BY <2>1
    <2> QED
      BY <2>2 DEF onTime
  <1> HIDE DEF W, m, filler, real, old, T
  <1>10. /\ Len(W \o filler) = old + m /\ W \o filler \in Seq(Nat)
         /\ \A i \in 1 .. old + m :
              (W \o filler)[i] = IF i <= old THEN W[i] ELSE filler[i - old]
    BY <1>2, <1>3, ConcatProperties DEF old
  <1>11. \A i \in 1 .. old + m + p.pairs :
           appended(p)[i] = IF i <= old + m THEN (W \o filler)[i] ELSE real[i - (old + m)]
    BY <1>1, <1>4, <1>5, <1>10, ConcatProperties, SMTT(30)
  <1>12. ASSUME NEW i \in 1 .. old + m + p.pairs
         PROVE  appended(p)[i] \in {Missing, T + i - 1}
    <2>1. CASE i <= old
      <3>1. i \in 1 .. old /\ i \in 1 .. old + m /\ i <= old + m
        BY <1>1, <1>2, <2>1
      <3>2. appended(p)[i] = (W \o filler)[i]
        BY <1>11, <3>1
      <3>3. (W \o filler)[i] = W[i]
        BY <1>10, <2>1, <3>1
      <3> QED
        BY <1>9, <3>1, <3>2, <3>3
    <2>2. CASE i > old /\ i <= old + m
      <3>1. i - old \in 1 .. m
        BY <1>1, <1>2, <2>2
      <3>2. appended(p)[i] = filler[i - old]
        <4>1. i \in 1 .. old + m /\ ~(i <= old)
          BY <1>1, <1>2, <2>2
        <4>2. appended(p)[i] = (W \o filler)[i]
          BY <1>1, <1>2, <1>11, <2>2
        <4> QED
          BY <1>10, <4>1, <4>2
      <3> QED
        BY <1>8, <3>1, <3>2
    <2>3. CASE i > old + m
      <3>1. i - (old + m) \in 1 .. p.pairs
        BY <1>1, <1>2, <2>3
      <3>2. appended(p)[i] = real[i - (old + m)]
        BY <1>1, <1>2, <1>11, <2>3
      <3>3. real[i - (old + m)] = p.time + (i - (old + m)) - 1
        BY <1>8, <3>1
      <3> QED
        BY <1>1, <1>2, <1>7, <3>2, <3>3
    <2> QED
      BY <1>1, <1>2, <2>1, <2>2, <2>3
  <1> QED
    BY <1>6, <1>7, <1>12 DEF T

\* Windows are of whole packets, so one that begins after the missing samples
\* begins with the packet.
LEMMA BeginTimes ==
  ASSUME TypeOK, NEW p \in Packet, p.kind = "data",
         stream.window # <<>> => stream.begin = origin(p),
         FftSize % PacketPairs = 0, Len(stream.window) % PacketPairs = 0,
         missingPairs(p) % PacketPairs = 0,
         NEW k \in Nat, k * FftSize + 1 <= Len(appended(p))
  PROVE  beginAt(p, k * FftSize + 1) = origin(p) + k * FftSize
  <1> DEFINE old == Len(stream.window)
             m == missingPairs(p)
             T == origin(p)
             x == k * FftSize
  <1>1. /\ m \in Nat /\ p.time \in Nat /\ p.pairs \in Nat /\ p.pairs <= PacketPairs
        /\ PacketPairs \in Nat \ {0} /\ FftSize \in Nat \ {0}
    BY GapLemma, SizeAssumption
  <1>2. old \in Nat /\ old < FftSize /\ stream.window \in Seq(Nat)
    BY AppendedLemma DEF TypeOK
  <1>3. Len(appended(p)) = old + m + p.pairs
    BY AppendedLemma
  <1>4. T = p.time - m - old
    BY DEF origin
  <1>5. x \in Nat
    BY <1>1, WindowOrder
  <1>6. x % PacketPairs = 0
    <2>1. FftSize \in Int /\ k \in Int /\ FftSize % PacketPairs = 0
      BY <1>1
    <2>2. (k * FftSize) % PacketPairs = 0
      BY <1>1, <2>1, MultiplesTimes
    <2> QED
      BY <2>2
  <1>7. (old + m) % PacketPairs = 0
    <2>1. old \in Int /\ m \in Int
      BY <1>1, <1>2
    <2>2. old % PacketPairs = 0 /\ m % PacketPairs = 0
      OBVIOUS
    <2> HIDE DEF old, m
    <2> QED
      BY <1>1, <2>1, <2>2, MultiplesAdd
  <1>8. beginAt(p, x + 1) = IF x + 1 <= old THEN stream.begin
                            ELSE IF x + 1 <= old + m THEN p.time - m + ((x + 1) - old - 1)
                            ELSE p.time
    BY DEF beginAt
  <1>9. CASE x + 1 <= old
    <2>1. k = 0
      <3> SUFFICES ASSUME k # 0 PROVE FALSE
        OBVIOUS
      <3>1. 1 <= k
        OBVIOUS
      <3>2. 1 * FftSize <= k * FftSize
        BY <1>1, <3>1, WindowOrder
      <3>3. FftSize <= x
        BY <1>1, <3>2
      <3> HIDE DEF x, old
      <3> QED
        BY <1>1, <1>2, <1>5, <1>9, <3>3
    <2>2. x = 0
      BY <1>1, <2>1
    <2>3. stream.window # <<>>
      BY <1>2, <1>9, <2>2, EmptySeq
    <2>4. T \in Int
      <3> HIDE DEF old, m, T
      <3> QED
        BY <1>1, <1>2, <1>4
    <2> QED
      BY <1>8, <1>9, <2>2, <2>3, <2>4
  <1>10. CASE ~(x + 1 <= old) /\ x + 1 <= old + m
    <2>1. beginAt(p, x + 1) = p.time - m + ((x + 1) - old - 1)
      BY <1>8, <1>10
    <2> HIDE DEF old, m, x, T
    <2>2. p.time - m + ((x + 1) - old - 1) = T + x
      BY <1>1, <1>2, <1>4, <1>5
    <2> QED
      BY <2>1, <2>2 DEF x, T
  <1>11. CASE ~(x + 1 <= old) /\ ~(x + 1 <= old + m)
    <2>1. beginAt(p, x + 1) = p.time
      BY <1>8, <1>11
    <2>2. old + m <= x /\ x < (old + m) + PacketPairs
      <3>0. x + 1 <= old + m + p.pairs
        BY <1>3
      <3> HIDE DEF old, m, x
      <3> QED
        BY <1>1, <1>2, <1>5, <1>11, <3>0
    <2> HIDE DEF old, m, x, T
    <2>3. x = old + m
      <3> DEFINE y == old + m
      <3>1. x \in Int /\ y \in Int /\ x % PacketPairs = 0 /\ y % PacketPairs = 0
            /\ y <= x /\ x < y + PacketPairs
        BY <1>1, <1>2, <1>5, <1>6, <1>7, <2>2
      <3> HIDE DEF y
      <3>2. x = y
        BY <1>1, <3>1, MultiplesApart
      <3> QED
        BY <3>2 DEF y
    <2>4. p.time = T + x
      BY <1>1, <1>2, <1>4, <1>5, <2>3
    <2> QED
      BY <2>1, <2>4 DEF x, T
  <1> QED
    BY <1>9, <1>10, <1>11

\* A part of what is on time is, from its own begin.
LEMMA CutOnTime ==
  ASSUME NEW A \in Seq(Nat), NEW T \in Int, NEW base \in Nat, NEW to \in Nat,
         to <= Len(A), \A i \in 1 .. Len(A) : A[i] \in {Missing, T + i - 1}
  PROVE  onTime(SubSeq(A, base + 1, to), T + base)
  <1> DEFINE S == SubSeq(A, base + 1, to)
  <1>1. \A i \in base + 1 .. to : A[i] \in Nat
    OBVIOUS
  <1>2. /\ Len(S) = IF base + 1 <= to THEN to - (base + 1) + 1 ELSE 0
        /\ \A i \in 1 .. to - (base + 1) + 1 : S[i] = A[(base + 1) + i - 1]
    <2> DEFINE from == base + 1
    <2>1. from \in Int /\ \A i \in from .. to : A[i] \in Nat
      BY <1>1
    <2> HIDE DEF from
    <2>2. /\ Len(SubSeq(A, from, to)) = IF from <= to THEN to - from + 1 ELSE 0
          /\ \A i \in 1 .. to - from + 1 : SubSeq(A, from, to)[i] = A[from + i - 1]
      BY <2>1, SubSeqProperties
    <2> QED
      BY <2>2 DEF from
  <1>3. \A i \in 1 .. Len(S) : S[i] = A[base + i] /\ base + i \in 1 .. Len(A)
    <2> HIDE DEF S
    <2> SUFFICES ASSUME NEW i \in 1 .. Len(S)
                 PROVE  S[i] = A[base + i] /\ base + i \in 1 .. Len(A)
      OBVIOUS
    <2>1. base + 1 <= to /\ i \in 1 .. to - (base + 1) + 1
      BY <1>2
    <2>2. (base + 1) + i - 1 = base + i /\ base + i \in 1 .. Len(A)
      BY <2>1
    <2> QED
      BY <1>2, <2>1, <2>2
  <1>4. \A i \in 1 .. Len(S) : S[i] \in {Missing, (T + base) + i - 1}
    <2> HIDE DEF S
    <2> SUFFICES ASSUME NEW i \in 1 .. Len(S) PROVE S[i] \in {Missing, (T + base) + i - 1}
      OBVIOUS
    <2>1. S[i] = A[base + i] /\ A[base + i] \in {Missing, T + (base + i) - 1}
      BY <1>3
    <2>2. Len(S) \in Nat /\ i \in Int
      BY <1>2
    <2>3. T + (base + i) - 1 = (T + base) + i - 1
      BY <2>2
    <2> QED
      BY <2>1, <2>3
  <1> QED
    BY <1>4 DEF onTime

\* The window being filled holds whole packets and goes on where the gap begins.
LEMMA WindowTimes ==
  ASSUME Inv, Steady, Fresh, Followed, OnTime,
         NEW p \in Packet, placed(p), lag(p.index)
  PROVE  /\ stream.window # <<>> => stream.begin = origin(p)
         /\ Len(stream.window) % PacketPairs = 0
         /\ origin(p) \in Int
         /\ \A i \in 1 .. Len(appended(p)) :
              appended(p)[i] \in {Missing, origin(p) + i - 1}
  <1> DEFINE W == stream.window
             m == missingPairs(p)
  <1>1. TypeOK /\ p.kind = "data" /\ p.time \in Nat /\ m \in Nat /\ Len(W) \in Nat
        /\ stream.begin \in Nat /\ PacketPairs \in Nat \ {0} /\ audit.accepted \in Nat
    <2>1. TypeOK /\ p.kind = "data"
      BY DEF Inv, placed
    <2> QED
      BY <2>1, PlacedTypes, SteadyTypes, GapLemma, AppendedLemma DEF TypeOK
  <1>2. W # <<>> => audit.accepted > 0
    BY <1>1 DEF Fresh
  <1>3. ASSUME W # <<>> PROVE stream.begin = origin(p)
    <2>1. stream.begin + Len(W) = audit.last.time + audit.last.pairs
      BY <1>2, <1>3 DEF Followed
    <2>2. p.time - m = audit.last.time + audit.last.pairs
      BY <1>2, <1>3, GapTold
    <2>3. stream.begin + Len(W) = p.time - m
      BY <2>1, <2>2
    <2>4. origin(p) = p.time - m - Len(W)
      BY DEF origin
    <2> DEFINE n == Len(W)
               b == stream.begin
    <2>5. b + n = p.time - m /\ b \in Nat /\ n \in Nat /\ origin(p) = p.time - m - n
      BY <1>1, <2>3, <2>4
    <2> HIDE DEF W, m, n, b
    <2>6. b = origin(p)
      BY <1>1, <2>5
    <2> QED
      BY <2>6 DEF b
  <1>4. Len(W) % PacketPairs = 0
    <2>1. CASE audit.accepted > 0
      BY <2>1, GapTold DEF Followed
    <2>2. CASE ~(audit.accepted > 0)
      <3>1. W = <<>>
        BY <1>2, <2>2
      <3>2. 0 % PacketPairs = 0
        BY <1>1, Multiples, 0 = 0 * PacketPairs
      <3> QED
        BY <3>1, <3>2
    <2> QED
      BY <2>1, <2>2
  <1>5. onTime(stream.window, stream.begin)
    BY DEF OnTime
  <1> QED
    BY <1>1, <1>3, <1>4, <1>5, AppendedTimes

\* The spectra cut off are on time.
LEMMA SpectrumOnTime ==
  ASSUME Inv, Steady, Fresh, Followed, OnTime,
         NEW p \in Packet, placed(p), lag(p.index), NEW k \in 1 .. windows(p)
  PROVE  onTime(spectrum(p, k).samples, spectrum(p, k).begin)
  <1> DEFINE A == appended(p)
             T == origin(p)
             j == k - 1
             base == j * FftSize
             to == k * FftSize
  <1>1. TypeOK /\ p.kind = "data"
    BY DEF Inv, placed
  <1>2. FftSize \in Nat \ {0} /\ windows(p) \in Nat /\ k \in Nat /\ k <= windows(p)
        /\ j \in Nat /\ A \in Seq(Nat) /\ Len(A) \in Nat
    BY <1>1, SizeAssumption, WindowsLemma, AppendedLemma
  <1>3. to \in Nat /\ to <= windows(p) * FftSize /\ windows(p) * FftSize <= Len(A)
        /\ windows(p) * FftSize \in Nat
    BY <1>1, <1>2, WindowsLemma, WindowOrder
  <1>4. to <= Len(A)
    BY <1>2, <1>3
  <1>5. base \in Nat /\ to = base + FftSize
    <2>1. j * FftSize \in Nat
      BY <1>2, WindowOrder
    <2>2. (k - 1) * FftSize = k * FftSize - 1 * FftSize
      BY <1>2, Distribute
    <2> QED
      BY <1>2, <1>3, <2>1, <2>2
  <1>6. base + 1 <= Len(A)
    <2> HIDE DEF base, to, A
    <2> QED
      BY <1>2, <1>4, <1>5
  <1>7. /\ stream.window # <<>> => stream.begin = T
        /\ Len(stream.window) % PacketPairs = 0 /\ T \in Int
        /\ \A i \in 1 .. Len(A) : A[i] \in {Missing, T + i - 1}
    BY WindowTimes
  <1>8. FftSize % PacketPairs = 0 /\ missingPairs(p) % PacketPairs = 0
    BY GapTold DEF Steady, steady
  <1>9. beginAt(p, base + 1) = T + base
    <2> HIDE DEF j
    <2> QED
      BY <1>1, <1>2, <1>6, <1>7, <1>8, BeginTimes
  <1>10. onTime(SubSeq(A, base + 1, to), T + base)
    <2> HIDE DEF A, T, base, to
    <2> QED
      BY <1>2, <1>3, <1>4, <1>5, <1>7, CutOnTime
  <1>11. spectrum(p, k).samples = SubSeq(A, base + 1, to)
         /\ spectrum(p, k).begin = beginAt(p, base + 1)
    BY DEF spectrum
  <1> QED
    BY <1>9, <1>10, <1>11

\* What is left goes on with the packet.
LEMMA KeptOnTime ==
  ASSUME Inv, Steady, Fresh, Followed, OnTime,
         NEW p \in Packet, placed(p), lag(p.index)
  PROVE  LET kept == windows(p) * FftSize + 1
             window == SubSeq(appended(p), kept, Len(appended(p)))
             begin == IF kept <= Len(appended(p)) THEN beginAt(p, kept) ELSE stream.begin
         IN  /\ onTime(window, begin)
             /\ window # <<>> => begin + Len(window) = p.time + p.pairs
             /\ p.pairs = PacketPairs => Len(window) % PacketPairs = 0
  <1> DEFINE A == appended(p)
             T == origin(p)
             base == windows(p) * FftSize
             kept == base + 1
             window == SubSeq(A, kept, Len(A))
             begin == IF kept <= Len(A) THEN beginAt(p, kept) ELSE stream.begin
             old == Len(stream.window)
             m == missingPairs(p)
  <1>1. TypeOK /\ p.kind = "data"
    BY DEF Inv, placed
  <1>2. /\ FftSize \in Nat \ {0} /\ PacketPairs \in Nat \ {0} /\ windows(p) \in Nat
        /\ A \in Seq(Nat) /\ Len(A) \in Nat /\ old \in Nat /\ m \in Nat
        /\ Len(A) = old + m + p.pairs /\ p.pairs \in Nat /\ p.time \in Nat
        /\ base \in Nat /\ base <= Len(A)
    BY <1>1, SizeAssumption, WindowsLemma, AppendedLemma, GapLemma, PlacedTypes
  <1>3. /\ stream.window # <<>> => stream.begin = T
        /\ old % PacketPairs = 0 /\ T \in Int
        /\ \A i \in 1 .. Len(A) : A[i] \in {Missing, T + i - 1}
    BY WindowTimes
  <1>4. FftSize % PacketPairs = 0 /\ m % PacketPairs = 0
    BY GapTold DEF Steady, steady
  <1>5. Len(window) = Len(A) - base
    <2> DEFINE from == base + 1
               to == Len(A)
    <2>1. from \in Int /\ to \in Int /\ \A i \in from .. to : A[i] \in Nat
      <3> HIDE DEF base, A
      <3> QED
        BY <1>2
    <2>2. window = SubSeq(A, from, to)
      OBVIOUS
    <2> HIDE DEF from, to, A, window
    <2>3. Len(window) = IF from <= to THEN to - from + 1 ELSE 0
      BY <2>1, <2>2, SubSeqProperties
    <2>4. from = base + 1 /\ to = Len(A)
      BY DEF from, to
    <2> HIDE DEF base
    <2> QED
      BY <1>2, <2>3, <2>4, SMTT(30)
  <1>6. base + 1 <= Len(A) => begin = T + base
    <2> SUFFICES ASSUME base + 1 <= Len(A) PROVE begin = T + base
      OBVIOUS
    <2>1. begin = beginAt(p, base + 1)
      OBVIOUS
    <2>2. beginAt(p, base + 1) = T + base
      BY <1>1, <1>2, <1>3, <1>4, BeginTimes
    <2> QED
      BY <2>1, <2>2
  <1>7. onTime(window, begin)
    <2>1. CASE base + 1 <= Len(A)
      <3>1. window = SubSeq(A, base + 1, Len(A)) /\ Len(A) <= Len(A)
        BY <1>2
      <3> HIDE DEF A, base, T
      <3>2. onTime(SubSeq(A, base + 1, Len(A)), T + base)
        BY <1>2, <1>3, <3>1, CutOnTime
      <3> QED
        BY <1>6, <2>1, <3>1, <3>2
    <2>2. CASE ~(base + 1 <= Len(A))
      <3> HIDE DEF A, base, window, begin
      <3>1. Len(window) = 0
        BY <1>2, <1>5, <2>2
      <3>2. 1 .. Len(window) = {}
        BY <3>1
      <3> QED
        BY <3>2 DEF onTime
    <2> QED
      BY <2>1, <2>2
  <1>8. window # <<>> => begin + Len(window) = p.time + p.pairs
    <2> SUFFICES ASSUME window # <<>> PROVE begin + Len(window) = p.time + p.pairs
      OBVIOUS
    <2>1. T = p.time - m - old
      BY DEF origin
    <2>2. base + 1 <= Len(A)
      <3> SUFFICES ASSUME ~(base + 1 <= Len(A)) PROVE window = <<>>
        OBVIOUS
      <3> DEFINE from == base + 1
                 to == Len(A)
      <3>1. from \in Int /\ to \in Int /\ to < from
        <4> HIDE DEF base, A
        <4> QED
          BY <1>2
      <3>2. window = SubSeq(A, from, to)
        OBVIOUS
      <3> HIDE DEF from, to, A
      <3> QED
        BY <3>1, <3>2, SubSeqEmpty
    <2>3. begin = T + base
      BY <1>6, <2>2
    <2> HIDE DEF A, base, T, m, old, window, begin
    <2> DEFINE n == Len(window)
               t == p.time
               l == p.pairs
    <2>5. /\ n = (old + m + l) - base /\ T = t - m - old /\ begin = T + base
          /\ base \in Int /\ old \in Int /\ m \in Int /\ l \in Int /\ t \in Int
      BY <1>2, <1>5, <2>1, <2>3, SMTT(30)
    <2> HIDE DEF n, t, l
    <2>6. begin + n = t + l
      BY <2>5
    <2> QED
      BY <2>6 DEF n, t, l
  <1>9. p.pairs = PacketPairs => Len(window) % PacketPairs = 0
    <2> SUFFICES ASSUME p.pairs = PacketPairs PROVE Len(window) % PacketPairs = 0
      OBVIOUS
    <2>1. base % PacketPairs = 0
      <3>1. FftSize \in Int /\ windows(p) \in Int /\ FftSize % PacketPairs = 0
        BY <1>2, <1>4
      <3>2. (windows(p) * FftSize) % PacketPairs = 0
        BY <1>2, <3>1, MultiplesTimes
      <3> QED
        BY <3>2
    <2>2. PacketPairs % PacketPairs = 0
      BY <1>2, Multiples, PacketPairs = 1 * PacketPairs
    <2>3. Len(window) = ((old + m) + PacketPairs) - base
      <3> HIDE DEF A, base, m, old, window
      <3> QED
        BY <1>2, <1>5
    <2> HIDE DEF A, base, m, old, window, begin, T
    <2>4. old + m \in Int /\ (old + m) % PacketPairs = 0
      <3>1. old \in Int /\ m \in Int /\ old % PacketPairs = 0 /\ m % PacketPairs = 0
            /\ PacketPairs \in Nat \ {0}
        BY <1>2, <1>3, <1>4
      <3>2. (old + m) % PacketPairs = 0
        BY <3>1, MultiplesAdd, Zenon
      <3> QED
        BY <3>1, <3>2
    <2>5. (old + m) + PacketPairs \in Int /\ ((old + m) + PacketPairs) % PacketPairs = 0
      <3> DEFINE x == old + m
      <3>1. x \in Int /\ x % PacketPairs = 0
        BY <2>4
      <3> HIDE DEF x
      <3>2. PacketPairs \in Nat \ {0} /\ PacketPairs \in Int /\ x + PacketPairs \in Int
        BY <1>2, <3>1
      <3>3. (x + PacketPairs) % PacketPairs = 0
        BY <2>2, <3>1, <3>2, MultiplesAdd, Zenon
      <3> QED
        BY <3>2, <3>3 DEF x
    <2>6. (((old + m) + PacketPairs) - base) % PacketPairs = 0
      <3> DEFINE x == (old + m) + PacketPairs
      <3>1. x \in Int /\ x % PacketPairs = 0
        BY <2>5
      <3> HIDE DEF x
      <3>2. PacketPairs \in Nat \ {0} /\ base \in Int
        BY <1>2
      <3>3. (x - base) % PacketPairs = 0
        BY <2>1, <3>1, <3>2, MultiplesAdd, Zenon
      <3> QED
        BY <3>3 DEF x
    <2> QED
      BY <2>3, <2>6
  <1> QED
    BY <1>7, <1>8, <1>9

\* The accounts of an accepted packet.
LEMMA SteadyAccounts ==
  ASSUME Inv, Steady, Fresh, Followed, OnTime,
         NEW p \in Packet, placed(p), lag(p.index),
         UNCHANGED source, stream'.metadata_valid,
         stream'.count = p.count, stream'.previous_pairs = p.pairs,
         stream'.ordinal = stream.ordinal + missingPairs(p) + p.pairs,
         stream'.window # <<>> =>
           stream'.begin + Len(stream'.window) = p.time + p.pairs,
         p.pairs = PacketPairs => Len(stream'.window) % PacketPairs = 0,
         metrics'.packet_gaps = metrics.packet_gaps + gap(p),
         audit'.first = (IF audit.first = NoPacket THEN p ELSE audit.first),
         audit'.last = p, audit'.accepted = audit.accepted + 1
  PROVE  Followed' /\ Fresh'
  <1>1. audit.accepted \in Nat /\ audit'.accepted > 0
    BY SteadyTypes
  <1>2. placed(p)' /\ p.time \in Nat /\ p.pairs \in Nat /\ p.index \in Nat /\ p.kind = "data"
    BY PlacedTypes DEF placed, timeOf
  <1>3. placed(audit.last)'
    BY <1>2 DEF placed, timeOf
  <1>4. /\ placed(audit.first)'
        /\ metrics'.packet_gaps = p.index - audit'.first.index + 1 - (audit.accepted + 1)
        /\ stream'.ordinal = p.time + p.pairs - audit'.first.time
    <2>1. CASE audit.accepted = 0
      <3>1. audit'.first = p
        BY <2>1 DEF Fresh
      <3>2. gap(p) = 0 /\ missingPairs(p) = 0 /\ stream.ordinal = 0 /\ metrics.packet_gaps = 0
        BY <2>1, GapTold DEF Fresh
      <3>3. placed(audit.first)'
        BY <1>2, <3>1 DEF placed, timeOf
      <3>4. metrics'.packet_gaps = 0 /\ p.index - p.index + 1 - (audit.accepted + 1) = 0
        BY <1>2, <2>1, <3>2
      <3>5. stream'.ordinal = p.pairs /\ p.time + p.pairs - p.time = p.pairs
        BY <1>2, <3>2
      <3> QED
        BY <3>1, <3>3, <3>4, <3>5
    <2>2. CASE audit.accepted > 0
      <3>1. placed(audit.first) /\ audit.first \in Packet /\ audit.last \in Packet
            /\ placed(audit.last)
        BY <2>2, LagTypes
      <3>2. audit.first # NoPacket
        BY <3>1 DEF placed, NoPacket
      <3>3. audit'.first = audit.first
        BY <3>2
      <3>4. placed(audit.first)'
        BY <3>1, <3>3 DEF placed, timeOf
      <3> DEFINE f == audit.first.index
                 l == audit.last.index
                 ft == audit.first.time
                 u == audit.last.time + audit.last.pairs
                 m == missingPairs(p)
                 o == stream.ordinal
                 a == audit.accepted
                 g == metrics.packet_gaps
                 i == p.index
                 t == p.time
                 n == p.pairs
      <3>5. f \in Nat /\ l \in Nat /\ ft \in Nat /\ u \in Nat /\ m \in Nat
            /\ a \in Nat /\ i \in Nat /\ t \in Nat /\ n \in Nat
        <4>1. audit.last.time \in Nat /\ audit.last.pairs \in Nat
          BY <3>1, PlacedTypes
        <4>2. u \in Nat
          BY <4>1
        <4> QED
          BY <1>1, <1>2, <3>1, <4>2, PlacedTypes, GapTold
      <3>6. g = l - f + 1 - a /\ o = u - ft
        <4>1. g = l - f + 1 - a
          BY <2>2 DEF Followed
        <4>2. o = u - ft
          <5>1. stream.ordinal = audit.last.time + audit.last.pairs - audit.first.time
            BY <2>2, Zenon DEF Followed
          <5>2. audit.last.time \in Nat /\ audit.last.pairs \in Nat /\ audit.first.time \in Nat
            BY <3>1, PlacedTypes
          <5> QED
            BY <5>1, <5>2
        <4> QED
          BY <4>1, <4>2
      <3>7. gap(p) = i - l - 1 /\ t - m = u
        BY <2>2, GapTold
      <3>8. metrics'.packet_gaps = g + (i - l - 1) /\ stream'.ordinal = o + m + n
        BY <3>7
      <3> HIDE DEF f, l, ft, u, m, o, a, g, i, t, n
      <3>9. g + (i - l - 1) = i - f + 1 - (a + 1)
        BY <3>5, <3>6
      <3>10. o + m + n = t + n - ft
        BY <3>5, <3>6, <3>7
      <3> QED
        BY <3>3, <3>4, <3>8, <3>9, <3>10 DEF f, ft, a, i, t, n
    <2> QED
      BY <1>1, <2>1, <2>2
  <1>5. Fresh'
    BY <1>1, SteadyTypes DEF Fresh
  <1>6. Followed'
    BY <1>2, <1>3, <1>4 DEF Followed
  <1> QED
    BY <1>5, <1>6

\* An accepted packet: what stays in the window, what is sent and the accounts.
LEMMA SteadyData ==
  ASSUME Inv, Inv', SteadyInv, NEW i \in 1 .. Len(air), ConsumeData(i, air[i])
  PROVE  SteadyInv'
  <1> SUFFICES ASSUME Steady' PROVE (SourceOK /\ InOrder /\ Fresh /\ Followed /\ OnTime)'
    BY DEF SteadyInv
  <1>1. arrives(i) /\ UNCHANGED source /\ stream.metadata_valid
    BY DEF ConsumeData
  <1>2. i = 1 /\ air # <<>> /\ air[i] \in Packet /\ air[i] = Head(air) /\ air' = Tail(air)
        /\ UNCHANGED network /\ Steady
    BY <1>1, SteadyArrival
  <1> PICK p \in Packet : p = air[i]
    BY <1>2
  <1>3. ConsumeData(i, p) /\ p = Head(air)
    BY <1>2
  <1>4. SourceOK /\ InOrder /\ Fresh /\ Followed /\ OnTime
    BY <1>2 DEF SteadyInv
  <1>5. p.kind = "data" /\ missingPairs(p) <= p.time /\ TypeOK
    BY <1>3 DEF ConsumeData, Inv
  <1>6. PICK lo \in 0 .. source.packets : queued(lo) /\ lag(lo)
    BY <1>4 DEF InOrder
  <1>7. placed(p) /\ p.index = lo /\ lo + 1 \in 0 .. source.packets /\ queued(lo + 1)'
        /\ lag(p.index)
    BY <1>1, <1>2, <1>3, <1>5, <1>6, HeadLeaves
  <1> DEFINE kept == windows(p) * FftSize + 1
             window == SubSeq(appended(p), kept, Len(appended(p)))
             begin == IF kept <= Len(appended(p)) THEN beginAt(p, kept) ELSE stream.begin
  <1>8. /\ onTime(window, begin)
        /\ window # <<>> => begin + Len(window) = p.time + p.pairs
        /\ p.pairs = PacketPairs => Len(window) % PacketPairs = 0
    BY <1>2, <1>4, <1>7, KeptOnTime
  <1>9. /\ stream'.metadata_valid /\ stream'.settings = stream.settings
        /\ stream'.count = p.count /\ stream'.previous_pairs = p.pairs
        /\ stream'.ordinal = stream.ordinal + missingPairs(p) + p.pairs
        /\ stream'.window = window /\ stream'.begin = begin
    <2>1. stream' = [noticed(p) EXCEPT
            !.ordinal = @ + missingPairs(p) + p.pairs,
            !.sequence = @ + windows(p),
            !.window = window,
            !.begin = IF kept <= Len(appended(p)) THEN beginAt(p, kept) ELSE @]
      BY <1>3 DEF ConsumeData
    <2> HIDE DEF window, kept
    <2> QED
      BY <1>1, <1>5, <2>1 DEF noticed, TypeOK
  <1>10. /\ audit'.first = (IF audit.first = NoPacket THEN p ELSE audit.first)
         /\ audit'.last = p /\ audit'.accepted = audit.accepted + 1
    <2> DEFINE f == IF audit.first = NoPacket THEN p ELSE audit.first
    <2>1. audit' = [audit EXCEPT !.first = f, !.last = p, !.accepted = @ + 1]
      BY <1>3 DEF ConsumeData
    <2> HIDE DEF f
    <2>2. audit'.first = f /\ audit'.last = p /\ audit'.accepted = audit.accepted + 1
      BY <2>1 DEF Inv, AuditOK
    <2> QED
      BY <2>2 DEF f
  <1>11. PICK n \in 0 .. sentWindows(p) : \E sends \in increasing(n, sentWindows(p)) :
           /\ wire' = wire \o [k \in 1 .. n |-> spectrum(p, sends[k])]
           /\ metrics' = [counted(metrics) EXCEPT
                !.packet_gaps = @ + gap(p), !.spectra = @ + sentWindows(p),
                !.unavailable = @ + windows(p) - sentWindows(p),
                !.send_failures = @ + sentWindows(p) - n]
    BY <1>3 DEF ConsumeData
  <1> PICK sends \in increasing(n, sentWindows(p)) :
        /\ wire' = wire \o [k \in 1 .. n |-> spectrum(p, sends[k])]
        /\ metrics' = [counted(metrics) EXCEPT
             !.packet_gaps = @ + gap(p), !.spectra = @ + sentWindows(p),
             !.unavailable = @ + windows(p) - sentWindows(p),
             !.send_failures = @ + sentWindows(p) - n]
    BY <1>11
  <1>12. metrics'.packet_gaps = metrics.packet_gaps + gap(p)
    BY <1>5 DEF counted, TypeOK
  <1>13. Followed' /\ Fresh'
    <2> HIDE DEF window, begin
    <2>1. /\ stream'.window # <<>> =>
               stream'.begin + Len(stream'.window) = p.time + p.pairs
          /\ p.pairs = PacketPairs => Len(stream'.window) % PacketPairs = 0
      BY <1>8, <1>9
    <2> QED
      BY <1>1, <1>2, <1>4, <1>7, <1>9, <1>10, <1>12, <2>1, SteadyAccounts
  <1>14. OnTime'
    <2> DEFINE new == [k \in 1 .. n |-> spectrum(p, sends[k])]
    <2>1. /\ new \in Seq(Spectrum) /\ Len(new) = n
          /\ \A k \in 1 .. n : sends[k] \in 1 .. windows(p)
      BY <1>5, SentLemma
    <2>2. \A k \in 1 .. n : onTime(new[k].samples, new[k].begin)
      <3> SUFFICES ASSUME NEW k \in 1 .. n PROVE onTime(new[k].samples, new[k].begin)
        OBVIOUS
      <3>1. sends[k] \in 1 .. windows(p)
        BY <2>1
      <3>2. PICK j \in 1 .. windows(p) : j = sends[k]
        BY <3>1
      <3>3. onTime(spectrum(p, j).samples, spectrum(p, j).begin)
        BY <1>2, <1>4, <1>7, SpectrumOnTime
      <3>4. new[k] = spectrum(p, j)
        BY <3>2
      <3> QED
        BY <3>3, <3>4
    <2>3. wire \in Seq(Spectrum) /\ wire' = wire \o new /\ Len(wire) \in Nat
      BY <1>5, <1>11 DEF TypeOK
    <2> HIDE DEF new
    <2>4. /\ Len(wire') = Len(wire) + n
          /\ \A k \in 1 .. Len(wire) + n :
               wire'[k] = IF k <= Len(wire) THEN wire[k] ELSE new[k - Len(wire)]
      BY <2>1, <2>3, ConcatProperties
    <2>5. \A k \in 1 .. Len(wire') : onTime(wire'[k].samples, wire'[k].begin)
      <3> SUFFICES ASSUME NEW k \in 1 .. Len(wire')
                   PROVE  onTime(wire'[k].samples, wire'[k].begin)
        OBVIOUS
      <3>0. n \in Nat
        <4>1. sentWindows(p) \in Nat
          BY <1>5, WindowsLemma
        <4> QED
          BY <4>1
      <3>1. CASE k <= Len(wire)
        <4>1. wire'[k] = wire[k] /\ k \in 1 .. Len(wire)
          BY <2>3, <2>4, <3>0, <3>1
        <4> QED
          BY <1>4, <4>1 DEF OnTime
      <3>2. CASE ~(k <= Len(wire))
        <4>1. wire'[k] = new[k - Len(wire)] /\ k - Len(wire) \in 1 .. n
          BY <2>3, <2>4, <3>0, <3>2
        <4> QED
          BY <2>2, <4>1
      <3> QED
        BY <3>1, <3>2
    <2>6. onTime(stream'.window, stream'.begin)
      <3> HIDE DEF window, begin
      <3> QED
        BY <1>8, <1>9
    <2> QED
      BY <2>5, <2>6 DEF OnTime, onTime
  <1>15. SourceOK'
    <2>1. source.started
      BY <1>2, <1>4 DEF SourceOK
    <2> QED
      BY <1>1, <1>4, <1>9, <2>1 DEF SourceOK, timeOf
  <1>16. InOrder'
    <2>1. lag(lo + 1)'
      <3>1. lo \in Nat /\ network'.lost \in Nat
        BY <1>2, SteadyTypes
      <3>2. lo < lo + 1 /\ (lo + 1) - lo - 1 <= network'.lost
        BY <3>1
      <3> QED
        BY <1>7, <1>10, <3>2 DEF lag
    <2> QED
      BY <1>1, <1>7, <2>1 DEF InOrder
  <1> QED
    BY <1>13, <1>14, <1>15, <1>16

\* Nothing has been sent.
LEMMA SteadyInitially == Init => SteadyInv
  <1> SUFFICES ASSUME Init PROVE SourceOK /\ InOrder /\ Fresh /\ Followed /\ OnTime
    BY DEF SteadyInv
  <1>1. SourceOK
    <2>1. PacketPairs * 0 = 0 /\ FirstTime \in Nat
      BY SizeAssumption
    <2> QED
      BY <2>1 DEF Init, SourceOK, timeOf
  <1>2. InOrder
    <2>1. queued(0) /\ lag(0)
      BY DEF Init, queued, lag
    <2> QED
      BY <2>1 DEF Init, InOrder
  <1>3. Fresh /\ Followed
    BY DEF Init, Fresh, Followed
  <1>4. OnTime
    BY DEF Init, OnTime, onTime
  <1> QED
    BY <1>1, <1>2, <1>3, <1>4

\* Every step keeps the timeline, as long as it is steady afterwards.
LEMMA SteadyStep == Inv /\ Inv' /\ SteadyInv /\ [Next]_vars => SteadyInv'
  <1> SUFFICES ASSUME Inv, Inv', SteadyInv, [Next]_vars PROVE SteadyInv'
    OBVIOUS
  <1>1. CASE RadioStart
    BY <1>1, SteadyRadioStart
  <1>2. CASE RadioContext
    BY <1>2, SteadyRadioContext
  <1>3. ASSUME NEW n \in 1 .. PacketPairs, RadioSend(n) PROVE SteadyInv'
    BY <1>3, SteadyRadioSend
  <1>4. CASE Lose
    BY <1>4, SteadyLose
  <1>5. ASSUME NEW i \in 1 .. Len(air),
               \/ ConsumeContext(i, air[i]) \/ ConsumeEarly(i, air[i])
               \/ ConsumeOutOfRange(i, air[i]) \/ ConsumeData(i, air[i])
        PROVE  SteadyInv'
    BY <1>5, SteadyContext, SteadyEarly, SteadyOutOfRange, SteadyData
  <1>6. CASE \/ LoseSpectrum \/ \E reason \in Reasons : ConsumeMalformed(reason)
             \/ Detect \/ DetectMalformed \/ Pause \/ Unavailable \/ UNCHANGED vars
    <2>1. UNCHANGED <<source, air, stream>>
      BY <1>6 DEF LoseSpectrum, ConsumeMalformed, Detect, DetectMalformed, Pause,
                  Unavailable, vars
    <2>2. /\ network'.lost \in Nat /\ network'.lost >= network.lost
          /\ network'.reordered = network.reordered
          /\ network'.duplicated = network.duplicated
      <3>1. network' = network \/ network' = [network EXCEPT !.lost = @ + 1]
        BY <1>6 DEF LoseSpectrum, ConsumeMalformed, Detect, DetectMalformed, Pause,
                    Unavailable, vars
      <3>2. network \in [lost : Nat, reordered : Nat, duplicated : Nat]
            /\ network.lost \in Nat
        BY SteadyTypes
      <3> QED
        BY <3>1, <3>2
    <2>3. metrics'.packet_gaps = metrics.packet_gaps
      <3>1. metrics' = metrics \/ \E reason \in Reasons : metrics' = discarded(metrics, reason)
        BY <1>6 DEF LoseSpectrum, ConsumeMalformed, Detect, DetectMalformed, Pause,
                    Unavailable, vars
      <3>2. metrics \in [datagrams : Nat, malformed : Nat, discards : [Reasons -> Nat],
                    context_updates : Nat, packet_gaps : Nat, spectra : Nat,
                    unavailable : Nat, send_failures : Nat]
        BY DEF Inv, TypeOK
      <3>3. ASSUME NEW reason \in Reasons, metrics' = discarded(metrics, reason)
            PROVE  metrics'.packet_gaps = metrics.packet_gaps
        BY <3>2, <3>3 DEF discarded, counted
      <3> QED
        BY <3>1, <3>3
    <2>4. /\ audit'.accepted = audit.accepted /\ audit'.first = audit.first
          /\ audit'.last = audit.last
      <3>1. audit' = audit \/ \E s : audit' = [audit EXCEPT !.spectrum = s]
        BY <1>6 DEF LoseSpectrum, ConsumeMalformed, Detect, DetectMalformed, Pause,
                    Unavailable, vars
      <3> QED
        BY <3>1 DEF Inv, AuditOK
    <2>5. wire' = wire \/ (wire # <<>> /\ wire' = Tail(wire))
      BY <1>6 DEF LoseSpectrum, ConsumeMalformed, Detect, DetectMalformed, Pause,
                  Unavailable, vars
    <2> QED
      BY <2>1, <2>2, <2>3, <2>4, <2>5, SteadyBehind
  <1> QED
    BY <1>1, <1>2, <1>3, <1>4, <1>5, <1>6 DEF Next

-----------------------------------------------------------------------------
(* The theorems.                                                           *)

IInv == Inv /\ Ordered /\ DiscardAccounting /\ DetectorInv /\ SteadyInv

LEMMA Initially == Init => IInv
  <1> SUFFICES ASSUME Init PROVE IInv
    OBVIOUS
  <1>1. Inv
    BY InitTypes
  <1>2. Ordered
    BY DEF Init, Ordered
  <1>3. DiscardAccounting
    BY DEF Init, DiscardAccounting, Reasons
  <1>4. DetectorInv
    BY DEF Init, DetectorInv, Seen, NoSilentSpectrumLoss, Reported, UnavailableOnce
  <1>5. QED
    BY <1>1, <1>2, <1>3, <1>4, SteadyInitially DEF IInv

LEMMA Inductive == IInv /\ [Next]_vars => IInv'
  BY TypeStep, OrderedStep, DiscardStep, DetectorStep, SteadyStep DEF IInv

LEMMA Always == Spec => []IInv
  BY Initially, Inductive, PTL DEF Spec

\* The stream, the accounts and the spectra keep their types: the window being
\* filled is never full after consume(), whatever arrives, and every spectrum is
\* of exactly one window.
THEOREM PipelineTypeCorrect == Spec => []TypeOK
  <1>1. IInv => TypeOK
    BY DEF IInv, Inv
  <1>2. QED
    BY <1>1, Always, PTL

\* Losses, reordering, duplicates, restarts and failed sends never make two
\* spectra overlap nor let the sample ordinals run behind the window.
THEOREM WindowTheorem == Spec => []WindowOrdinals
  <1>1. IInv => WindowOrdinals
    BY OrderedImplies DEF IInv
  <1>2. QED
    BY <1>1, Always, PTL

\* Each path through consume() counts its datagram once.
THEOREM DiscardTheorem == Spec => []DiscardAccounting
  <1>1. IInv => DiscardAccounting
    BY DEF IInv
  <1>2. QED
    BY <1>1, Always, PTL

\* The detector notices every spectrum that is missing between two it received.
THEOREM SpectrumLossTheorem == Spec => []NoSilentSpectrumLoss
  <1>1. IInv => NoSilentSpectrumLoss
    BY DEF IInv, DetectorInv
  <1>2. QED
    BY <1>1, Always, PTL

\* One silence is reported once.
THEOREM UnavailableTheorem == Spec => []UnavailableOnce
  <1>1. IInv => UnavailableOnce
    BY DEF IInv, DetectorInv, Reported
  <1>2. QED
    BY <1>1, Always, PTL

\* While the radio runs one epoch and the network only loses packets, fewer than
\* the modulus, consume() restores the timeline exactly, for every window size
\* that is a multiple of the packet size: a sample that is not missing is of the
\* time its place in a window or spectrum tells, and the ordinal counts the
\* sample periods since the first accepted packet.
THEOREM TimelineTheorem == Spec => []TimelineExact
  <1>1. SteadyInv => TimelineExact
    BY DEF SteadyInv, Steady, TimelineExact, OnTime, Followed
  <1>2. IInv => TimelineExact
    BY <1>1 DEF IInv
  <1>3. QED
    BY <1>2, Always, PTL

\* Under the same conditions the packet_gaps of the metrics are the packets
\* that did not arrive, however they fell among those that did.
THEOREM GapCountTheorem == Spec => []GapCountExact
  <1>1. SteadyInv => GapCountExact
    BY DEF SteadyInv, Steady, GapCountExact, Followed
  <1>2. IInv => GapCountExact
    BY <1>1 DEF IInv
  <1>3. QED
    BY <1>2, Always, PTL

\* The valid windows that IMPLEMEMTATION.md asks for are kept within an epoch: a
\* spectrum without missing samples is of consecutive samples.  Only a context
\* of a new epoch can join samples of two.
THEOREM ContiguousInOneEpoch ==
  Spec => [](steady /\ network.lost < CountModulus => ValidWindowsContiguous)
  <1>1. TypeOK /\ TimelineExact
          => (steady /\ network.lost < CountModulus => ValidWindowsContiguous)
    <2> SUFFICES ASSUME TypeOK, TimelineExact, steady, network.lost < CountModulus,
                        NEW k \in 1 .. Len(wire), ~gapped(wire[k]),
                        NEW i \in 1 .. FftSize - 1
                 PROVE  wire[k].samples[i + 1] = wire[k].samples[i] + 1
      BY DEF ValidWindowsContiguous
    <2>1. onTime(wire[k].samples, wire[k].begin)
      BY DEF TimelineExact
    <2>2. Len(wire[k].samples) = FftSize /\ wire[k].begin \in Int /\ FftSize \in Nat
      <3>1. wire[k] \in Spectrum /\ FftSize \in Nat
        BY SizeAssumption, ElementOfSeq DEF TypeOK
      <3>2. wire[k].samples \in [1 .. FftSize -> Nat] /\ wire[k].begin \in Nat
        BY <3>1 DEF Spectrum
      <3>3. wire[k].samples \in Seq(Nat)
        BY <3>1, <3>2, SeqDef
      <3> QED
        BY <3>1, <3>2, <3>3, LenProperties
    <2>3. i \in 1 .. FftSize /\ i + 1 \in 1 .. FftSize
      BY <2>2
    <2>4. \A j \in 1 .. FftSize : wire[k].samples[j] = wire[k].begin + j - 1
      BY <2>1, <2>2 DEF onTime, gapped
    <2>5. wire[k].samples[i] = wire[k].begin + i - 1
      BY <2>3, <2>4
    <2>6. wire[k].samples[i + 1] = wire[k].begin + (i + 1) - 1
      BY <2>3, <2>4
    <2> QED
      BY <2>2, <2>5, <2>6
  <1>2. QED
    BY PipelineTypeCorrect, TimelineTheorem, <1>1, PTL
=============================================================================
