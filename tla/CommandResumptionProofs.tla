------------------------ MODULE CommandResumptionProofs ------------------------
(***************************************************************************)
(* Types, fresh identifiers, real configuration evidence, and the          *)
(* refinement of DirectCommands, for every number of identifiers,          *)
(* processors, reboots, connections and commands, proved with TLAPS.       *)
(***************************************************************************)
EXTENDS CommandResumption, RadioDeviceProofs, SequenceTheorems

LEMMA ConnsAreNumbers == Conns \subseteq Nat /\ NoConnection \notin Conns
BY ResumptionAssumption DEF Conns, NoConnection

\* The connections known to the radio, and what closing one leaves.
LineOK ==
  /\ owner \in Conns \cup {NoConnection} /\ backlog \in Seq(Conns)
  /\ \A i, j \in 1 .. Len(backlog) : i # j => backlog[i] # backlog[j]
  /\ \A i \in 1 .. Len(backlog) : backlog[i] # owner
  /\ frames \in [Conns -> Seq(Frames)]
  /\ \A c \in Conns \ line : frames[c] = <<>>

LEMMA SettingsOfFrames ==
  ASSUME NEW p \in Processors, p.next \in 1 .. MaxId, NEW kind \in Kinds
  PROVE  command(p, kind) \in Frames /\ command(p, kind).id = p.next
<1>1. anySettings \in Wanted
  BY ResumptionAssumption DEF anySettings
<1>2. p.wanted \in Wanted
  BY DEF Processors
<1>. QED BY <1>1, <1>2 DEF command, Frames

\* The next connection is one the radio does not know, so nothing is on it.
LEMMA NewConnection ==
  ASSUME TypeOK, free # {}
  PROVE  /\ newest \in Conns /\ newest \notin line /\ frames[newest] = <<>>
         /\ newest # processor.conn
BY DEF TypeOK, newest, free

LEMMA ConnectedLine ==
  ASSUME TypeOK, NEW p \in Processors, connected(p)
  PROVE  /\ LineOK' /\ line' = line \cup {newest} /\ newest \in Conns \ line
         /\ processor' \in Processors
<1>1. newest \in Conns /\ newest \notin line /\ frames[newest] = <<>>
  BY NewConnection DEF connected
<1>2. /\ backlog' = Append(backlog, newest) /\ UNCHANGED <<owner, frames>>
      /\ backlog \in Seq(Conns)
  BY DEF connected, TypeOK
<1>3. /\ backlog' \in Seq(Conns) /\ Len(backlog') = Len(backlog) + 1
      /\ \A i \in 1 .. Len(backlog) : backlog'[i] = backlog[i]
      /\ backlog'[Len(backlog) + 1] = newest
  BY <1>1, <1>2, AppendProperties
<1>4. \A i \in 1 .. Len(backlog) : backlog[i] # newest
  BY <1>1 DEF line
<1>5. line' = line \cup {newest}
  BY <1>1, <1>2, <1>3, LenProperties DEF line
<1>6. owner # newest
  BY <1>1 DEF line
<1>7. LineOK'
  <2>1. \A i, j \in 1 .. Len(backlog') : i # j => backlog'[i] # backlog'[j]
    BY <1>2, <1>3, <1>4, LenProperties DEF TypeOK
  <2>2. \A i \in 1 .. Len(backlog') : backlog'[i] # owner'
    BY <1>2, <1>3, <1>6, LenProperties DEF TypeOK
  <2>3. /\ owner' \in Conns \cup {NoConnection} /\ frames' \in [Conns -> Seq(Frames)]
        /\ \A c \in Conns \ line' : frames'[c] = <<>>
    BY <1>2, <1>5 DEF TypeOK
  <2>. QED BY <1>3, <2>1, <2>2, <2>3 DEF LineOK
<1>8. processor' \in Processors
  BY <1>1 DEF connected, Processors
<1>. QED BY <1>1, <1>5, <1>7, <1>8

\* Sending appends to the processor's connection if the radio still has it.
LEMMA SubmittedTypes ==
  ASSUME TypeOK, NEW p \in Processors, p.conn = processor.conn, p.next \in 1 .. MaxId,
         NEW kind \in Kinds, submitted(p, kind)
  PROVE  /\ LineOK' /\ line' = line /\ processor' \in Processors
         /\ radio' = radio
         /\ processor.conn \in line =>
              frames' = [frames EXCEPT ![processor.conn] = Append(@, command(p, kind))]
         /\ processor.conn \notin line => frames' = frames
         /\ command(p, kind) \in Frames /\ command(p, kind).id = p.next
         /\ processor'.next = p.next + 1 /\ processor'.conn = processor.conn
         /\ processor'.pc = p.pc /\ processor'.reconciled = p.reconciled
         /\ processor'.answer = "none"
<1>1. command(p, kind) \in Frames /\ command(p, kind).id = p.next
  BY SettingsOfFrames
<1>2. UNCHANGED <<owner, backlog, radio>> /\ line' = line
  BY DEF submitted, line
<1>3. line \subseteq Conns
  BY DEF line
<1>4. processor.conn \in line => Append(frames[processor.conn], command(p, kind)) \in Seq(Frames)
  BY <1>1, <1>3, AppendProperties DEF TypeOK
<1>5. frames' \in [Conns -> Seq(Frames)] /\ \A c \in Conns \ line' : frames'[c] = <<>>
  BY <1>2, <1>3, <1>4 DEF submitted, TypeOK
<1>6. processor' \in Processors
  <2>1. p.next + 1 \in 1 .. MaxId + 1 /\ p.next \in 0 .. MaxId
    BY ResumptionAssumption
  <2>2. processor' = [p EXCEPT !.next = p.next + 1, !.waiting = p.next, !.kind = kind,
                               !.answer = "none"]
    BY DEF submitted, Processors
  <2>. QED BY <2>1, <2>2 DEF Processors
<1>7. /\ processor'.next = p.next + 1 /\ processor'.conn = processor.conn
      /\ processor'.pc = p.pc /\ processor'.reconciled = p.reconciled
      /\ processor'.answer = "none"
  BY DEF submitted, Processors
<1>. QED BY <1>1, <1>2, <1>5, <1>6, <1>7 DEF submitted, LineOK, TypeOK

\* Closing the owner's connection, or the first that waits.
LEMMA DropTypes ==
  ASSUME TypeOK, DropStale \/ Eof
  PROVE  /\ LineOK' /\ line' \subseteq line /\ \A c \in line' : frames'[c] = frames[c]
         /\ UNCHANGED <<radio, processor>>
<1>1. /\ owner' = NoConnection /\ UNCHANGED <<backlog, radio, processor>>
      /\ owner \in Conns
    BY DEF DropStale, Eof, TypeOK
<1>2. frames' = [frames EXCEPT ![owner] = <<>>]
    BY <1>1 DEF DropStale, Eof, TypeOK
<1>3. line' = line \ {owner}
    BY <1>1, ConnsAreNumbers DEF line, TypeOK
<1>4. frames' \in [Conns -> Seq(Frames)] /\ \A c \in Conns \ line' : frames'[c] = <<>>
    BY <1>1, <1>2, <1>3, EmptySeq DEF TypeOK
<1>5. \A i \in 1 .. Len(backlog) : backlog[i] # NoConnection
    BY ConnsAreNumbers, ElementOfSeq DEF TypeOK
<1>6. \A c \in line' : frames'[c] = frames[c]
    BY <1>2, <1>3 DEF TypeOK, line
<1>. QED BY <1>1, <1>3, <1>4, <1>5, <1>6 DEF LineOK, TypeOK

LEMMA AcceptTypes ==
  ASSUME TypeOK, Accept
  PROVE  /\ LineOK' /\ line' \subseteq line /\ \A c \in line' : frames'[c] = frames[c]
         /\ processor' \in Processors /\ radio' = radio
         /\ processor'.pc = processor.pc /\ processor'.conn = processor.conn
         /\ processor'.next = processor.next /\ processor'.after = processor.after
         /\ processor'.reconciled = processor.reconciled
         /\ processor'.answer = processor.answer
<1>1. /\ backlog \in Seq(Conns) /\ backlog # <<>>
      /\ backlog' = Tail(backlog)
  BY DEF Accept, TypeOK
<1>2. /\ Head(backlog) = backlog[1] /\ Head(backlog) \in Conns
      /\ backlog' \in Seq(Conns) /\ Len(backlog') = Len(backlog) - 1
      /\ \A i \in 1 .. Len(backlog') : backlog'[i] = backlog[i + 1]
      /\ Len(backlog) \in Nat \ {0}
  BY <1>1, HeadTailProperties, LenProperties, EmptySeq
<1>. DEFINE n == Len(backlog)  m == Len(backlog')
<1>. n \in Nat \ {0} /\ m = n - 1
  BY <1>2
<1>0. \A i, j \in 1 .. n : i # j => backlog[i] # backlog[j]
  BY DEF TypeOK
<1>3. \A i \in 1 .. m : backlog'[i] # Head(backlog)
  <2>. SUFFICES ASSUME NEW i \in 1 .. m PROVE backlog'[i] # Head(backlog)
    OBVIOUS
  <2>1. i + 1 \in 1 .. n /\ 1 \in 1 .. n /\ i + 1 # 1
    OBVIOUS
  <2>. QED BY <1>0, <1>2, <2>1
<1>4. \A i, j \in 1 .. m : i # j => backlog'[i] # backlog'[j]
  <2>. SUFFICES ASSUME NEW i \in 1 .. m, NEW j \in 1 .. m, i # j
                PROVE  backlog'[i] # backlog'[j]
    OBVIOUS
  <2>1. i + 1 \in 1 .. n /\ j + 1 \in 1 .. n /\ i + 1 # j + 1
    OBVIOUS
  <2>. QED BY <1>0, <1>2, <2>1
<1>5. \A c \in Conns : (\E i \in 1 .. Len(backlog) : backlog[i] = c) <=>
        (c = Head(backlog) \/ \E i \in 1 .. Len(backlog') : backlog'[i] = c)
  <2>1. ASSUME NEW c \in Conns, NEW i \in 1 .. Len(backlog), backlog[i] = c
        PROVE  c = Head(backlog) \/ \E j \in 1 .. Len(backlog') : backlog'[j] = c
    <3>1. CASE i = 1
      BY <2>1, <3>1, <1>2
    <3>2. CASE i # 1
      <4>1. i - 1 \in 1 .. Len(backlog') /\ backlog'[i - 1] = c
        BY <2>1, <3>2, <1>2
      <4>. QED BY <4>1
    <3>. QED BY <3>1, <3>2
  <2>2. ASSUME NEW c \in Conns, NEW j \in 1 .. Len(backlog'), backlog'[j] = c
        PROVE  \E i \in 1 .. Len(backlog) : backlog[i] = c
    <3>1. j + 1 \in 1 .. Len(backlog) /\ backlog[j + 1] = c
      BY <2>2, <1>2
    <3>. QED BY <3>1
  <2>. QED BY <2>1, <2>2, <1>2
<1>6. /\ processor' \in Processors /\ radio' = radio
      /\ processor'.pc = processor.pc /\ processor'.conn = processor.conn
      /\ processor'.next = processor.next /\ processor'.after = processor.after
      /\ processor'.reconciled = processor.reconciled
      /\ processor'.answer = processor.answer
  BY ZenonT(40) DEF Accept, TypeOK, Processors
<1>7. CASE owner = NoConnection /\ owner' = Head(backlog) /\ UNCHANGED frames
  <2>1. line' = line
    BY <1>5, <1>7, ConnsAreNumbers DEF line
  <2>. QED BY <1>2, <1>3, <1>4, <1>6, <1>7, <2>1 DEF LineOK, TypeOK
<1>8. CASE /\ owner # NoConnection
           /\ frames' = [frames EXCEPT ![Head(backlog)] = <<>>] /\ UNCHANGED owner
  <2>1. Head(backlog) # owner
    BY <1>2 DEF TypeOK
  <2>2. line' = line \ {Head(backlog)}
    BY <1>3, <1>5, <1>8, <2>1 DEF line
  <2>3. frames' \in [Conns -> Seq(Frames)] /\ \A c \in Conns \ line' : frames'[c] = <<>>
    BY <1>2, <1>8, <2>2, EmptySeq DEF TypeOK
  <2>4. \A c \in line' : frames'[c] = frames[c]
    BY <1>8, <2>2 DEF TypeOK, line
  <2>5. \A i \in 1 .. Len(backlog') : backlog'[i] # owner'
    BY <1>2, <1>8, SMTT(30) DEF TypeOK
  <2>. QED BY <1>2, <1>4, <1>6, <1>8, <2>2, <2>3, <2>4, <2>5 DEF LineOK, TypeOK
<1>. QED BY <1>7, <1>8 DEF Accept

\* What an admitted command does to the device keeps the device's invariant.
LEMMA ExecuteInv ==
  ASSUME DeviceInv, NEW f \in Frames, Execute(f)
  PROVE  DeviceInv'
<1>1. CASE UNCHANGED deviceVars
  BY <1>1 DEF deviceVars, DeviceInv, DeviceTypeOK, StreamAgrees, OrdinalAccounts
<1>2. f.settings \in Settings
  BY ResumptionAssumption DEF Frames
<1>3. device.settings \in Settings
  BY DEF DeviceInv, DeviceTypeOK
<1>4. CASE commit(f.settings, "none")
  BY <1>2, <1>4, CommitInv DEF StreamActions
<1>5. ASSUME NEW a \in {"start", "stop"}, commit(device.settings, a)
      PROVE  DeviceInv'
  BY <1>3, <1>5, CommitInv DEF StreamActions
<1>. QED BY <1>1, <1>4, <1>5 DEF Execute

LEMMA ReceiveTypes ==
  ASSUME TypeOK, DeviceInv, Receive
  PROVE  /\ LineOK' /\ line' = line /\ line = {owner} /\ owner \in Conns
         /\ frames[owner] \in Seq(Frames) /\ frames[owner] # <<>>
         /\ frames' = [frames EXCEPT ![owner] = Tail(frames[owner])]
         /\ Head(frames[owner]) \in Frames
         /\ radio' \in [boot : 1 .. MaxBoots, highwater : 0 .. MaxId]
         /\ \/ /\ Head(frames[owner]).id > radio.highwater
               /\ radio'.highwater = Head(frames[owner]).id
            \/ Head(frames[owner]).id <= radio.highwater /\ radio' = radio
         /\ processor' \in Processors
         /\ processor'.pc = processor.pc /\ processor'.conn = processor.conn
         /\ processor'.next = processor.next /\ processor'.after = processor.after
         /\ processor'.reconciled = processor.reconciled
         /\ processor'.answer # processor.answer => owner = processor.conn
         /\ DeviceInv'
<1>. DEFINE f == Head(frames[owner])
<1>1. /\ backlog = <<>> /\ owner \in Conns /\ owner # NoConnection
      /\ frames[owner] \in Seq(Frames) /\ frames[owner] # <<>>
      /\ UNCHANGED <<backlog, owner>>
  BY DEF Receive, TypeOK
<1>2. line = {owner} /\ line' = line
  BY <1>1, EmptySeq DEF line
<1>3. f \in Frames /\ Tail(frames[owner]) \in Seq(Frames)
  BY <1>1, HeadTailProperties
<1>4. frames' = [frames EXCEPT ![owner] = Tail(frames[owner])]
  BY <1>1 DEF Receive
<1>5. frames' \in [Conns -> Seq(Frames)] /\ \A c \in Conns \ line' : frames'[c] = <<>>
  BY <1>1, <1>2, <1>3, <1>4 DEF TypeOK
<1>6. f.id \in 1 .. MaxId
  BY <1>3 DEF Frames
<1>7. \/ /\ f.id > radio.highwater /\ radio' = [radio EXCEPT !.highwater = f.id]
         /\ Execute(f) /\ \E a \in {"executed", "refused"} : answered(f, a)
      \/ /\ f.id <= radio.highwater /\ UNCHANGED <<radio, deviceVars>>
         /\ \E a \in {"executed", "refused"} : answered(f, a)
  BY DEF Receive, outcome
<1>8. PICK a \in {"executed", "refused"} : answered(f, a)
  BY <1>7
<1>9. /\ processor' \in Processors
      /\ processor'.pc = processor.pc /\ processor'.conn = processor.conn
      /\ processor'.next = processor.next /\ processor'.after = processor.after
      /\ processor'.reconciled = processor.reconciled
      /\ processor'.answer # processor.answer => owner = processor.conn
  BY <1>8 DEF answered, TypeOK, Processors
<1>10. DeviceInv'
  <2>1. CASE Execute(f)
    BY <1>3, <2>1, ExecuteInv
  <2>2. CASE UNCHANGED deviceVars
    BY <2>2 DEF deviceVars, DeviceInv, DeviceTypeOK, StreamAgrees, OrdinalAccounts
  <2>. QED BY <1>7, <2>1, <2>2
<1>11. /\ radio' \in [boot : 1 .. MaxBoots, highwater : 0 .. MaxId]
       /\ \/ f.id > radio.highwater /\ radio'.highwater = f.id
          \/ f.id <= radio.highwater /\ radio' = radio
  BY <1>6, <1>7, ResumptionAssumption DEF TypeOK
<1>12. LineOK'
  BY <1>1, <1>5, EmptySeq DEF LineOK, TypeOK
<1>. QED BY <1>1, <1>2, <1>3, <1>4, <1>9, <1>10, <1>11, <1>12

\* A radio that has started again knows no connection.
LEMMA RebootTypes ==
  ASSUME TypeOK, Reboot
  PROVE  /\ LineOK' /\ line' = {} /\ DeviceInv'
         /\ \A c \in Conns : frames'[c] = <<>>
         /\ radio' \in [boot : 1 .. MaxBoots, highwater : 0 .. MaxId]
         /\ radio'.highwater = 0 /\ processor' = processor
<1>1. /\ backlog' = <<>> /\ owner' = NoConnection /\ frames' = [c \in Conns |-> <<>>]
      /\ radio' = [boot |-> radio.boot + 1, highwater |-> 0] /\ processor' = processor
      /\ radio.boot < MaxBoots
  BY DEF Reboot, newRadio
<1>2. DeviceInv'
  BY DeviceAssumption
  DEF Reboot, DeviceInv, DeviceTypeOK, StreamAgrees, OrdinalAccounts, Settings, Results,
      valid, booted, NoSamples
<1>3. radio' \in [boot : 1 .. MaxBoots, highwater : 0 .. MaxId]
  BY <1>1, ResumptionAssumption DEF TypeOK
<1>4. line' = {}
  BY <1>1, ConnsAreNumbers, EmptySeq DEF line
<1>5. LineOK'
  BY <1>1, EmptySeq DEF LineOK
<1>. QED BY <1>1, <1>2, <1>3, <1>4, <1>5

\* Steps of the processor that send nothing.
Quiet == Check \/ ReadBefore \/ ReadAfter \/ ReconcileFails \/ Verified \/ Evidence
           \/ NoEvidence \/ ClientFails \/ EndPass \/ Replace

LEMMA NewProcessorType ==
  ASSUME NEW l \in Nat, NEW s \in Wanted
  PROVE  newProcessor(l, s) \in Processors
<1>1. /\ 1 \in 1 .. MaxId + 1 /\ 0 \in 0 .. MaxId /\ 0 \in 0 .. MaxBoots /\ 0 \in Nat
      /\ NoConnection \in Conns \cup {NoConnection} /\ "status" \in Kinds
      /\ FALSE \in BOOLEAN
  BY ResumptionAssumption DEF Kinds
<1>2. NoSnapshot \in Snapshots
  BY ResumptionAssumption DEF NoSnapshot, Snapshots
<1>. QED BY <1>1, <1>2, SMTT(60) DEF newProcessor, Processors

LEMMA QuietTypes ==
  ASSUME TypeOK, Quiet
  PROVE  UNCHANGED <<deviceVars, radioVars>> /\ processor' \in Processors
<1>1. UNCHANGED <<deviceVars, radioVars>>
  BY DEF Quiet, Check, ReadBefore, ReadAfter, ReconcileFails, Verified, Evidence, NoEvidence,
         ClientFails, EndPass, Replace
<1>2. snapshot \in Snapshots /\ NoSnapshot \in Snapshots
  BY ResumptionAssumption
  DEF snapshot, NoSnapshot, Snapshots, TypeOK, DeviceTypeOK
<1>3. processor \in Processors /\ NoConnection \in Conns \cup {NoConnection}
  BY DEF TypeOK
<1>4. returned(processor) \in Processors
  <2>1. 0 \in 0 .. MaxId /\ "status" \in Kinds
    BY ResumptionAssumption DEF Kinds
  <2>. QED BY <1>2, <1>3, <2>1 DEF returned, Processors
<1>5. CASE Check \/ ReadBefore \/ ReadAfter
  BY <1>2, <1>3, <1>5, ZenonT(40) DEF Check, Become, ReadBefore, ReadAfter, Processors
<1>6. CASE ReconcileFails
  BY <1>4, <1>6 DEF ReconcileFails, Processors
<1>7. CASE Verified
  <2>1. processor.after.boot \in 0 .. MaxBoots /\ processor.after.streaming \in BOOLEAN
    BY <1>3 DEF Processors, Snapshots
  <2>2. (processor.configured /\ processor.boot = processor.after.boot) \in BOOLEAN
    OBVIOUS
  <2>3. returned(processor).configured = processor.configured
    BY <1>3 DEF returned, Processors
  <2>. QED BY <1>4, <1>7, <2>1, <2>2, <2>3, ZenonT(40) DEF Verified, Processors
<1>8. CASE Evidence
  <2>1. /\ returned(processor).configured = processor.configured
        /\ returned(processor).streaming = processor.streaming
    BY <1>3 DEF returned, Processors
  <2>. QED BY <1>4, <1>8, <2>1, ZenonT(40) DEF Evidence, Processors
<1>9. CASE NoEvidence
  <2>1. returned(processor).conn = processor.conn /\ returned(processor).pc = processor.pc
    BY <1>3 DEF returned, Processors
  <2>. QED BY <1>3, <1>4, <1>9, <2>1 DEF NoEvidence, Processors
<1>10. CASE ClientFails
  BY <1>3, <1>10 DEF ClientFails, Processors
<1>12. CASE EndPass
  BY <1>3, <1>12 DEF EndPass, Processors
<1>11. CASE Replace
  <2>1. processor.life + 1 \in Nat
    BY <1>3 DEF Processors
  <2>. QED BY <1>11, <2>1, NewProcessorType DEF Replace
<1>. QED BY <1>1, <1>5, <1>6, <1>7, <1>8, <1>9, <1>10, <1>11, <1>12 DEF Quiet

\* Resume raises the floor above the watermark it has read, and sends one status.
LEMMA ResumeSends ==
  ASSUME TypeOK, Resume
  PROVE  \E p \in Processors :
           /\ p.conn = processor.conn /\ p.pc = "verify" /\ p.next \in 1 .. MaxId
           /\ p.reconciled = processor.reconciled
           /\ p.next >= processor.next /\ p.next > processor.after.highwater
           /\ submitted(p, "status")
<1>. DEFINE w == processor.after.highwater
            p == [processor EXCEPT !.pc = "verify", !.next = resume_after(w)]
<1>1. processor \in Processors /\ w \in 0 .. MaxId /\ processor.next \in 1 .. MaxId + 1
  BY DEF TypeOK, Processors, Snapshots
<1>2. p.next <= MaxId /\ submitted(p, "status")
  BY DEF Resume
<1>3. p.next = resume_after(w)
  BY <1>1 DEF Processors
<1>4. resume_after(w) >= processor.next /\ resume_after(w) > w /\ resume_after(w) \in Nat
  BY <1>1, ResumptionAssumption DEF resume_after
<1>5. p.next \in 1 .. MaxId
  BY <1>1, <1>2, <1>3, <1>4, ResumptionAssumption
<1>6. p \in Processors
  <2>1. resume_after(w) \in 1 .. MaxId + 1
    BY <1>3, <1>5, ResumptionAssumption
  <2>. QED BY <1>1, <2>1 DEF Processors
<1>7. p.conn = processor.conn /\ p.pc = "verify" /\ p.reconciled = processor.reconciled
  BY <1>1 DEF Processors
<1>. QED BY <1>2, <1>3, <1>4, <1>5, <1>6, <1>7

LEMMA IssueSends ==
  ASSUME TypeOK, NEW kind \in Kinds, Issue(kind)
  PROVE  \E p \in Processors :
           /\ p.conn = processor.conn /\ p.pc = "command" /\ p.next \in 1 .. MaxId
           /\ p.reconciled = processor.reconciled /\ p.next = processor.next
           /\ submitted(p, kind)
<1>. DEFINE p == [processor EXCEPT !.pc = "command", !.commands = @ + 1]
<1>1. processor \in Processors
  BY DEF TypeOK
<1>2. p \in Processors
  <2>1. processor.commands + 1 \in Nat
    BY <1>1 DEF Processors
  <2>. QED BY <1>1, <2>1 DEF Processors
<1>4. /\ p.conn = processor.conn /\ p.pc = "command"
      /\ p.reconciled = processor.reconciled /\ p.next = processor.next
  BY <1>1 DEF Processors
<1>3. p.next \in 1 .. MaxId
  BY <1>1, <1>4, ResumptionAssumption DEF Issue, Processors
<1>. QED BY <1>2, <1>3, <1>4 DEF Issue

-----------------------------------------------------------------------------
(* Identifiers.                                                            *)

Below(q, n) == \A i \in 1 .. Len(q) : q[i].id < n
Above(q, n) == \A i \in 1 .. Len(q) : q[i].id > n
Increasing(q) == \A i, j \in 1 .. Len(q) : i < j => q[i].id < q[j].id

LEMMA FrameId == \A f \in Frames : f.id \in Nat
BY ResumptionAssumption DEF Frames

LEMMA IdsAreNumbers ==
  ASSUME NEW q \in Seq(Frames), NEW i \in 1 .. Len(q)
  PROVE  q[i].id \in Nat
BY FrameId, ElementOfSeq

LEMMA AppendIds ==
  ASSUME NEW q \in Seq(Frames), NEW f \in Frames, NEW h \in Nat, f.id > h,
         Increasing(q), Below(q, f.id), Above(q, h)
  PROVE  LET r == Append(q, f) IN
         r \in Seq(Frames) /\ Increasing(r) /\ Below(r, f.id + 1) /\ Above(r, h)
<1>. DEFINE r == Append(q, f)
<1>1. /\ r \in Seq(Frames) /\ Len(r) = Len(q) + 1 /\ Len(q) \in Nat
      /\ \A i \in 1 .. Len(q) : r[i] = q[i] /\ r[Len(q) + 1] = f
  BY AppendProperties, LenProperties
<1>2. f.id \in Nat /\ \A i \in 1 .. Len(q) : q[i].id \in Nat
  BY FrameId, IdsAreNumbers
<1>3. \A i \in 1 .. Len(r) : i \in 1 .. Len(q) \/ i = Len(q) + 1
  BY <1>1
<1>4. Increasing(r)
  <2>. SUFFICES ASSUME NEW i \in 1 .. Len(r), NEW j \in 1 .. Len(r), i < j
                PROVE  r[i].id < r[j].id
    BY DEF Increasing
  <2>1. i \in 1 .. Len(q)
    BY <1>1
  <2>. QED BY <1>1, <1>2, <1>3, <2>1 DEF Increasing, Below
<1>5. Below(r, f.id + 1) /\ Above(r, h)
  BY <1>1, <1>2, <1>3 DEF Below, Above
<1>. QED BY <1>1, <1>4, <1>5

LEMMA TailIds ==
  ASSUME NEW q \in Seq(Frames), q # <<>>, Increasing(q), NEW n \in Nat
  PROVE  /\ Increasing(Tail(q)) /\ Above(Tail(q), Head(q).id)
         /\ Below(q, n) => Below(Tail(q), n) /\ Head(q).id < n
         /\ Above(q, n) => Head(q).id > n
<1>. DEFINE t == Tail(q)
<1>1. /\ Len(q) \in Nat \ {0} /\ Len(t) = Len(q) - 1 /\ Head(q) = q[1]
      /\ \A i \in 1 .. Len(t) : t[i] = q[i + 1]
  BY HeadTailProperties, LenProperties, EmptySeq
<1>2. 1 \in 1 .. Len(q) /\ \A i \in 1 .. Len(t) : i + 1 \in 1 .. Len(q) /\ 1 < i + 1
  BY <1>1
<1>3. Increasing(t)
  <2>. SUFFICES ASSUME NEW i \in 1 .. Len(t), NEW j \in 1 .. Len(t), i < j
                PROVE  t[i].id < t[j].id
    BY DEF Increasing
  <2>1. i + 1 < j + 1
    BY <1>1
  <2>. QED BY <1>1, <1>2, <2>1 DEF Increasing
<1>4. Above(t, Head(q).id)
  <2>. SUFFICES ASSUME NEW i \in 1 .. Len(t) PROVE t[i].id > Head(q).id
    BY DEF Above
  <2>1. q[1].id < q[i + 1].id
    BY <1>2 DEF Increasing
  <2>2. q[1].id \in Nat /\ q[i + 1].id \in Nat
    BY <1>2, IdsAreNumbers
  <2>. QED BY <1>1, <2>1, <2>2
<1>5. Below(q, n) => Below(t, n) /\ Head(q).id < n
  BY <1>1, <1>2 DEF Below
<1>6. Above(q, n) => Head(q).id > n
  BY <1>1, <1>2 DEF Above
<1>. QED BY <1>3, <1>4, <1>5, <1>6

LEMMA EmptyIds ==
  ASSUME NEW n
  PROVE  Increasing(<<>>) /\ Below(<<>>, n) /\ Above(<<>>, n)
BY DEF Increasing, Below, Above

\* Settled: the watermark and all that can still raise it are below `next'.
settled == \/ processor.pc \in {"pass", "command"} \/ processor.reconciled
           \/ processor.pc = "verify" /\ processor.answer # "none"
Fresh == \A c \in line : Increasing(frames[c]) /\ Above(frames[c], radio.highwater)
Sent == processor.conn \in line => Below(frames[processor.conn], processor.next)
Untouched == processor.pc \in {"after", "resume"} =>
               processor.conn \in Conns /\ frames[processor.conn] = <<>>
Snapshot == processor.pc = "resume" /\ processor.conn \in line =>
              processor.after.highwater = radio.highwater
Settled == settled => /\ radio.highwater < processor.next
                      /\ \A c \in line : Below(frames[c], processor.next)
CInv == Fresh /\ Sent /\ Untouched /\ Snapshot /\ Settled
IInv == TypeOK /\ DeviceInv /\ CInv

\* Connections only disappear, and nothing is sent.
LEMMA Shrink ==
  ASSUME TypeOK, CInv, line' \subseteq line, \A c \in line' : frames'[c] = frames[c],
         radio' = radio, processor'.next = processor.next,
         processor'.conn \in {processor.conn, NoConnection},
         settled' => settled, Untouched', Snapshot'
  PROVE  CInv'
<1>1. NoConnection \notin line'
  BY ConnsAreNumbers DEF line
<1>2. Fresh' /\ Sent'
  BY <1>1 DEF CInv, Fresh, Sent
<1>3. Settled'
  BY DEF CInv, Settled
<1>. QED BY <1>2, <1>3 DEF CInv

\* One more connection is known, and nothing has been sent on it.
LEMMA Grow ==
  ASSUME TypeOK, CInv, NEW c \in Conns, line' = line \cup {c}, frames[c] = <<>>,
         UNCHANGED <<frames, radio>>, processor'.next = processor.next,
         processor'.conn = c, processor'.pc # "resume", settled' => settled
  PROVE  CInv'
<1>1. Fresh' /\ Sent' /\ Untouched'
  BY EmptyIds DEF CInv, Fresh, Sent, Untouched
<1>2. Settled'
  BY EmptyIds DEF CInv, Settled
<1>3. Snapshot'
  BY DEF Snapshot
<1>. QED BY <1>1, <1>2, <1>3 DEF CInv

\* A command is sent with an identifier above the watermark and above all that
\* is on its connection.
LEMMA Send ==
  ASSUME TypeOK, CInv, NEW p \in Processors, p.conn = processor.conn, p.next \in 1 .. MaxId,
         NEW kind \in Kinds, submitted(p, kind), p.pc \notin {"after", "resume"},
         processor.conn \in line => /\ radio.highwater < p.next
                                   /\ Below(frames[processor.conn], p.next),
         settled' => /\ radio.highwater < p.next
                     /\ \A c \in line : Below(frames[c], p.next)
  PROVE  CInv'
<1>. DEFINE k == processor.conn  f == command(p, kind)
<1>1. /\ line' = line /\ radio' = radio
      /\ k \in line => frames' = [frames EXCEPT ![k] = Append(@, f)]
      /\ k \notin line => frames' = frames
      /\ f \in Frames /\ f.id = p.next
      /\ processor'.next = p.next + 1 /\ processor'.conn = k
      /\ processor'.pc = p.pc
  BY SubmittedTypes
<1>2. line \subseteq Conns /\ radio.highwater \in Nat
  BY ResumptionAssumption DEF line, TypeOK
<1>3. \A c \in line : frames[c] \in Seq(Frames)
  BY <1>2 DEF TypeOK
<1>4. ASSUME k \in line
      PROVE  /\ frames'[k] \in Seq(Frames) /\ Increasing(frames'[k])
             /\ Below(frames'[k], p.next + 1) /\ Above(frames'[k], radio.highwater)
  <2>1. Increasing(frames[k]) /\ Above(frames[k], radio.highwater)
    BY <1>4 DEF CInv, Fresh
  <2>2. frames'[k] = Append(frames[k], f)
    BY <1>1, <1>2, <1>4 DEF TypeOK
  <2>. QED BY <1>1, <1>2, <1>3, <1>4, <2>1, <2>2, AppendIds
<1>5. \A c \in line : c # k => frames'[c] = frames[c]
  BY <1>1, <1>2 DEF TypeOK
<1>6. Fresh'
  BY <1>1, <1>4, <1>5 DEF CInv, Fresh
<1>7. Sent'
  BY <1>1, <1>4 DEF Sent
<1>8. Untouched' /\ Snapshot'
  BY <1>1 DEF Untouched, Snapshot
<1>9. Settled'
  <2>. SUFFICES ASSUME settled'
                PROVE  /\ radio'.highwater < processor'.next
                       /\ \A c \in line' : Below(frames'[c], processor'.next)
    BY DEF Settled
  <2>1. radio.highwater < p.next /\ \A c \in line : Below(frames[c], p.next)
    OBVIOUS
  <2>2. ASSUME NEW c \in line, c # k PROVE Below(frames'[c], p.next + 1)
    <3>1. Below(frames[c], p.next) /\ frames'[c] = frames[c] /\ frames[c] \in Seq(Frames)
      BY <1>3, <1>5, <2>1, <2>2
    <3>2. \A i \in 1 .. Len(frames[c]) : frames[c][i].id \in Nat
      BY <3>1, IdsAreNumbers
    <3>. QED BY <3>1, <3>2 DEF Below
  <2>. QED BY <1>1, <1>2, <1>4, <2>1, <2>2
<1>. QED BY <1>6, <1>7, <1>8, <1>9 DEF CInv

\* The radio admits only what is above the watermark, and only if no connection
\* waits; an answer to reconcile settles the session.
LEMMA ReceiveInv == IInv /\ Receive => CInv'
<1>. SUFFICES ASSUME TypeOK, DeviceInv, CInv, Receive PROVE CInv'
  BY DEF IInv
<1>. DEFINE q == frames[owner]  h == Head(q).id
<1>1. /\ line' = line /\ line = {owner} /\ owner \in Conns
      /\ q \in Seq(Frames) /\ q # <<>> /\ Head(q) \in Frames
      /\ frames' = [frames EXCEPT ![owner] = Tail(q)]
      /\ \/ h > radio.highwater /\ radio'.highwater = h
         \/ h <= radio.highwater /\ radio' = radio
      /\ processor'.pc = processor.pc /\ processor'.conn = processor.conn
      /\ processor'.next = processor.next /\ processor'.after = processor.after
      /\ processor'.reconciled = processor.reconciled
      /\ processor'.answer # processor.answer => owner = processor.conn
  BY ReceiveTypes
<1>2. h \in Nat /\ radio.highwater \in Nat /\ processor.next \in Nat
  BY <1>1, ResumptionAssumption, SMTT(30) DEF Frames, TypeOK, Processors
<1>3. Increasing(q) /\ Above(q, radio.highwater)
  BY <1>1 DEF CInv, Fresh
<1>4. h > radio.highwater /\ Increasing(Tail(q)) /\ Above(Tail(q), h)
  BY <1>1, <1>2, <1>3, TailIds
<1>5. radio'.highwater = h /\ frames'[owner] = Tail(q)
  BY <1>1, <1>2, <1>4 DEF TypeOK
<1>6. Fresh'
  BY <1>1, <1>4, <1>5 DEF Fresh
<1>7. Sent'
  BY <1>1, <1>2, <1>3, <1>5, TailIds DEF CInv, Sent
<1>8. processor.pc \in {"after", "resume"} => processor.conn # owner
  BY <1>1 DEF CInv, Untouched
<1>9. Untouched' /\ Snapshot'
  BY <1>1, <1>8 DEF CInv, Untouched, Snapshot, TypeOK
<1>10. Settled'
  <2>. SUFFICES ASSUME settled'
                PROVE  radio'.highwater < processor'.next
                       /\ \A c \in line' : Below(frames'[c], processor'.next)
    BY DEF Settled
  <2>1. settled \/ owner = processor.conn
    BY <1>1 DEF settled
  <2>2. Below(q, processor.next)
    BY <1>1, <2>1 DEF CInv, Settled, Sent
  <2>. QED BY <1>1, <1>2, <1>3, <1>5, <2>2, TailIds
<1>. QED BY <1>6, <1>7, <1>9, <1>10 DEF CInv

\* A step that sends nothing settles the session only by an answer it already has.
LEMMA QuietInv == IInv /\ Quiet => CInv'
<1>. SUFFICES ASSUME TypeOK, CInv, Quiet PROVE CInv'
  BY DEF IInv
<1>1. UNCHANGED <<radio, backlog, owner, frames>> /\ processor' \in Processors
  BY QuietTypes DEF radioVars
<1>2. line' = line
  BY <1>1 DEF line
<1>3. processor \in Processors /\ line \subseteq Conns
  BY DEF TypeOK, line
<1>4. returned(processor).next = processor.next /\ returned(processor).conn = processor.conn
      /\ returned(processor).reconciled = processor.reconciled
      /\ returned(processor).pc = processor.pc
  BY <1>3 DEF returned, Processors
<1>. DEFINE Kept == /\ processor'.next = processor.next
                    /\ processor'.conn \in {processor.conn, NoConnection}
                    /\ settled' => settled
<1>5. CASE Check \/ EndPass \/ ClientFails
  <2>1. Kept /\ processor'.pc \notin {"after", "resume"}
    BY <1>3, <1>5 DEF Check, Become, EndPass, ClientFails, progresses, settled, Processors
  <2>. QED BY <1>1, <1>2, <2>1, Shrink DEF Untouched, Snapshot
<1>6. CASE ReadBefore
  <2>1. Kept /\ processor'.pc = "connect"
    BY <1>3, <1>6 DEF ReadBefore, settled, Processors
  <2>. QED BY <1>1, <1>2, <2>1, Shrink DEF Untouched, Snapshot
<1>7. CASE ReadAfter
  <2>1. Kept /\ processor'.conn = processor.conn /\ processor'.after.highwater = radio.highwater
    BY <1>3, <1>7 DEF ReadAfter, snapshot, settled, Processors
  <2>2. Untouched'
    BY <1>1, <1>7, <2>1 DEF ReadAfter, CInv, Untouched
  <2>3. Snapshot'
    BY <1>1, <2>1 DEF Snapshot
  <2>. QED BY <1>1, <1>2, <2>1, <2>2, <2>3, Shrink
<1>8. CASE ReconcileFails \/ Verified \/ Evidence
  <2>1. Kept /\ processor'.pc \in {"check", "pass"}
    BY <1>3, <1>4, <1>8, ZenonT(40) DEF ReconcileFails, Verified, Evidence, settled, Processors, returned
  <2>. QED BY <1>1, <1>2, <2>1, Shrink DEF Untouched, Snapshot
<1>9. CASE NoEvidence
  <2>1. Kept /\ processor'.pc \in {"check", "pass"}
    BY <1>3, <1>4, <1>9 DEF NoEvidence, waits, settled, Processors, returned
  <2>. QED BY <1>1, <1>2, <2>1, Shrink DEF Untouched, Snapshot
<1>10. CASE Replace
  <2>1. /\ processor'.conn = NoConnection /\ processor'.pc = "check"
        /\ processor'.reconciled = FALSE
    BY <1>10 DEF Replace, newProcessor
  <2>2. NoConnection \notin line'
    BY <1>2, <1>3, ConnsAreNumbers
  <2>. QED BY <1>1, <1>2, <2>1, <2>2
       DEF CInv, Fresh, Sent, Untouched, Snapshot, Settled, settled
<1>. QED BY <1>5, <1>6, <1>7, <1>8, <1>9, <1>10 DEF Quiet

\* Types, and the device, under every step.
LEMMA TypeStep == TypeOK /\ DeviceInv /\ [Next]_vars => TypeOK' /\ DeviceInv'
<1>. SUFFICES ASSUME TypeOK, DeviceInv, [Next]_vars PROVE TypeOK' /\ DeviceInv'
  OBVIOUS
<1>. DEFINE Others == /\ LineOK' /\ processor' \in Processors
                      /\ radio' \in [boot : 1 .. MaxBoots, highwater : 0 .. MaxId]
<1>1. ASSUME Others, DeviceInv' PROVE TypeOK' /\ DeviceInv'
  BY <1>1 DEF TypeOK, LineOK, DeviceInv
<1>2. ASSUME UNCHANGED deviceVars PROVE DeviceInv'
  BY <1>2 DEF deviceVars, DeviceInv, DeviceTypeOK, StreamAgrees, OrdinalAccounts
<1>3. ASSUME UNCHANGED radioVars PROVE LineOK'
  BY <1>3 DEF radioVars, LineOK, TypeOK, line
<1>4. radio \in [boot : 1 .. MaxBoots, highwater : 0 .. MaxId] /\ processor \in Processors
  BY DEF TypeOK
<1>5. CASE DropStale \/ Eof
  BY <1>1, <1>2, <1>4, <1>5, DropTypes DEF DropStale, Eof
<1>6. CASE Accept
  BY <1>1, <1>2, <1>4, <1>6, AcceptTypes DEF Accept
<1>7. CASE Receive
  BY <1>1, <1>7, ReceiveTypes
<1>8. CASE Reboot
  BY <1>1, <1>4, <1>8, RebootTypes
<1>9. CASE Quiet
  BY <1>1, <1>2, <1>3, <1>4, <1>9, QuietTypes DEF radioVars
<1>10. ASSUME NEW p \in Processors, connected(p) PROVE TypeOK' /\ DeviceInv'
  BY <1>1, <1>2, <1>4, <1>10, ConnectedLine DEF connected
<1>11. CASE Connect
  <2>1. [processor EXCEPT !.pc = "after"] \in Processors
    BY <1>4 DEF Processors
  <2>. QED BY <1>10, <1>11, <2>1 DEF Connect
<1>12. CASE AutoReconnect
  BY <1>4, <1>10, <1>12 DEF AutoReconnect
<1>13. ASSUME NEW p \in Processors, p.conn = processor.conn, p.next \in 1 .. MaxId,
              NEW kind \in Kinds, submitted(p, kind)
       PROVE  TypeOK' /\ DeviceInv'
  BY <1>1, <1>2, <1>4, <1>13, SubmittedTypes DEF submitted
<1>14. CASE Resume
  BY <1>13, <1>14, ResumeSends DEF Kinds
<1>15. ASSUME NEW kind \in Kinds, Issue(kind) PROVE TypeOK' /\ DeviceInv'
  BY <1>13, <1>15, IssueSends
<1>16. CASE UNCHANGED vars
  BY <1>1, <1>2, <1>3, <1>4, <1>16 DEF vars, radioVars
<1>. QED BY <1>5, <1>6, <1>7, <1>8, <1>9, <1>11, <1>12, <1>14, <1>15, <1>16 DEF Next, Quiet

LEMMA IdStep == IInv /\ [Next]_vars => CInv'
<1>. SUFFICES ASSUME TypeOK, DeviceInv, CInv, [Next]_vars PROVE CInv'
  BY DEF IInv
<1>0. TypeOK'
  BY TypeStep
<1>. processor \in Processors /\ line \subseteq Conns /\ line' \subseteq Conns
  BY DEF TypeOK, line
<1>1. ASSUME line' \subseteq line, \A c \in line' : frames'[c] = frames[c], radio' = radio,
             processor'.pc = processor.pc, processor'.conn = processor.conn,
             processor'.next = processor.next, processor'.after = processor.after,
             processor'.reconciled = processor.reconciled,
             processor'.answer = processor.answer
      PROVE  CInv'
  <2>1. settled' => settled
    BY <1>1 DEF settled
  <2>2. \A c \in Conns \ line' : frames'[c] = <<>>
    BY <1>0 DEF TypeOK
  <2>3. Untouched'
    BY <1>1, <2>2 DEF CInv, Untouched
  <2>4. Snapshot'
    BY <1>1 DEF CInv, Snapshot
  <2>. QED BY <1>1, <2>1, <2>3, <2>4, Shrink
<1>2. CASE DropStale \/ Eof
  BY <1>1, <1>2, DropTypes
<1>3. CASE Accept
  BY <1>1, <1>3, AcceptTypes
<1>4. CASE Receive
  BY <1>4, ReceiveInv DEF IInv
<1>5. CASE Reboot
  <2>1. /\ line' = {} /\ radio'.highwater = 0 /\ processor' = processor
        /\ \A c \in Conns : frames'[c] = <<>>
    BY <1>5, RebootTypes
  <2>2. 0 < processor.next
    BY ResumptionAssumption DEF Processors
  <2>. QED BY <2>1, <2>2 DEF CInv, Fresh, Sent, Untouched, Snapshot, Settled
<1>6. CASE Quiet
  BY <1>6, QuietInv DEF IInv
<1>7. CASE Connect \/ AutoReconnect
  <2>1. PICK p \in Processors : connected(p) /\ p.pc # "resume" /\ p.next = processor.next
          /\ (p.pc \in {"after"} \/ p = processor)
    <3>1. CASE Connect
      <4>. DEFINE p == [processor EXCEPT !.pc = "after"]
      <4>1. p \in Processors /\ p.pc = "after" /\ p.next = processor.next
        BY DEF Processors
      <4>. QED BY <3>1, <4>1 DEF Connect
    <3>2. CASE AutoReconnect
      BY <3>2 DEF AutoReconnect, progresses
    <3>. QED BY <1>7, <3>1, <3>2
  <2>2. /\ newest \in Conns /\ line' = line \cup {newest} /\ frames[newest] = <<>>
        /\ processor' \in Processors
    BY <2>1, ConnectedLine DEF TypeOK
  <2>3. /\ UNCHANGED <<frames, radio>> /\ processor'.conn = newest
        /\ processor'.next = p.next /\ processor'.pc = p.pc
        /\ processor'.answer = p.answer /\ processor'.reconciled = FALSE
    BY <2>1 DEF connected, Processors
  <2>4. settled' => settled
    BY <2>1, <2>3 DEF settled
  <2>. QED BY <2>1, <2>2, <2>3, <2>4, Grow
<1>8. CASE Resume
  <2>1. PICK p \in Processors :
          /\ p.conn = processor.conn /\ p.pc = "verify" /\ p.next \in 1 .. MaxId
          /\ p.reconciled = processor.reconciled
          /\ p.next >= processor.next /\ p.next > processor.after.highwater
          /\ submitted(p, "status")
    BY <1>8, ResumeSends
  <2>2. /\ processor'.pc = "verify" /\ processor'.reconciled = processor.reconciled
        /\ processor'.answer = "none"
    BY <2>1, SubmittedTypes DEF Kinds
  <2>3. processor.pc = "resume"
    BY <1>8 DEF Resume
  <2>4. processor.conn \in line =>
          radio.highwater < p.next /\ Below(frames[processor.conn], p.next)
    <3>1. frames[processor.conn] = <<>>
      BY <2>3 DEF CInv, Untouched
    <3>2. processor.conn \in line => processor.after.highwater = radio.highwater
      BY <2>3 DEF CInv, Snapshot
    <3>. QED BY <2>1, <3>1, <3>2, EmptyIds
  <2>5. settled' => radio.highwater < p.next /\ \A c \in line : Below(frames[c], p.next)
    <3>. SUFFICES ASSUME settled'
                  PROVE  radio.highwater < p.next /\ \A c \in line : Below(frames[c], p.next)
      OBVIOUS
    <3>1. settled
      BY <2>2 DEF settled
    <3>2. radio.highwater < processor.next /\ \A c \in line : Below(frames[c], processor.next)
      BY <3>1 DEF CInv, Settled
    <3>3. \A c \in line : \A i \in 1 .. Len(frames[c]) : frames[c][i].id \in Nat
      BY IdsAreNumbers DEF TypeOK
    <3>4. radio.highwater \in Nat /\ processor.next \in Nat /\ p.next \in Nat
      BY ResumptionAssumption, SMTT(30) DEF TypeOK, Processors
    <3>. QED BY <2>1, <3>2, <3>3, <3>4 DEF Below
  <2>. QED BY <2>1, <2>4, <2>5, Send DEF Kinds
<1>9. ASSUME NEW kind \in Kinds, Issue(kind) PROVE CInv'
  <2>1. PICK p \in Processors :
          /\ p.conn = processor.conn /\ p.pc = "command" /\ p.next \in 1 .. MaxId
          /\ p.reconciled = processor.reconciled /\ p.next = processor.next
          /\ submitted(p, kind)
    BY <1>9, IssueSends
  <2>2. settled
    BY <1>9 DEF Issue, settled
  <2>3. radio.highwater < p.next /\ \A c \in line : Below(frames[c], p.next)
    BY <2>1, <2>2 DEF CInv, Settled
  <2>. QED BY <2>1, <2>3, Send
<1>10. CASE UNCHANGED vars
  <2>1. line' = line
    BY <1>10 DEF vars, radioVars, line
  <2>. QED BY <1>1, <1>10, <2>1 DEF vars, radioVars
<1>. QED BY <1>2, <1>3, <1>4, <1>5, <1>6, <1>7, <1>8, <1>9, <1>10 DEF Next, Quiet

LEMMA InitInv == Init => IInv
<1>. SUFFICES ASSUME Init PROVE IInv
  OBVIOUS
<1>1. DeviceInv
  BY DeviceInitInv DEF Init
<1>2. processor \in Processors
  BY NewProcessorType DEF Init
<1>3. line = {}
  BY ConnsAreNumbers DEF Init, line
<1>4. TypeOK
  BY <1>1, <1>2, EmptySeq, ResumptionAssumption DEF Init, TypeOK, DeviceInv, newRadio
<1>5. CInv
  <2>1. processor.pc = "check" /\ processor.reconciled = FALSE
    BY DEF Init, newProcessor
  <2>. QED BY <1>3, <2>1 DEF CInv, Fresh, Sent, Untouched, Snapshot, Settled, settled
<1>. QED BY <1>1, <1>4, <1>5 DEF IInv

LEMMA Invariance == Spec => []IInv
<1>1. IInv /\ [Next]_vars => IInv'
  BY TypeStep, IdStep DEF IInv
<1>. QED BY InitInv, <1>1, PTL DEF Spec

\* Types of radio, connections, frames and session, and the device's own.
THEOREM ResumptionTypeCorrect == Spec => []TypeOK
BY Invariance, PTL DEF IInv

\* What the adapter executes for a remote processor keeps the device's
\* invariant: the invariants of RadioDevice hold in the composition.
THEOREM DeviceUnderCommands == Spec => [](StreamAgrees /\ OrdinalAccounts)
<1>1. IInv => StreamAgrees /\ OrdinalAccounts
  BY DEF IInv, DeviceInv
<1>. QED BY Invariance, <1>1, PTL

\* No command that reaches the radio is ever below its watermark, whoever sent
\* it and however many connections, reboots and replacements came before.
THEOREM FreshTheorem == Spec => []FreshIdentifiers
<1>1. IInv => FreshIdentifiers
  <2>. SUFFICES ASSUME IInv, owner # NoConnection
                PROVE  \A i \in DOMAIN frames[owner] : frames[owner][i].id > radio.highwater
    BY DEF FreshIdentifiers
  <2>1. owner \in line /\ frames[owner] \in Seq(Frames)
    BY DEF IInv, TypeOK, line
  <2>2. DOMAIN frames[owner] = 1 .. Len(frames[owner])
    BY <2>1, LenProperties
  <2>. QED BY <2>1, <2>2 DEF IInv, CInv, Fresh, Above
<1>. QED BY Invariance, <1>1, PTL

-----------------------------------------------------------------------------
(* Configuration.                                                          *)

\* Configurations among q are of the settings w; the command n is of kind k.
Own(q, w) == \A i \in 1 .. Len(q) : q[i].kind = "configure" => q[i].settings = w
Asked(q, n, k) == \A i \in 1 .. Len(q) : q[i].id = n => q[i].kind = k

LEMMA AppendOwn ==
  ASSUME NEW q \in Seq(Frames), NEW f \in Frames, NEW w,
         Own(q, w), f.kind = "configure" => f.settings = w, Below(q, f.id)
  PROVE  Own(Append(q, f), w) /\ Asked(Append(q, f), f.id, f.kind)
<1>. DEFINE r == Append(q, f)
<1>1. /\ Len(r) = Len(q) + 1 /\ Len(q) \in Nat
      /\ \A i \in 1 .. Len(q) : r[i] = q[i] /\ r[Len(q) + 1] = f
  BY AppendProperties, LenProperties
<1>2. \A i \in 1 .. Len(r) : i \in 1 .. Len(q) \/ (i = Len(q) + 1 /\ r[i] = f)
  BY <1>1
<1>3. f.id \in Nat /\ \A i \in 1 .. Len(q) : q[i].id # f.id
  BY FrameId, IdsAreNumbers DEF Below
<1>4. Own(r, w)
  BY <1>1, <1>2 DEF Own
<1>5. Asked(r, f.id, f.kind)
  BY <1>1, <1>2, <1>3 DEF Asked
<1>. QED BY <1>4, <1>5

LEMMA TailOwn ==
  ASSUME NEW q \in Seq(Frames), q # <<>>, NEW w, NEW n, NEW k
  PROVE  /\ Own(q, w) => /\ Own(Tail(q), w)
                         /\ Head(q).kind = "configure" => Head(q).settings = w
         /\ Asked(q, n, k) => /\ Asked(Tail(q), n, k)
                              /\ Head(q).id = n => Head(q).kind = k
<1>. DEFINE t == Tail(q)
<1>1. /\ Len(q) \in Nat \ {0} /\ Len(t) = Len(q) - 1 /\ Head(q) = q[1]
      /\ \A i \in 1 .. Len(t) : t[i] = q[i + 1]
  BY HeadTailProperties, LenProperties, EmptySeq
<1>2. 1 \in 1 .. Len(q) /\ \A i \in 1 .. Len(t) : i + 1 \in 1 .. Len(q)
  BY <1>1
<1>. QED BY <1>1, <1>2 DEF Own, Asked

LEMMA EmptyOwn ==
  ASSUME NEW w, NEW n, NEW k
  PROVE  Own(<<>>, w) /\ Asked(<<>>, n, k)
BY DEF Own, Asked

\* The session's own configurations are the only ones left once it is settled
\* or configured, and evidence of one is of the settings that the device has.
OwnConnection == processor.conn \in line => Own(frames[processor.conn], processor.wanted)
OnlyOwn == settled \/ processor.configured =>
             \A c \in line : Own(frames[c], processor.wanted)
Question == waits /\ processor.conn \in line =>
              Asked(frames[processor.conn], processor.waiting, processor.kind)
Answered == processor.pc = "command" /\ processor.kind = "configure"
              /\ processor.answer = "executed" /\ processor.boot = radio.boot =>
            device.settings = processor.wanted
Boots == processor.boot <= radio.boot /\ processor.after.boot <= radio.boot
DInv == OwnConnection /\ OnlyOwn /\ Question /\ Answered /\ Boots /\ ConfigurationHolds

\* What the session remembers of itself between two steps.
Kept == /\ processor'.wanted = processor.wanted /\ processor'.boot = processor.boot
        /\ processor'.configured = processor.configured
        /\ processor'.after = processor.after

LEMMA ShrinkOwn ==
  ASSUME TypeOK, DInv, line' \subseteq line, \A c \in line' : frames'[c] = frames[c],
         radio' = radio, device'.settings = device.settings, Kept,
         processor'.conn \in {processor.conn, NoConnection}, processor'.pc = processor.pc,
         processor'.waiting = processor.waiting, processor'.kind = processor.kind,
         processor'.answer = processor.answer, settled' => settled
  PROVE  DInv'
<1>1. NoConnection \notin line'
  BY ConnsAreNumbers DEF line
<1>2. OwnConnection' /\ OnlyOwn'
  BY <1>1 DEF DInv, OwnConnection, OnlyOwn, Kept
<1>3. Question'
  BY <1>1 DEF DInv, Question, waits
<1>4. Answered' /\ Boots' /\ ConfigurationHolds'
  BY DEF DInv, Answered, Boots, ConfigurationHolds, Kept
<1>. QED BY <1>2, <1>3, <1>4 DEF DInv

LEMMA GrowOwn ==
  ASSUME TypeOK, DInv, NEW c \in Conns, line' = line \cup {c}, frames[c] = <<>>,
         UNCHANGED <<frames, radio, device>>, Kept, processor'.conn = c,
         processor'.pc = "command" =>
           processor.pc = "command" /\ processor'.kind = processor.kind
             /\ processor'.answer = processor.answer,
         settled' => settled
  PROVE  DInv'
<1>1. OwnConnection' /\ OnlyOwn' /\ Question'
  BY EmptyOwn DEF DInv, OwnConnection, OnlyOwn, Question, Kept
<1>2. Answered' /\ Boots' /\ ConfigurationHolds'
  BY DEF DInv, Answered, Boots, ConfigurationHolds, Kept
<1>. QED BY <1>1, <1>2 DEF DInv

LEMMA SendOwn ==
  ASSUME TypeOK, DInv, NEW p \in Processors, p.conn = processor.conn, p.next \in 1 .. MaxId,
         p.wanted = processor.wanted, p.boot = processor.boot, p.after = processor.after,
         p.configured = processor.configured,
         NEW kind \in Kinds, submitted(p, kind),
         processor.conn \in line => Below(frames[processor.conn], p.next),
         settled' => settled
  PROVE  DInv'
<1>. DEFINE k == processor.conn  f == command(p, kind)
<1>1. /\ line' = line /\ radio' = radio
      /\ k \in line => frames' = [frames EXCEPT ![k] = Append(@, f)]
      /\ k \notin line => frames' = frames
      /\ f \in Frames /\ f.id = p.next
      /\ processor'.conn = k /\ processor'.answer = "none"
  BY SubmittedTypes
<1>2. /\ processor'.waiting = p.next /\ processor'.kind = kind /\ Kept /\ device' = device
  BY DEF submitted, Processors, Kept, deviceVars
<1>3. f.kind = kind /\ (f.kind = "configure" => f.settings = processor.wanted)
  BY DEF command
<1>4. line \subseteq Conns
  BY DEF line
<1>5. \A c \in line : c # k => frames'[c] = frames[c]
  BY <1>1, <1>4 DEF TypeOK
<1>6. ASSUME k \in line
      PROVE  /\ Own(frames'[k], processor.wanted) /\ Asked(frames'[k], p.next, kind)
  <2>1. frames[k] \in Seq(Frames) /\ Own(frames[k], processor.wanted)
    BY <1>4, <1>6 DEF TypeOK, DInv, OwnConnection
  <2>2. frames'[k] = Append(frames[k], f)
    BY <1>1, <1>4, <1>6 DEF TypeOK
  <2>. QED BY <1>1, <1>3, <1>6, <2>1, <2>2, AppendOwn
<1>7. OwnConnection' /\ Question'
  BY <1>1, <1>2, <1>6 DEF OwnConnection, Question, Kept
<1>8. OnlyOwn'
  BY <1>1, <1>2, <1>5, <1>6 DEF DInv, OnlyOwn, Kept
<1>9. Answered' /\ Boots' /\ ConfigurationHolds'
  BY <1>1, <1>2 DEF DInv, Answered, Boots, ConfigurationHolds, Kept
<1>. QED BY <1>7, <1>8, <1>9 DEF DInv

\* A command admitted either leaves the settings or is a configuration of them.
LEMMA ExecuteSettings ==
  ASSUME TypeOK, DeviceInv, NEW f \in Frames, Execute(f)
  PROVE  /\ \/ device'.settings = device.settings
            \/ f.kind = "configure" /\ device'.settings = f.settings
         /\ f.kind = "configure" /\ outcome(f) = "executed" => device'.settings = f.settings
<1>. DEFINE keeps == device'.settings = device.settings
<1>1. ASSUME NEW s \in Settings, NEW a \in StreamActions, commit(s, a)
      PROVE  IF valid(s) THEN device'.settings = s ELSE keeps
  <2>1. stream.exists
    BY <1>1, StreamLives DEF commit
  <2>. QED BY <1>1, <2>1 DEF commit, activated, applied, TypeOK, DeviceTypeOK, StreamActions
<1>2. f.settings \in Settings /\ device.settings \in Settings
  BY ResumptionAssumption DEF Frames, TypeOK, DeviceTypeOK
<1>3. CASE UNCHANGED deviceVars /\ ~(f.kind = "configure" /\ legal(f.kind))
  BY <1>3 DEF deviceVars, outcome
<1>4. CASE f.kind = "configure" /\ legal(f.kind) /\ commit(f.settings, "none")
  BY <1>1, <1>2, <1>4 DEF outcome, StreamActions
<1>5. CASE f.kind \in {"start", "stop"} /\ legal(f.kind) /\ commit(device.settings, f.kind)
  <2>1. keeps
    BY <1>1, <1>2, <1>5 DEF StreamActions
  <2>. QED BY <1>5, <2>1
<1>. QED BY <1>3, <1>4, <1>5 DEF Execute

LEMMA ReceiveOwn == IInv /\ DInv /\ Receive => DInv'
<1>. SUFFICES ASSUME IInv, TypeOK, DeviceInv, CInv, DInv, Receive PROVE DInv'
  BY DEF IInv
<1>. DEFINE q == frames[owner]  f == Head(q)
<1>1. /\ line' = line /\ line = {owner} /\ owner \in Conns
      /\ q \in Seq(Frames) /\ q # <<>> /\ f \in Frames
      /\ frames' = [frames EXCEPT ![owner] = Tail(q)]
      /\ processor'.pc = processor.pc /\ processor'.conn = processor.conn
      /\ processor'.after = processor.after /\ processor'.reconciled = processor.reconciled
      /\ processor'.answer # processor.answer => owner = processor.conn
  BY ReceiveTypes
<1>2. f.id > radio.highwater /\ ~(f.id <= radio.highwater)
  <2>1. Increasing(q) /\ Above(q, radio.highwater) /\ radio.highwater \in Nat
    BY <1>1, ResumptionAssumption DEF CInv, Fresh, TypeOK
  <2>. QED BY <1>1, <2>1, TailIds, FrameId
<1>3. Execute(f) /\ answered(f, outcome(f)) /\ radio' = [radio EXCEPT !.highwater = f.id]
  BY <1>2 DEF Receive
<1>4. Kept /\ processor'.waiting = processor.waiting /\ processor'.kind = processor.kind
  BY <1>3 DEF answered, Kept, TypeOK, Processors
<1>5. processor'.answer # processor.answer =>
        waits /\ owner = processor.conn /\ f.id = processor.waiting
          /\ processor'.answer = outcome(f)
  BY <1>3 DEF answered, TypeOK, Processors
<1>6. frames'[owner] = Tail(q) /\ radio'.boot = radio.boot
  BY <1>1, <1>3 DEF TypeOK
<1>7. OwnConnection' /\ Question'
  <2>1. CASE processor.conn = owner
    <3>1. Own(q, processor.wanted) /\ (waits => Asked(q, processor.waiting, processor.kind))
      BY <1>1, <2>1 DEF DInv, OwnConnection, Question
    <3>2. /\ Own(Tail(q), processor.wanted)
          /\ waits => Asked(Tail(q), processor.waiting, processor.kind)
      BY <1>1, <3>1, TailOwn
    <3>3. waits' = waits
      BY <1>1 DEF waits
    <3>. QED BY <1>1, <1>4, <1>6, <2>1, <3>2, <3>3 DEF OwnConnection, Question, Kept
  <2>2. CASE processor.conn # owner
    BY <1>1, <2>2 DEF OwnConnection, Question
  <2>. QED BY <2>1, <2>2
<1>8. settled \/ processor.configured \/ owner = processor.conn => Own(q, processor.wanted)
  BY <1>1 DEF DInv, OnlyOwn, OwnConnection
<1>9. settled' => settled \/ owner = processor.conn
  BY <1>1 DEF settled
<1>10. OnlyOwn'
  BY <1>1, <1>4, <1>6, <1>8, <1>9, TailOwn, ZenonT(40) DEF OnlyOwn, Kept
<1>11. \/ device'.settings = device.settings
       \/ f.kind = "configure" /\ device'.settings = f.settings
  BY <1>1, <1>3, ExecuteSettings
<1>12. Answered'
  <2>. SUFFICES ASSUME processor.pc = "command", processor.kind = "configure",
                       processor'.answer = "executed", processor.boot = radio.boot
                PROVE  device'.settings = processor.wanted
    BY <1>1, <1>4, <1>6 DEF Answered, Kept
  <2>1. f.kind = "configure" => f.settings = processor.wanted
    BY <1>1, <1>8, TailOwn DEF settled
  <2>2. CASE processor'.answer = processor.answer
    BY <1>11, <2>1, <2>2 DEF DInv, Answered
  <2>3. CASE processor'.answer # processor.answer
    <3>1. f.kind = "configure"
      BY <1>1, <1>5, <2>3, TailOwn DEF DInv, Question
    <3>. QED BY <1>1, <1>3, <1>5, <2>1, <2>3, <3>1, ExecuteSettings
  <2>. QED BY <2>2, <2>3
<1>13. ConfigurationHolds'
  <2>. SUFFICES ASSUME processor.configured, processor.boot = radio.boot
                PROVE  device'.settings = processor.wanted
    BY <1>4, <1>6 DEF ConfigurationHolds, Kept
  <2>1. f.kind = "configure" => f.settings = processor.wanted
    BY <1>1, <1>8, TailOwn
  <2>. QED BY <1>11, <2>1 DEF DInv, ConfigurationHolds
<1>14. Boots'
  BY <1>4, <1>6 DEF DInv, Boots, Kept
<1>. QED BY <1>7, <1>10, <1>12, <1>13, <1>14 DEF DInv

LEMMA QuietOwn == IInv /\ DInv /\ Quiet => DInv'
<1>. SUFFICES ASSUME TypeOK, CInv, DInv, Quiet PROVE DInv'
  BY DEF IInv
<1>1. UNCHANGED <<radio, backlog, owner, frames, device>> /\ processor' \in Processors
  BY QuietTypes DEF radioVars, deviceVars
<1>2. line' = line
  BY <1>1 DEF line
<1>3. processor \in Processors /\ NoConnection \notin line
  BY ConnsAreNumbers DEF TypeOK, line
<1>4. /\ returned(processor).conn = processor.conn /\ returned(processor).pc = processor.pc
      /\ returned(processor).reconciled = processor.reconciled
      /\ returned(processor).wanted = processor.wanted
      /\ returned(processor).boot = processor.boot
      /\ returned(processor).configured = processor.configured
      /\ returned(processor).after.boot = 0
  BY <1>3 DEF returned, Processors, NoSnapshot
<1>5. radio.boot \in Nat /\ 0 <= radio.boot
  BY ResumptionAssumption DEF TypeOK
<1>. DEFINE Same == /\ processor'.wanted = processor.wanted
                    /\ processor'.conn \in {processor.conn, NoConnection}
                    /\ settled' \/ processor'.configured => settled \/ processor.configured
<1>6. ASSUME Same PROVE OwnConnection' /\ OnlyOwn'
  BY <1>1, <1>2, <1>3, <1>6 DEF DInv, OwnConnection, OnlyOwn
<1>7. ASSUME Same, processor'.pc \notin {"verify", "command"}, Boots', ConfigurationHolds'
      PROVE  DInv'
  BY <1>6, <1>7 DEF DInv, Question, Answered, waits
<1>8. CASE ClientFails
  <2>1. /\ Kept /\ processor'.conn = NoConnection /\ processor'.pc = processor.pc
        /\ processor'.kind = processor.kind /\ processor'.waiting = processor.waiting
        /\ processor'.answer = processor.answer
        /\ processor'.reconciled = processor.reconciled
    BY <1>3, <1>8 DEF ClientFails, Kept, Processors
  <2>. QED BY <1>1, <1>2, <2>1, ShrinkOwn DEF settled
<1>9. CASE Check \/ ReadBefore \/ EndPass
  <2>1. Same /\ processor'.pc \notin {"verify", "command"} /\ Kept
    BY <1>3, <1>9, ZenonT(40) DEF Check, Become, ReadBefore, EndPass, settled, Kept, Processors
  <2>. QED BY <1>1, <1>7, <2>1 DEF DInv, Boots, ConfigurationHolds, Kept
<1>10. CASE ReadAfter
  <2>1. /\ Same /\ processor'.pc = "resume" /\ processor'.after = snapshot
        /\ processor'.boot = processor.boot /\ processor'.configured = processor.configured
    BY <1>3, <1>10 DEF ReadAfter, settled, Processors
  <2>. QED BY <1>1, <1>5, <1>7, <2>1 DEF DInv, Boots, ConfigurationHolds, snapshot
<1>11. CASE ReconcileFails \/ NoEvidence
  <2>1. CASE ReconcileFails
    <3>1. /\ processor'.wanted = processor.wanted /\ processor'.conn = processor.conn
          /\ processor'.pc = "check" /\ processor'.after.boot = 0
          /\ processor'.reconciled = processor.reconciled
          /\ processor'.boot = processor.boot
          /\ processor'.configured = processor.configured
      BY <1>3, <1>4, <2>1 DEF ReconcileFails, Processors, returned
    <3>2. Same
      BY <3>1 DEF settled
    <3>. QED BY <1>1, <1>5, <1>7, <3>1, <3>2 DEF DInv, Boots, ConfigurationHolds
  <2>2. CASE NoEvidence
    <3>1. /\ processor'.wanted = processor.wanted
          /\ processor'.conn \in {processor.conn, NoConnection}
          /\ processor'.after.boot = 0
          /\ processor'.reconciled = processor.reconciled
          /\ processor'.boot = processor.boot
          /\ processor'.configured = processor.configured
      BY <1>3, <1>4, <2>2 DEF NoEvidence, Processors, returned
    <3>2. /\ processor.pc \in {"verify", "command"}
          /\ processor'.pc = IF processor.pc = "verify" THEN "check" ELSE "pass"
      BY <1>3, <1>4, <2>2 DEF NoEvidence, waits, Processors, returned
    <3>3. Same
      BY <3>1, <3>2 DEF settled
    <3>. QED BY <1>1, <1>5, <1>7, <3>1, <3>2, <3>3 DEF DInv, Boots, ConfigurationHolds
  <2>. QED BY <1>11, <2>1, <2>2
<1>12. CASE Verified
  <2>1. /\ processor'.pc = "pass" /\ processor'.wanted = processor.wanted
        /\ processor'.conn = processor.conn /\ processor'.after.boot = 0
        /\ processor'.boot = processor.after.boot
        /\ processor'.configured =
             (processor.configured /\ processor.boot = processor.after.boot)
    BY <1>3, <1>4, <1>12 DEF Verified, Processors, returned
  <2>2. settled
    BY <1>12 DEF Verified, settled
  <2>3. Boots' /\ ConfigurationHolds'
    BY <1>1, <1>5, <2>1 DEF DInv, Boots, ConfigurationHolds
  <2>. QED BY <1>7, <2>1, <2>2, <2>3
<1>13. CASE Evidence
  <2>1. /\ processor'.pc = "pass" /\ processor'.wanted = processor.wanted
        /\ processor'.conn = processor.conn /\ processor'.after.boot = 0
        /\ processor'.boot = processor.boot
        /\ processor'.configured = (processor.configured \/ processor.kind = "configure")
        /\ processor.pc = "command" /\ processor.answer = "executed"
    BY <1>3, <1>4, <1>13 DEF Evidence, Processors, returned
  <2>2. settled
    BY <2>1 DEF settled
  <2>3. Boots' /\ ConfigurationHolds'
    BY <1>1, <1>5, <2>1 DEF DInv, Boots, ConfigurationHolds, Answered
  <2>. QED BY <1>7, <2>1, <2>2, <2>3
<1>14. CASE Replace
  <2>1. /\ processor'.conn = NoConnection /\ processor'.pc = "check"
        /\ processor'.reconciled = FALSE /\ processor'.configured = FALSE
        /\ processor'.boot = 0 /\ processor'.after.boot = 0
    BY <1>14 DEF Replace, newProcessor, NoSnapshot
  <2>. QED BY <1>1, <1>2, <1>3, <1>5, <2>1
       DEF DInv, OwnConnection, OnlyOwn, Question, waits, Answered, Boots,
           ConfigurationHolds, settled
<1>. QED BY <1>8, <1>9, <1>10, <1>11, <1>12, <1>13, <1>14 DEF Quiet

LEMMA OwnStep == IInv /\ DInv /\ [Next]_vars => DInv'
<1>. SUFFICES ASSUME IInv, TypeOK, CInv, DInv, [Next]_vars PROVE DInv'
  BY DEF IInv
<1>. processor \in Processors /\ line \subseteq Conns
  BY DEF TypeOK, line
<1>1. ASSUME line' \subseteq line, \A c \in line' : frames'[c] = frames[c], radio' = radio,
             device' = device, Kept, processor'.conn = processor.conn,
             processor'.pc = processor.pc, processor'.waiting = processor.waiting,
             processor'.kind = processor.kind, processor'.answer = processor.answer,
             processor'.reconciled = processor.reconciled
      PROVE  DInv'
  <2>1. settled' => settled
    BY <1>1 DEF settled
  <2>. QED BY <1>1, <2>1, ShrinkOwn
<1>2. CASE DropStale \/ Eof
  <2>1. processor' = processor /\ device' = device
    BY <1>2 DEF DropStale, Eof, deviceVars
  <2>. QED BY <1>1, <1>2, <2>1, DropTypes DEF Kept
<1>3. CASE Accept
  <2>1. /\ device' = device /\ Kept /\ processor'.conn = processor.conn
        /\ processor'.pc = processor.pc /\ processor'.waiting = processor.waiting
        /\ processor'.kind = processor.kind /\ processor'.answer = processor.answer
        /\ processor'.reconciled = processor.reconciled
    BY <1>3 DEF Accept, Kept, deviceVars, Processors
  <2>. QED BY <1>1, <1>3, <2>1, AcceptTypes
<1>4. CASE Receive
  BY <1>4, ReceiveOwn
<1>5. CASE Reboot
  <2>1. line' = {} /\ processor' = processor
    BY <1>5, RebootTypes
  <2>2. radio'.boot = radio.boot + 1 /\ radio.boot \in Nat
    BY <1>5, ResumptionAssumption DEF Reboot, newRadio, TypeOK
  <2>3. processor.boot \in Nat /\ processor.after.boot \in Nat
    BY ResumptionAssumption DEF Processors, Snapshots
  <2>4. processor.boot # radio'.boot /\ Boots'
    BY <2>1, <2>2, <2>3 DEF DInv, Boots
  <2>. QED BY <2>1, <2>4
       DEF DInv, OwnConnection, OnlyOwn, Question, Answered, ConfigurationHolds
<1>6. CASE Quiet
  BY <1>6, QuietOwn
<1>7. CASE Connect \/ AutoReconnect
  <2>1. PICK p \in Processors : connected(p) /\ (p.pc = "after" \/ p.pc = processor.pc)
          /\ p.wanted = processor.wanted /\ p.boot = processor.boot
          /\ p.configured = processor.configured /\ p.after = processor.after
          /\ p.kind = processor.kind /\ p.answer = processor.answer
    <3>1. CASE Connect
      <4>. DEFINE p == [processor EXCEPT !.pc = "after"]
      <4>1. p \in Processors
        BY DEF Processors
      <4>2. /\ p.pc = "after" /\ p.wanted = processor.wanted /\ p.boot = processor.boot
            /\ p.configured = processor.configured /\ p.after = processor.after
            /\ p.kind = processor.kind /\ p.answer = processor.answer
        BY DEF Processors
      <4>. QED BY <3>1, <4>1, <4>2 DEF Connect
    <3>2. CASE AutoReconnect
      BY <3>2 DEF AutoReconnect
    <3>. QED BY <1>7, <3>1, <3>2
  <2>2. newest \in Conns /\ line' = line \cup {newest} /\ frames[newest] = <<>>
    BY <2>1, ConnectedLine DEF TypeOK
  <2>3. /\ UNCHANGED <<frames, radio, device>> /\ processor'.conn = newest
        /\ processor'.pc = p.pc /\ processor'.kind = p.kind /\ processor'.answer = p.answer
        /\ processor'.reconciled = FALSE /\ Kept
    BY <2>1 DEF connected, Kept, deviceVars, Processors
  <2>4. settled' => settled
    BY <2>1, <2>3 DEF settled
  <2>. QED BY <2>1, <2>2, <2>3, <2>4, GrowOwn
<1>8. CASE Resume
  <2>. DEFINE p == [processor EXCEPT !.pc = "verify",
                                     !.next = resume_after(processor.after.highwater)]
  <2>1. submitted(p, "status") /\ p.next <= MaxId /\ processor.pc = "resume"
    BY <1>8 DEF Resume
  <2>2. /\ p.next = resume_after(processor.after.highwater)
        /\ p.conn = processor.conn /\ p.wanted = processor.wanted
        /\ p.boot = processor.boot /\ p.after = processor.after /\ p.pc = "verify"
        /\ p.configured = processor.configured /\ p.reconciled = processor.reconciled
    BY DEF Processors
  <2>3. /\ processor.after.highwater \in 0 .. MaxId /\ processor.next \in 1 .. MaxId + 1
    BY DEF Processors, Snapshots
  <2>4. p.next \in 1 .. MaxId
    BY <2>1, <2>2, <2>3, ResumptionAssumption DEF resume_after
  <2>5. p \in Processors
    <3>1. resume_after(processor.after.highwater) \in 1 .. MaxId + 1
      BY <2>2, <2>4, ResumptionAssumption
    <3>. QED BY <3>1 DEF Processors
  <2>6. processor.conn \in line => Below(frames[processor.conn], p.next)
    BY <2>1, EmptyIds DEF CInv, Untouched
  <2>7. /\ processor'.pc = "verify" /\ processor'.reconciled = processor.reconciled
        /\ processor'.answer = "none"
    BY <2>1, <2>2, <2>4, <2>5, SubmittedTypes DEF Kinds
  <2>8. settled' => settled
    BY <2>7 DEF settled
  <2>9. "status" \in Kinds
    BY DEF Kinds
  <2>. HIDE DEF p
  <2>. QED BY <2>1, <2>2, <2>4, <2>5, <2>6, <2>8, <2>9, SendOwn
<1>9. ASSUME NEW kind \in Kinds, Issue(kind) PROVE DInv'
  <2>. DEFINE p == [processor EXCEPT !.pc = "command", !.commands = @ + 1]
  <2>1. submitted(p, kind) /\ processor.next <= MaxId /\ settled
    BY <1>9 DEF Issue, settled
  <2>2. /\ p.next = processor.next /\ p.conn = processor.conn /\ p.wanted = processor.wanted
        /\ p.boot = processor.boot /\ p.after = processor.after
        /\ p.configured = processor.configured
    BY DEF Processors
  <2>3. p \in Processors
    <3>1. processor.commands + 1 \in Nat
      BY DEF Processors
    <3>. QED BY <3>1 DEF Processors
  <2>4. p.next \in 1 .. MaxId
    BY <2>1, <2>2, ResumptionAssumption DEF Processors
  <2>5. processor.conn \in line => Below(frames[processor.conn], p.next)
    BY <2>1, <2>2 DEF CInv, Settled
  <2>. HIDE DEF p
  <2>. QED BY <2>1, <2>2, <2>3, <2>4, <2>5, SendOwn
<1>10. CASE UNCHANGED vars
  <2>1. line' = line
    BY <1>10 DEF vars, radioVars, line
  <2>. QED BY <1>1, <1>10, <2>1 DEF vars, radioVars, deviceVars, Kept
<1>. QED BY <1>2, <1>3, <1>4, <1>5, <1>6, <1>7, <1>8, <1>9, <1>10 DEF Next, Quiet

LEMMA InitOwn == Init => DInv
<1>. SUFFICES ASSUME Init PROVE DInv
  OBVIOUS
<1>1. line = {} /\ radio.boot = 1
  BY ConnsAreNumbers DEF Init, line, newRadio
<1>2. /\ processor.pc = "check" /\ processor.configured = FALSE
      /\ processor.boot = 0 /\ processor.after.boot = 0
  BY DEF Init, newProcessor, NoSnapshot
<1>. QED BY <1>1, <1>2
     DEF DInv, OwnConnection, OnlyOwn, Question, Answered, Boots, ConfigurationHolds

\* A configured session's settings are the device's for as long as the boot it
\* remembers lasts, whatever was lost, left over, repeated or replaced.
THEOREM ConfigurationTheorem == Spec => []ConfigurationHolds
<1>1. IInv /\ DInv /\ [Next]_vars => (IInv /\ DInv)'
  BY TypeStep, IdStep, OwnStep DEF IInv
<1>2. Init => IInv /\ DInv
  BY InitInv, InitOwn
<1>3. DInv => ConfigurationHolds
  BY DEF DInv
<1>. QED BY <1>1, <1>2, <1>3, PTL DEF Spec

-----------------------------------------------------------------------------
(* Commands without identifiers: refinement of DirectCommands.             *)

\* A command as DirectCommands has it, when the identifier n is waited for.
DirectFrames == [kind : Kinds, settings : Wanted, asked : BOOLEAN]
plain(f, n) == [kind |-> f.kind, settings |-> f.settings, asked |-> f.id = n]

LEMMA DirectSeq ==
  ASSUME NEW q \in Seq(Frames), NEW n
  PROVE  /\ direct(q, n) \in Seq(DirectFrames) /\ Len(direct(q, n)) = Len(q)
         /\ \A i \in 1 .. Len(q) : direct(q, n)[i] = plain(q[i], n)
<1>. DEFINE m == Len(q)  d == direct(q, n)
<1>1. m \in Nat /\ \A i \in 1 .. m : q[i] \in Frames
  BY LenProperties, ElementOfSeq
<1>2. d = [i \in 1 .. m |-> plain(q[i], n)]
  BY DEF direct, plain
<1>3. \A f \in Frames : plain(f, n) \in DirectFrames
  BY DEF Frames, plain, DirectFrames
<1>4. d \in [1 .. m -> DirectFrames]
  BY <1>1, <1>2, <1>3
<1>5. d \in Seq(DirectFrames)
  BY <1>1, <1>4, SeqDef
<1>6. Len(d) = m
  BY <1>1, <1>4, <1>5, LenProperties
<1>. QED BY <1>2, <1>5, <1>6

LEMMA DirectEmpty == ASSUME NEW n PROVE direct(<<>>, n) = <<>>
<1>1. <<>> \in Seq(Frames) /\ Len(<<>>) = 0
  BY EmptySeq
<1>2. direct(<<>>, n) \in Seq(DirectFrames) /\ Len(direct(<<>>, n)) = 0
  BY <1>1, DirectSeq
<1>. QED BY <1>2, EmptySeq

LEMMA DirectTail ==
  ASSUME NEW q \in Seq(Frames), q # <<>>, NEW n
  PROVE  /\ direct(q, n) # <<>> /\ Head(direct(q, n)) = plain(Head(q), n)
         /\ Tail(direct(q, n)) = direct(Tail(q), n)
<1>. DEFINE d == direct(q, n)  t == Tail(q)
<1>1. /\ Len(q) \in Nat \ {0} /\ t \in Seq(Frames) /\ Len(t) = Len(q) - 1
      /\ Head(q) = q[1] /\ \A i \in 1 .. Len(t) : t[i] = q[i + 1]
  BY HeadTailProperties, LenProperties, EmptySeq
<1>2. /\ d \in Seq(DirectFrames) /\ Len(d) = Len(q)
      /\ \A i \in 1 .. Len(q) : d[i] = plain(q[i], n)
  BY DirectSeq
<1>3. d # <<>>
  BY <1>1, <1>2, EmptySeq
<1>4. Head(d) = d[1] /\ Tail(d) \in Seq(DirectFrames) /\ Len(Tail(d)) = Len(q) - 1
      /\ \A i \in 1 .. Len(Tail(d)) : Tail(d)[i] = d[i + 1]
  BY <1>2, <1>3, HeadTailProperties
<1>5. /\ direct(t, n) \in Seq(DirectFrames) /\ Len(direct(t, n)) = Len(t)
      /\ \A i \in 1 .. Len(t) : direct(t, n)[i] = plain(t[i], n)
  BY <1>1, DirectSeq
<1>6. \A i \in 1 .. Len(t) : i + 1 \in 1 .. Len(q)
  BY <1>1
<1>7. Tail(d) = direct(t, n)
  <2>1. \A i \in 1 .. Len(t) : Tail(d)[i] = direct(t, n)[i]
    BY <1>1, <1>2, <1>4, <1>5, <1>6
  <2>. QED BY <1>1, <1>4, <1>5, <2>1, SeqEqual
<1>. QED BY <1>1, <1>2, <1>3, <1>4, <1>7

\* The identifier of the command appended is the only one waited for.
LEMMA DirectAppend ==
  ASSUME NEW q \in Seq(Frames), NEW f \in Frames, Below(q, f.id)
  PROVE  direct(Append(q, f), f.id)
           = Append(direct(q, 0), [kind |-> f.kind, settings |-> f.settings, asked |-> TRUE])
<1>. DEFINE r == Append(q, f)  d == direct(q, 0)
            a == [kind |-> f.kind, settings |-> f.settings, asked |-> TRUE]
            e == Append(d, a)
<1>1. /\ r \in Seq(Frames) /\ Len(r) = Len(q) + 1 /\ Len(q) \in Nat
      /\ \A i \in 1 .. Len(q) : r[i] = q[i] /\ r[Len(q) + 1] = f
  BY AppendProperties, LenProperties
<1>2. r[Len(q) + 1] = f
  BY AppendProperties
<1>3. /\ d \in Seq(DirectFrames) /\ Len(d) = Len(q)
      /\ \A i \in 1 .. Len(q) : d[i] = plain(q[i], 0)
  BY DirectSeq
<1>4. a \in DirectFrames
  BY DEF Frames, DirectFrames
<1>5. /\ e \in Seq(DirectFrames) /\ Len(e) = Len(q) + 1 /\ e[Len(q) + 1] = a
      /\ \A i \in 1 .. Len(q) : e[i] = d[i]
  BY <1>3, <1>4, AppendProperties
<1>6. /\ direct(r, f.id) \in Seq(DirectFrames) /\ Len(direct(r, f.id)) = Len(r)
      /\ \A i \in 1 .. Len(r) : direct(r, f.id)[i] = plain(r[i], f.id)
  BY <1>1, DirectSeq
<1>7. \A i \in 1 .. Len(q) : q[i].id \in 1 .. MaxId /\ q[i].id # f.id
  <2>1. \A i \in 1 .. Len(q) : q[i] \in Frames
    BY ElementOfSeq
  <2>. QED BY <2>1, ResumptionAssumption DEF Frames, Below
<1>8. \A i \in 1 .. Len(q) : plain(q[i], f.id) = plain(q[i], 0)
  <2>1. \A i \in 1 .. Len(q) : (q[i].id = f.id) = FALSE /\ (q[i].id = 0) = FALSE
    BY <1>7, ResumptionAssumption
  <2>. QED BY <2>1 DEF plain
<1>9. plain(f, f.id) = a
  BY DEF plain
<1>10. \A i \in 1 .. Len(r) : direct(r, f.id)[i] = e[i]
  <2>. SUFFICES ASSUME NEW i \in 1 .. Len(r) PROVE direct(r, f.id)[i] = e[i]
    BY Zenon
  <2>1. CASE i \in 1 .. Len(q)
    BY <1>1, <1>3, <1>5, <1>6, <1>8, <2>1
  <2>2. CASE i = Len(q) + 1
    <3>1. r[i] = f /\ e[i] = a
      BY <1>2, <1>5, <2>2, Zenon
    <3>2. direct(r, f.id)[i] = plain(r[i], f.id)
      BY <1>6, Zenon
    <3>. QED BY <1>9, <3>1, <3>2, Zenon
  <2>3. i \in 1 .. Len(q) \/ i = Len(q) + 1
    BY <1>1
  <2>. QED BY <2>1, <2>2, <2>3, Zenon
<1>. QED BY <1>1, <1>5, <1>6, <1>10, SeqEqual, ZenonT(40)

LEMMA DirectCleared ==
  ASSUME NEW q \in Seq(Frames), NEW n
  PROVE  [i \in 1 .. Len(direct(q, n)) |-> Direct!marked(direct(q, n)[i], FALSE)]
           = direct(q, 0)
<1>1. /\ Len(direct(q, n)) = Len(q)
      /\ \A i \in 1 .. Len(q) : direct(q, n)[i] = plain(q[i], n)
  BY DirectSeq
<1>2. \A i \in 1 .. Len(q) : (q[i].id = 0) = FALSE
  <2>1. \A i \in 1 .. Len(q) : q[i] \in Frames
    BY ElementOfSeq
  <2>. QED BY <2>1, ResumptionAssumption DEF Frames
<1>3. \A i \in 1 .. Len(q) : Direct!marked(plain(q[i], n), FALSE) = plain(q[i], 0)
  <2>. SUFFICES ASSUME NEW i \in 1 .. Len(q)
                PROVE  Direct!marked(plain(q[i], n), FALSE) = plain(q[i], 0)
    BY Zenon
  <2>1. plain(q[i], n).kind = q[i].kind /\ plain(q[i], n).settings = q[i].settings
    BY DEF plain
  <2>. QED BY <1>2, <2>1, Zenon DEF plain, Direct!marked
<1>4. direct(q, 0) = [i \in 1 .. Len(q) |-> plain(q[i], 0)]
  BY DEF direct, plain
<1>. QED BY <1>1, <1>3, <1>4

\* What is on its way when nothing is waited for.
LEMMA Forgotten ==
  TypeOK => Direct!forgotten = [c \in Conns |-> direct(frames[c], 0)]
<1>. SUFFICES ASSUME TypeOK PROVE Direct!forgotten = [c \in Conns |-> direct(frames[c], 0)]
  OBVIOUS
<1>1. \A c \in Conns : onTheWay[c] = direct(frames[c], awaited(c))
  BY Zenon DEF onTheWay
<1>2. \A c \in Conns :
        [i \in 1 .. Len(onTheWay[c]) |-> Direct!marked(onTheWay[c][i], FALSE)]
          = direct(frames[c], 0)
  <2>. TAKE c \in Conns
  <2>1. frames[c] \in Seq(Frames)
    BY DEF TypeOK
  <2>. DEFINE d == direct(frames[c], awaited(c))
  <2>2. [i \in 1 .. Len(d) |-> Direct!marked(d[i], FALSE)] = direct(frames[c], 0)
    BY <2>1, DirectCleared
  <2>3. onTheWay[c] = d
    BY <1>1
  <2>. HIDE DEF d
  <2>. QED BY <2>2, <2>3
<1>. QED BY <1>2, Zenon DEF Direct!forgotten

\* A wait ends, its connection is given up, or none was under way.
LEMMA ForgetDirect ==
  ASSUME TypeOK, UNCHANGED <<frames, owner, device>>,
         processor'.answer \in {processor.answer, "none"},
         \A c \in Conns : frames[c] = <<>> \/ (awaited(c))' = 0
  PROVE  Direct!Forget
<1>1. \A c \in Conns : (direct(frames[c], awaited(c)))' = direct(frames[c], 0)
  <2>. TAKE c \in Conns
  <2>1. (direct(frames[c], awaited(c)))' = direct(frames[c], (awaited(c))')
    BY DEF direct
  <2>2. CASE frames[c] = <<>>
    BY <2>1, <2>2, DirectEmpty
  <2>. QED BY <2>1, <2>2
<1>2. onTheWay' = [c \in Conns |-> direct(frames[c], 0)]
  BY <1>1, Zenon DEF onTheWay
<1>3. onTheWay' = Direct!forgotten
  BY <1>2, Forgotten
<1>. QED BY <1>3 DEF Direct!Forget

LEMMA CloseDirect ==
  ASSUME TypeOK, NEW k \in Conns, frames' = [frames EXCEPT ![k] = <<>>],
         owner' = IF k = owner THEN NoConnection ELSE owner,
         device' = device, processor'.answer = processor.answer,
         processor'.pc = processor.pc, processor'.conn = processor.conn,
         processor'.waiting = processor.waiting
  PROVE  Direct!Close(k)
<1>1. \A c \in Conns : (awaited(c))' = awaited(c)
  BY DEF awaited, waits
<1>2. \A c \in Conns :
        (direct(frames[c], awaited(c)))' = IF c = k THEN <<>> ELSE direct(frames[c], awaited(c))
  <2>. TAKE c \in Conns
  <2>1. (direct(frames[c], awaited(c)))' = direct(frames'[c], awaited(c))
    BY <1>1 DEF direct
  <2>2. CASE c = k
    BY <2>1, <2>2, DirectEmpty DEF TypeOK
  <2>3. CASE c # k
    BY <2>1, <2>3 DEF TypeOK
  <2>. QED BY <2>2, <2>3
<1>3. onTheWay' = [onTheWay EXCEPT ![k] = <<>>]
  BY <1>2 DEF onTheWay
<1>. QED BY <1>3 DEF Direct!Close

\* A command that is sent is waited for, and nothing else is.
LEMMA AskDirect ==
  ASSUME TypeOK, ~waits, NEW p \in Processors, p.conn = processor.conn,
         p.pc \in {"verify", "command"},
         p.next \in 1 .. MaxId, NEW kind \in Kinds, submitted(p, kind),
         processor.conn \in line => Below(frames[processor.conn], p.next)
  PROVE  Direct!Forget \/ \E c \in Conns : Direct!Ask(c)
<1>. DEFINE k == processor.conn  f == command(p, kind)
<1>1. /\ k \in line => frames' = [frames EXCEPT ![k] = Append(@, f)]
      /\ k \notin line => frames' = frames
      /\ f \in Frames /\ f.id = p.next /\ processor'.conn = k
      /\ processor'.answer = "none" /\ processor'.pc = p.pc
  BY SubmittedTypes
<1>2. processor'.waiting = p.next /\ waits'
  BY <1>1 DEF submitted, Processors, waits
<1>3. \A c \in Conns : (awaited(c))' = IF c = k THEN f.id ELSE 0
  BY <1>1, <1>2 DEF awaited
<1>4. UNCHANGED <<owner, device>>
  BY DEF submitted, deviceVars
<1>5. CASE k \notin line
  <2>1. \A c \in Conns : frames[c] = <<>> \/ (awaited(c))' = 0
    BY <1>3, <1>5 DEF TypeOK
  <2>. QED BY <1>1, <1>4, <1>5, <2>1, ForgetDirect
<1>6. CASE k \in line
  <2>1. k \in Conns /\ frames[k] \in Seq(Frames)
    BY <1>6 DEF line, TypeOK
  <2>. DEFINE a == [kind |-> f.kind, settings |-> f.settings, asked |-> TRUE]
              left == [c \in Conns |-> direct(frames[c], 0)]
  <2>2. ASSUME NEW c \in Conns, c = k
        PROVE  (direct(frames[c], awaited(c)))' = Append(direct(frames[c], 0), a)
    <3>1. frames'[c] = Append(frames[c], f) /\ (awaited(c))' = f.id
      BY <1>1, <1>3, <1>6, <2>1, <2>2 DEF TypeOK
    <3>2. (direct(frames[c], awaited(c)))' = direct(Append(frames[c], f), f.id)
      BY <3>1 DEF direct
    <3>3. Below(frames[c], f.id)
      BY <1>1, <1>6, <2>2
    <3>. QED BY <1>1, <2>1, <2>2, <3>2, <3>3, DirectAppend
  <2>3. \A c \in Conns : c # k => (direct(frames[c], awaited(c)))' = direct(frames[c], 0)
    BY <1>1, <1>3, <1>6, <2>1 DEF direct, TypeOK
  <2>4. onTheWay' = [c \in Conns |-> IF c = k THEN Append(direct(frames[c], 0), a)
                                     ELSE direct(frames[c], 0)]
    <3>1. \A c \in Conns : (direct(frames[c], awaited(c)))'
                            = IF c = k THEN Append(direct(frames[c], 0), a)
                              ELSE direct(frames[c], 0)
      <4>. TAKE c \in Conns
      <4>1. CASE c = k
        BY <2>2, <4>1, Zenon
      <4>2. CASE c # k
        BY <2>3, <4>2, Zenon
      <4>. QED BY <4>1, <4>2, Zenon
    <3>. QED BY <3>1, Zenon DEF onTheWay
  <2>5. onTheWay' = [left EXCEPT ![k] = Append(@, a)]
    BY <2>1, <2>4
  <2>6. Direct!forgotten = left
    BY Forgotten
  <2>7. f \in [id : 1 .. MaxId, kind : Kinds, settings : Wanted]
    BY <1>1 DEF Frames
  <2>8. PICK o \in [kind : Kinds, settings : Wanted] : o.kind = f.kind /\ o.settings = f.settings
    <3>1. [kind |-> f.kind, settings |-> f.settings] \in [kind : Kinds, settings : Wanted]
      BY <2>7
    <3>. QED BY <3>1
  <2>9. Direct!marked(o, TRUE) = a
    BY <2>8, Zenon DEF Direct!marked
  <2>10. Direct!Ask(k)
    BY <1>1, <1>4, <2>5, <2>6, <2>9 DEF Direct!Ask
  <2>. QED BY <2>1, <2>10
<1>. QED BY <1>5, <1>6

\* A command admitted has the effect, and the verdict, of the command itself.
LEMMA ExecuteDirect ==
  ASSUME TypeOK, DeviceInv, NEW f \in Frames, NEW n, Execute(f)
  PROVE  /\ Direct!Act(plain(f, n))
         /\ outcome(f) = IF Direct!permitted(plain(f, n)) THEN "executed" ELSE "refused"
<1>. DEFINE c == plain(f, n)
<1>1. c.kind = f.kind /\ c.settings = f.settings /\ f.kind \in Kinds
      /\ f.settings \in Settings
  BY ResumptionAssumption DEF plain, Frames
<1>2. /\ Direct!permitted(c) <=> legal(f.kind) /\ (f.kind = "configure" => valid(f.settings))
      /\ device.streaming \in BOOLEAN /\ device.settings \in Settings /\ valid(device.settings)
  BY <1>1 DEF Direct!permitted, legal, TypeOK, DeviceTypeOK, valid
<1>3. outcome(f) = IF Direct!permitted(c) THEN "executed" ELSE "refused"
  <2>1. f.kind \in {"start", "stop"} /\ legal(f.kind) => stream.exists
    BY StreamLives DEF Execute, commit
  <2>. QED BY <1>2, <2>1 DEF outcome
<1>. DEFINE takes == /\ device'.settings = IF f.kind = "configure" /\ Direct!permitted(c)
                                             THEN f.settings ELSE device.settings
                     /\ device'.streaming <=> \/ device.streaming /\ f.kind # "stop"
                                              \/ f.kind = "start" /\ Direct!permitted(c)
                     /\ device'.streaming \in BOOLEAN
<1>4. takes
  <2>1. CASE f.kind = "status" /\ UNCHANGED deviceVars
    BY <1>2, <2>1 DEF deviceVars
  <2>2. CASE f.kind # "status" /\ ~legal(f.kind) /\ UNCHANGED deviceVars
    BY <1>2, <2>2 DEF deviceVars, legal
  <2>3. CASE f.kind = "configure" /\ legal(f.kind) /\ commit(f.settings, "none")
    BY <1>2, <2>3 DEF commit, applied, TypeOK, DeviceTypeOK
  <2>4. CASE f.kind = "start" /\ legal(f.kind) /\ commit(device.settings, f.kind)
    BY <1>2, <2>4, StreamLives DEF commit, activated, applied, TypeOK, DeviceTypeOK
  <2>5. CASE f.kind = "stop" /\ legal(f.kind) /\ commit(device.settings, f.kind)
    BY <1>2, <2>5, StreamLives DEF commit, applied, TypeOK, DeviceTypeOK
  <2>. QED BY <2>1, <2>2, <2>3, <2>4, <2>5 DEF Execute
<1>5. Direct!Act(c)
  BY <1>1, <1>4 DEF Direct!Act
<1>. QED BY <1>3, <1>5

LEMMA ReceiveDirect == IInv /\ Receive => Direct!Deliver
<1>. SUFFICES ASSUME IInv, TypeOK, DeviceInv, CInv, Receive PROVE Direct!Deliver
  BY DEF IInv
<1>. DEFINE q == frames[owner]  f == Head(q)  n == awaited(owner)  c == plain(f, n)
<1>1. /\ line = {owner} /\ owner \in Conns /\ owner # NoConnection
      /\ q \in Seq(Frames) /\ q # <<>> /\ f \in Frames
      /\ frames' = [frames EXCEPT ![owner] = Tail(q)] /\ owner' = owner
  BY ReceiveTypes DEF Receive
<1>2. f.id > radio.highwater /\ ~(f.id <= radio.highwater)
  <2>1. Increasing(q) /\ Above(q, radio.highwater) /\ radio.highwater \in Nat
    BY <1>1, ResumptionAssumption DEF CInv, Fresh, TypeOK
  <2>. QED BY <1>1, <2>1, TailIds, FrameId
<1>3. Execute(f) /\ answered(f, outcome(f))
  BY <1>2 DEF Receive
<1>4. /\ processor'.pc = processor.pc /\ processor'.conn = processor.conn
      /\ processor'.waiting = processor.waiting
      /\ \/ processor'.answer = processor.answer
         \/ f.id = n /\ processor'.answer = outcome(f)
  BY <1>3 DEF answered, awaited, TypeOK, Processors
<1>5. \A k \in Conns : (awaited(k))' = awaited(k)
  BY <1>4 DEF awaited, waits
<1>6. onTheWay[owner] # <<>> /\ Head(onTheWay[owner]) = c
      /\ Tail(onTheWay[owner]) = direct(Tail(q), n)
  <2>1. onTheWay[owner] = direct(q, n)
    BY <1>1 DEF onTheWay
  <2>. QED BY <1>1, <2>1, DirectTail
<1>7. onTheWay' = [onTheWay EXCEPT ![owner] = Tail(onTheWay[owner])]
  <2>1. \A k \in Conns : (direct(frames[k], awaited(k)))'
                          = IF k = owner THEN direct(Tail(q), n) ELSE direct(frames[k], awaited(k))
    <3>. TAKE k \in Conns
    <3>1. (direct(frames[k], awaited(k)))' = direct(frames'[k], awaited(k))
      BY <1>5 DEF direct
    <3>2. frames'[k] = IF k = owner THEN Tail(q) ELSE frames[k]
      BY <1>1 DEF TypeOK
    <3>. QED BY <3>1, <3>2
  <2>2. onTheWay' = [k \in Conns |-> IF k = owner THEN direct(Tail(q), n)
                                     ELSE direct(frames[k], awaited(k))]
    BY <2>1, Zenon DEF onTheWay
  <2>3. onTheWay = [k \in Conns |-> direct(frames[k], awaited(k))]
    BY Zenon DEF onTheWay
  <2>. QED BY <1>1, <1>6, <2>2, <2>3
<1>8. Direct!Act(c) /\ outcome(f) = IF Direct!permitted(c) THEN "executed" ELSE "refused"
  BY <1>1, <1>3, ExecuteDirect
<1>9. c.asked <=> f.id = n
  BY DEF plain
<1>. HIDE DEF c, n
<1>10. \/ processor'.answer = processor.answer
       \/ c.asked /\ processor'.answer = IF Direct!permitted(c) THEN "executed" ELSE "refused"
  BY <1>4, <1>8, <1>9
<1>. QED BY <1>1, <1>6, <1>7, <1>8, <1>10 DEF Direct!Deliver

LEMMA AcceptDirect ==
  TypeOK /\ Accept => Direct!Grant \/ \E c \in Conns : Direct!Close(c)
<1>. SUFFICES ASSUME TypeOK, Accept PROVE Direct!Grant \/ \E c \in Conns : Direct!Close(c)
  OBVIOUS
<1>1. Head(backlog) \in Conns /\ Head(backlog) # owner /\ UNCHANGED device
  <2>1. backlog \in Seq(Conns) /\ backlog # <<>>
    BY DEF Accept, TypeOK
  <2>2. 1 \in 1 .. Len(backlog) /\ Head(backlog) = backlog[1] /\ Head(backlog) \in Conns
    BY <2>1, HeadTailProperties, EmptySeq
  <2>. QED BY <2>2 DEF TypeOK, Accept, deviceVars
<1>2. /\ processor'.pc = processor.pc /\ processor'.conn = processor.conn
      /\ processor'.waiting = processor.waiting /\ processor'.answer = processor.answer
  BY DEF Accept, TypeOK, Processors
<1>3. CASE owner = NoConnection /\ owner' = Head(backlog) /\ UNCHANGED frames
  <2>1. \A c \in Conns : (direct(frames[c], awaited(c)))' = direct(frames[c], awaited(c))
    BY <1>2, <1>3 DEF direct, awaited, waits
  <2>2. onTheWay' = onTheWay
    BY <2>1, Zenon DEF onTheWay
  <2>. QED BY <1>1, <1>2, <1>3, <2>2 DEF Direct!Grant
<1>4. CASE /\ owner # NoConnection
           /\ frames' = [frames EXCEPT ![Head(backlog)] = <<>>] /\ UNCHANGED owner
  BY <1>1, <1>2, <1>4, CloseDirect
<1>. QED BY <1>3, <1>4 DEF Accept

LEMMA RebootDirect == TypeOK /\ Reboot => Direct!Restart
<1>. SUFFICES ASSUME TypeOK, Reboot PROVE Direct!Restart
  OBVIOUS
<1>1. /\ frames' = [c \in Conns |-> <<>>] /\ owner' = NoConnection /\ processor' = processor
      /\ \E s \in Settings : valid(s) /\ device' = booted(s)
  BY DEF Reboot
<1>2. \A c \in Conns : (direct(frames[c], awaited(c)))' = <<>>
  <2>. TAKE c \in Conns
  <2>1. (direct(frames[c], awaited(c)))' = direct(<<>>, (awaited(c))')
    BY <1>1 DEF direct
  <2>. QED BY <2>1, DirectEmpty
<1>3. onTheWay' = Direct!NothingSent
  BY <1>2, Zenon DEF onTheWay, Direct!NothingSent
<1>4. device'.settings \in {s \in Settings : valid(s)} /\ device'.streaming = FALSE
  BY <1>1 DEF booted, valid
<1>. QED BY <1>1, <1>3, <1>4 DEF Direct!Restart

\* Steps of the processor that send nothing, and new connections.
LEMMA QuietDirect ==
  TypeOK /\ (Quiet \/ Connect \/ AutoReconnect) => Direct!Forget
<1>. SUFFICES ASSUME TypeOK, Quiet \/ Connect \/ AutoReconnect PROVE Direct!Forget
  OBVIOUS
<1>0. processor \in Processors /\ NoConnection \notin Conns
  BY ConnsAreNumbers DEF TypeOK
<1>1. UNCHANGED <<frames, owner, device>>
  BY DEF Quiet, Check, ReadBefore, ReadAfter, ReconcileFails, Verified, Evidence, NoEvidence,
         ClientFails, EndPass, Replace, Connect, AutoReconnect, connected, radioVars, deviceVars
<1>2. ASSUME processor'.answer \in {processor.answer, "none"}, ~waits'
      PROVE  Direct!Forget
  <2>1. \A c \in Conns : (awaited(c))' = 0
    BY <1>2 DEF awaited
  <2>. QED BY <1>1, <1>2, <2>1, ForgetDirect
<1>3. CASE Check \/ ReadBefore \/ ReadAfter \/ EndPass
  <2>1. processor'.answer = processor.answer /\ processor'.pc \in {"pass", "connect", "resume", "check"}
    BY <1>0, <1>3 DEF Check, ReadBefore, ReadAfter, EndPass, Become, Processors
  <2>. QED BY <1>2, <2>1 DEF waits
<1>4. CASE ReconcileFails \/ Verified \/ Evidence \/ NoEvidence
  <2>1. processor'.answer = "none" /\ processor'.pc \in {"pass", "check"}
    BY <1>0, <1>4, ZenonT(40) DEF ReconcileFails, Verified, Evidence, NoEvidence, returned, Processors
  <2>. QED BY <1>2, <2>1 DEF waits
<1>5. CASE ClientFails
  <2>1. processor'.answer = processor.answer /\ processor'.conn = NoConnection
    BY <1>0, <1>5 DEF ClientFails, Processors
  <2>2. \A c \in Conns : (awaited(c))' = 0
    BY <1>0, <2>1 DEF awaited
  <2>. QED BY <1>1, <2>1, <2>2, ForgetDirect
<1>6. CASE Replace
  <2>1. processor'.answer = "none" /\ processor'.pc = "check"
    BY <1>6 DEF Replace, newProcessor
  <2>. QED BY <1>2, <2>1 DEF waits
<1>7. CASE Connect
  <2>1. processor'.answer = processor.answer /\ processor'.pc = "after"
    BY <1>0, <1>7 DEF Connect, connected, Processors
  <2>. QED BY <1>2, <2>1 DEF waits
<1>8. CASE AutoReconnect
  <2>1. processor'.answer = processor.answer /\ processor'.conn = newest
    BY <1>0, <1>8 DEF AutoReconnect, connected, Processors
  <2>2. frames[newest] = <<>>
    BY <1>8, NewConnection DEF AutoReconnect, connected
  <2>3. \A c \in Conns : frames[c] = <<>> \/ (awaited(c))' = 0
    <3>. TAKE c \in Conns
    <3>1. CASE c = newest
      BY <2>2, <3>1
    <3>2. CASE c # newest
      BY <2>1, <3>2 DEF awaited
    <3>. QED BY <3>1, <3>2
  <2>. QED BY <1>1, <2>1, <2>3, ForgetDirect
<1>. QED BY <1>3, <1>4, <1>5, <1>6, <1>7, <1>8 DEF Quiet

LEMMA DirectStep == IInv /\ [Next]_vars => [Direct!DirectNext]_(Direct!directVars)
<1>. SUFFICES ASSUME IInv, TypeOK, CInv, Next PROVE Direct!DirectNext
  <2>1. UNCHANGED vars => UNCHANGED Direct!directVars
    BY DEF vars, radioVars, deviceVars, Direct!directVars, onTheWay, direct, awaited, waits
  <2>. QED BY <2>1 DEF IInv
<1>1. CASE DropStale \/ Eof
  <2>1. /\ owner \in Conns /\ owner' = NoConnection /\ UNCHANGED <<device, processor>>
        /\ frames' = [frames EXCEPT ![owner] = <<>>]
    BY <1>1 DEF DropStale, Eof, TypeOK, deviceVars
  <2>2. Direct!Close(owner)
    BY <2>1, CloseDirect
  <2>. QED BY <2>1, <2>2 DEF Direct!DirectNext
<1>2. CASE Accept
  BY <1>2, AcceptDirect DEF Direct!DirectNext
<1>3. CASE Receive
  BY <1>3, ReceiveDirect DEF Direct!DirectNext
<1>4. CASE Reboot
  BY <1>4, RebootDirect DEF Direct!DirectNext
<1>5. CASE Quiet \/ Connect \/ AutoReconnect
  BY <1>5, QuietDirect DEF Direct!DirectNext
<1>6. CASE Resume
  <2>1. PICK p \in Processors :
          /\ p.conn = processor.conn /\ p.pc = "verify" /\ p.next \in 1 .. MaxId
          /\ submitted(p, "status")
    BY <1>6, ResumeSends
  <2>2. processor.pc = "resume"
    BY <1>6 DEF Resume
  <2>3. ~waits /\ Below(frames[processor.conn], p.next)
    BY <2>2, EmptyIds DEF CInv, Untouched, waits
  <2>. QED BY <2>1, <2>3, AskDirect DEF Kinds, Direct!DirectNext
<1>7. ASSUME NEW kind \in Kinds, Issue(kind) PROVE Direct!DirectNext
  <2>1. PICK p \in Processors :
          /\ p.conn = processor.conn /\ p.pc = "command" /\ p.next \in 1 .. MaxId
          /\ p.next = processor.next /\ submitted(p, kind)
    BY <1>7, IssueSends
  <2>2. ~waits
    BY <1>7 DEF Issue, waits
  <2>3. processor.conn \in line => Below(frames[processor.conn], p.next)
    BY <2>1 DEF CInv, Sent
  <2>. QED BY <2>1, <2>2, <2>3, AskDirect DEF Direct!DirectNext
<1>. QED BY <1>1, <1>2, <1>3, <1>4, <1>5, <1>6, <1>7 DEF Next, Quiet

LEMMA InitDirect == Init => Direct!DirectInit
<1>. SUFFICES ASSUME Init PROVE Direct!DirectInit
  OBVIOUS
<1>1. /\ owner = NoConnection /\ frames = [c \in Conns |-> <<>>]
      /\ processor.answer = "none"
  BY DEF Init, newProcessor
<1>2. \A c \in Conns : direct(frames[c], awaited(c)) = <<>>
  BY <1>1, DirectEmpty
<1>3. onTheWay = Direct!NothingSent
  BY <1>2, Zenon DEF onTheWay, Direct!NothingSent
<1>4. device.settings \in {s \in Settings : valid(s)} /\ device.streaming = FALSE
  BY DEF Init, DeviceInit, booted
<1>. QED BY <1>1, <1>3, <1>4 DEF Direct!DirectInit

\* Identifiers, watermark and reconciliation are invisible: radio and processors
\* behave as if every command were executed directly, whatever identifiers
\* replaced processors, abandoned connections and reboots have left behind.
THEOREM DirectRefinement == Spec => ExecutedDirectly
BY Invariance, InitDirect, DirectStep, PTL DEF Spec, ExecutedDirectly, Direct!DirectSpec
=============================================================================
