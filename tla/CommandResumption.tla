--------------------------- MODULE CommandResumption ---------------------------
(***************************************************************************)
(* Command identifiers from processor to device.  A radio executes a       *)
(* command only if its identifier is above all it has admitted; a command  *)
(* with an earlier one is taken for a repetition and answered from         *)
(* retention (external runtime).  A processor counts its commands from 1,  *)
(* so one that replaces another must learn the radio's watermark before it *)
(* sends anything: reconcile (src/processor_controller.cpp), with the      *)
(* snapshot of the radio's main loop (apps/radio.cpp) and resume_after     *)
(* (patches/vrt-command-resumption.patch).  See docs/COMMAND_RESUMPTION.md.*)
(*                                                                         *)
(* One radio with its device (RadioDevice) and one processor at a time.    *)
(* What a dead processor or an abandoned connection has sent may still     *)
(* arrive.  Waiting takes no time here: a wait may time out at any moment, *)
(* and an owner may be found stale at any moment.  A scheduled start is    *)
(* executed when it is received; ProcessorController has its timing.  The  *)
(* delivery of samples, which changes neither settings nor stream, is left *)
(* to RadioDevice.                                                         *)
(***************************************************************************)
EXTENDS RadioDevice, Sequences, FiniteSets

CONSTANTS
  Wanted,         \* what the processors are configured with; a radio may refuse it
  MaxId,          \* the last command identifier (UINT32_MAX)
  MaxLives,       \* bound: processors, one after another
  MaxBoots,       \* bound: starts of the radio process
  Connections,    \* bound: TCP connections known to radio or processor, 1 .. n
  MaxCommands     \* bound: commands of one pass of the worker (3 in the code)

ASSUME ResumptionAssumption ==
  /\ Wanted \subseteq Settings /\ Wanted # {}
  /\ MaxId \in Nat \ {0} /\ MaxLives \in Nat \ {0} /\ MaxBoots \in Nat \ {0}
  /\ Connections \in Nat \ {0} /\ MaxCommands \in Nat \ {0}

VARIABLES
  radio,      \* boot and watermark: the highest identifier admitted
  backlog,    \* connections not yet accepted, in order of arrival
  owner,      \* the accepted connection, or NoConnection
  frames,     \* commands sent on each connection and not yet received
  processor   \* the live processor's session with the radio

radioVars == <<radio, backlog, owner, frames>>
vars == <<deviceVars, radioVars, processor>>

NoConnection == 0
Conns == 1 .. Connections
Kinds == {"status", "configure", "start", "stop"}

NoSnapshot == [boot |-> 0, highwater |-> 0, streaming |-> FALSE, active |-> FALSE]
\* accepted: the radio has granted a generation since the snapshot `before';
\* reconciled: the present connection is the one of reconciled_generation.
newProcessor(l, s) ==
  [life |-> l, wanted |-> s, next |-> 1, conn |-> NoConnection, pc |-> "check",
   before |-> NoSnapshot, accepted |-> FALSE, after |-> NoSnapshot,
   boot |-> 0, streaming |-> FALSE, reconciled |-> FALSE,
   configured |-> FALSE, waiting |-> 0, kind |-> "status", answer |-> "none",
   commands |-> 0]
newRadio(b) == [boot |-> b, highwater |-> 0]
\* Locals of reconcile and of a wait do not outlive it.
returned(p) == [p EXCEPT !.before = NoSnapshot, !.accepted = FALSE, !.after = NoSnapshot,
                         !.waiting = 0, !.kind = "status", !.answer = "none"]

Init ==
  /\ DeviceInit
  /\ radio = newRadio(1)
  /\ backlog = <<>> /\ owner = NoConnection /\ frames = [c \in Conns |-> <<>>]
  /\ \E s \in Wanted : processor = newProcessor(1, s)

\* Connections of which the radio may still receive something.
line == {c \in Conns : c = owner \/ \E i \in 1 .. Len(backlog) : backlog[i] = c}
free == {c \in Conns \ line : c # processor.conn}
newest == CHOOSE c \in free : TRUE    \* the next connection made
waits == processor.pc \in {"verify", "command"}

-----------------------------------------------------------------------------
(* The radio: one branch per call of progress_next, in its order.          *)

\* Seeded fault: bytes of the dropped connection are kept.
DropStale_keepsFrames ==
  /\ owner # NoConnection
  /\ owner' = NoConnection /\ UNCHANGED frames
  /\ UNCHANGED <<deviceVars, radio, backlog, processor>>

\* drop an owner found stale; what it sent and was not received is gone.
DropStale ==
  /\ owner # NoConnection
  /\ owner' = NoConnection /\ frames' = [frames EXCEPT ![owner] = <<>>]
  /\ UNCHANGED <<deviceVars, radio, backlog, processor>>

\* The first waiting connection becomes the owner or, if there is one, is closed.
Accept ==
  /\ backlog # <<>>
  /\ backlog' = Tail(backlog)
  /\ \/ /\ owner = NoConnection
        /\ owner' = Head(backlog) /\ UNCHANGED frames
        /\ processor' = [processor EXCEPT !.accepted = @ \/ processor.pc \in {"connect", "after"}]
     \/ /\ owner # NoConnection
        /\ frames' = [frames EXCEPT ![Head(backlog)] = <<>>]
        /\ UNCHANGED <<owner, processor>>
  /\ UNCHANGED <<deviceVars, radio>>

\* Native configuration and start are illegal while streaming.
legal(kind) == kind \in {"configure", "start"} => ~device.streaming

\* The runtime's execution of an admitted command, by the adapter's commit.
Execute(f) ==
  \/ /\ f.kind = "status" /\ UNCHANGED deviceVars
  \/ /\ f.kind # "status" /\ ~legal(f.kind) /\ UNCHANGED deviceVars
  \/ f.kind = "configure" /\ legal(f.kind) /\ commit(f.settings, "none")
  \/ f.kind \in {"start", "stop"} /\ legal(f.kind) /\ commit(device.settings, f.kind)
outcome(f) ==
  IF /\ legal(f.kind) /\ (f.kind = "configure" => valid(f.settings))
     /\ f.kind \in {"start", "stop"} => stream.exists
    THEN "executed" ELSE "refused"

\* The answer reaches the processor if it still waits for this identifier on
\* this connection, or is lost.
answered(f, a) ==
  \/ UNCHANGED processor
  \/ /\ waits /\ owner = processor.conn /\ f.id = processor.waiting
     /\ processor' = [processor EXCEPT !.answer = a]

\* Seeded fault: the owner is read before a new connection is looked at.
Receive_beforeAccept ==
  /\ owner # NoConnection /\ frames[owner] # <<>>
  /\ frames' = [frames EXCEPT ![owner] = Tail(@)]
  /\ LET f == Head(frames[owner]) IN
     \/ /\ f.id > radio.highwater
        /\ radio' = [radio EXCEPT !.highwater = f.id]
        /\ Execute(f) /\ answered(f, outcome(f))
     \/ /\ f.id <= radio.highwater
        /\ \E a \in {"executed", "refused"} : answered(f, a)
        /\ UNCHANGED <<radio, deviceVars>>
  /\ UNCHANGED <<backlog, owner>>

Receive ==
  /\ backlog = <<>> /\ owner # NoConnection /\ frames[owner] # <<>>
  /\ frames' = [frames EXCEPT ![owner] = Tail(@)]
  /\ LET f == Head(frames[owner]) IN
     \/ /\ f.id > radio.highwater
        /\ radio' = [radio EXCEPT !.highwater = f.id]
        /\ Execute(f) /\ answered(f, outcome(f))
     \/ /\ f.id <= radio.highwater
        /\ \E a \in {"executed", "refused"} : answered(f, a)
        /\ UNCHANGED <<radio, deviceVars>>
  /\ UNCHANGED <<backlog, owner>>

\* The client's end is closed and everything it sent has been received.
Eof ==
  /\ backlog = <<>> /\ owner # NoConnection /\ owner # processor.conn
  /\ frames[owner] = <<>>
  /\ owner' = NoConnection
  /\ UNCHANGED <<deviceVars, radio, backlog, frames, processor>>

\* The radio process ends and starts again, with the defaults of its file.
Reboot ==
  /\ radio.boot < MaxBoots
  /\ radio' = newRadio(radio.boot + 1)
  /\ backlog' = <<>> /\ owner' = NoConnection /\ frames' = [c \in Conns |-> <<>>]
  /\ \E s \in Settings : valid(s) /\ device' = booted(s)
  /\ stream' = [exists |-> TRUE, active |-> FALSE]
  /\ adapter' = TRUE /\ result' = "none" /\ samples' = NoSamples
  /\ UNCHANGED processor

-----------------------------------------------------------------------------
(* The processor.                                                          *)

Become(pc) == processor' = [processor EXCEPT !.pc = pc]

\* A radio's status: its main thread builds it between two turns.
snapshot ==
  [boot |-> radio.boot, streaming |-> device.streaming, active |-> owner # NoConnection,
   highwater |-> radio.highwater]

\* run: a session that is connected, by the reconciled connection, goes on.
Check ==
  /\ processor.pc = "check"
  /\ processor.conn # NoConnection /\ processor.reconciled
  /\ Become("pass")
  /\ UNCHANGED <<deviceVars, radioVars>>

ReadBefore ==
  /\ processor.pc = "check"
  /\ processor.conn = NoConnection \/ ~processor.reconciled
  /\ processor' = [processor EXCEPT !.pc = "connect", !.before = snapshot,
                                    !.accepted = FALSE]
  /\ UNCHANGED <<deviceVars, radioVars>>

\* A connection is made; it waits in the radio's backlog.
connected(p) ==
  /\ free # {}
  /\ backlog' = Append(backlog, newest)
  /\ processor' = [p EXCEPT !.conn = newest, !.reconciled = FALSE]
  /\ UNCHANGED <<deviceVars, radio, owner, frames>>

\* request_reconnect gives up the present connection; its data still arrives.
Connect ==
  /\ processor.pc = "connect"
  /\ connected([processor EXCEPT !.pc = "after"])

ReadAfter ==
  /\ processor.pc = "after"
  /\ processor' = [processor EXCEPT !.pc = "resume", !.after = snapshot]
  /\ UNCHANGED <<deviceVars, radioVars>>

\* The two snapshots are of one process, and the radio has granted a new
\* generation in between.
consistent ==
  /\ processor.after.boot = processor.before.boot
  /\ processor.after.active /\ processor.accepted
\* Seeded fault: the watermark is the one read before connecting.
resume_after_before(w) ==
  IF processor.next > processor.before.highwater THEN processor.next
  ELSE processor.before.highwater + 1

resume_after(w) == IF processor.next > w THEN processor.next ELSE w + 1

anySettings == CHOOSE s \in Wanted : TRUE    \* of a command without any
command(p, kind) ==
  [id |-> p.next, kind |-> kind,
   settings |-> IF kind = "configure" THEN p.wanted ELSE anySettings]
\* What is sent on a connection that the radio has closed is lost.
submitted(p, kind) ==
  /\ frames' = IF p.conn \in line
                 THEN [frames EXCEPT ![p.conn] = Append(@, command(p, kind))] ELSE frames
  /\ processor' = [p EXCEPT !.next = @ + 1, !.waiting = p.next, !.kind = kind,
                            !.answer = "none"]
  /\ UNCHANGED <<deviceVars, radio, backlog, owner>>

\* Raise the floor and ask for the VRT status over the new connection.
Resume ==
  /\ processor.pc = "resume" /\ consistent /\ processor.after.highwater < MaxId
  /\ LET p == [processor EXCEPT !.pc = "verify",
                                !.next = resume_after(processor.after.highwater)] IN
     p.next <= MaxId /\ submitted(p, "status")

ReconcileFails ==
  /\ processor.pc \in {"connect", "after", "resume"}
  /\ processor.pc = "resume" =>
       \/ ~consistent \/ processor.after.highwater = MaxId
       \/ resume_after(processor.after.highwater) > MaxId
  /\ processor' = [returned(processor) EXCEPT !.pc = "check"]
  /\ UNCHANGED <<deviceVars, radioVars>>

\* Seeded fault: the session's configuration survives the radio's reboot.
Verified_keepsConfiguration ==
  /\ processor.pc = "verify" /\ processor.answer = "executed"
  /\ LET a == processor.after IN
     processor' = [returned(processor) EXCEPT !.pc = "pass",
       !.boot = a.boot, !.streaming = a.streaming, !.reconciled = TRUE]
  /\ UNCHANGED <<deviceVars, radioVars>>

\* reconcile succeeds; a boot that differs from the one remembered takes the
\* configuration with it.
Verified ==
  /\ processor.pc = "verify" /\ processor.answer = "executed"
  /\ LET a == processor.after IN
     processor' = [returned(processor) EXCEPT !.pc = "pass",
       !.boot = a.boot, !.streaming = a.streaming, !.reconciled = TRUE,
       !.configured = @ /\ processor.boot = a.boot]
  /\ UNCHANGED <<deviceVars, radioVars>>

\* Commands of a pass: quiesce and configure a session not yet configured,
\* start one that is, and the status of liveness.
needed ==
  IF processor.configured THEN {"start", "status"}
  ELSE IF processor.streaming THEN {"stop"} ELSE {"configure"}
Issue(kind) ==
  /\ processor.pc = "pass" /\ kind \in needed /\ processor.commands < MaxCommands
  /\ processor.conn # NoConnection /\ processor.next <= MaxId
  /\ submitted([processor EXCEPT !.pc = "command", !.commands = @ + 1], kind)

Evidence ==
  /\ processor.pc = "command" /\ processor.answer = "executed"
  /\ processor' = [returned(processor) EXCEPT !.pc = "pass",
       !.configured = @ \/ processor.kind = "configure",
       !.streaming = @ /\ processor.kind # "stop"]
  /\ UNCHANGED <<deviceVars, radioVars>>

\* A wait ends without evidence; after a status of liveness the connection is
\* given up.
NoEvidence ==
  /\ waits
  /\ processor' = [returned(processor) EXCEPT
       !.pc = IF @ = "verify" THEN "check" ELSE "pass",
       !.conn = IF processor.pc = "command" /\ processor.kind = "status"
                  THEN NoConnection ELSE @]
  /\ UNCHANGED <<deviceVars, radioVars>>

\* Between the blocking calls of reconcile, in every wait and at the end of a
\* pass, the transport progresses: it finds its connection closed, or fails it
\* for an expired command, and later makes another that nothing reconciles.
progresses == processor.pc \notin {"connect", "after", "resume"}
ClientFails ==
  /\ progresses /\ processor.conn # NoConnection
  /\ processor' = [processor EXCEPT !.conn = NoConnection]
  /\ UNCHANGED <<deviceVars, radioVars>>
AutoReconnect ==
  /\ progresses /\ processor.conn = NoConnection
  /\ connected(processor)

EndPass ==
  /\ processor.pc = "pass"
  /\ processor' = [processor EXCEPT !.pc = "check", !.commands = 0]
  /\ UNCHANGED <<deviceVars, radioVars>>

\* The processor is replaced: local state is gone, its data may be under way.
Replace ==
  /\ processor.life < MaxLives
  /\ \E s \in Wanted : processor' = newProcessor(processor.life + 1, s)
  /\ UNCHANGED <<deviceVars, radioVars>>

-----------------------------------------------------------------------------

Next ==
  \/ DropStale \/ Accept \/ Receive \/ Eof \/ Reboot
  \/ Check \/ ReadBefore \/ Connect \/ ReadAfter \/ Resume \/ ReconcileFails
  \/ Verified \/ Evidence \/ NoEvidence \/ ClientFails \/ AutoReconnect \/ EndPass \/ Replace
  \/ \E kind \in Kinds : Issue(kind)

Spec == Init /\ [][Next]_vars

-----------------------------------------------------------------------------
(* Properties.                                                             *)

Frames == [id : 1 .. MaxId, kind : Kinds, settings : Wanted]
Snapshots == [boot : 0 .. MaxBoots, highwater : 0 .. MaxId, streaming : BOOLEAN,
              active : BOOLEAN]
Processors ==
  [life : Nat, wanted : Wanted, next : 1 .. MaxId + 1, conn : Conns \cup {NoConnection},
   pc : {"check", "connect", "after", "resume", "verify", "pass", "command"},
   before : Snapshots, accepted : BOOLEAN, after : Snapshots, boot : 0 .. MaxBoots,
   streaming : BOOLEAN, reconciled : BOOLEAN, configured : BOOLEAN,
   waiting : 0 .. MaxId, kind : Kinds, answer : {"none", "executed", "refused"},
   commands : Nat]

\* Types; the radio knows a connection once, and what was sent on a connection
\* that it has closed is gone.
TypeOK ==
  /\ DeviceTypeOK
  /\ radio \in [boot : 1 .. MaxBoots, highwater : 0 .. MaxId]
  /\ owner \in Conns \cup {NoConnection} /\ backlog \in Seq(Conns)
  /\ \A i, j \in 1 .. Len(backlog) : i # j => backlog[i] # backlog[j]
  /\ \A i \in 1 .. Len(backlog) : backlog[i] # owner
  /\ frames \in [Conns -> Seq(Frames)]
  /\ \A c \in Conns \ line : frames[c] = <<>>
  /\ processor \in Processors

\* A frame on the owner's connection, whoever sent it, carries an identifier
\* above everything the radio has admitted: no new command is ever taken for
\* the repetition of an old one.
FreshIdentifiers ==
  owner # NoConnection =>
    \A i \in DOMAIN frames[owner] : frames[owner][i].id > radio.highwater

\* docs/COMMAND_RESUMPTION.md: configuration evidence is real.  While the boot
\* that the session remembers lasts, a configured session's settings are those
\* of the device, through reconnects, lost answers and replaced processors.
ConfigurationHolds ==
  processor.configured /\ processor.boot = radio.boot =>
    device.settings = processor.wanted

\* The command waited for on a connection; no command has identifier 0.
awaited(c) == IF waits /\ c = processor.conn THEN processor.waiting ELSE 0
\* Commands on their way without their identifiers.
direct(q, n) ==
  [i \in 1 .. Len(q) |->
     [kind |-> q[i].kind, settings |-> q[i].settings, asked |-> q[i].id = n]]
onTheWay == [c \in Conns |-> direct(frames[c], awaited(c))]

Direct == INSTANCE DirectCommands WITH
  Commands <- [kind : Kinds, settings : Wanted],
  Acceptable <- {s \in Settings : valid(s)},
  sent <- onTheWay,
  settings <- device.settings, streaming <- device.streaming,
  told <- processor.answer

\* Identifiers and reconciliation are invisible: every command that reaches the
\* radio takes its effect exactly once and in order, none is taken for the
\* repetition of an earlier one by whatever connection or processor, and evidence
\* is of the command waited for, executed since it was sent.
ExecutedDirectly == Direct!DirectSpec
=============================================================================
