# TLA+ specifications of containerlab-vrt

The system is a small software-defined-radio laboratory. Four radio processes
sample a virtual RF source and send VITA-49 packets over UDP. One processor
controls the radios over TCP and turns their samples into spectra. A detector
finds a frequency in each spectrum. A recorder captures packets, and every
role reports its health. The specifications in this directory model the parts
of the program in which several actors, failures and timeouts meet, check them
with TLC on small instances, and prove most of their safety properties for all
sizes with TLAPS.

Paths below are relative to the repository root; the numbers of the map in
`PROJECT.json` are those of the source files at this commit.

## 1. Inventory

| Component | State it keeps | Operations | Talks to |
|---|---|---|---|
| Control ownership slot: `ControlSlot` in `src/status.cpp` | owning generation, next generation, time of last liveness | `acquire`, `observe_liveness`, `release`, `release_if_stale` | radio transport (calls) |
| Radio transport: `src/radio_transport.cpp` | listening, TCP and UDP sockets, held generation, pending status request, partly received frame, submission slots with write offsets and deadlines, round-robin cursor | `send`, `progress_next`, `associate`, `close_admission`, `disconnect_controller`, two `detach`es | VITA runtime (binding callbacks), ownership slot, controller (TCP), processor (UDP) |
| Radio status service: `apps/radio.cpp`, `src/radio_services.cpp` | `StatusCache` (value, sequence, request flag), worker threads, deadline of a transaction | `status_worker`, `serve_status_transaction`, the main loop's publish step | main loop (flag, mutex, condition variable), status clients (TCP) |
| Radio main loop and re-exec: `apps/radio.cpp` | running flag, runtime, adapter | progress, publish, shutdown, re-exec | all radio parts |
| Virtual radio, Soapy device, VRT adapter: `src/virtual_radio.cpp`, `src/soapy_virtual_device.cpp`, `src/vrt_radio_adapter.cpp` | settings, streaming flag and sample ordinal of the source, stream and its active flag, adapter | setters, `begin`, `commit`, `produce`, `readStream`, `skip_samples`, activate, deactivate, set up and close the stream | VITA runtime |
| Processor controller: `src/processor_controller.cpp` | per radio: client transport (socket, slots), remembered boot and status, configured and started flags, reconciled connection, next command identifier; overall: coordinated | `reconcile` (with `resume_commands_after`, `patches/vrt-command-resumption.patch`), `configure`, `restart_after_boot_change`, `liveness`, `coordinate_start`, `run` | radios (TCP control, TCP status) |
| Sample pipeline: `ProcessorCore` and `run_processor` in `apps/udp_pipeline.cpp` | per stream: context, partly filled window, packet count, sample ordinal, sequence; metrics | `consume`, send loop | radios (UDP), detector (UDP) |
| Detector: `DetectorCore` and `run_detector` | per stream: last sequence, silence, report flag; counters | `consume`, unavailable report | processor (UDP) |
| Telemetry and health policy: `src/telemetry.cpp` | error counter seen last, recovery time, last activity, failure latch, next report | `activity`, `heartbeat`, `failed`, `assess` | every role (calls) |
| Recorder: `src/recorder.cpp`, `apps/recorder.cpp` | PCAP writer, metrics, published metrics file | observe, write, finish, `write_metrics` | capture script (files) |
| Capture script: `scripts/capture_session.py` | exit code, copies, manifest | exec, copy, judge | recorder (process, files) |
| Spectrum mathematics, wire format: `src/spectrum.cpp` | none | FFT power, encode, decode | pipeline |
| Configuration: `src/radio_services.cpp` | none | `load_radio_config` | radio |
| VITA runtime: the `vrt_framework` submodule | not part of this tree | | |
| Deployment: `scripts/`, lab topology | none of its own | | |

What is hard in this code:

* **Many ways to lose a connection.** EOF, a framing error, a frame that stops
  arriving, staleness, a send error, two kinds of detach. Each has to close the
  socket, free the ownership slot, drop the pending request and complete every
  queued frame exactly once.
* **Time.** Ownership ends by staleness, submissions and waits by deadlines; a
  start is scheduled at an epoch that may pass while its command is queued.
* **One worker, several radios.** The controller's single thread blocks on one
  radio while the others go on: crash, reboot, start to stream, lose patience.
* **State remembered across a wait.** Boot identifier, streaming flag, reconciled
  connection, and the snapshot a status worker receives.
* **State that outlives its owner.** A radio's watermark of command identifiers
  is compared with those of a processor that knows nothing of its predecessor,
  whose last commands may still be under way.
* **Settings that bound each other.** A bandwidth is valid only below the sample
  rate, and either may be changed first.
* **UDP.** Loss, reordering and duplication against a four-bit packet count.
* **Files read while they are written**, and processes killed between two writes.

What makes each part correct is stated by the properties in section 4. The list
`hazards` of `PROJECT.json` gives each exposed line with the properties that
watch it.

## 2. Modules

```
ControlSlot <- RadioTransport <- RadioTransportProofs      RadioTransport = INSTANCE => ControlOwnership
RadioDevice <- CommandResumption                           CommandResumption = INSTANCE => DirectCommands
RadioDevice <- RadioDeviceProofs <- CommandResumptionProofs    (which extends CommandResumption too)
ProcessorController <- ProcessorControllerProofs
StreamPipeline      <- StreamPipelineProofs
StatusService       <- StatusServiceProofs
ActivityHealth      <- ActivityHealthProofs
CaptureSession      <- CaptureSessionProofs
RadioTransport, RadioDevice, CommandResumption, ProcessorController, StreamPipeline,
StatusService, ActivityHealth, CaptureSession   <- MC<name>, with one .cfg per run
```

`A <- B` says that `B` extends `A`; `=>` is the refinement.

Each `MC` module extends one specification and adds only what a configuration
needs; the `.cfg` files give the constants their values. In all
modules, operators whose comment begins with *Seeded fault* are deliberately
wrong variants of the definition after them. No specification uses them; they
take the definition's place when one wants to see that a property notices.

**ControlSlot, RadioTransport.** One action per call of the transport binding.
The radio's main thread makes all of the calls, so a call is atomic, and its
effects through `fail_control`, `finish` and the ownership slot belong to the
same action. `progress_next` is the disjunction of its branches in the order of
the code: overdue connection, accept, receive, transmit. `submission`, `sent`,
`status_reply` and `age` are the fields of a slot. Time stamps are ages in
ticks, saturated where no comparison can tell the difference any more.
`completion` is what the runtime has been told. The variables `startedOn`,
`askedOn`, `unfinished` and `polled` are not in the code: they record on which
connection a frame was begun and a request was asked, what the byte stream ends
with, and that the loop has run in this tick. The generation counter keeps its
wrap-around (`GenerationLimit` stands for 2^64).

**ControlOwnership.** What a radio promises of its control connection without
sockets and slots: exclusive ownership, no takeover, fresh generations, eviction
of a silent owner before more than the stale timeout has passed.

**DirectCommands.** What `CommandResumption` is for, without identifiers,
watermark, snapshots and reconciliation: on each connection commands are on
their way; the radio takes those of the connection it has granted one after another and
acts on each; a connection may be closed, and what was sent on it lost, at any
moment; a reboot loses everything. Nothing else changes settings or stream, and
what a processor is told is the verdict on the command that it waits for. The
refinement mapping drops the identifiers and marks as `asked` the command whose
identifier the processor waits for, on the connection it has.

**ProcessorController.** The controller with the radios it controls. Variable
`pc` and `at` say which blocking call the worker thread is in, for which
session; `budget` is what is left of its deadline. Time passes only while the
worker blocks and when everything that polls more often than a tick has nothing
left to do. A client transport progresses only while the worker waits on its
session, and for all sessions at the end of a pass, as in the code. The radio's
part is the ownership rules of `RadioTransport` reduced to who owns it, plus the
VITA runtime's execution of commands (external: modelled from how the
controller and the adapter use it). Radios may be left by another controller in
any mode. They may stall; they may crash, and then stay down until somebody starts
them again (`Redeploy`); they may be told by SIGHUP to execute themselves again
(`Hangup`, `ReExec`); and connections may break with a reply on
the way. `MaxFaults` bounds how often. A start that falls due while its radio is
held up is still executed if less than `LateLimit` has passed since its epoch
(`timing.device_late_ps`, `apps/radio.cpp:158`), and dropped afterwards, as
`tests/vrt_scheduled_start_tests.cpp` requires of the runtime (`missed`, `Recover`).

**RadioDevice.** `VirtualRadio` behind `SoapyVirtualDevice`, as `VrtRadioAdapter`
drives it. Every member of the Soapy device holds its mutex for its whole body,
so each call is a step. Settings are compared with their limits and never
computed with; center frequency and gain, whose limits are independent, are one
`tuning`. Samples are counted: `samples` records what was handed to packets and
what was lost, and `produce` may fail in the middle of a window, when the device
has already gone on. `commit` has the code's two ways to fail: `apply_settings`
throws and nothing is changed, or it has succeeded and the stream action throws,
with the settings in force.

**CommandResumption.** One radio, its device (this module extends `RadioDevice`)
and processors that replace each other. It answers the question that
`ProcessorController` leaves out: which commands does a radio take for new ones?
The radio admits an identifier above its watermark and treats any other as a
repetition; a processor counts from one. What a dead processor or an abandoned
connection has sent may still arrive. `reconcile` is split at its blocking calls:
first snapshot, reconnect, second snapshot, raising the floor with a status
command, evidence. Commands are executed by `RadioDevice`'s `commit`. Waiting
takes no time here: any wait may time out and any owner may become stale at any
moment; a scheduled start is executed on receipt (its timing is in
`ProcessorController`), and the delivery of samples is left to `RadioDevice`.

**StreamPipeline.** One stream, since streams share nothing. A sample is the
time at which it was taken, a missing sample is `Missing`; so a window shows what
it was assembled from. `ConsumeData` is the whole of `consume` for a data packet
with the send loop that follows it. Decoding and the FFT are not computed. The
variable `audit` only observes.

**StatusService.** Main loop and worker threads at the grain of the code's
synchronisation: the exchange of the flag, the building of the snapshot and its
publication under the mutex are three steps. The status is represented by the
number of changes of the radio's state, so "fresh" is a comparison.

**ActivityHealth.** The policy `assess`, evaluated by `heartbeat`, with activity,
errors, counter resets and failure at any moment.

**CaptureSession.** The recorder's loop, its stdio buffer, the rename of the
metrics file and the script, with I/O errors, a kill at any point and an
interrupted script that leaves the recorder running.

## 3. What the runs show

| Run | States (about) | Result |
|---|---|---|
| `transport` | 310 000 | Socket, generation and slot agree on all paths; completions are exactly once; no frame continues on a later connection; liveness only from the owner's own request; the transport implements `ControlOwnership`; every submission completes, but for datagrams that wait when the runtime detaches the transport. |
| `transport_frames` | violation | finding 1 |
| `controller_safety` | 3 129 000 | No start on an unconfigured lifetime; boot tracking; a coordinated start is admitted by all radios with one epoch; reconnects never stop a running stream. |
| `controller_liveness` | 256 000 | Once faults cease, the session of every radio that stays up is configured for good, even when the other radio never comes back; after a coordinated start such a radio streams in the end, unless it missed the window of a start that it had admitted. |
| `controller_coordinated` | violation | finding 2 |
| `device` | 1 320 | Settings jointly valid, stream and flag agree, the ordinal accounts for every sample, and a failed commit has changed nothing. |
| `commands` | 2 356 000 | Across replaced processors, reconnects and a reboot no new command is taken for an old one, a configured session's settings are the device's, and the composition implements `DirectCommands`. |
| `pipeline` | 1 380 000 | In one epoch delivered in order: exact timeline and exact gap counts. Whatever happens: each datagram counted once, ordinals in order, no spectrum lost silently, one report per silence. |
| `pipeline_restart` | violation | finding 3 |
| `status` | 672 000 | Status answers are fresh, none is lost, and the radio can always shut down. |
| `health` | 8 800 | Health is earned, and health returns. |
| `capture` | 950 000 | Byte limit, final files under "completed", monotone published metrics. |

Findings: places where what the documents ask for is not what the code does. Each
is a run that TLC refutes with a trace.

1. *Partial control frames.* `progress_next` moves its cursor on after a partial
   write, so two control frames can be interleaved on one connection; a frame
   whose deadline passes half-written leaves its beginning in the stream.
2. *No later coordinated start.* When a coordinated start fails, the failing
   session and the ones after it keep their start, and cancels of the earlier
   ones go through released handles. A radio that was left armed begins to
   stream while its session is configured and not started; nothing stops it,
   and it refuses every further attempt. `controller_liveness` shows that the
   sessions nevertheless end up configured. No radio crashes for good in this trace.
3. *Windows across a restart.* A context of a new epoch with the same settings
   keeps the partly filled window: one spectrum without a gap mark joins samples
   of two epochs.

## 4. Properties

| Module | Property | In words |
|---|---|---|
| RadioTransport | `OwnershipAgrees` | a socket is open iff it holds a generation, and that generation owns the slot |
| | `CompletionAccounting` | a pending transmission is in exactly one slot, and slots hold only pending ones |
| | `OneConnectionPerFrame` | a partly written frame belongs to the current connection |
| | `LivenessEvidence` | liveness only from a request that arrived on the owner's connection |
| | `ImplementsOwnership` | refinement of `ControlOwnership` |
| | `EverySubmissionCompletes` | liveness, with one exception: datagrams left in their slots by the runtime's detach |
| ProcessorController | `ConfiguredLifetime`, `BootTracking` | a reboot is noticed before the radio is started again; the remembered boot is the owned radio's |
| | `CoordinatedStart`, `StreamingUndisturbed` | action properties of success and of reconnects |
| | `EventuallyConfigured`, `CoordinatedStreams` | liveness of each radio that stays up in the end |
| RadioDevice | `DeviceTypeOK` | types, and the settings jointly valid through partial changes |
| | `StreamAgrees`, `OrdinalAccounts` | the streaming flag is the stream's; the ordinal is what was handed out or lost |
| | `FailedCommitIsVoid` | a commit that reports failure has neither half of its effect, although it fails at either |
| CommandResumption | `FreshIdentifiers` | whatever is on the owner's connection is new to the radio |
| | `ConfigurationHolds` | configuration evidence is real for as long as the boot remembered lasts |
| | `ExecutedDirectly` | refinement of `DirectCommands` |
| StreamPipeline | `DiscardAccounting`, `WindowOrdinals` | each datagram counted once; spectra cut the ordinals in order |
| | `TimelineExact`, `GapCountExact` | gap filling restores time, for in-order delivery of one epoch and fewer losses than the modulus |
| | `NoSilentSpectrumLoss`, `UnavailableOnce` | what the detector can know |
| StatusService | `FreshStatus`, `AnsweredInTwoTurns`, `ShutdownCompletes` | freshness, no lost request, no join deadlock |
| ActivityHealth | `HealthyIsEarned`, `HealthReturns` | the policy over any history |
| CaptureSession | `WithinLimit`, `CompletedIsFinal`, `PublishedMonotone` | limits and verdicts under failure |

Each module has one `TypeOK` besides (`DeviceTypeOK` in RadioDevice).

## 5. Bounds and fairness

*RadioTransport.* One data slot and two control slots let a full class, a second
control frame and the wrap of the cursor occur; frames of two units allow a
partial write; generations up to 3 allow a takeover attempt after two
reconnects and the exhausted counter; two submissions can compete for either
class. A backlog of one is enough, since accept takes one connection a call.
Deadlines of one or two ticks let every timeout race with every reply.
Fairness: the main loop calls `progress` forever and time passes (WF). Strong
fairness of the transmit branch: a call reaches it only if it finds nothing to
accept and receive, and a controller sends far fewer frames than the loop has
turns.

*ProcessorController.* Two radios are the least for which one's failure can
disturb the other. Two faults in the safety run allow a crash after a lost
connection. `Lead = 3` lets a start be admitted, be late, and be orphaned.
`LateLimit = 1` lets a start be executed late and be dropped.
Fairness: threads and processes that can act do
(WF of their disjunction with time, which cannot pass before them); a radio that
was told to execute itself again comes back and a stall ends (WF). A radio that
crashed does not come back by itself: the containers have `restart-policy: no`
(`scripts/generate_config.py:108`, `:138`), as `IMPLEMEMTATION.md:536` demands. That its
operator starts it again may happen and need not, so `Redeploy` has no fairness,
and the liveness properties speak of radios that are up from some moment on
(`staysUp`); nothing is asked of the other ones, except that they do not stand in
the way. `EventuallyCoordinated` needs all radios up. No fairness is
assumed about faults, replies being delivered or connections being kept.

`CoordinatedStreams` excuses a radio that was held up until the window of an
admitted start had closed (`missesStart`). The controller takes the validation of
a start for its success (`session.started`, `processor_controller.cpp:844` and `:799`)
and never looks whether the radio streams, so such a radio stays idle; TLC finds
that trace when the excuse is taken away. Apart from it, nothing that
connections, replies, re-execs, crashes of other radios and late starts within the window
do keeps a coordinated radio from streaming.

*RadioDevice.* A highest rate of two and two tunings give settings that are valid
one by one and not together; reads of up to two samples can fail in the middle,
and an ordinal of four lets windows, losses and skips follow each other.

*CommandResumption.* Two processors and two boots give a successor on the same
boot, on the next one, and a predecessor's commands under way to either. Two
connection numbers, used again when nothing of theirs is left, give an owner with
data under way and the connection that is to replace it, in the backlog or just
accepted; the proofs are for any number. Five identifiers suffice for two sessions
that reconcile and configure, with one command to spare, and for the exhausted
counter, which ends in a failed reconcile. One
command per pass reaches every kind of command, since passes repeat. No fairness
is assumed and no liveness claimed: identifiers are finite.

*StreamPipeline.* The constant `Bounds` is a set of fault budgets, and a behaviour
takes one of them: one epoch with up to three losses; restarts with losses;
restarts with a loss, a late packet and a duplicate. A modulus of 4 with three
losses reaches the largest gap the count can show; two packets per window and a
queue limit of one let one datagram complete more windows than may be sent.

*StatusService.* Three workers, so that one request can be taken for another's
while a third is waiting. A wait or transaction that uses up its 500 ms gives up
(WF).

*ActivityHealth.* An interval of two ticks separates "fresh" from "recovered";
strong fairness of activity says only that the role goes on working.

*CaptureSession.* A limit of eight units and four frames reach the limit with all
orders of error.

Deadlock is checked in every run. Parts that may end have an explicit
stuttering step in their final state.

## 6. Proofs

Every safety property that a passing run checks, the two refinements
included, is proved for all values of the constants. The assumptions
are the named `ASSUME`s of the specifications: counts, sizes and limits are
positive, sets are not empty, and values such as `NoSubmission` or `OutOfRange` are
none of the things they stand beside. Each proof module has one
inductive invariant, one lemma per effect that several actions share, and one
step per action.

**RadioTransportProofs**: `TypeCorrect`, `OwnershipTheorem`,
`CompletionTheorem`, `FrameTheorem` (the invariants of run `transport`),
`ConnectionTheorem` (the strengthening `ConnectionInvariant`, defined there),
`LivenessEvidenceTheorem` (the action property) and `OwnershipRefinement`
(`Spec => Ownership!OwnershipSpec`). The inductive invariant is the conjunction of
`TypeOK`, `OwnershipAgrees`, `ConnectionInvariant`, `CompletionAccounting` and
`OneConnectionPerFrame`; none is inductive by itself. A frame belongs to
its connection only because closing a connection finishes every control slot,
which needs the types; the liveness evidence rests on a pending request having
been asked on the current connection, which in turn needs that the flag is
cleared on every path that closes; the eviction clause of the refinement needs
that a progress call in this tick has left no stale owner. The refinement maps
the owner to the generation of the open socket, the
largest generation used to the predecessor of the counter (or the largest one
when it is exhausted), and silence to the age of the last liveness; accepts,
aborted accepts, liveness, closes and ticks are steps, everything else stutters.

**StatusServiceProofs**: `StatusTypeCorrect`, `FreshStatusTheorem`,
`AnsweredTheorem`. That the sequence of requests keeps its bound rests on
`Served`: a publication is paid for by a request that a worker has made, so
publications, the flag, the workers that are about to ask and the clients that still
wait to be accepted are together no more than all clients. The second inductive
invariant says of the main loop that a snapshot about to be
published equals the radio's state, because the thread that builds it is the only
one that changes the state; of the cache that its value lies in the past; and of
a worker that its wait is either over, with a value no older than its request, or
its request is still in the flag or about to be published and no turn has ended
meanwhile. The last part is what makes taking the flag outside the mutex safe: a
request that falls between the exchange and the publication is satisfied by a
snapshot that is not yet built, or was built of the state the request saw.

**ProcessorControllerProofs**: `ControllerTypeCorrect`, `StartsOnlyConfigured`
(`ConfiguredLifetime`), `BootIdentifierTracked` (`BootTracking`),
`CoordinatedStartHolds`, `StreamsUndisturbed`. The largest of the proofs, since
what the worker knows and what the radios do drift apart at every blocking call.
Its invariant has four parts.

* `Link`, between each radio and its session: which commands on their way can
  still take effect. A start that can still take effect finds the session
  configured in the radio's present lifetime; a stop that can, finds nothing that
  this controller started, and no start before it in a queue.
* `AwaitOK`: the only evidence that can still arrive is that of the command waited
  for, because a wait releases its handles when it returns, successful or not.
  Without it, an old answer could stand for a new command.
* `VisitOK` and `ReconcileOK`: what evidence says of the connection it came by. A
  transport that reconnects loses its commands; so as long as evidence has
  arrived or still can, the connection is the one that was reconciled, and the
  second snapshot is of the boot that is now running.
* `AttemptOK`: what is left of each start of an attempt. It is the last command in
  its radio's queues, or it was executed and nothing follows it, and its epoch has
  come nearer with every tick of the wait; so the radios still armed when
  the attempt succeeds share one epoch.

**RadioDeviceProofs**: `DeviceTypeCorrect`, `StreamTheorem`, `OrdinalTheorem`,
`FailedCommitTheorem`, from `DeviceTypeOK`, `StreamAgrees` and `OrdinalAccounts`
together. A failing `commit` may have applied its settings; that it never has
rests on the invariant: calls reach the adapter only while it lives, its stream lives
exactly as long (`StreamLives`), so a stream action that follows `apply_settings` cannot
throw. **CommandResumptionProofs** reuses its lemmas for the composed
system: `ResumptionTypeCorrect`, `FreshTheorem`, `ConfigurationTheorem`, and
`DeviceUnderCommands`, which carries `StreamAgrees` and `OrdinalAccounts` over to the
device under commands and reboots. The identifiers on each connection known to
the radio increase and lie above the watermark (`Fresh`); the processor's own lie
below its counter (`Sent`). `Snapshot` is the heart of the protocol: as
long as the new connection is in line, the watermark has not moved since the
second snapshot, for the radio accepts the connection only when it has no
other owner, and the processor sends nothing on it before it has raised its floor. From the evidence
of the status command on (`Settled`), the watermark and all that may still arrive
are below the counter. `ConfigurationHolds` needs in addition that everything
then in line is the session's own configuration (`OnlyOwn`), and that evidence
answers the question asked (`Question`, `Answered`). `DirectRefinement`
(`Spec => ExecutedDirectly`) follows from these: `Fresh` makes every command that
is received a new one, so that the repetition branch of `Receive` is never taken
on the owner's connection and each is acted on; `Sent` makes the identifier of a
command unique on its connection, so that exactly the one waited for is marked;
and as `Untouched` says, the connection on which the floor is raised carries
nothing yet. Dropped, closed and ended connections are `Close`, an accepted one `Grant`,
a reboot `Restart`, sending is `Ask` (or `Forget`, when the radio has already closed
the connection), and every other step of the processor is `Forget`.

**StreamPipelineProofs**: `PipelineTypeCorrect`, `WindowTheorem`, `DiscardTheorem`,
`SpectrumLossTheorem`, `UnavailableTheorem`, whatever the network does;
`TimelineTheorem` and `GapCountTheorem` for one epoch in order. The window
ordinals rest on a phase (`Ordered`): a spectrum's ordinal less `FftSize` samples for
each spectrum before it. A gap can only raise it, so it never falls along the
output queue nor from there to the window being filled, and spectra with
increasing sequences are disjoint. `DetectorInv` counts a spectrum since the last
report for each report that may follow.

The timeline rests on `SteadyInv`, which holds as long as one epoch lasts, nothing
was reordered or duplicated, and fewer packets were lost than the modulus of the
counts. What is in flight are then, in order, all packets from some index on,
less those lost since; between that index and the last accepted packet no more are
missing than were lost. So the difference of two counts, which is all that
`consume` has, is the difference of the indices less one: below the modulus,
equal remainders are equal numbers. The gap computed therefore ends where the
packet begins. That a window begins on time in addition needs that every packet before
the last one is whole, so that samples accepted, present and missing, are
multiples of the packet size, and a window of several packets never begins
inside one. `GapCountExact` sums the same gaps. `ContiguousInOneEpoch` draws the
consequence for finding 3: within an epoch a spectrum without missing samples is of
consecutive samples, so a context of a new epoch is what the counterexample needs.

**ActivityHealthProofs**: `HealthTypeCorrect`, `HealthyTheorem`. `Trouble` relates the
last trouble, which the code does not keep, to the recovery time that it does:
when the recovery time is cleared, an interval has passed, and activity is either later
than the trouble or no longer fresh.

**CaptureSessionProofs**: `CaptureTypeCorrect`, `LimitTheorem`, `CompletedTheorem`,
`PublishedTheorem`. Bytes accepted are in the file or in the buffer until an error
(`Bytes`); an error is sticky (`Frames`); what is published or about to be is not
ahead of the counters (`Published`); a recorder that ended with code 0 has
published its last metrics with everything flushed, and from then on the files
that the script copies are final (`Judged`, `Killed`).

Only model-checked: liveness, for which the prover has no rules (`ENABLED` and
fairness): `EverySubmissionCompletes`, `EventuallyConfigured`, `CoordinatedStreams`,
`ShutdownCompletes`, `HealthReturns`. The three properties of the violation runs
are refuted, not proved.

## 7. Not modelled

* FFT and detection arithmetic, byte layouts and the decoding of packets, JSON
  validation, formatting of records and the limit on their rate, deployment
  scripts: numbers, bytes and text without control that a
  model checker could add something to.
* The VITA runtime, a submodule that is not in this tree. What the code relies on
  is modelled as environment: execution of scheduled commands, retention of
  answers, handles. Its admission credits are left out; a send they reject
  changes nothing.
* Partial writes, slot tokens and the shutdown of the client transport in
  `processor_controller.cpp`. Its round robin has the form of `RadioTransport`'s, so
  finding 1 applies to it in kind; a `ProcessorController` with both would be out of
  TLC's reach.
* The end of `run_processor` and `run_detector`, and a sample view that fails in the middle
  of a packet (`apps/udp_pipeline.cpp:519`): that takes
  an error of the VITA library in a view it has accepted.
* Losses of a whole modulus (16 packets or a multiple): the four-bit count cannot
  tell them from none, and `TimelineExact` excludes them by its premise.
* `accept_controller` returning at `src/radio_transport.cpp:301` after `acquire` has
  succeeded without a remote. The generation would stay held until it is stale;
  but `associate` sets the remote before the first `progress` of the only user,
  so the branch is not taken.

One disagreement with the documents is stated in `EverySubmissionCompletes` as an
exception (`abandoned`) and has no run of its own. `RadioTransport::detach` fails every
submission, control and data. `binding.detach` (`src/radio_transport.cpp:660`), which the
runtime calls, fails the control submissions only; datagrams that wait in their slots get
no completion, nor from the destructor, whose `detach` finds the transport closed
already. `IMPLEMEMTATION.md:333` asks for "Exactly one terminal completion per
transmission"; what the runtime does with its records when it is destroyed is not in
this tree.

Questions still open for these models: whether the status queries of a healthy radio
keep their interval while the worker blocks on a dead one; how far apart
the start commands of one attempt leave; and an abstract gap-marking stream
that `StreamPipeline` would implement for in-order delivery.
