---------------------------- MODULE RadioTransport ----------------------------
(***************************************************************************)
(* sdr::RadioTransport (src/radio_transport.cpp): the radio's transport    *)
(* under the VITA runtime.  One listening TCP socket with at most one      *)
(* accepted controller, one UDP socket, and a fixed array of submission    *)
(* slots (the data slots first, then the control slots) that the runtime   *)
(* fills with send() and progress_next() drains one step at a time.        *)
(*                                                                         *)
(* The radio's main thread is the only caller of these functions, so each  *)
(* call is one action.  Sockets, the peer and the VITA runtime are the     *)
(* environment: what recv, accept and sendmsg return is chosen with \E or  *)
(* by a disjunct.  Frames are counted in FrameUnits write units; their     *)
(* bytes are not modelled.                                                 *)
(***************************************************************************)
EXTENDS ControlSlot, FiniteSets

CONSTANTS
  DataSlots,      \* number of slots for UDP packets (256 in the code)
  ControlQueue,   \* number of slots for control packets (config.control_queue)
  Submissions,    \* identities of the runtime's transmissions
  NoSubmission,   \* an empty std::optional<TxSubmission>
  FrameUnits,     \* writes a control frame takes when the peer drains slowly
  IoTimeout,      \* config.io_timeout in ticks
  MaxBacklog      \* bound: connection attempts waiting in the listen queue

ASSUME DataSlotsAssumption == DataSlots \in Nat \ {0}
ASSUME ControlQueueAssumption == ControlQueue \in Nat \ {0}
ASSUME NoSubmissionAssumption == NoSubmission \notin Submissions
ASSUME FrameUnitsAssumption == FrameUnits \in Nat \ {0}
ASSUME IoTimeoutAssumption == IoTimeout \in Nat \ {0}
ASSUME MaxBacklogAssumption == MaxBacklog \in Nat \ {0}

VARIABLES
  open,                    \* FALSE once either detach ran
  listening,               \* accepting and the listener is open
  associated,              \* local and remote are set
  tcp,                     \* tcp.value >= 0
  connection_generation,   \* the generation this connection holds
  pending_status_request,  \* a status request awaits its reply
  stalled,                 \* ingress->stalled(): part of a frame was received
  inputAge,                \* age of input_activity, saturated at IoTimeout
  cursor,                  \* cursor % slots.size()
  submission,              \* per slot: the transmission it holds
  sent,                    \* per slot: units written so far (segment, offset)
  status_reply,            \* per slot: is_status_reply() of its frame
  age,                     \* per slot: time since send(), saturated at IoTimeout
  completion,              \* per transmission: what its completion published
  backlog,                 \* connection attempts not yet accepted
  polled,                  \* progress_next ran since the last tick
  unfinished,              \* frame cut off at the end of the TCP stream so far
  startedOn,               \* per slot: generation its first unit was written on
  askedOn                  \* generation of the last unanswered status request

slotState == <<submission, sent, status_reply, age, startedOn>>
connectionState == <<tcp, connection_generation, pending_status_request,
                     stalled, inputAge, unfinished, askedOn>>
lifeState == <<open, listening, associated>>
vars == <<slotVars, slotState, connectionState, lifeState,
          cursor, completion, backlog, polled>>

TotalSlots == DataSlots + ControlQueue
Slots == 0 .. (TotalSlots - 1)
isData(s) == s < DataSlots
DataIndices == {s \in Slots : isData(s)}
ControlIndices == {s \in Slots : ~isData(s)}
occupied(s) == submission[s] # NoSubmission

Terminal == {"succeeded", "failed"}
Completions == {"idle", "pending"} \cup Terminal

\* Types of all variables; ages and counters stay inside their bounds.
TypeOK ==
  /\ SlotTypeOK
  /\ open \in BOOLEAN /\ listening \in BOOLEAN /\ associated \in BOOLEAN
  /\ tcp \in BOOLEAN /\ pending_status_request \in BOOLEAN
  /\ stalled \in BOOLEAN /\ polled \in BOOLEAN
  /\ connection_generation \in Generations
  /\ askedOn \in Generations
  /\ inputAge \in 0 .. IoTimeout
  /\ cursor \in Slots
  /\ submission \in [Slots -> Submissions \cup {NoSubmission}]
  /\ sent \in [Slots -> 0 .. (FrameUnits - 1)]
  /\ status_reply \in [Slots -> BOOLEAN]
  /\ age \in [Slots -> 0 .. IoTimeout]
  /\ startedOn \in [Slots -> Generations]
  /\ completion \in [Submissions -> Completions]
  /\ backlog \in 0 .. MaxBacklog
  /\ unfinished \in Submissions \cup {NoSubmission}

Init ==
  /\ SlotInit
  /\ open = TRUE /\ listening = TRUE /\ associated = FALSE
  /\ tcp = FALSE /\ connection_generation = NoGeneration
  /\ pending_status_request = FALSE
  /\ stalled = FALSE /\ inputAge = 0
  /\ cursor = 0
  /\ submission = [s \in Slots |-> NoSubmission]
  /\ sent = [s \in Slots |-> 0]
  /\ status_reply = [s \in Slots |-> FALSE]
  /\ age = [s \in Slots |-> 0]
  /\ startedOn = [s \in Slots |-> NoGeneration]
  /\ completion = [x \in Submissions |-> "idle"]
  /\ backlog = 0
  /\ polled = FALSE
  /\ unfinished = NoSubmission
  /\ askedOn = NoGeneration

-----------------------------------------------------------------------------
(* Helpers shared by several calls.                                        *)

\* finish() applied to every slot of S: publish the result, empty the slot.
finishSlots(S, result) ==
  /\ completion' = [x \in Submissions |->
                      IF \E s \in S : submission[s] = x THEN result
                                                        ELSE completion[x]]
  /\ submission' = [s \in Slots |-> IF s \in S THEN NoSubmission
                                               ELSE submission[s]]
  /\ sent' = [s \in Slots |-> IF s \in S THEN 0 ELSE sent[s]]
  /\ status_reply' = [s \in Slots |-> IF s \in S THEN FALSE
                                                 ELSE status_reply[s]]
  /\ age' = [s \in Slots |-> IF s \in S THEN 0 ELSE age[s]]
  /\ startedOn' = [s \in Slots |-> IF s \in S THEN NoGeneration
                                              ELSE startedOn[s]]

\* finish(slot, failed): no liveness is observed.
finishFailed(s) ==
  /\ finishSlots({s}, "failed")
  /\ UNCHANGED <<slotVars, connectionState>>

\* finish(slot, succeeded): a written status reply that answers a pending
\* status request is the evidence that the controller is alive.
finishSucceeded(s) ==
  LET alive == /\ status_reply[s]
               /\ pending_status_request
               /\ connection_generation # NoGeneration
  IN  /\ finishSlots({s}, "succeeded")
      /\ IF alive THEN observe_liveness(connection_generation)
                  ELSE UNCHANGED slotVars
      /\ pending_status_request' = (pending_status_request /\ ~alive)
      /\ askedOn' = IF alive THEN NoGeneration ELSE askedOn
      /\ UNCHANGED <<tcp, connection_generation, stalled, inputAge>>

\* Seeded faults: the control submissions survive the connection; the request
\* flag of the old connection survives it.
closeControl_keepsFrames(alsoFinish) ==
  /\ tcp' = FALSE
  /\ connection_generation' = NoGeneration
  /\ pending_status_request' = FALSE
  /\ stalled' = (stalled /\ ~tcp)
  /\ unfinished' = NoSubmission
  /\ finishSlots(alsoFinish, "failed")
  /\ UNCHANGED <<inputAge, askedOn>>
closeControl_keepsRequest(alsoFinish) ==
  /\ tcp' = FALSE
  /\ connection_generation' = NoGeneration
  /\ stalled' = (stalled /\ ~tcp)
  /\ unfinished' = NoSubmission
  /\ finishSlots({s \in ControlIndices : occupied(s)} \cup alsoFinish, "failed")
  /\ UNCHANGED <<pending_status_request, inputAge, askedOn>>

\* What fail_control() does to the transport itself; the caller adds what
\* becomes of the ownership slot.
closeControl(alsoFinish) ==
  /\ tcp' = FALSE
  /\ connection_generation' = NoGeneration
  /\ pending_status_request' = FALSE
  /\ stalled' = (stalled /\ ~tcp)
  /\ unfinished' = NoSubmission
  /\ finishSlots({s \in ControlIndices : occupied(s)} \cup alsoFinish, "failed")
  /\ UNCHANGED <<inputAge, askedOn>>

\* Seeded fault: the ownership slot is not released.
fail_control_leaks == closeControl({}) /\ UNCHANGED slotVars

fail_control ==
  /\ closeControl({})
  /\ IF connection_generation # NoGeneration
       THEN release(connection_generation) ELSE UNCHANGED slotVars

-----------------------------------------------------------------------------
(* progress_next(): one bounded step of the transport.  The checks come in *)
(* the code's order and the first that finds something to do ends the call.*)

inputDeadlinePassed == stalled /\ inputAge >= IoTimeout
\* Seeded fault: staleness is not looked at.
connected_overdue_inputOnly == tcp /\ inputDeadlinePassed

connected_overdue == tcp /\ (inputDeadlinePassed \/ isStale)

\* A frame that stopped arriving, or an owner without liveness.  When the
\* slot was released as stale, the release inside fail_control finds another
\* generation there and does nothing.
DropOverdue ==
  /\ connected_overdue
  /\ IF inputDeadlinePassed
       THEN fail_control
       ELSE release_if_stale /\ closeControl({})
  /\ UNCHANGED <<cursor, backlog>>

\* accept_controller() takes one connection off the listen queue.
acceptable == listening /\ backlog > 0

RejectSecond ==
  /\ acceptable /\ tcp
  /\ backlog' = backlog - 1
  /\ UNCHANGED <<slotVars, slotState, connectionState, cursor, completion>>

\* control->acquire() failed: the candidate socket is closed.
RefuseExhausted ==
  /\ acceptable /\ ~tcp
  /\ ~canAcquire
  /\ backlog' = backlog - 1
  /\ UNCHANGED <<slotVars, slotState, connectionState, cursor, completion>>

AcceptController ==
  /\ acceptable /\ ~tcp
  /\ acquire
  /\ backlog' = backlog - 1
  /\ tcp' = TRUE
  /\ connection_generation' = next_generation
  /\ stalled' = FALSE
  /\ inputAge' = 0
  /\ UNCHANGED <<slotState, pending_status_request, unfinished, askedOn,
                 cursor, completion>>

\* ingress->reconnect() failed after the slot was acquired: fail_control
\* closes the socket and gives the generation back.
AbortAccept ==
  /\ acceptable /\ ~tcp
  /\ canAcquire
  /\ backlog' = backlog - 1
  /\ next_generation' = successor(next_generation)
  /\ idle' = 0
  /\ inputAge' = 0
  /\ UNCHANGED <<active_generation, tcp, connection_generation, stalled,
                 pending_status_request, unfinished, askedOn,
                 slotState, cursor, completion>>

accept_controller ==
  RejectSecond \/ RefuseExhausted \/ AcceptController \/ AbortAccept

\* receive_control(): EOF, a fatal error or a framing failure.
ReceiveFailure ==
  /\ tcp
  /\ fail_control
  /\ UNCHANGED <<cursor, backlog>>

\* receive_control(): bytes that may complete a status request and may leave
\* part of a frame behind.
ReceiveBytes(completesStatus, leavesPartial) ==
  /\ tcp
  /\ inputAge' = 0
  /\ stalled' = leavesPartial
  /\ pending_status_request' = (pending_status_request \/ completesStatus)
  /\ askedOn' = IF completesStatus THEN connection_generation ELSE askedOn
  /\ UNCHANGED <<slotVars, slotState, tcp, connection_generation, unfinished,
                 cursor, completion, backlog>>

receive_control ==
  \/ ReceiveFailure
  \/ \E status, partial \in BOOLEAN : ReceiveBytes(status, partial)

\* The round-robin scan: the occupied slot nearest to the cursor.
distance(s) == IF s >= cursor THEN s - cursor ELSE s + TotalSlots - cursor
selected(s) ==
  /\ occupied(s)
  /\ \A t \in Slots : occupied(t) => distance(s) <= distance(t)
\* Seeded fault: the cursor does not wrap.
advance_unwrapped(s) == s + 1

advance(s) == IF s + 1 = TotalSlots THEN 0 ELSE s + 1

\* transmit(): the submission ran into its deadline, or lost its connection.
Expire(s) ==
  /\ age[s] >= IoTimeout \/ (~isData(s) /\ ~tcp)
  /\ finishFailed(s)

\* Seeded fault: the deadline of a submission is not enforced.
sendable_forever(s) == isData(s) \/ tcp

sendable(s) == age[s] < IoTimeout /\ (isData(s) \/ tcp)

\* sendmsg would block.
Retry(s) == sendable(s) /\ UNCHANGED <<slotVars, slotState, connectionState,
                                       completion>>

\* sendmsg failed: the whole control connection goes, or just the datagram.
\* A datagram that was sent short fails in the same way.
SendError(s) ==
  /\ sendable(s)
  /\ IF isData(s) THEN finishFailed(s) ELSE fail_control

SendDatagram(s) ==
  /\ sendable(s) /\ isData(s)
  /\ finishSucceeded(s)
  /\ UNCHANGED unfinished

\* sendmsg took the next n units of the frame but not its end.
WritePart(s, n) ==
  /\ sendable(s) /\ ~isData(s)
  /\ sent[s] + n < FrameUnits
  /\ sent' = [sent EXCEPT ![s] = @ + n]
  /\ startedOn' = [startedOn EXCEPT ![s] = IF sent[s] = 0
                                             THEN connection_generation ELSE @]
  /\ unfinished' = submission[s]
  /\ UNCHANGED <<slotVars, submission, status_reply, age, completion, tcp,
                 connection_generation, pending_status_request, stalled,
                 inputAge, askedOn>>

\* sendmsg took everything that was left of the frame.
WriteRest(s) ==
  /\ sendable(s) /\ ~isData(s)
  /\ finishSucceeded(s)
  /\ unfinished' = NoSubmission

transmit(s) ==
  \/ Expire(s)
  \/ Retry(s)
  \/ SendError(s)
  \/ SendDatagram(s)
  \/ \E n \in 1 .. FrameUnits : WritePart(s, n)
  \/ WriteRest(s)

TransmitNext ==
  \E s \in Slots :
    /\ selected(s)
    /\ cursor' = advance(s)
    /\ transmit(s)
    /\ UNCHANGED backlog

NothingToSend ==
  /\ \A s \in Slots : ~occupied(s)
  /\ UNCHANGED <<slotVars, slotState, connectionState, cursor, completion,
                 backlog>>

\* The runtime calls progress only after add_controllee() has associated.
progressing ==
  /\ open /\ associated
  /\ polled' = TRUE
  /\ UNCHANGED lifeState

progress_drop == progressing /\ DropOverdue
progress_accept == progressing /\ ~connected_overdue /\ accept_controller
progress_receive ==
  progressing /\ ~connected_overdue /\ ~acceptable /\ receive_control
\* accept and recv both reported EAGAIN (or there was no connection).
progress_transmit ==
  progressing /\ ~connected_overdue /\ ~acceptable /\ TransmitNext
progress_idle ==
  progressing /\ ~connected_overdue /\ ~acceptable /\ NothingToSend

progress_next ==
  \/ progress_drop
  \/ progress_accept
  \/ progress_receive
  \/ progress_transmit
  \/ progress_idle

-----------------------------------------------------------------------------
(* The other calls of the transport binding.                               *)

\* Seeded fault: the slot found is not checked to be empty.
firstFree_unchecked(s, class) ==
  s \in class /\ \A t \in class : t < s => occupied(t)

\* binding.send: the first free slot of the submission's class.  A rejected
\* submission stays with the caller, so it changes nothing.
firstFree(s, class) ==
  s \in class /\ ~occupied(s) /\ \A t \in class : t < s => occupied(t)

send(x, s, isStatusReply) ==
  /\ open /\ associated
  /\ completion[x] = "idle"
  /\ \/ firstFree(s, DataIndices) /\ ~isStatusReply
     \/ firstFree(s, ControlIndices) /\ tcp
  /\ submission' = [submission EXCEPT ![s] = x]
  /\ sent' = [sent EXCEPT ![s] = 0]
  /\ status_reply' = [status_reply EXCEPT ![s] = isStatusReply]
  /\ age' = [age EXCEPT ![s] = 0]
  /\ startedOn' = [startedOn EXCEPT ![s] = NoGeneration]
  /\ completion' = [completion EXCEPT ![x] = "pending"]
  /\ UNCHANGED <<slotVars, connectionState, lifeState, cursor, backlog, polled>>

Send == \E x \in Submissions, s \in Slots, r \in BOOLEAN : send(x, s, r)

\* binding.associate with commit.
associate ==
  /\ open /\ ~associated
  /\ associated' = TRUE
  /\ UNCHANGED <<slotVars, slotState, connectionState, open, listening, cursor,
                 completion, backlog, polled>>

\* binding.close_admission.
close_admission ==
  /\ open /\ listening
  /\ listening' = FALSE
  /\ backlog' = 0
  /\ UNCHANGED <<slotVars, slotState, connectionState, open, associated, cursor,
                 completion, polled>>

\* RadioTransport::disconnect_controller.
disconnect_controller ==
  /\ open /\ tcp
  /\ fail_control
  /\ UNCHANGED <<lifeState, cursor, backlog, polled>>

detaching ==
  /\ open
  /\ open' = FALSE
  /\ listening' = FALSE
  /\ backlog' = 0
  /\ IF connection_generation # NoGeneration
       THEN release(connection_generation) ELSE UNCHANGED slotVars
  /\ UNCHANGED <<associated, cursor, polled>>

\* RadioTransport::detach, on the re-exec path: data slots are failed too.
detach == detaching /\ closeControl({s \in DataIndices : occupied(s)})

\* binding.detach, when the runtime is destroyed: data slots stay as they are.
binding_detach == detaching /\ closeControl({})

-----------------------------------------------------------------------------
(* Environment.                                                            *)

\* A controller connects.
Connect ==
  /\ listening /\ backlog < MaxBacklog
  /\ backlog' = backlog + 1
  /\ UNCHANGED <<slotVars, slotState, connectionState, lifeState, cursor,
                 completion, polled>>

\* The runtime takes a published completion and may reuse its identity.
Retire(x) ==
  /\ completion[x] \in Terminal
  /\ completion' = [completion EXCEPT ![x] = "idle"]
  /\ UNCHANGED <<slotVars, slotState, connectionState, lifeState, cursor,
                 backlog, polled>>

\* A tick is much longer than the main loop's 100 microsecond sleep, so the
\* loop has called progress at least once in every tick.
Tick ==
  /\ polled \/ ~open \/ ~associated
  /\ polled' = FALSE
  /\ slotTick
  /\ inputAge' = IF inputAge < IoTimeout THEN inputAge + 1 ELSE inputAge
  /\ age' = [s \in Slots |-> IF occupied(s) /\ age[s] < IoTimeout
                               THEN age[s] + 1 ELSE age[s]]
  /\ UNCHANGED <<lifeState, tcp, connection_generation, pending_status_request,
                 stalled, unfinished, askedOn, cursor, submission, sent,
                 status_reply, startedOn, completion, backlog>>

Next ==
  \/ progress_next
  \/ Send
  \/ associate
  \/ close_admission
  \/ disconnect_controller
  \/ detach
  \/ binding_detach
  \/ Connect
  \/ \E x \in Submissions : Retire(x)
  \/ Tick

Spec == Init /\ [][Next]_vars

\* The main loop keeps calling progress and time passes.  SF on the transmit
\* branch: among the loop's calls there are always some that find neither a
\* connection to accept nor bytes to receive, because a controller sends far
\* fewer frames than the loop polls.
Fairness ==
  /\ WF_vars(progress_next)
  /\ WF_vars(Tick)
  /\ SF_vars(progress_transmit)

FairSpec == Spec /\ Fairness

-----------------------------------------------------------------------------
(* Properties.                                                             *)

\* The transport and the ownership slot never disagree between two calls: a
\* socket is open exactly when it holds a generation, and the slot is owned by
\* exactly that generation.  Every path that closes the socket (EOF, framing
\* error, deadline, staleness, send error, detach) must also free the slot, or
\* no controller could ever connect again.
OwnershipAgrees ==
  /\ tcp <=> connection_generation # NoGeneration
  /\ active_generation = connection_generation

\* Exactly one terminal completion per transmission: what is pending sits in
\* exactly one slot, and a slot never holds something already completed (which
\* would be published a second time).
CompletionAccounting ==
  /\ \A s \in Slots : occupied(s) => completion[submission[s]] = "pending"
  /\ \A s, t \in Slots : occupied(s) /\ submission[s] = submission[t] => s = t
  /\ \A x \in Submissions :
       completion[x] = "pending" => \E s \in Slots : submission[s] = x

\* A frame that is partly written belongs to the connection it was begun on:
\* its remainder is never written to a later controller's connection.
OneConnectionPerFrame ==
  \A s \in ControlIndices :
    occupied(s) /\ sent[s] > 0 => tcp /\ startedOn[s] = connection_generation

\* The owner's liveness is refreshed only by a status exchange whose request
\* arrived on the owner's own connection, whatever an earlier connection left
\* behind.
LivenessEvidence ==
  [][(active_generation' = active_generation /\ idle' < idle)
       => askedOn = active_generation \/ active_generation = NoGeneration]_vars

\* The generation handed out last; next_generation is NoGeneration after the
\* largest one.
lastGeneration == IF next_generation = NoGeneration THEN GenerationLimit - 1
                                                    ELSE next_generation - 1

\* The abstract promise about ownership.
Ownership == INSTANCE ControlOwnership WITH
  owner <- IF tcp THEN connection_generation ELSE NoGeneration,
  last <- lastGeneration,
  silent <- idle

\* The transport implements the abstract ownership: exclusive, no takeover,
\* fresh generations, and a silent owner evicted before its timeout is exceeded.
ImplementsOwnership == Ownership!OwnershipSpec

\* Every accepted transmission is completed, even if the peer never drains its
\* socket and other slots are always busy.  The only exception is a datagram that
\* still waits in its slot when the runtime detaches the transport: nobody is told
\* what became of it.
abandoned(x) == ~open /\ \E s \in DataIndices : submission[s] = x
EverySubmissionCompletes ==
  \A x \in Submissions :
    completion[x] = "pending" ~> (completion[x] # "pending" \/ abandoned(x))

\* IMPLEMEMTATION.md asks for correct partial writes: on an open connection
\* the bytes written so far are whole frames followed by at most the beginning
\* of the one frame whose slot will be continued.
WholeFrames ==
  /\ \A s \in ControlIndices : occupied(s) /\ sent[s] > 0
                                 => unfinished = submission[s]
  /\ unfinished # NoSubmission => \E s \in ControlIndices :
                                    submission[s] = unfinished /\ sent[s] > 0
=============================================================================
