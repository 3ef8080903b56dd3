------------------------ MODULE RadioTransportProofs ------------------------
(***************************************************************************)
(* Theorems about RadioTransport for every number of slots, every set of   *)
(* transmissions, every frame length and all timeouts.                     *)
(***************************************************************************)
EXTENDS RadioTransport, TLAPS

\* Slot numbers are naturals and the two classes partition them.
LEMMA SlotFacts ==
  /\ TotalSlots \in Nat \ {0}
  /\ Slots \subseteq Nat
  /\ 0 \in Slots
  /\ DataIndices \subseteq Slots
  /\ ControlIndices \subseteq Slots
  /\ DataIndices \cap ControlIndices = {}
  /\ Slots = DataIndices \cup ControlIndices
  BY DataSlotsAssumption, ControlQueueAssumption
  DEF TotalSlots, Slots, DataIndices, ControlIndices, isData

\* The cursor stays inside the slot array.
LEMMA AdvanceType == \A s \in Slots : advance(s) \in Slots
  BY DataSlotsAssumption, ControlQueueAssumption DEF advance, Slots, TotalSlots

\* The generation counter stays inside its width.
LEMMA SuccessorType == \A g \in Generations : successor(g) \in Generations
  BY GenerationLimitAssumption DEF successor, Generations, NoGeneration

\* Finishing any set of slots keeps the slot state well typed.
LEMMA FinishType ==
  ASSUME TypeOK, NEW S \in SUBSET Slots, NEW r \in Terminal, finishSlots(S, r)
  PROVE  /\ submission' \in [Slots -> Submissions \cup {NoSubmission}]
         /\ sent' \in [Slots -> 0 .. (FrameUnits - 1)]
         /\ status_reply' \in [Slots -> BOOLEAN]
         /\ age' \in [Slots -> 0 .. IoTimeout]
         /\ startedOn' \in [Slots -> Generations]
         /\ completion' \in [Submissions -> Completions]
<1> USE GenerationLimitAssumption, FrameUnitsAssumption, IoTimeoutAssumption
    DEF finishSlots, TypeOK
<1>1. submission' \in [Slots -> Submissions \cup {NoSubmission}]
  OBVIOUS
<1>2. sent' \in [Slots -> 0 .. (FrameUnits - 1)]
  OBVIOUS
<1>3. status_reply' \in [Slots -> BOOLEAN]
  BY Zenon
<1>4. age' \in [Slots -> 0 .. IoTimeout]
  OBVIOUS
<1>5. startedOn' \in [Slots -> Generations]
  BY DEF Generations, NoGeneration
<1>6. completion' \in [Submissions -> Completions]
  BY DEF Completions
<1> QED BY <1>1, <1>2, <1>3, <1>4, <1>5, <1>6

\* fail_control keeps the ownership slot and the connection well typed.
LEMMA ReleaseType ==
  ASSUME TypeOK, NEW g, release(g)
  PROVE  SlotTypeOK'
  BY GenerationLimitAssumption
  DEF TypeOK, SlotTypeOK, release, Generations, NoGeneration

LEMMA CloseType ==
  ASSUME TypeOK, NEW S \in SUBSET Slots, closeControl(S)
  PROVE  /\ submission' \in [Slots -> Submissions \cup {NoSubmission}]
         /\ sent' \in [Slots -> 0 .. (FrameUnits - 1)]
         /\ status_reply' \in [Slots -> BOOLEAN]
         /\ age' \in [Slots -> 0 .. IoTimeout]
         /\ startedOn' \in [Slots -> Generations]
         /\ completion' \in [Submissions -> Completions]
         /\ tcp' \in BOOLEAN /\ pending_status_request' \in BOOLEAN
         /\ stalled' \in BOOLEAN
         /\ connection_generation' \in Generations
         /\ askedOn' \in Generations
         /\ inputAge' \in 0 .. IoTimeout
         /\ unfinished' \in Submissions \cup {NoSubmission}
<1> DEFINE T == {s \in ControlIndices : occupied(s)} \cup S
<1>1. T \in SUBSET Slots /\ "failed" \in Terminal
  BY SlotFacts DEF Terminal
<1>2. finishSlots(T, "failed")
  BY DEF closeControl
<1>3. /\ submission' \in [Slots -> Submissions \cup {NoSubmission}]
      /\ sent' \in [Slots -> 0 .. (FrameUnits - 1)]
      /\ status_reply' \in [Slots -> BOOLEAN]
      /\ age' \in [Slots -> 0 .. IoTimeout]
      /\ startedOn' \in [Slots -> Generations]
      /\ completion' \in [Submissions -> Completions]
  BY <1>1, <1>2, FinishType
<1>4. /\ tcp' \in BOOLEAN /\ pending_status_request' \in BOOLEAN
      /\ stalled' \in BOOLEAN
  BY DEF closeControl
<1>5. connection_generation' \in Generations
  BY GenerationLimitAssumption DEF closeControl, Generations, NoGeneration
<1>6. /\ askedOn' \in Generations
      /\ inputAge' \in 0 .. IoTimeout
      /\ unfinished' \in Submissions \cup {NoSubmission}
  BY DEF closeControl, TypeOK
<1> QED BY <1>3, <1>4, <1>5, <1>6

-----------------------------------------------------------------------------

\* Every step keeps the types.
LEMMA TypeStep == TypeOK /\ [Next]_vars => TypeOK'
<1> SUFFICES ASSUME TypeOK, [Next]_vars PROVE TypeOK'
  OBVIOUS
<1> USE GenerationLimitAssumption, StaleTimeoutAssumption,
        FrameUnitsAssumption, IoTimeoutAssumption, MaxBacklogAssumption
<1>1. CASE progress_drop
  <2>1. PICK S \in SUBSET Slots : closeControl(S)
    BY <1>1 DEF progress_drop, DropOverdue, fail_control
  <2>2. SlotTypeOK'
    <3>1. CASE fail_control
      BY <3>1, ReleaseType DEF fail_control, TypeOK, SlotTypeOK, slotVars
    <3>2. CASE release_if_stale
      BY <3>2 DEF release_if_stale, TypeOK, SlotTypeOK, Generations, NoGeneration
    <3> QED BY <1>1, <3>1, <3>2 DEF progress_drop, DropOverdue
  <2> QED
    BY <1>1, <2>1, <2>2, CloseType
    DEF progress_drop, progressing, lifeState, DropOverdue, TypeOK
<1>2. CASE progress_accept
  <2>1. CASE RejectSecond \/ RefuseExhausted
    BY <1>2, <2>1
    DEF progress_accept, progressing, lifeState, RejectSecond, RefuseExhausted,
        acceptable, slotVars, slotState, connectionState, TypeOK, SlotTypeOK
  <2>2. CASE AcceptController
    <3>1. SlotTypeOK' /\ connection_generation' \in Generations
      BY <2>2, SuccessorType DEF AcceptController, acquire, TypeOK, SlotTypeOK
    <3>2. backlog' \in 0 .. MaxBacklog /\ inputAge' \in 0 .. IoTimeout
      BY <2>2 DEF AcceptController, acceptable, TypeOK
    <3> QED
      BY <1>2, <2>2, <3>1, <3>2
      DEF progress_accept, progressing, lifeState, AcceptController, slotState,
          TypeOK
  <2>3. CASE AbortAccept
    BY <1>2, <2>3, SuccessorType
    DEF progress_accept, progressing, lifeState, AbortAccept, acceptable,
        slotState, TypeOK, SlotTypeOK
  <2> QED BY <1>2, <2>1, <2>2, <2>3 DEF progress_accept, accept_controller
<1>3. CASE progress_receive
  <2>1. CASE ReceiveFailure
    <3>1. PICK S \in SUBSET Slots : closeControl(S)
      BY <2>1 DEF ReceiveFailure, fail_control
    <3>2. SlotTypeOK'
      BY <2>1, ReleaseType
      DEF ReceiveFailure, fail_control, TypeOK, SlotTypeOK, slotVars
    <3> QED
      BY <1>3, <2>1, <3>1, <3>2, CloseType
      DEF progress_receive, progressing, lifeState, ReceiveFailure, TypeOK
  <2>2. ASSUME NEW a \in BOOLEAN, NEW b \in BOOLEAN, ReceiveBytes(a, b)
        PROVE  TypeOK'
    <3>1. pending_status_request' \in BOOLEAN /\ stalled' \in BOOLEAN
      BY <2>2 DEF ReceiveBytes
    <3>2. askedOn' \in Generations /\ inputAge' \in 0 .. IoTimeout
      BY <2>2 DEF ReceiveBytes, TypeOK
    <3> QED
      BY <1>3, <2>2, <3>1, <3>2
      DEF progress_receive, progressing, lifeState, ReceiveBytes, slotVars,
          slotState, TypeOK, SlotTypeOK
  <2> QED BY <1>3, <2>1, <2>2 DEF progress_receive, receive_control
<1>4. CASE progress_transmit
  <2>1. PICK s \in Slots : selected(s) /\ cursor' = advance(s) /\ transmit(s)
                           /\ UNCHANGED backlog
    BY <1>4 DEF progress_transmit, TransmitNext
  <2>2. /\ cursor' \in Slots
        /\ UNCHANGED <<open, listening, associated, backlog>> /\ polled' = TRUE
    BY <1>4, <2>1, AdvanceType DEF progress_transmit, progressing, lifeState
  <2>3. submission[s] \in Submissions
    BY <2>1 DEF selected, occupied, TypeOK
  <2>4. ASSUME finishFailed(s) PROVE TypeOK'
    <3>1. finishSlots({s}, "failed") /\ "failed" \in Terminal
      BY <2>4 DEF finishFailed, Terminal
    <3> QED
      BY <2>2, <2>4, <3>1, FinishType
      DEF finishFailed, slotVars, connectionState, TypeOK, SlotTypeOK
  <2>5. ASSUME fail_control PROVE TypeOK'
    <3>1. PICK S \in SUBSET Slots : closeControl(S)
      BY <2>5 DEF fail_control
    <3>2. SlotTypeOK'
      BY <2>5, ReleaseType DEF fail_control, TypeOK, SlotTypeOK, slotVars
    <3> QED BY <2>2, <3>1, <3>2, CloseType DEF TypeOK
  <2>6. CASE Retry(s)
    BY <2>2, <2>6 DEF Retry, slotVars, slotState, connectionState, TypeOK, SlotTypeOK
  <2>7. ASSUME finishSucceeded(s), unfinished' \in Submissions \cup {NoSubmission}
        PROVE  TypeOK'
    <3>1. finishSlots({s}, "succeeded") /\ "succeeded" \in Terminal
      BY <2>7 DEF finishSucceeded, Terminal
    <3>2. SlotTypeOK'
      BY <2>7 DEF TypeOK, SlotTypeOK, finishSucceeded, observe_liveness, slotVars
    <3>3. pending_status_request' \in BOOLEAN
      BY <2>7 DEF finishSucceeded
    <3>4. askedOn' \in Generations
      BY <2>7 DEF finishSucceeded, TypeOK, Generations, NoGeneration
    <3> QED
      BY <2>2, <2>7, <3>1, <3>2, <3>3, <3>4, FinishType
      DEF finishSucceeded, TypeOK
  <2>8. ASSUME NEW n \in 1 .. FrameUnits, WritePart(s, n) PROVE TypeOK'
    <3>1. sent' \in [Slots -> 0 .. (FrameUnits - 1)]
      BY <2>8 DEF WritePart, TypeOK
    <3>2. startedOn' \in [Slots -> Generations]
      BY <2>8 DEF WritePart, TypeOK
    <3> QED
      BY <2>2, <2>3, <2>8, <3>1, <3>2 DEF WritePart, slotVars, TypeOK, SlotTypeOK
  <2>9. CASE SendDatagram(s)
    BY <2>7, <2>9 DEF SendDatagram, TypeOK
  <2>10. CASE WriteRest(s)
    BY <2>7, <2>10 DEF WriteRest
  <2> QED
    BY <2>1, <2>4, <2>5, <2>6, <2>8, <2>9, <2>10
    DEF transmit, Expire, SendError
<1>5. CASE progress_idle
  BY <1>5 DEF progress_idle, progressing, lifeState, NothingToSend, slotVars,
              slotState, connectionState, TypeOK, SlotTypeOK
<1>6. CASE Send
  <2>1. PICK x \in Submissions, s \in Slots, r \in BOOLEAN : send(x, s, r)
    BY <1>6 DEF Send
  <2>2. /\ submission' \in [Slots -> Submissions \cup {NoSubmission}]
        /\ sent' \in [Slots -> 0 .. (FrameUnits - 1)]
        /\ age' \in [Slots -> 0 .. IoTimeout]
    BY <2>1 DEF send, TypeOK
  <2>3. startedOn' \in [Slots -> Generations]
    BY <2>1 DEF send, TypeOK, Generations, NoGeneration
  <2>4. status_reply' \in [Slots -> BOOLEAN]
    BY <2>1, Zenon DEF send, TypeOK
  <2>5. completion' \in [Submissions -> Completions]
    BY <2>1 DEF send, TypeOK, Completions
  <2> QED
    BY <2>1, <2>2, <2>3, <2>4, <2>5
    DEF send, slotVars, connectionState, lifeState, TypeOK, SlotTypeOK
<1>7. CASE associate \/ close_admission \/ Connect
  <2>1. backlog' \in 0 .. MaxBacklog
    BY <1>7 DEF associate, close_admission, Connect, TypeOK
  <2>2. open' \in BOOLEAN /\ listening' \in BOOLEAN /\ associated' \in BOOLEAN
    BY <1>7 DEF associate, close_admission, Connect, lifeState, TypeOK
  <2>3. UNCHANGED <<slotVars, slotState, connectionState, cursor, completion,
                    polled>>
    BY <1>7 DEF associate, close_admission, Connect
  <2> QED
    BY <2>1, <2>2, <2>3 DEF slotVars, slotState, connectionState, TypeOK,
                            SlotTypeOK
<1>8. CASE disconnect_controller
  <2>1. PICK S \in SUBSET Slots : closeControl(S)
    BY <1>8 DEF disconnect_controller, fail_control
  <2>2. SlotTypeOK'
    BY <1>8, ReleaseType
    DEF disconnect_controller, fail_control, TypeOK, SlotTypeOK, slotVars
  <2> QED BY <1>8, <2>1, <2>2, CloseType DEF disconnect_controller, lifeState, TypeOK
<1>9. CASE detach \/ binding_detach
  <2>1. PICK S \in SUBSET Slots : closeControl(S)
    BY <1>9, SlotFacts DEF detach, binding_detach
  <2>2. detaching
    BY <1>9 DEF detach, binding_detach
  <2>3. SlotTypeOK'
    BY <2>2, ReleaseType DEF detaching, TypeOK, SlotTypeOK, slotVars
  <2>4. open' = FALSE /\ listening' = FALSE /\ backlog' \in 0 .. MaxBacklog
    BY <2>2 DEF detaching
  <2> QED BY <2>1, <2>2, <2>3, <2>4, CloseType DEF detaching, TypeOK
<1>10. ASSUME NEW x \in Submissions, Retire(x) PROVE TypeOK'
  <2>1. completion' \in [Submissions -> Completions]
    BY <1>10 DEF Retire, TypeOK, Completions
  <2> QED
    BY <1>10, <2>1 DEF Retire, slotVars, slotState, connectionState, lifeState,
                       TypeOK, SlotTypeOK
<1>11. CASE Tick
  <2>1. age' \in [Slots -> 0 .. IoTimeout]
    BY <1>11 DEF Tick, TypeOK
  <2>2. SlotTypeOK'
    BY <1>11 DEF Tick, slotTick, TypeOK, SlotTypeOK
  <2>3. inputAge' \in 0 .. IoTimeout /\ polled' = FALSE
    BY <1>11 DEF Tick, TypeOK
  <2> QED BY <1>11, <2>1, <2>2, <2>3 DEF Tick, lifeState, TypeOK
<1>12. CASE UNCHANGED vars
  BY <1>12 DEF vars, slotVars, slotState, connectionState, lifeState, TypeOK, SlotTypeOK
<1> QED
  BY <1>1, <1>2, <1>3, <1>4, <1>5, <1>6, <1>7, <1>8, <1>9, <1>10, <1>11, <1>12
  DEF Next, progress_next

\* All variables of the transport keep their types: every age, cursor,
\* generation and written length stays inside its bound on every path.
THEOREM TypeCorrect == Spec => []TypeOK
<1>1. ASSUME Init PROVE TypeOK
  <2> USE <1>1, GenerationLimitAssumption, StaleTimeoutAssumption,
          FrameUnitsAssumption, IoTimeoutAssumption, MaxBacklogAssumption
      DEF Init
  <2>1. SlotTypeOK /\ connection_generation \in Generations /\ askedOn \in Generations
    BY DEF SlotInit, SlotTypeOK, Generations, NoGeneration
  <2>2. sent \in [Slots -> 0 .. (FrameUnits - 1)] /\ age \in [Slots -> 0 .. IoTimeout]
    OBVIOUS
  <2>3. status_reply \in [Slots -> BOOLEAN]
    BY Zenon
  <2>4. startedOn \in [Slots -> Generations]
    BY DEF Generations, NoGeneration
  <2>5. completion \in [Submissions -> Completions]
    BY DEF Completions
  <2>6. inputAge \in 0 .. IoTimeout /\ backlog \in 0 .. MaxBacklog /\ cursor \in Slots
    BY SlotFacts
  <2> QED BY <2>1, <2>2, <2>3, <2>4, <2>5, <2>6 DEF TypeOK
<1>2. TypeOK /\ [Next]_vars => TypeOK'
  BY TypeStep
<1> QED BY <1>1, <1>2, PTL DEF Spec

-----------------------------------------------------------------------------
(* The ownership slot and the connection.                                  *)

\* The variables that OwnershipAgrees speaks of.
ownershipState == <<tcp, connection_generation, active_generation>>

\* Closing the connection together with its release keeps the agreement.
LEMMA CloseAgrees ==
  ASSUME OwnershipAgrees, NEW S, closeControl(S),
         \/ connection_generation # NoGeneration /\ release(connection_generation)
         \/ connection_generation = NoGeneration /\ UNCHANGED slotVars
         \/ release_if_stale
  PROVE  OwnershipAgrees'
  BY DEF OwnershipAgrees, closeControl, release, release_if_stale, slotVars

\* Which steps touch the connection: all others leave ownershipState alone.
LEMMA OwnershipStep == TypeOK /\ OwnershipAgrees /\ [Next]_vars => OwnershipAgrees'
<1> SUFFICES ASSUME TypeOK, OwnershipAgrees, [Next]_vars PROVE OwnershipAgrees'
  OBVIOUS
<1>0. ASSUME UNCHANGED ownershipState PROVE OwnershipAgrees'
  BY <1>0 DEF ownershipState, OwnershipAgrees
<1>00. ASSUME fail_control PROVE OwnershipAgrees'
  BY <1>00, CloseAgrees DEF fail_control
<1>1. CASE progress_drop
  BY <1>1, <1>00, CloseAgrees DEF progress_drop, DropOverdue
<1>2. CASE progress_accept
  <2>1. CASE AcceptController
    BY <2>1 DEF AcceptController, acquire, canAcquire, OwnershipAgrees
  <2>2. CASE RejectSecond \/ RefuseExhausted \/ AbortAccept
    BY <2>2, <1>0 DEF RejectSecond, RefuseExhausted, AbortAccept, slotVars,
                      connectionState, ownershipState
  <2> QED BY <1>2, <2>1, <2>2 DEF progress_accept, accept_controller
<1>3. CASE progress_receive
  <2>1. CASE ReceiveFailure
    BY <2>1, <1>00 DEF ReceiveFailure
  <2>2. ASSUME NEW a \in BOOLEAN, NEW b \in BOOLEAN, ReceiveBytes(a, b)
        PROVE  UNCHANGED ownershipState
    BY <2>2 DEF ReceiveBytes, slotVars, ownershipState
  <2> QED BY <1>0, <1>3, <2>1, <2>2 DEF progress_receive, receive_control
<1>4. CASE progress_transmit
  <2>1. PICK s \in Slots : transmit(s)
    BY <1>4 DEF progress_transmit, TransmitNext
  <2>2. CASE Expire(s) \/ Retry(s)
    BY <2>2, <1>0 DEF Expire, Retry, finishFailed, slotVars, connectionState,
                      ownershipState
  <2>3. CASE SendError(s)
    BY <2>3, <1>0, <1>00 DEF SendError, finishFailed, slotVars, connectionState,
                             ownershipState
  <2>4. CASE SendDatagram(s) \/ WriteRest(s)
    BY <2>4, <1>0 DEF SendDatagram, WriteRest, finishSucceeded,
                      observe_liveness, slotVars, ownershipState
  <2>5. ASSUME NEW n \in 1 .. FrameUnits, WritePart(s, n)
        PROVE  UNCHANGED ownershipState
    BY <2>5 DEF WritePart, slotVars, ownershipState
  <2> QED BY <1>0, <2>1, <2>2, <2>3, <2>4, <2>5 DEF transmit
<1>5. CASE disconnect_controller
  BY <1>5, <1>00 DEF disconnect_controller
<1>6. CASE detach \/ binding_detach
  BY <1>6, CloseAgrees DEF detach, binding_detach, detaching
<1>7. ASSUME \/ progress_idle \/ Send \/ associate \/ close_admission \/ Connect
             \/ (\E x \in Submissions : Retire(x)) \/ Tick \/ UNCHANGED vars
      PROVE  UNCHANGED ownershipState
  BY <1>7 DEF progress_idle, NothingToSend, Send, send, associate,
              close_admission, Connect, Retire, Tick, slotTick, vars, slotVars,
              connectionState, ownershipState
<1> QED
  BY <1>0, <1>1, <1>2, <1>3, <1>4, <1>5, <1>6, <1>7 DEF Next, progress_next

\* Between two calls the transport and the ownership slot agree: no path that
\* closes the socket forgets the slot, and none frees the slot of an open one.
THEOREM OwnershipTheorem == Spec => []OwnershipAgrees
<1>1. Init => OwnershipAgrees
  BY DEF Init, SlotInit, OwnershipAgrees
<1>2. TypeOK /\ OwnershipAgrees /\ [Next]_vars => OwnershipAgrees'
  BY OwnershipStep
<1> QED BY <1>1, <1>2, TypeCorrect, PTL DEF Spec

-----------------------------------------------------------------------------
(* The strengthening.                                                      *)

\* The strengthening that makes the properties above inductive: a connection
\* exists only on an attached, associated transport; an unanswered status
\* request was received on the current connection; and an owner seen by a
\* progress call in this tick is not stale.
ConnectionInvariant ==
  /\ tcp => open /\ associated
  /\ pending_status_request => tcp /\ askedOn = connection_generation
  /\ tcp /\ polled => idle < StaleTimeout
  /\ \A s \in DataIndices : sent[s] = 0 /\ ~status_reply[s]

\* Finishing slots keeps the data slots free of control state.
LEMMA FinishDataClean ==
  ASSUME NEW S, NEW r, finishSlots(S, r),
         \A s \in DataIndices : sent[s] = 0 /\ ~status_reply[s]
  PROVE  \A s \in DataIndices : (sent[s] = 0 /\ ~status_reply[s])'
  BY SlotFacts, Zenon DEF finishSlots, DataIndices, isData

\* After the connection is closed the strengthening holds.
LEMMA CloseConnection ==
  ASSUME ConnectionInvariant, NEW S, closeControl(S)
  PROVE  ConnectionInvariant'
<1>1. \A s \in DataIndices : (sent[s] = 0 /\ ~status_reply[s])'
  BY FinishDataClean DEF closeControl, ConnectionInvariant
<1> QED BY <1>1 DEF closeControl, ConnectionInvariant

LEMMA ConnectionStep ==
  TypeOK /\ OwnershipAgrees /\ ConnectionInvariant /\ [Next]_vars
    => ConnectionInvariant'
<1> SUFFICES ASSUME TypeOK, OwnershipAgrees, ConnectionInvariant, [Next]_vars
             PROVE  ConnectionInvariant'
  OBVIOUS
<1> DEFINE Clean == \A s \in DataIndices : sent[s] = 0 /\ ~status_reply[s]
<1>a. Clean
  BY DEF ConnectionInvariant
<1>b. ASSUME UNCHANGED <<sent, status_reply>> PROVE Clean'
  BY <1>a, <1>b
<1>c. ASSUME fail_control PROVE ConnectionInvariant'
  BY <1>c, CloseConnection DEF fail_control
<1>d. StaleTimeout \in Nat \ {0} /\ idle \in 0 .. (StaleTimeout + 1)
  BY StaleTimeoutAssumption DEF TypeOK, SlotTypeOK
\* A progress call that is not a drop has seen a fresh owner.
<1>e. ASSUME ~connected_overdue, tcp PROVE idle < StaleTimeout
  BY <1>d, <1>e DEF connected_overdue, isStale, OwnershipAgrees
<1>1. CASE progress_drop
  BY <1>1, <1>c, CloseConnection DEF progress_drop, DropOverdue
<1>2. CASE progress_accept
  <2>1. CASE AcceptController
    BY <1>2, <2>1, <1>a, <1>b, <1>d
    DEF AcceptController, acquire, progress_accept, progressing, lifeState,
        slotState, ConnectionInvariant
  <2>2. CASE RejectSecond \/ RefuseExhausted \/ AbortAccept
    BY <1>2, <2>2, <1>b, <1>d, <1>e
    DEF RejectSecond, RefuseExhausted, AbortAccept, progress_accept, progressing,
        lifeState, slotVars, slotState, connectionState, ConnectionInvariant
  <2> QED BY <1>2, <2>1, <2>2 DEF progress_accept, accept_controller
<1>3. CASE progress_receive
  <2>1. CASE ReceiveFailure
    BY <2>1, <1>c DEF ReceiveFailure
  <2>2. ASSUME NEW a \in BOOLEAN, NEW b \in BOOLEAN, ReceiveBytes(a, b)
        PROVE  ConnectionInvariant'
    BY <1>3, <2>2, <1>b, <1>d, <1>e
    DEF ReceiveBytes, progress_receive, progressing, lifeState, slotVars,
        slotState, ConnectionInvariant
  <2> QED BY <1>3, <2>1, <2>2 DEF progress_receive, receive_control
<1>4. CASE progress_transmit
  <2>1. PICK s \in Slots : transmit(s)
    BY <1>4 DEF progress_transmit, TransmitNext
  <2>2. /\ ~connected_overdue /\ open /\ associated /\ polled'
        /\ UNCHANGED <<open, associated>>
    BY <1>4 DEF progress_transmit, progressing, lifeState
  <2>3. ASSUME finishFailed(s) PROVE ConnectionInvariant'
    <3>1. Clean'
      BY <2>3, <1>a, FinishDataClean DEF finishFailed
    <3> QED
      BY <2>2, <2>3, <3>1, <1>e
      DEF finishFailed, slotVars, connectionState, ConnectionInvariant
  <2>4. CASE Retry(s)
    BY <2>2, <2>4, <1>b, <1>e
    DEF Retry, slotVars, slotState, connectionState, ConnectionInvariant
  <2>5. ASSUME finishSucceeded(s) PROVE ConnectionInvariant'
    <3>1. Clean'
      BY <2>5, <1>a, FinishDataClean DEF finishSucceeded
    <3>2. pending_status_request' => tcp' /\ askedOn' = connection_generation'
      BY <2>5 DEF finishSucceeded, ConnectionInvariant
    <3>3. tcp' => idle' < StaleTimeout
      BY <2>2, <2>5, <1>d, <1>e DEF finishSucceeded, observe_liveness, slotVars
    <3> QED
      BY <2>2, <2>5, <3>1, <3>2, <3>3 DEF finishSucceeded, ConnectionInvariant
  <2>6. ASSUME NEW n \in 1 .. FrameUnits, WritePart(s, n)
        PROVE  ConnectionInvariant'
    <3>1. Clean'
      BY <2>6, <1>a DEF WritePart, DataIndices, TypeOK
    <3> QED
      BY <2>2, <2>6, <3>1, <1>e DEF WritePart, slotVars, ConnectionInvariant
  <2> QED
    BY <2>1, <2>3, <2>4, <2>5, <2>6, <1>c
    DEF transmit, Expire, SendError, SendDatagram, WriteRest
<1>5. CASE progress_idle
  BY <1>5, <1>b, <1>e
  DEF progress_idle, progressing, lifeState, NothingToSend, slotVars, slotState,
      connectionState, ConnectionInvariant
<1>6. CASE Send
  <2>1. PICK x \in Submissions, s \in Slots, r \in BOOLEAN : send(x, s, r)
    BY <1>6 DEF Send
  <2>2. Clean'
    BY <2>1, <1>a, SlotFacts, Zenon DEF send, firstFree, TypeOK
  <2> QED
    BY <2>1, <2>2
    DEF send, slotVars, connectionState, lifeState, ConnectionInvariant
<1>7. CASE disconnect_controller
  BY <1>7, <1>c DEF disconnect_controller
<1>8. CASE detach \/ binding_detach
  BY <1>8, CloseConnection DEF detach, binding_detach
<1>9. CASE Tick
  BY <1>9, <1>b DEF Tick, lifeState, ConnectionInvariant
<1>10. CASE \/ associate \/ close_admission \/ Connect
            \/ (\E x \in Submissions : Retire(x)) \/ UNCHANGED vars
  BY <1>10, <1>b
  DEF associate, close_admission, Connect, Retire, vars, slotVars, slotState,
      connectionState, lifeState, ConnectionInvariant
<1> QED
  BY <1>1, <1>2, <1>3, <1>4, <1>5, <1>6, <1>7, <1>8, <1>9, <1>10
  DEF Next, progress_next

\* An open connection belongs to an attached transport, its unanswered status
\* request arrived on it, and once progress has run in a tick it is not stale.
THEOREM ConnectionTheorem == Spec => []ConnectionInvariant
<1>1. Init => ConnectionInvariant
  BY SlotFacts DEF Init, ConnectionInvariant
<1>2. TypeOK /\ OwnershipAgrees /\ ConnectionInvariant /\ [Next]_vars
        => ConnectionInvariant'
  BY ConnectionStep
<1> QED BY <1>1, <1>2, TypeCorrect, OwnershipTheorem, PTL DEF Spec

\* A step refreshes the owner's liveness only when a status request arrived on
\* the owner's own connection.
THEOREM LivenessEvidenceTheorem == Spec => LivenessEvidence
<1> DEFINE Evidence ==
      (active_generation' = active_generation /\ idle' < idle)
        => askedOn = active_generation \/ active_generation = NoGeneration
<1>1. ASSUME TypeOK, OwnershipAgrees, ConnectionInvariant, [Next]_vars
      PROVE  [Evidence]_vars
  <2>1. idle \in Nat /\ StaleTimeout \in Nat
    BY <1>1, StaleTimeoutAssumption DEF TypeOK, SlotTypeOK
  <2>2. ASSUME idle' = idle \/ active_generation' # active_generation
               \/ active_generation = NoGeneration
        PROVE  Evidence
    BY <2>1, <2>2
  <2>3. ASSUME fail_control PROVE Evidence
    BY <2>2, <2>3 DEF fail_control, release, slotVars
  <2>4. CASE progress_drop
    BY <2>2, <2>3, <2>4
    DEF progress_drop, DropOverdue, release_if_stale, isStale
  <2>5. CASE progress_accept
    BY <1>1, <2>2, <2>5
    DEF progress_accept, accept_controller, RejectSecond, RefuseExhausted,
        AcceptController, AbortAccept, acquire, canAcquire, slotVars,
        OwnershipAgrees
  <2>6. CASE progress_receive
    BY <2>2, <2>3, <2>6
    DEF progress_receive, receive_control, ReceiveFailure, ReceiveBytes, slotVars
  <2>7. CASE progress_transmit
    <3>1. PICK s \in Slots : transmit(s)
      BY <2>7 DEF progress_transmit, TransmitNext
    <3>2. ASSUME finishSucceeded(s) PROVE Evidence
      BY <1>1, <2>1, <2>2, <3>2
      DEF finishSucceeded, observe_liveness, slotVars, ConnectionInvariant,
          OwnershipAgrees
    <3> QED
      BY <2>2, <2>3, <3>1, <3>2
      DEF transmit, Expire, Retry, SendError, SendDatagram, WritePart, WriteRest,
          finishFailed, slotVars
  <2>8. CASE detach \/ binding_detach
    BY <2>2, <2>8 DEF detach, binding_detach, detaching, release, slotVars
  <2>9. CASE Tick
    BY <2>1, <2>9 DEF Tick, slotTick
  <2>10. CASE disconnect_controller
    BY <2>3, <2>10 DEF disconnect_controller
  <2>11. CASE \/ progress_idle \/ Send \/ associate \/ close_admission
              \/ Connect \/ \E x \in Submissions : Retire(x)
    BY <2>2, <2>11
    DEF progress_idle, NothingToSend, Send, send, associate, close_admission,
        Connect, Retire, slotVars
  <2> QED
    BY <1>1, <2>4, <2>5, <2>6, <2>7, <2>8, <2>9, <2>10, <2>11
    DEF Next, progress_next
<1> QED
  BY <1>1, TypeCorrect, OwnershipTheorem, ConnectionTheorem, PTL
  DEF Spec, LivenessEvidence

-----------------------------------------------------------------------------
(* Completions.                                                            *)

\* Finishing any set of occupied slots keeps the accounting.
LEMMA FinishAccounting ==
  ASSUME TypeOK, CompletionAccounting, NEW S \in SUBSET Slots,
         \A s \in S : occupied(s),
         NEW r \in Terminal, finishSlots(S, r)
  PROVE  CompletionAccounting'
<1> USE DEF occupied
<1>1. \A s \in Slots : submission[s] \in Submissions \cup {NoSubmission}
  BY DEF TypeOK
<1>2. r # "pending"
  BY DEF Terminal
<1>3. \A s \in Slots : submission'[s] = IF s \in S THEN NoSubmission
                                                   ELSE submission[s]
  BY DEF finishSlots
<1>4. \A x \in Submissions :
        completion'[x] = IF \E s \in S : submission[s] = x THEN r
                                                           ELSE completion[x]
  BY DEF finishSlots
<1>5. ASSUME NEW s \in Slots, submission'[s] # NoSubmission
      PROVE  completion'[submission'[s]] = "pending"
  <2>1. s \notin S /\ submission'[s] = submission[s]
    BY <1>3, <1>5
  <2>2. submission[s] \in Submissions /\ completion[submission[s]] = "pending"
    BY <1>1, <1>5, <2>1 DEF CompletionAccounting
  <2>3. ~ \E t \in S : submission[t] = submission[s]
    BY <2>1, <2>2, <1>5 DEF CompletionAccounting
  <2> QED BY <1>4, <2>1, <2>2, <2>3
<1>6. ASSUME NEW s \in Slots, NEW t \in Slots, submission'[s] # NoSubmission,
             submission'[s] = submission'[t]
      PROVE  s = t
  BY <1>3, <1>6 DEF CompletionAccounting
<1>7. ASSUME NEW x \in Submissions, completion'[x] = "pending"
      PROVE  \E s \in Slots : submission'[s] = x
  <2>1. completion[x] = "pending" /\ ~ \E s \in S : submission[s] = x
    BY <1>2, <1>4, <1>7
  <2>2. PICK s \in Slots : submission[s] = x
    BY <2>1 DEF CompletionAccounting
  <2> QED BY <1>3, <2>1, <2>2
<1> QED BY <1>5, <1>6, <1>7 DEF CompletionAccounting

LEMMA AccountingStep ==
  TypeOK /\ CompletionAccounting /\ [Next]_vars => CompletionAccounting'
<1> SUFFICES ASSUME TypeOK, CompletionAccounting, [Next]_vars
             PROVE  CompletionAccounting'
  OBVIOUS
<1>a. ASSUME UNCHANGED <<submission, completion>> PROVE CompletionAccounting'
  BY <1>a DEF CompletionAccounting, occupied
<1>b. ASSUME NEW S \in SUBSET Slots, \A s \in S : occupied(s), closeControl(S)
      PROVE  CompletionAccounting'
  <2> DEFINE T == {s \in ControlIndices : occupied(s)} \cup S
  <2>1. T \in SUBSET Slots /\ (\A s \in T : occupied(s)) /\ "failed" \in Terminal
    BY <1>b, SlotFacts DEF Terminal
  <2>2. finishSlots(T, "failed")
    BY <1>b DEF closeControl
  <2> HIDE DEF T
  <2> QED BY <2>1, <2>2, FinishAccounting
<1>c. ASSUME fail_control PROVE CompletionAccounting'
  BY <1>c, <1>b DEF fail_control
<1>1. CASE progress_drop
  BY <1>1, <1>b, <1>c DEF progress_drop, DropOverdue
<1>2. CASE progress_accept
  BY <1>2, <1>a DEF progress_accept, accept_controller, RejectSecond,
     RefuseExhausted, AcceptController, AbortAccept, slotState
<1>3. CASE progress_receive
  BY <1>3, <1>a, <1>c
  DEF progress_receive, receive_control, ReceiveFailure, ReceiveBytes, slotState
<1>4. CASE progress_transmit
  <2>1. PICK s \in Slots : selected(s) /\ transmit(s)
    BY <1>4 DEF progress_transmit, TransmitNext
  <2>2. ASSUME NEW r \in Terminal, finishSlots({s}, r) PROVE CompletionAccounting'
    BY <2>1, <2>2, FinishAccounting DEF selected
  <2>3. "failed" \in Terminal /\ "succeeded" \in Terminal
    BY DEF Terminal
  <2>4. CASE Retry(s) \/ \E n \in 1 .. FrameUnits : WritePart(s, n)
    BY <2>4, <1>a DEF Retry, WritePart, slotState
  <2>5. CASE Expire(s) \/ SendError(s)
    BY <2>2, <2>3, <2>5, <1>c DEF Expire, SendError, finishFailed
  <2>6. CASE SendDatagram(s) \/ WriteRest(s)
    BY <2>2, <2>3, <2>6 DEF SendDatagram, WriteRest, finishSucceeded
  <2> QED BY <2>1, <2>4, <2>5, <2>6 DEF transmit
<1>5. CASE Send
  <2>1. PICK x \in Submissions, s \in Slots, r \in BOOLEAN : send(x, s, r)
    BY <1>5 DEF Send
  <2>2. ~occupied(s) /\ completion[x] = "idle"
    BY <2>1 DEF send, firstFree
  <2>3. \A t \in Slots : submission'[t] = IF t = s THEN x ELSE submission[t]
    BY <2>1 DEF send, TypeOK
  <2>4. \A y \in Submissions :
          completion'[y] = IF y = x THEN "pending" ELSE completion[y]
    BY <2>1 DEF send, TypeOK
  <2>5. \A t \in Slots : submission[t] # x
    BY <2>1, <2>2, NoSubmissionAssumption DEF CompletionAccounting, occupied
  <2>6. \A t \in Slots : submission[t] \in Submissions \cup {NoSubmission}
    BY DEF TypeOK
  <2>7. \A t \in Slots : occupied(t)' => completion'[submission'[t]] = "pending"
    BY <2>1, <2>3, <2>4, <2>6 DEF CompletionAccounting, occupied
  <2>8. \A t, u \in Slots :
          occupied(t)' /\ submission'[t] = submission'[u] => t = u
    BY <2>3, <2>5 DEF CompletionAccounting, occupied
  <2>9. \A y \in Submissions :
          completion'[y] = "pending" => \E t \in Slots : submission'[t] = y
    BY <2>1, <2>2, <2>3, <2>4, NoSubmissionAssumption
    DEF CompletionAccounting, occupied
  <2> QED BY <2>7, <2>8, <2>9 DEF CompletionAccounting
<1>6. CASE disconnect_controller
  BY <1>6, <1>c DEF disconnect_controller
<1>7. CASE detach \/ binding_detach
  <2>1. {s \in DataIndices : occupied(s)} \in SUBSET Slots
    BY SlotFacts
  <2> QED BY <1>7, <1>b, <2>1 DEF detach, binding_detach
<1>8. ASSUME NEW x \in Submissions, Retire(x) PROVE CompletionAccounting'
  <2>1. \A y \in Submissions :
          completion'[y] = IF y = x THEN "idle" ELSE completion[y]
    BY <1>8 DEF Retire, TypeOK
  <2>2. completion[x] # "pending" /\ submission' = submission
    BY <1>8 DEF Retire, Terminal, slotState
  <2>3. \A t \in Slots : submission[t] \in Submissions \cup {NoSubmission}
    BY DEF TypeOK
  <2> QED BY <2>1, <2>2, <2>3 DEF CompletionAccounting, occupied
<1>9. CASE \/ progress_idle \/ associate \/ close_admission \/ Connect \/ Tick
           \/ UNCHANGED vars
  BY <1>9, <1>a DEF progress_idle, NothingToSend, associate, close_admission,
     Connect, Tick, vars, slotState
<1> QED
  BY <1>1, <1>2, <1>3, <1>4, <1>5, <1>6, <1>7, <1>8, <1>9 DEF Next, progress_next

\* Exactly one terminal completion per transmission: a pending transmission
\* sits in exactly one slot and a completed one in none.
THEOREM CompletionTheorem == Spec => []CompletionAccounting
<1>1. Init => CompletionAccounting
  BY NoSubmissionAssumption DEF Init, CompletionAccounting, occupied
<1>2. TypeOK /\ CompletionAccounting /\ [Next]_vars => CompletionAccounting'
  BY AccountingStep
<1> QED BY <1>1, <1>2, TypeCorrect, PTL DEF Spec

-----------------------------------------------------------------------------
(* Frames and connections.                                                 *)

\* Finishing slots only removes partly written frames.
LEMMA FinishKeepsFrames ==
  ASSUME OneConnectionPerFrame, NEW S, NEW r, finishSlots(S, r),
         UNCHANGED <<tcp, connection_generation>>
  PROVE  OneConnectionPerFrame'
<1>1. \A s \in Slots : s \notin S => /\ submission'[s] = submission[s]
                                     /\ sent'[s] = sent[s]
                                     /\ startedOn'[s] = startedOn[s]
  BY DEF finishSlots
<1>2. \A s \in Slots : s \in S => submission'[s] = NoSubmission
  BY DEF finishSlots
<1> QED BY <1>1, <1>2, SlotFacts DEF OneConnectionPerFrame, occupied

\* Closing the connection leaves no control frame behind.
LEMMA CloseLeavesNoFrame ==
  ASSUME NEW S, closeControl(S)
  PROVE  OneConnectionPerFrame'
<1>1. ASSUME NEW s \in ControlIndices PROVE submission'[s] = NoSubmission
  BY <1>1, SlotFacts DEF closeControl, finishSlots, occupied
<1> QED BY <1>1 DEF OneConnectionPerFrame, occupied

LEMMA FrameStep ==
  TypeOK /\ OneConnectionPerFrame /\ [Next]_vars => OneConnectionPerFrame'
<1> SUFFICES ASSUME TypeOK, OneConnectionPerFrame, [Next]_vars
             PROVE  OneConnectionPerFrame'
  OBVIOUS
<1>a. ASSUME UNCHANGED <<submission, sent, startedOn, tcp, connection_generation>>
      PROVE  OneConnectionPerFrame'
  BY <1>a DEF OneConnectionPerFrame, occupied
<1>1. CASE progress_drop
  BY <1>1, CloseLeavesNoFrame DEF progress_drop, DropOverdue, fail_control
<1>2. CASE progress_accept
  <2>1. CASE AcceptController
    BY <2>1, SlotFacts DEF AcceptController, slotState, OneConnectionPerFrame,
                           occupied
  <2> QED
    BY <1>2, <1>a, <2>1
    DEF progress_accept, accept_controller, RejectSecond, RefuseExhausted,
        AbortAccept, slotState, connectionState
<1>3. CASE progress_receive
  BY <1>3, <1>a, CloseLeavesNoFrame
  DEF progress_receive, receive_control, ReceiveFailure, ReceiveBytes,
      fail_control, slotState
<1>4. CASE progress_transmit
  <2>1. PICK s \in Slots : selected(s) /\ transmit(s)
    BY <1>4 DEF progress_transmit, TransmitNext
  <2>2. CASE Expire(s)
    BY <2>2, FinishKeepsFrames DEF Expire, finishFailed, connectionState
  <2>3. CASE SendError(s)
    BY <2>3, FinishKeepsFrames, CloseLeavesNoFrame
    DEF SendError, finishFailed, fail_control, connectionState
  <2>4. CASE SendDatagram(s) \/ WriteRest(s)
    BY <2>4, FinishKeepsFrames DEF SendDatagram, WriteRest, finishSucceeded
  <2>5. CASE Retry(s)
    BY <2>5, <1>a DEF Retry, slotState, connectionState
  <2>6. ASSUME NEW n \in 1 .. FrameUnits, WritePart(s, n)
        PROVE  OneConnectionPerFrame'
    <3>1. tcp /\ UNCHANGED <<tcp, connection_generation, submission>>
      BY <2>6 DEF WritePart, sendable
    <3>2. \A t \in Slots : t # s => sent'[t] = sent[t] /\ startedOn'[t] = startedOn[t]
      BY <2>6 DEF WritePart, TypeOK
    <3>3. startedOn'[s] = IF sent[s] = 0 THEN connection_generation ELSE startedOn[s]
      BY <2>6 DEF WritePart, TypeOK
    <3>4. s \in ControlIndices /\ occupied(s)
      BY <2>1, <2>6 DEF WritePart, ControlIndices, selected
    <3>5. sent[s] # 0 => sent[s] > 0
      BY FrameUnitsAssumption DEF TypeOK
    <3>6. startedOn'[s] = connection_generation
      BY <3>3, <3>4, <3>5 DEF OneConnectionPerFrame
    <3> QED BY <3>1, <3>2, <3>6, SlotFacts DEF OneConnectionPerFrame, occupied
  <2> QED BY <2>1, <2>2, <2>3, <2>4, <2>5, <2>6 DEF transmit
<1>5. CASE Send
  <2>1. PICK x \in Submissions, s \in Slots, r \in BOOLEAN : send(x, s, r)
    BY <1>5 DEF Send
  <2>2. \A t \in Slots : t # s => /\ sent'[t] = sent[t]
                                  /\ startedOn'[t] = startedOn[t]
                                  /\ submission'[t] = submission[t]
    BY <2>1 DEF send, TypeOK
  <2>3. sent'[s] = 0 /\ UNCHANGED <<tcp, connection_generation>>
    BY <2>1 DEF send, TypeOK, connectionState
  <2> QED BY <2>2, <2>3, SlotFacts DEF OneConnectionPerFrame, occupied
<1>6. CASE disconnect_controller \/ detach \/ binding_detach
  BY <1>6, CloseLeavesNoFrame
  DEF disconnect_controller, fail_control, detach, binding_detach
<1>7. CASE \/ progress_idle \/ associate \/ close_admission \/ Connect \/ Tick
           \/ (\E x \in Submissions : Retire(x)) \/ UNCHANGED vars
  BY <1>7, <1>a
  DEF progress_idle, NothingToSend, associate, close_admission, Connect, Tick,
      Retire, vars, slotState, connectionState
<1> QED
  BY <1>1, <1>2, <1>3, <1>4, <1>5, <1>6, <1>7 DEF Next, progress_next

\* The remainder of a partly written control frame is never written to a later
\* connection, because closing a connection fails every control slot.
THEOREM FrameTheorem == Spec => []OneConnectionPerFrame
<1>1. Init => OneConnectionPerFrame
  BY SlotFacts DEF Init, OneConnectionPerFrame, occupied
<1>2. TypeOK /\ OneConnectionPerFrame /\ [Next]_vars => OneConnectionPerFrame'
  BY FrameStep
<1> QED BY <1>1, <1>2, TypeCorrect, PTL DEF Spec

-----------------------------------------------------------------------------
(* Refinement of the abstract ownership.                                   *)

\* The generation being handed out is larger than every one handed out before.
LEMMA NextIsFresh ==
  ASSUME TypeOK, next_generation # NoGeneration
  PROVE  /\ next_generation > lastGeneration
         /\ successor(next_generation) # NoGeneration
              => successor(next_generation) - 1 = next_generation
         /\ successor(next_generation) = NoGeneration
              => GenerationLimit - 1 = next_generation
  BY GenerationLimitAssumption
  DEF TypeOK, SlotTypeOK, Generations, NoGeneration, lastGeneration, successor

LEMMA OwnershipRefinementStep ==
  ASSUME TypeOK, OwnershipAgrees, ConnectionInvariant, [Next]_vars
  PROVE  [Ownership!OwnershipNext]_(Ownership!ownershipVars)
<1> DEFINE abstractOwner == IF tcp THEN connection_generation ELSE NoGeneration
<1>a. abstractOwner = connection_generation /\ abstractOwner' = connection_generation'
  BY OwnershipStep DEF OwnershipAgrees
<1>b. ASSUME UNCHANGED <<tcp, connection_generation, next_generation, idle>>
      PROVE  UNCHANGED Ownership!ownershipVars
  BY <1>b DEF Ownership!ownershipVars, lastGeneration
<1>c. ASSUME NEW S, closeControl(S), UNCHANGED <<next_generation, idle>>
      PROVE  [Ownership!OwnershipNext]_(Ownership!ownershipVars)
  <2>1. CASE tcp
    BY <1>c, <2>1
    DEF closeControl, Ownership!OwnershipNext, Ownership!Release, lastGeneration,
        OwnershipAgrees, NoGeneration
  <2>2. CASE ~tcp
    BY <1>b, <1>c, <2>2 DEF closeControl, OwnershipAgrees
  <2> QED BY <2>1, <2>2
<1>d. ASSUME fail_control
      PROVE  [Ownership!OwnershipNext]_(Ownership!ownershipVars)
  BY <1>c, <1>d DEF fail_control, release, slotVars
<1>1. CASE progress_drop
  BY <1>1, <1>c, <1>d DEF progress_drop, DropOverdue, release_if_stale
<1>2. CASE progress_accept
  <2>1. CASE RejectSecond \/ RefuseExhausted
    BY <1>b, <2>1 DEF RejectSecond, RefuseExhausted, slotVars, connectionState
  <2>2. CASE AcceptController
    BY <2>2, NextIsFresh
    DEF AcceptController, acquire, canAcquire, Ownership!OwnershipNext,
        Ownership!Grant, lastGeneration, NoGeneration
  <2>3. CASE AbortAccept
    BY <2>3, NextIsFresh
    DEF AbortAccept, canAcquire, Ownership!OwnershipNext, Ownership!Burn,
        lastGeneration, NoGeneration
  <2> QED BY <1>2, <2>1, <2>2, <2>3 DEF progress_accept, accept_controller
<1>3. CASE progress_receive
  BY <1>3, <1>b, <1>d
  DEF progress_receive, receive_control, ReceiveFailure, ReceiveBytes, slotVars
<1>4. CASE progress_transmit
  <2>1. PICK s \in Slots : transmit(s)
    BY <1>4 DEF progress_transmit, TransmitNext
  <2>2. ASSUME finishSucceeded(s)
        PROVE  [Ownership!OwnershipNext]_(Ownership!ownershipVars)
    <3>1. CASE slotVars' = slotVars
      BY <1>b, <2>2, <3>1 DEF finishSucceeded, slotVars
    <3>2. CASE connection_generation # NoGeneration
               /\ observe_liveness(connection_generation)
      BY <2>2, <3>2
      DEF finishSucceeded, observe_liveness, OwnershipAgrees, NoGeneration,
          Ownership!OwnershipNext, Ownership!KeepAlive, lastGeneration
    <3> QED BY <2>2, <3>1, <3>2 DEF finishSucceeded
  <2> QED
    BY <1>b, <1>d, <2>1, <2>2
    DEF transmit, Expire, Retry, SendError, SendDatagram, WritePart, WriteRest,
        finishFailed, slotVars, connectionState
<1>5. CASE disconnect_controller
  BY <1>5, <1>d DEF disconnect_controller
<1>6. CASE detach \/ binding_detach
  BY <1>6, <1>c DEF detach, binding_detach, detaching, release, slotVars
<1>7. CASE Tick
  <2>1. tcp => idle < StaleTimeout
    BY <1>7 DEF Tick, ConnectionInvariant
  <2> QED
    BY <1>7, <2>1
    DEF Tick, slotTick, Ownership!OwnershipNext, Ownership!Pass, lastGeneration,
        NoGeneration
<1>8. CASE \/ progress_idle \/ Send \/ associate \/ close_admission \/ Connect
           \/ (\E x \in Submissions : Retire(x)) \/ UNCHANGED vars
  BY <1>8, <1>b
  DEF progress_idle, NothingToSend, Send, send, associate, close_admission,
      Connect, Retire, vars, slotVars, connectionState
<1> QED
  BY <1>1, <1>2, <1>3, <1>4, <1>5, <1>6, <1>7, <1>8 DEF Next, progress_next

\* The transport implements ControlOwnership: one owner, no takeover, a fresh
\* generation per owner, and no time passes while a stale owner keeps the radio.
THEOREM OwnershipRefinement == Spec => ImplementsOwnership
<1>1. Init => Ownership!OwnershipInit
  BY DEF Init, SlotInit, Ownership!OwnershipInit, lastGeneration, NoGeneration
<1>2. TypeOK /\ OwnershipAgrees /\ ConnectionInvariant /\ [Next]_vars
        => [Ownership!OwnershipNext]_(Ownership!ownershipVars)
  BY OwnershipRefinementStep
<1> QED
  BY <1>1, <1>2, TypeCorrect, OwnershipTheorem, ConnectionTheorem, PTL
  DEF Spec, ImplementsOwnership, Ownership!OwnershipSpec
=============================================================================
