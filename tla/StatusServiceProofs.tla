-------------------------- MODULE StatusServiceProofs --------------------------
(***************************************************************************)
(* Proofs about StatusService for any number of workers, clients, changes  *)
(* of state and turns: the answers of the status service are fresh, and no *)
(* request is lost.                                                        *)
(***************************************************************************)
EXTENDS StatusService, FiniteSetTheorems, TLAPS

MainStates == [pc : {"progress", "exchange", "build", "publish", "exited"},
               snapshot : Nat]
WorkerStates == [pc : {"poll", "accepted", "wait", "read", "write", "exited"},
                 before : Nat, status : Nat, asked : Nat, turns : Nat, units : Nat]

Types ==
  /\ requested \in BOOLEAN
  /\ native \in Nat /\ sequence \in Nat /\ value \in Nat
  /\ main \in MainStates
  /\ worker \in [Workers -> WorkerStates]

\* The radio cannot change between build and publish, because the main thread
\* makes both steps; what a cache or a worker remembers lies in the past.
Snapshots ==
  /\ value <= native
  /\ main.pc = "publish" => main.snapshot = native
  /\ \A w \in Workers : worker[w].asked <= native /\ worker[w].before <= sequence

\* A wait that is over is over because of a snapshot taken after its request.
AnswersAreFresh ==
  \A w \in Workers :
    worker[w].pc = "wait" /\ updated(w) => worker[w].asked <= value

\* A wait that is not over yet has its request in the flag, or the main loop is
\* about to publish; and no turn of the main loop has ended meanwhile.
RequestsArePending ==
  \A w \in Workers :
    worker[w].pc = "wait" =>
      \/ updated(w)
      \/ /\ worker[w].turns = 0
         /\ requested \/ main.pc \in {"build", "publish"}

IInv == Types /\ Snapshots /\ AnswersAreFresh /\ RequestsArePending /\ FreshStatus

\* A step of one worker that keeps the flag set keeps the invariant, if the new
\* state of the worker satisfies what the invariant says of it.
LEMMA WorkerStep ==
  ASSUME IInv, NEW w \in Workers, NEW next \in WorkerStates,
         moves(w, next),
         requested' \in BOOLEAN, requested => requested',
         next.asked <= native, next.before <= sequence,
         next.pc = "wait" =>
           /\ sequence > next.before => next.asked <= value
           /\ \/ sequence > next.before
              \/ next.turns = 0 /\ (requested' \/ main.pc \in {"build", "publish"}),
         next.pc \in {"read", "write"} => next.status >= next.asked
  PROVE  IInv'
<1> USE DEF moves
<1>1. worker' = [worker EXCEPT ![w] = next] /\ worker \in [Workers -> WorkerStates]
  BY DEF IInv, Types
<1>2. worker' \in [Workers -> WorkerStates]
  BY <1>1
<1>3. /\ worker'[w] = next
      /\ \A v \in Workers \ {w} : worker'[v] = worker[v]
  BY <1>1
<1>4. Types'
  BY <1>2 DEF IInv, Types
<1>5. Snapshots'
  BY <1>3 DEF IInv, Snapshots
<1>6. AnswersAreFresh'
  BY <1>3 DEF IInv, AnswersAreFresh, updated
<1>7. RequestsArePending'
  BY <1>3 DEF IInv, Types, RequestsArePending, updated
<1>8. FreshStatus'
  BY <1>3 DEF IInv, FreshStatus
<1> QED
  BY <1>4, <1>5, <1>6, <1>7, <1>8 DEF IInv

\* The end of a turn changes nothing about a worker but the turns it remembers.
LEMMA Turned ==
  ASSUME Types
  PROVE  /\ turned \in [Workers -> WorkerStates]
         /\ \A w \in Workers :
              /\ turned[w].pc = worker[w].pc
              /\ turned[w].before = worker[w].before
              /\ turned[w].status = worker[w].status
              /\ turned[w].asked = worker[w].asked
BY DEF Types, turned, WorkerStates

LEMMA Initially == Init => IInv
<1> SUFFICES ASSUME Init PROVE IInv
  OBVIOUS
<1>1. Idle \in WorkerStates /\ \A w \in Workers : worker[w] = Idle
  BY DEF Init, Idle, WorkerStates
<1>2. Types
  BY <1>1 DEF Init, Types, MainStates
<1>3. \A w \in Workers : worker[w].pc = "poll" /\ worker[w].asked = 0 /\ worker[w].before = 0
  BY <1>1 DEF Idle
<1>4. Snapshots
  BY <1>3 DEF Init, Snapshots
<1>5. AnswersAreFresh /\ RequestsArePending /\ FreshStatus
  BY <1>3 DEF AnswersAreFresh, RequestsArePending, FreshStatus
<1> QED
  BY <1>2, <1>4, <1>5 DEF IInv

\* The steps of the main loop.
LEMMA MainStep == ASSUME IInv, mainLoop PROVE IInv'
<1> USE DEF IInv
<1>1. CASE Progress
  <2>1. native' \in Nat /\ native <= native'
    BY <1>1 DEF Progress, Types
  <2>2. main' \in MainStates /\ main'.pc = "exchange" /\ main.pc = "progress"
    BY <1>1 DEF Progress, Types, MainStates
  <2>3. UNCHANGED <<requested, sequence, value, worker>>
    BY <1>1 DEF Progress
  <2>4. Types'
    BY <2>1, <2>2, <2>3 DEF Types
  <2>5. Snapshots'
    BY <2>1, <2>2, <2>3 DEF Types, Snapshots, WorkerStates
  <2>6. AnswersAreFresh' /\ RequestsArePending' /\ FreshStatus'
    BY <2>2, <2>3 DEF AnswersAreFresh, RequestsArePending, FreshStatus, updated
  <2> QED
    BY <2>4, <2>5, <2>6
<1>2. CASE Exchange /\ requested
  <2>1. main' \in MainStates /\ main'.pc = "build"
    BY <1>2 DEF Exchange, Types, MainStates
  <2>2. UNCHANGED <<native, sequence, value, worker>> /\ requested' = FALSE
    BY <1>2 DEF Exchange
  <2>3. Types' /\ Snapshots'
    BY <2>1, <2>2 DEF Types, Snapshots
  <2>4. AnswersAreFresh' /\ RequestsArePending' /\ FreshStatus'
    BY <2>1, <2>2 DEF AnswersAreFresh, RequestsArePending, FreshStatus, updated
  <2> QED
    BY <2>3, <2>4
<1>3. CASE Exchange /\ ~requested
  <2>1. main' \in MainStates /\ main'.pc = "progress" /\ main.pc = "exchange"
    BY <1>3 DEF Exchange, Types, MainStates
  <2>2. UNCHANGED <<native, sequence, value>> /\ requested' = FALSE /\ worker' = turned
    BY <1>3 DEF Exchange
  <2>3. \A w \in Workers : worker[w].pc = "wait" => updated(w)
    BY <1>3, <2>1 DEF RequestsArePending
  <2>4. Types' /\ Snapshots'
    BY <2>1, <2>2, Turned DEF Types, Snapshots
  <2>5. AnswersAreFresh' /\ FreshStatus'
    BY <2>2, Turned DEF AnswersAreFresh, FreshStatus, updated
  <2>6. RequestsArePending'
    BY <2>2, <2>3, Turned DEF RequestsArePending, updated
  <2> QED
    BY <2>4, <2>5, <2>6
<1>4. CASE Build
  <2>1. /\ main' = [pc |-> "publish", snapshot |-> native]
        /\ UNCHANGED <<native, requested, sequence, value, worker>>
        /\ main.pc = "build"
    BY <1>4 DEF Build
  <2>2. Types' /\ Snapshots'
    BY <2>1 DEF Types, Snapshots, MainStates
  <2>3. AnswersAreFresh' /\ RequestsArePending' /\ FreshStatus'
    BY <2>1 DEF AnswersAreFresh, RequestsArePending, FreshStatus, updated
  <2> QED
    BY <2>2, <2>3
<1>5. CASE Publish
  <2>1. /\ main' = [pc |-> "progress", snapshot |-> 0]
        /\ value' = native /\ sequence' = sequence + 1 /\ worker' = turned
        /\ UNCHANGED <<native, requested>>
    BY <1>5 DEF Publish, Snapshots
  <2>2. Types'
    BY <2>1, Turned DEF Types, MainStates
  <2>3. Snapshots'
    BY <2>1, Turned DEF Types, Snapshots, WorkerStates
  <2>4. AnswersAreFresh' /\ FreshStatus'
    BY <2>1, Turned DEF AnswersAreFresh, FreshStatus, Snapshots
  <2>5. \A w \in Workers : sequence' > turned[w].before
    BY <2>1, Turned DEF Types, Snapshots, WorkerStates
  <2>6. RequestsArePending'
    BY <2>1, <2>5 DEF RequestsArePending, updated
  <2> QED
    BY <2>2, <2>3, <2>4, <2>6
<1>6. CASE Join
  <2>1. /\ main' \in MainStates /\ main'.pc = "exited" /\ main.pc = "progress"
        /\ UNCHANGED <<native, requested, sequence, value, worker>>
    BY <1>6 DEF Join, Types, MainStates
  <2>2. Types' /\ Snapshots'
    BY <2>1 DEF Types, Snapshots
  <2>3. AnswersAreFresh' /\ RequestsArePending' /\ FreshStatus'
    BY <2>1 DEF AnswersAreFresh, RequestsArePending, FreshStatus, updated
  <2> QED
    BY <2>2, <2>3
<1> QED
  BY <1>1, <1>2, <1>3, <1>4, <1>5, <1>6 DEF mainLoop

\* The steps of a worker.
LEMMA WorkerPreserves ==
  ASSUME IInv, NEW w \in Workers, status_worker(w) PROVE IInv'
<1>1. /\ worker[w] \in WorkerStates /\ requested \in BOOLEAN
      /\ native \in Nat /\ sequence \in Nat /\ value \in Nat
  BY DEF IInv, Types
<1>2. /\ worker[w].asked <= native /\ worker[w].before <= sequence
      /\ value <= native
  BY DEF IInv, Snapshots
<1>3. /\ worker[w].pc = "wait" /\ updated(w) => worker[w].asked <= value
      /\ worker[w].pc \in {"read", "write"} => worker[w].status >= worker[w].asked
  BY DEF IInv, AnswersAreFresh, FreshStatus
<1>4. Idle \in WorkerStates /\ Idle.pc = "poll" /\ Idle.asked = 0 /\ Idle.before = 0
  BY DEF Idle, WorkerStates
<1>5. ASSUME moves(w, Idle), UNCHANGED requested PROVE IInv'
  BY <1>1, <1>4, <1>5, WorkerStep
<1>6. CASE Accept(w)
  <2> DEFINE next == [Idle EXCEPT !.pc = "accepted"]
  <2>1. moves(w, next) /\ requested' = requested
    BY <1>6 DEF Accept
  <2>2. next \in WorkerStates /\ next.pc = "accepted" /\ next.asked = 0 /\ next.before = 0
    BY DEF Idle, WorkerStates
  <2> HIDE DEF next
  <2> QED
    BY <1>1, <2>1, <2>2, WorkerStep
<1>7. CASE Exit(w)
  <2> DEFINE next == [Idle EXCEPT !.pc = "exited"]
  <2>1. moves(w, next) /\ requested' = requested
    BY <1>7 DEF Exit
  <2>2. next \in WorkerStates /\ next.pc = "exited" /\ next.asked = 0 /\ next.before = 0
    BY DEF Idle, WorkerStates
  <2> HIDE DEF next
  <2> QED
    BY <1>1, <2>1, <2>2, WorkerStep
<1>8. CASE Request(w)
  <2> DEFINE next == [Idle EXCEPT !.pc = "wait", !.before = sequence, !.asked = native]
  <2>1. moves(w, next) /\ requested' = TRUE
    BY <1>8 DEF Request
  <2>2. /\ next \in WorkerStates /\ next.pc = "wait" /\ next.before = sequence
        /\ next.asked = native /\ next.turns = 0
    BY <1>1 DEF Idle, WorkerStates
  <2> HIDE DEF next
  <2> QED
    BY <1>1, <2>1, <2>2, WorkerStep
<1>9. CASE Answer(w)
  <2> DEFINE next == [worker[w] EXCEPT !.pc = "read", !.status = value]
  <2>1. moves(w, next) /\ requested' = requested /\ worker[w].asked <= value
    BY <1>3, <1>9 DEF Answer
  <2>2. /\ next \in WorkerStates /\ next.pc = "read" /\ next.status = value
        /\ next.asked = worker[w].asked /\ next.before = worker[w].before
    BY <1>1 DEF WorkerStates
  <2>3. value >= next.asked
    BY <1>1, <2>1, <2>2 DEF WorkerStates
  <2> HIDE DEF next
  <2> QED
    BY <1>1, <1>2, <2>1, <2>2, <2>3, WorkerStep
<1>10. CASE WaitTimeout(w)
  BY <1>5, <1>10 DEF WaitTimeout
<1>11. CASE GiveUp(w)
  BY <1>5, <1>11 DEF GiveUp
<1>12. ASSUME NEW phase \in {"read", "write"}, NEW n \in Nat,
              worker[w].pc \in {"read", "write"}, requested' = requested,
              moves(w, [worker[w] EXCEPT !.pc = phase, !.units = n])
       PROVE  IInv'
  <2> DEFINE next == [worker[w] EXCEPT !.pc = phase, !.units = n]
  <2>1. /\ next \in WorkerStates /\ next.pc = phase
        /\ next.asked = worker[w].asked /\ next.before = worker[w].before
        /\ next.status = worker[w].status
    BY <1>1 DEF WorkerStates
  <2>2. moves(w, next)
    BY <1>12
  <2> HIDE DEF next
  <2> QED
    BY <1>1, <1>2, <1>3, <1>12, <2>1, <2>2, WorkerStep
<1>13. ASSUME NEW n \in Nat, worker[w].pc \in {"read", "write"},
              requested' = requested, moves(w, [worker[w] EXCEPT !.units = n])
       PROVE  IInv'
  <2>1. [worker[w] EXCEPT !.units = n] =
          [worker[w] EXCEPT !.pc = worker[w].pc, !.units = n]
    BY <1>1 DEF WorkerStates
  <2> QED
    BY <1>12, <1>13, <2>1
<1>14. ASSUME NEW n \in 1 .. RequestUnits + 1, Receive(w, n) PROVE IInv'
  <2>1. worker[w].units + n \in Nat
    BY <1>1, StatusAssumption DEF WorkerStates
  <2>2. worker[w].pc = "read" /\ requested' = requested
    BY <1>14 DEF Receive
  <2>3. CASE worker[w].units + n = RequestUnits
    <3>1. moves(w, [worker[w] EXCEPT !.pc = "write", !.units = 0])
      BY <1>14, <2>3 DEF Receive
    <3> QED
      BY <1>12, <2>2, <3>1
  <2>4. CASE worker[w].units + n # RequestUnits /\ worker[w].units + n < RequestUnits
    <3>1. moves(w, [worker[w] EXCEPT !.units = worker[w].units + n])
      BY <1>14, <2>4 DEF Receive
    <3> QED
      BY <1>13, <2>1, <2>2, <3>1
  <2>5. CASE worker[w].units + n # RequestUnits /\ ~(worker[w].units + n < RequestUnits)
    <3>1. moves(w, Idle)
      BY <1>14, <2>5 DEF Receive
    <3> QED
      BY <1>5, <2>2, <3>1
  <2> QED
    BY <2>3, <2>4, <2>5
<1>15. ASSUME NEW n \in 1 .. ResponseUnits, Respond(w, n) PROVE IInv'
  <2>1. worker[w].units + n \in Nat
    BY <1>1, StatusAssumption DEF WorkerStates
  <2>2. worker[w].pc = "write" /\ requested' = requested
    BY <1>15 DEF Respond
  <2>3. CASE worker[w].units + n = ResponseUnits
    <3>1. moves(w, Idle)
      BY <1>15, <2>3 DEF Respond
    <3> QED
      BY <1>5, <2>2, <3>1
  <2>4. CASE worker[w].units + n # ResponseUnits
    <3>1. moves(w, [worker[w] EXCEPT !.units = worker[w].units + n])
      BY <1>15, <2>4 DEF Respond
    <3> QED
      BY <1>13, <2>1, <2>2, <3>1
  <2> QED
    BY <2>3, <2>4
<1> QED
  BY <1>6, <1>7, <1>8, <1>9, <1>10, <1>11, <1>14, <1>15
     DEF status_worker, serve_status_transaction

\* Steps that leave the shared state and the threads alone.
LEMMA OtherStep ==
  ASSUME IInv, UNCHANGED <<native, main, requested, sequence, value, worker>>
  PROVE  IInv'
BY DEF IInv, Types, Snapshots, AnswersAreFresh, RequestsArePending, FreshStatus,
       updated

LEMMA Invariance == Spec => []IInv
<1>1. Init => IInv
  BY Initially
<1>2. IInv /\ [Next]_vars => IInv'
  <2> SUFFICES ASSUME IInv, [Next]_vars PROVE IInv'
    OBVIOUS
  <2>1. CASE mainLoop
    BY <2>1, MainStep
  <2>2. CASE \E w \in Workers : status_worker(w)
    BY <2>2, WorkerPreserves
  <2>3. CASE ClientConnects
    BY <2>3, OtherStep DEF ClientConnects
  <2>4. CASE Stop
    BY <2>4, OtherStep DEF Stop
  <2>5. CASE UNCHANGED vars
    BY <2>5, OtherStep DEF vars
  <2> QED
    BY <2>1, <2>2, <2>3, <2>4, <2>5 DEF Next, Stopped
<1> QED
  BY <1>1, <1>2, PTL DEF Spec

\* What a status client is told is never older than its worker's request, for
\* any number of workers and any interleaving with the main loop.
THEOREM FreshStatusTheorem == Spec => []FreshStatus
<1>1. IInv => FreshStatus
  BY DEF IInv
<1> QED
  BY <1>1, Invariance, PTL

\* A request is answered before two turns of the main loop have ended, although
\* the flag is taken outside the mutex and one publication serves all waits.
THEOREM AnsweredTheorem == Spec => []AnsweredInTwoTurns
<1>1. IInv => AnsweredInTwoTurns
  BY DEF IInv, RequestsArePending, AnsweredInTwoTurns
<1> QED
  BY <1>1, Invariance, PTL

-----------------------------------------------------------------------------
(* How often the main loop publishes.                                      *)

\* Workers about to ask; and publications that were asked for and are to come.
accepted == {w \in Workers : worker[w].pc = "accepted"}
flagged == IF requested THEN 1 ELSE 0
taken == IF main.pc \in {"build", "publish"} THEN 1 ELSE 0

\* A publication, made or to come, is some client's.
Served ==
  /\ IsFiniteSet(accepted)
  /\ sequence + flagged + taken + Cardinality(accepted) + clients.waiting
       <= clients.total

\* What a worker keeps is bounded by what the radio has done.
fits(r) == /\ r.status <= native /\ r.turns <= MaxTurns
           /\ r.units <= RequestUnits + ResponseUnits
Limits ==
  /\ running \in BOOLEAN /\ native <= MaxChanges /\ main.snapshot <= MaxChanges
  /\ clients \in [total : Nat, waiting : Nat]
  /\ clients.total <= MaxClients /\ clients.waiting <= clients.total
  /\ \A w \in Workers : fits(worker[w])

\* A worker that moves enters or leaves the set of those about to ask.
LEMMA Moved ==
  ASSUME Types, Served, NEW w \in Workers, NEW next \in WorkerStates,
         worker' = [worker EXCEPT ![w] = next]
  PROVE  /\ IsFiniteSet(accepted') /\ Cardinality(accepted) \in Nat
         /\ Cardinality(accepted') =
              Cardinality(accepted) + (IF next.pc = "accepted" THEN 1 ELSE 0)
                                    - (IF worker[w].pc = "accepted" THEN 1 ELSE 0)
<1>1. worker'[w] = next /\ \A v \in Workers \ {w} : worker'[v] = worker[v]
  BY DEF Types
<1>2. IsFiniteSet(accepted) /\ Cardinality(accepted) \in Nat
  BY FS_CardinalityType DEF Served
<1>3. w \in accepted <=> worker[w].pc = "accepted"
  BY DEF accepted
<1>4. CASE next.pc = "accepted"
  <2>1. accepted' = accepted \cup {w}
    BY <1>1, <1>4 DEF accepted
  <2>2. /\ IsFiniteSet(accepted \cup {w})
        /\ Cardinality(accepted \cup {w}) =
             IF w \in accepted THEN Cardinality(accepted) ELSE Cardinality(accepted) + 1
    BY <1>2, FS_AddElement
  <2> QED
    BY <1>2, <1>3, <1>4, <2>1, <2>2
<1>5. CASE next.pc # "accepted"
  <2>1. accepted' = accepted \ {w}
    BY <1>1, <1>5 DEF accepted
  <2>2. /\ IsFiniteSet(accepted \ {w})
        /\ Cardinality(accepted \ {w}) =
             IF w \in accepted THEN Cardinality(accepted) - 1 ELSE Cardinality(accepted)
    BY <1>2, FS_RemoveElement
  <2> QED
    BY <1>2, <1>3, <1>5, <2>1, <2>2
<1> QED
  BY <1>4, <1>5

LEMMA LimitsInitially == Init => Limits /\ Served
<1> SUFFICES ASSUME Init PROVE Limits /\ Served
  OBVIOUS
<1>1. \A w \in Workers : worker[w] = Idle
  BY DEF Init
<1>2. accepted = {}
  BY <1>1 DEF accepted, Idle
<1>3. IsFiniteSet(accepted) /\ Cardinality(accepted) = 0
  BY <1>2, FS_EmptySet
<1>4. Served
  BY <1>3 DEF Init, Served, flagged, taken
<1>5. \A w \in Workers : fits(worker[w])
  BY <1>1, StatusAssumption DEF Init, Idle, fits
<1>6. Limits
  BY <1>5, StatusAssumption DEF Init, Limits
<1> QED
  BY <1>4, <1>6

\* The main loop takes the flag for one publication and publishes it once.
LEMMA MainLimits == ASSUME IInv, Limits, Served, mainLoop PROVE Limits' /\ Served'
<1>1. /\ Types /\ native \in Nat /\ sequence \in Nat /\ requested \in BOOLEAN
      /\ main \in MainStates /\ clients \in [total : Nat, waiting : Nat]
      /\ Cardinality(accepted) \in Nat
  BY FS_CardinalityType DEF IInv, Types, Limits, Served
<1>2. \A w \in Workers : worker[w] \in WorkerStates /\ fits(worker[w])
  BY DEF IInv, Types, Limits
<1>3. ASSUME worker' = turned
      PROVE  accepted' = accepted /\ \A w \in Workers :
               worker'[w].turns <= MaxTurns /\ worker'[w].status = worker[w].status
                 /\ worker'[w].units = worker[w].units
  <2>1. accepted' = accepted
    BY <1>1, <1>3, Turned DEF accepted
  <2>2. ASSUME NEW w \in Workers
        PROVE  worker'[w].turns <= MaxTurns /\ worker'[w].status = worker[w].status
                 /\ worker'[w].units = worker[w].units
    BY <1>2, <1>3, StatusAssumption DEF turned, WorkerStates, fits
  <2> QED
    BY <2>1, <2>2
<1>4. CASE Progress
  <2>1. native' \in Nat /\ native <= native' /\ native' <= MaxChanges
    BY <1>1, <1>4 DEF Progress, Limits
  <2>2. /\ UNCHANGED <<running, requested, sequence, worker, clients>>
        /\ main.pc = "progress" /\ main'.pc = "exchange" /\ main'.snapshot = main.snapshot
    BY <1>1, <1>4 DEF Progress, MainStates
  <2>3. \A w \in Workers : fits(worker[w])'
    BY <1>1, <1>2, <2>1, <2>2 DEF fits, WorkerStates
  <2> QED
    BY <2>1, <2>2, <2>3 DEF Limits, Served, flagged, taken, accepted
<1>5. CASE Exchange
  <2>1. UNCHANGED <<running, native, sequence, clients>> /\ requested' = FALSE
        /\ main.pc = "exchange" /\ main'.snapshot = main.snapshot
    BY <1>1, <1>5 DEF Exchange, MainStates
  <2>2. CASE requested
    <3>1. main'.pc = "build" /\ worker' = worker
      BY <1>1, <1>5, <2>2 DEF Exchange, MainStates
    <3>2. Limits'
      BY <2>1, <3>1 DEF Limits, fits
    <3> QED
      BY <1>1, <2>1, <2>2, <3>1, <3>2 DEF Served, flagged, taken, accepted
  <2>3. CASE ~requested
    <3>1. main'.pc = "progress" /\ worker' = turned
      BY <1>1, <1>5, <2>3 DEF Exchange, MainStates
    <3>2. Limits'
      BY <1>2, <1>3, <2>1, <3>1 DEF Limits, fits
    <3> QED
      BY <1>1, <1>3, <2>1, <2>3, <3>1, <3>2 DEF Served, flagged, taken
  <2> QED
    BY <2>2, <2>3
<1>6. CASE Build
  <2>1. /\ UNCHANGED <<running, native, requested, sequence, worker, clients>>
        /\ main.pc = "build" /\ main'.pc = "publish" /\ main'.snapshot = native
    BY <1>6 DEF Build
  <2> QED
    BY <2>1 DEF Limits, Served, flagged, taken, accepted, fits
<1>7. CASE Publish
  <2>1. /\ UNCHANGED <<running, native, requested, clients>> /\ worker' = turned
        /\ sequence' = sequence + 1
        /\ main.pc = "publish" /\ main'.pc = "progress" /\ main'.snapshot = 0
    BY <1>7 DEF Publish
  <2>2. Limits'
    BY <1>2, <1>3, <2>1, StatusAssumption DEF Limits, fits
  <2> QED
    BY <1>1, <1>3, <2>1, <2>2 DEF Served, flagged, taken
<1>8. CASE Join
  <2>1. /\ UNCHANGED <<running, native, requested, sequence, worker, clients>>
        /\ main.pc = "progress" /\ main'.pc = "exited" /\ main'.snapshot = main.snapshot
    BY <1>1, <1>8 DEF Join, MainStates
  <2> QED
    BY <2>1 DEF Limits, Served, flagged, taken, accepted, fits
<1> QED
  BY <1>4, <1>5, <1>6, <1>7, <1>8 DEF mainLoop

\* A worker turns a waiting client into a request, and a request into the flag.
LEMMA WorkerLimits ==
  ASSUME IInv, Limits, Served, NEW w \in Workers, status_worker(w)
  PROVE  Limits' /\ Served'
<1>1. /\ Types /\ native \in Nat /\ sequence \in Nat /\ value \in Nat /\ value <= native
      /\ requested \in BOOLEAN /\ clients \in [total : Nat, waiting : Nat]
      /\ worker[w] \in WorkerStates /\ fits(worker[w]) /\ Idle \in WorkerStates
  BY DEF IInv, Types, Snapshots, Limits, Idle, WorkerStates
<1>2. ASSUME NEW next \in WorkerStates, moves(w, next), fits(next),
             UNCHANGED clients, next.pc # "accepted",
             \/ requested' = requested
             \/ worker[w].pc = "accepted" /\ requested' = TRUE
      PROVE  Limits' /\ Served'
  <2>1. worker' = [worker EXCEPT ![w] = next]
        /\ UNCHANGED <<running, native, main, sequence, value>>
    BY <1>2 DEF moves
  <2>2. worker'[w] = next /\ \A v \in Workers \ {w} : worker'[v] = worker[v]
    BY <1>1, <2>1 DEF Types
  <2>3. Limits'
    BY <1>2, <2>1, <2>2 DEF Limits, fits
  <2> DEFINE left == IF worker[w].pc = "accepted" THEN 1 ELSE 0
             joined == IF next.pc = "accepted" THEN 1 ELSE 0
  <2>4. /\ IsFiniteSet(accepted') /\ Cardinality(accepted) \in Nat
        /\ Cardinality(accepted') = Cardinality(accepted) + joined - left
    BY <1>1, <2>1, Moved
  <2>5. taken' = taken /\ taken \in {0, 1} /\ flagged \in {0, 1} /\ flagged' \in {0, 1}
        /\ (flagged' = flagged \/ worker[w].pc = "accepted")
    BY <1>2, <2>1 DEF taken, flagged
  <2>6. Served'
    <3>1. joined = 0 /\ left \in {0, 1} /\ (worker[w].pc = "accepted" => left = 1)
      BY <1>2
    <3> HIDE DEF joined, left
    <3> QED
      BY <1>1, <1>2, <2>1, <2>4, <2>5, <3>1 DEF Served
  <2> QED
    BY <2>3, <2>6
<1>3. Idle.pc = "poll" /\ fits(Idle)
  BY <1>1, StatusAssumption DEF Idle, fits
<1>4. ASSUME moves(w, Idle), UNCHANGED <<requested, clients>> PROVE Limits' /\ Served'
  BY <1>1, <1>2, <1>3, <1>4
<1>5. CASE Accept(w)
  <2> DEFINE next == [Idle EXCEPT !.pc = "accepted"]
  <2>1. /\ next \in WorkerStates /\ next.pc = "accepted" /\ fits(next)
        /\ worker[w].pc = "poll"
    BY <1>1, <1>5, StatusAssumption DEF Accept, Idle, WorkerStates, fits
  <2>2. /\ worker' = [worker EXCEPT ![w] = next] /\ requested' = requested
        /\ UNCHANGED <<running, native, main, sequence, value>>
        /\ clients' = [clients EXCEPT !.waiting = @ - 1] /\ clients.waiting > 0
    BY <1>5 DEF Accept, moves
  <2> HIDE DEF next
  <2>3. worker'[w] = next /\ \A v \in Workers \ {w} : worker'[v] = worker[v]
    BY <1>1, <2>2 DEF Types
  <2>4. /\ clients' \in [total : Nat, waiting : Nat] /\ clients'.total = clients.total
        /\ clients'.waiting = clients.waiting - 1
    BY <1>1, <2>2
  <2>5. Limits'
    BY <1>1, <2>1, <2>2, <2>3, <2>4 DEF Limits, fits
  <2> DEFINE left == IF worker[w].pc = "accepted" THEN 1 ELSE 0
             joined == IF next.pc = "accepted" THEN 1 ELSE 0
  <2>6. /\ IsFiniteSet(accepted') /\ Cardinality(accepted) \in Nat
        /\ Cardinality(accepted') = Cardinality(accepted) + joined - left
    BY <1>1, <2>1, <2>2, Moved
  <2>7. taken' = taken /\ taken \in {0, 1} /\ flagged \in {0, 1} /\ flagged' = flagged
    BY <2>2 DEF taken, flagged
  <2>8. Served'
    <3>1. joined = 1 /\ left = 0
      BY <2>1
    <3> HIDE DEF joined, left
    <3> QED
      BY <1>1, <2>2, <2>4, <2>6, <2>7, <3>1 DEF Served
  <2> QED
    BY <2>5, <2>8
<1>6. CASE Request(w)
  <2> DEFINE next == [Idle EXCEPT !.pc = "wait", !.before = sequence, !.asked = native]
  <2>1. /\ next \in WorkerStates /\ next.pc = "wait"
        /\ next.status = 0 /\ next.turns = 0 /\ next.units = 0
    BY <1>1 DEF Idle, WorkerStates
  <2>2. moves(w, next) /\ requested' = TRUE /\ UNCHANGED clients /\ worker[w].pc = "accepted"
    BY <1>6 DEF Request
  <2> HIDE DEF next
  <2>3. fits(next)
    BY <1>1, <2>1, StatusAssumption DEF fits
  <2> QED
    BY <1>2, <2>1, <2>2, <2>3
<1>7. CASE Answer(w)
  <2> DEFINE next == [worker[w] EXCEPT !.pc = "read", !.status = value]
  <2>1. next \in WorkerStates /\ next.pc = "read" /\ fits(next)
    BY <1>1 DEF WorkerStates, fits
  <2>2. moves(w, next) /\ requested' = requested /\ UNCHANGED clients
    BY <1>7 DEF Answer
  <2> HIDE DEF next
  <2> QED
    BY <1>2, <2>1, <2>2
<1>8. CASE Exit(w)
  <2> DEFINE next == [Idle EXCEPT !.pc = "exited"]
  <2>1. next \in WorkerStates /\ next.pc = "exited" /\ fits(next)
    BY <1>1, StatusAssumption DEF Idle, WorkerStates, fits
  <2>2. moves(w, next) /\ requested' = requested /\ UNCHANGED clients
    BY <1>8 DEF Exit
  <2> HIDE DEF next
  <2> QED
    BY <1>2, <2>1, <2>2
<1>9. CASE WaitTimeout(w)
  BY <1>4, <1>9 DEF WaitTimeout
<1>10. CASE GiveUp(w)
  BY <1>4, <1>10 DEF GiveUp
<1>11. ASSUME NEW phase \in {"read", "write"}, NEW n \in Nat,
              n <= RequestUnits + ResponseUnits, UNCHANGED <<requested, clients>>,
              moves(w, [worker[w] EXCEPT !.pc = phase, !.units = n])
       PROVE  Limits' /\ Served'
  <2> DEFINE next == [worker[w] EXCEPT !.pc = phase, !.units = n]
  <2>1. next \in WorkerStates /\ next.pc = phase /\ fits(next)
    BY <1>1, <1>11 DEF WorkerStates, fits
  <2>2. moves(w, next)
    BY <1>11
  <2> HIDE DEF next
  <2> QED
    BY <1>2, <1>11, <2>1, <2>2
<1>12. ASSUME NEW n \in Nat, n <= RequestUnits + ResponseUnits,
              worker[w].pc \in {"read", "write"}, UNCHANGED <<requested, clients>>,
              moves(w, [worker[w] EXCEPT !.units = n])
       PROVE  Limits' /\ Served'
  <2>1. [worker[w] EXCEPT !.units = n] =
          [worker[w] EXCEPT !.pc = worker[w].pc, !.units = n]
    BY <1>1 DEF WorkerStates
  <2> QED
    BY <1>11, <1>12, <2>1
<1>13. ASSUME NEW n \in 1 .. RequestUnits + 1, Receive(w, n) PROVE Limits' /\ Served'
  <2>1. worker[w].units + n \in Nat /\ RequestUnits \in Nat /\ ResponseUnits \in Nat
    BY <1>1, StatusAssumption DEF WorkerStates
  <2>2. worker[w].pc = "read" /\ UNCHANGED <<requested, clients>>
    BY <1>13 DEF Receive
  <2>3. CASE worker[w].units + n = RequestUnits
    <3>1. moves(w, [worker[w] EXCEPT !.pc = "write", !.units = 0])
      BY <1>13, <2>3 DEF Receive
    <3>2. 0 <= RequestUnits + ResponseUnits
      BY <2>1
    <3> QED
      BY <1>11, <2>2, <3>1, <3>2
  <2>4. CASE worker[w].units + n # RequestUnits /\ worker[w].units + n < RequestUnits
    <3>1. moves(w, [worker[w] EXCEPT !.units = worker[w].units + n])
      BY <1>13, <2>4 DEF Receive
    <3>2. worker[w].units + n <= RequestUnits + ResponseUnits
      BY <2>1, <2>4
    <3> QED
      BY <1>12, <2>1, <2>2, <3>1, <3>2
  <2>5. CASE worker[w].units + n # RequestUnits /\ ~(worker[w].units + n < RequestUnits)
    <3>1. moves(w, Idle)
      BY <1>13, <2>5 DEF Receive
    <3> QED
      BY <1>4, <2>2, <3>1
  <2> QED
    BY <2>3, <2>4, <2>5
<1>14. ASSUME NEW n \in 1 .. ResponseUnits, Respond(w, n) PROVE Limits' /\ Served'
  <2>1. worker[w].units + n \in Nat /\ RequestUnits \in Nat /\ ResponseUnits \in Nat
    BY <1>1, StatusAssumption DEF WorkerStates
  <2>2. /\ worker[w].pc = "write" /\ UNCHANGED <<requested, clients>>
        /\ worker[w].units + n <= ResponseUnits
    BY <1>14 DEF Respond
  <2>3. CASE worker[w].units + n = ResponseUnits
    <3>1. moves(w, Idle)
      BY <1>14, <2>3 DEF Respond
    <3> QED
      BY <1>4, <2>2, <3>1
  <2>4. CASE worker[w].units + n # ResponseUnits
    <3>1. moves(w, [worker[w] EXCEPT !.units = worker[w].units + n])
      BY <1>14, <2>4 DEF Respond
    <3>2. worker[w].units + n <= RequestUnits + ResponseUnits
      BY <2>1, <2>2
    <3> QED
      BY <1>12, <2>1, <2>2, <3>1, <3>2
  <2> QED
    BY <2>3, <2>4
<1> QED
  BY <1>5, <1>6, <1>7, <1>8, <1>9, <1>10, <1>13, <1>14
     DEF status_worker, serve_status_transaction

LEMMA LimitsAlways == Spec => [](Limits /\ Served)
<1>1. Init => Limits /\ Served
  BY LimitsInitially
<1>2. IInv /\ Limits /\ Served /\ [Next]_vars => Limits' /\ Served'
  <2> SUFFICES ASSUME IInv, Limits, Served, [Next]_vars PROVE Limits' /\ Served'
    OBVIOUS
  <2>1. CASE mainLoop
    BY <2>1, MainLimits
  <2>2. CASE \E w \in Workers : status_worker(w)
    BY <2>2, WorkerLimits
  <2>3. CASE ClientConnects
    <3>1. /\ clients' = [total |-> clients.total + 1, waiting |-> clients.waiting + 1]
          /\ clients.total < MaxClients
          /\ UNCHANGED <<running, native, main, requested, sequence, value, worker>>
      BY <2>3 DEF ClientConnects
    <3>2. /\ clients \in [total : Nat, waiting : Nat] /\ sequence \in Nat
          /\ Cardinality(accepted) \in Nat
      BY FS_CardinalityType DEF IInv, Types, Limits, Served
    <3>3. Limits'
      BY <3>1, <3>2, StatusAssumption DEF Limits, fits
    <3>4. Served'
      BY <3>1, <3>2 DEF Served, flagged, taken, accepted
    <3> QED
      BY <3>3, <3>4
  <2>4. CASE Stop
    BY <2>4 DEF Stop, Limits, Served, flagged, taken, accepted, fits
  <2>5. CASE UNCHANGED vars
    BY <2>5 DEF vars, Limits, Served, flagged, taken, accepted, fits
  <2> QED
    BY <2>1, <2>2, <2>3, <2>4, <2>5 DEF Next, Stopped
<1> QED
  BY <1>1, <1>2, Invariance, PTL DEF Spec

\* Types for any number of workers, and the bound on the cache's sequence: the
\* main loop publishes at most once for each client, so a flag set without a
\* client or a request that is published twice cannot be.
THEOREM StatusTypeCorrect == Spec => []TypeOK
<1>1. IInv /\ Limits /\ Served => TypeOK
  <2> SUFFICES ASSUME IInv, Limits, Served PROVE TypeOK
    OBVIOUS
  <2>1. /\ native \in Nat /\ sequence \in Nat /\ value \in Nat /\ requested \in BOOLEAN
        /\ main \in MainStates /\ clients \in [total : Nat, waiting : Nat]
        /\ Cardinality(accepted) \in Nat
    BY FS_CardinalityType DEF IInv, Types, Limits, Served
  <2>2. sequence <= MaxClients
    <3>1. flagged \in {0, 1} /\ taken \in {0, 1}
      BY DEF flagged, taken
    <3> QED
      BY <2>1, <3>1, StatusAssumption DEF Limits, Served
  <2>3. ASSUME NEW w \in Workers
        PROVE  /\ worker[w].pc \in {"poll", "accepted", "wait", "read", "write", "exited"}
               /\ worker[w].before \in 0 .. sequence
               /\ worker[w].status \in 0 .. native /\ worker[w].asked \in 0 .. native
               /\ worker[w].turns \in 0 .. MaxTurns
               /\ worker[w].units \in 0 .. RequestUnits + ResponseUnits
    <3>1. worker[w] \in WorkerStates /\ fits(worker[w])
          /\ worker[w].asked <= native /\ worker[w].before <= sequence
      BY DEF IInv, Types, Snapshots, Limits
    <3> QED
      BY <2>1, <3>1, StatusAssumption DEF WorkerStates, fits
  <2> QED
    BY <2>1, <2>2, <2>3, StatusAssumption DEF IInv, Snapshots, Limits, MainStates, TypeOK
<1> QED
  BY <1>1, Invariance, LimitsAlways, PTL
=============================================================================
