----------------------------- MODULE StatusService -----------------------------
(***************************************************************************)
(* The radio's status service (apps/radio.cpp, src/radio_services.cpp):    *)
(* worker threads accept status clients and ask the main loop for a        *)
(* snapshot through StatusCache, because only the main thread may read the *)
(* runtime; then each worker serves its client within a deadline.          *)
(*                                                                         *)
(* The atomic flag `requested' is taken outside the mutex that protects    *)
(* value and sequence, so a request may fall between any two steps of the  *)
(* main loop.  The state of the radio is represented by the number of      *)
(* progress calls that changed it.                                         *)
(***************************************************************************)
EXTENDS Naturals, FiniteSets

CONSTANTS
  Workers,        \* status worker threads (config.status_connections)
  RequestUnits,   \* pieces in which a request may arrive
  ResponseUnits,  \* pieces in which a response may be sent
  MaxClients,     \* bound: status clients
  MaxChanges,     \* bound: changes of the radio's state
  MaxTurns        \* turns of the main loop a wait remembers

ASSUME StatusAssumption ==
  /\ RequestUnits \in Nat \ {0} /\ ResponseUnits \in Nat \ {0}
  /\ MaxClients \in Nat /\ MaxChanges \in Nat /\ MaxTurns \in Nat \ {0, 1}

VARIABLES
  running,    \* the flag the signal handler clears
  native,     \* the runtime's state, read by the main thread only
  main,       \* the main loop: where it is, and the snapshot it has built
  requested,  \* StatusCache::requested
  sequence,   \* StatusCache::sequence
  value,      \* StatusCache::value
  worker,     \* the worker threads
  clients     \* clients so far, and those not yet accepted

vars == <<running, native, main, requested, sequence, value, worker, clients>>

\* asked: native when the worker made its request; turns: turns of the main loop
\* that ended since then (both no state of the code).
Idle == [pc |-> "poll", before |-> 0, status |-> 0, asked |-> 0, turns |-> 0,
         units |-> 0]

Init ==
  /\ running = TRUE /\ native = 0
  /\ main = [pc |-> "progress", snapshot |-> 0]
  /\ requested = FALSE /\ sequence = 0 /\ value = 0
  /\ worker = [w \in Workers |-> Idle]
  /\ clients = [total |-> 0, waiting |-> 0]

-----------------------------------------------------------------------------
(* The main loop.                                                          *)

\* The end of a turn, as the waits see it.
turned ==
  [w \in Workers |-> [worker[w] EXCEPT !.turns =
     IF worker[w].pc = "wait" /\ @ < MaxTurns THEN @ + 1 ELSE @]]

\* The loop condition, then runtime->progress.
Progress ==
  /\ main.pc = "progress" /\ running
  /\ native' \in {native} \cup {n \in {native + 1} : n <= MaxChanges}
  /\ main' = [main EXCEPT !.pc = "exchange"]
  /\ UNCHANGED <<running, requested, sequence, value, worker, clients>>

\* Seeded fault: the flag is read and not cleared.
Exchange_keepsFlag ==
  /\ main.pc = "exchange"
  /\ IF requested
       THEN main' = [main EXCEPT !.pc = "build"] /\ UNCHANGED worker
       ELSE main' = [main EXCEPT !.pc = "progress"] /\ worker' = turned
  /\ UNCHANGED <<running, native, requested, sequence, value, clients>>

\* requested.exchange(false).
Exchange ==
  /\ main.pc = "exchange"
  /\ requested' = FALSE
  /\ IF requested
       THEN main' = [main EXCEPT !.pc = "build"] /\ UNCHANGED worker
       ELSE main' = [main EXCEPT !.pc = "progress"] /\ worker' = turned
  /\ UNCHANGED <<running, native, sequence, value, clients>>

\* radio_status() and the command watermark.
Build ==
  /\ main.pc = "build"
  /\ main' = [pc |-> "publish", snapshot |-> native]
  /\ UNCHANGED <<running, native, requested, sequence, value, worker, clients>>

\* Under the mutex, then notify_all.
Publish ==
  /\ main.pc = "publish"
  /\ value' = main.snapshot
  /\ sequence' = sequence + 1
  /\ main' = [pc |-> "progress", snapshot |-> 0]
  /\ worker' = turned
  /\ UNCHANGED <<running, native, requested, clients>>

\* status_workers.clear(): the main thread joins the workers.
Join ==
  /\ main.pc = "progress" /\ ~running
  /\ \A w \in Workers : worker[w].pc = "exited"
  /\ main' = [main EXCEPT !.pc = "exited"]
  /\ UNCHANGED <<running, native, requested, sequence, value, worker, clients>>

-----------------------------------------------------------------------------
(* status_worker.                                                          *)

moves(w, next) ==
  /\ worker' = [worker EXCEPT ![w] = next]
  /\ UNCHANGED <<running, native, main, sequence, value>>

Accept(w) ==
  /\ worker[w].pc = "poll" /\ running /\ clients.waiting > 0
  /\ clients' = [clients EXCEPT !.waiting = @ - 1]
  /\ moves(w, [Idle EXCEPT !.pc = "accepted"])
  /\ UNCHANGED requested

\* Seeded fault: a worker relies on the request of one that is waiting.
Request_shared(w) ==
  /\ worker[w].pc = "accepted"
  /\ requested' = (requested \/ \A v \in Workers : worker[v].pc # "wait")
  /\ moves(w, [Idle EXCEPT !.pc = "wait", !.before = sequence, !.asked = native])
  /\ UNCHANGED clients

\* With the mutex held, up to the wait that gives it up.
Request(w) ==
  /\ worker[w].pc = "accepted"
  /\ requested' = TRUE
  /\ moves(w, [Idle EXCEPT !.pc = "wait", !.before = sequence, !.asked = native])
  /\ UNCHANGED clients

\* Seeded fault: the snapshot already published satisfies the wait.
updated_cached(w) == sequence > 0 /\ sequence >= worker[w].before

updated(w) == sequence > worker[w].before
Answer(w) ==
  /\ worker[w].pc = "wait" /\ updated(w)
  /\ moves(w, [worker[w] EXCEPT !.pc = "read", !.status = value])
  /\ UNCHANGED <<requested, clients>>

\* Seeded fault: the wait has no timeout.
WaitTimeout_never(w) == FALSE

\* 500 ms without an update: the client is dropped.
WaitTimeout(w) ==
  /\ worker[w].pc = "wait" /\ ~updated(w)
  /\ moves(w, Idle)
  /\ UNCHANGED <<requested, clients>>

Exit(w) ==
  /\ worker[w].pc = "poll" /\ ~running
  /\ moves(w, [Idle EXCEPT !.pc = "exited"])
  /\ UNCHANGED <<requested, clients>>

\* serve_status_transaction: recv gives the decoder the next n pieces.  Bytes
\* beyond the announced length fail the request, as does a bad one.
Receive(w, n) ==
  /\ worker[w].pc = "read"
  /\ LET got == worker[w].units + n IN
     IF got = RequestUnits
       THEN moves(w, [worker[w] EXCEPT !.pc = "write", !.units = 0])
     ELSE IF got < RequestUnits
       THEN moves(w, [worker[w] EXCEPT !.units = got])
     ELSE moves(w, Idle)
  /\ UNCHANGED <<requested, clients>>

Respond(w, n) ==
  /\ worker[w].pc = "write"
  /\ LET sent == worker[w].units + n IN
     /\ sent <= ResponseUnits
     /\ moves(w, IF sent = ResponseUnits THEN Idle
                                         ELSE [worker[w] EXCEPT !.units = sent])
  /\ UNCHANGED <<requested, clients>>

\* The deadline, EOF, an error or a request that take_request refuses.
GiveUp(w) ==
  /\ worker[w].pc \in {"read", "write"}
  /\ moves(w, Idle)
  /\ UNCHANGED <<requested, clients>>

serve_status_transaction(w) ==
  \/ \E n \in 1 .. RequestUnits + 1 : Receive(w, n)
  \/ \E n \in 1 .. ResponseUnits : Respond(w, n)
  \/ GiveUp(w)

status_worker(w) ==
  \/ Accept(w) \/ Request(w) \/ Answer(w) \/ WaitTimeout(w) \/ Exit(w)
  \/ serve_status_transaction(w)

-----------------------------------------------------------------------------

ClientConnects ==
  /\ clients.total < MaxClients
  /\ clients' = [total |-> clients.total + 1, waiting |-> clients.waiting + 1]
  /\ UNCHANGED <<running, native, main, requested, sequence, value, worker>>

\* SIGTERM, SIGINT or SIGHUP.
Stop ==
  /\ running
  /\ running' = FALSE
  /\ UNCHANGED <<native, main, requested, sequence, value, worker, clients>>

mainLoop == Progress \/ Exchange \/ Build \/ Publish \/ Join

\* The radio has stopped.
Stopped == main.pc = "exited" /\ UNCHANGED vars

Next ==
  \/ mainLoop
  \/ \E w \in Workers : status_worker(w)
  \/ ClientConnects
  \/ Stop
  \/ Stopped

Spec == Init /\ [][Next]_vars

\* The scheduler runs every thread, and a wait or a transaction that has used
\* its 500 ms gives up.
Fairness ==
  /\ WF_vars(mainLoop)
  /\ \A w \in Workers :
       /\ WF_vars(Accept(w) \/ Request(w) \/ Answer(w) \/ Exit(w))
       /\ WF_vars(WaitTimeout(w)) /\ WF_vars(GiveUp(w))

FairSpec == Spec /\ Fairness

-----------------------------------------------------------------------------
(* Properties.                                                             *)

\* Types; the cache never shows a state the radio has not been in.
TypeOK ==
  /\ running \in BOOLEAN /\ requested \in BOOLEAN
  /\ native \in 0 .. MaxChanges
  /\ main.pc \in {"progress", "exchange", "build", "publish", "exited"}
  /\ main.snapshot \in 0 .. MaxChanges
  /\ sequence \in 0 .. MaxClients /\ value \in 0 .. native
  /\ \A w \in Workers :
       /\ worker[w].pc \in {"poll", "accepted", "wait", "read", "write", "exited"}
       /\ worker[w].before \in 0 .. sequence
       /\ worker[w].status \in 0 .. native /\ worker[w].asked \in 0 .. native
       /\ worker[w].turns \in 0 .. MaxTurns
       /\ worker[w].units \in 0 .. RequestUnits + ResponseUnits
  /\ clients.waiting \in 0 .. clients.total /\ clients.total \in 0 .. MaxClients

\* "Status workers request a fresh snapshot" (docs/COMMAND_RESUMPTION.md): the
\* status a client is given is no older than the radio was when its worker made
\* the request, even if the main loop took the flag for another worker and had
\* already built the snapshot that satisfies this one.
FreshStatus ==
  \A w \in Workers :
    worker[w].pc \in {"read", "write"} => worker[w].status >= worker[w].asked

\* No request is lost: one made anywhere in a turn of the main loop is answered
\* by the end of the next, so that only a turn of 500 ms drops a client.
AnsweredInTwoTurns ==
  \A w \in Workers :
    worker[w].pc = "wait" /\ worker[w].turns >= 2 => updated(w)

\* A stopped radio ends: no worker is left waiting for a main loop that waits
\* to join it.
ShutdownCompletes == ~running ~> main.pc = "exited"
=============================================================================
