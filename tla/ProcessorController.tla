-------------------------- MODULE ProcessorController --------------------------
(***************************************************************************)
(* The processor's controller (src/processor_controller.cpp) together with *)
(* the radios it controls.  One worker thread visits the sessions in order *)
(* (run), reconciles, configures and keeps each one alive, and starts all  *)
(* radios at a common epoch (coordinate_start).  Radios accept and drop    *)
(* connections, execute commands, fire scheduled starts, stall, crash and  *)
(* reboot on their own.                                                    *)
(*                                                                         *)
(* Time is counted in ticks and passes only inside the worker's blocking   *)
(* calls, whose remaining time is `budget'; a deadline in the code is a    *)
(* budget here.  A radio polls every 100 microseconds, so it handles what  *)
(* has reached it before the next tick unless it has stalled.              *)
(***************************************************************************)
EXTENDS Integers, Sequences, FiniteSets

CONSTANTS
  RadioCount,        \* number of sessions (4 in the code)
  IoTimeout,         \* config.io_timeout in ticks
  StaleTimeout,      \* the radios' stale_timeout in ticks
  LivenessInterval,  \* config.liveness_interval in ticks
  MaxBackoff,        \* config.maximum_backoff in ticks
  Lead,              \* a start's epoch lies this many ticks ahead
  LateLimit,         \* the radios' timing.device_late_ps in ticks
  QueueLimit,        \* config.queue_limit: transmit slots of a session
  MaxInbox,          \* bound: unexecuted commands in a connection
  MaxFaults          \* bound: crashes, lost connections, stalls, early statuses

ASSUME RadioCountAssumption == RadioCount \in Nat \ {0}
ASSUME TimeoutAssumption ==
  /\ IoTimeout \in Nat \ {0} /\ StaleTimeout \in Nat \ {0}
  /\ LivenessInterval \in Nat \ {0} /\ MaxBackoff \in Nat
  /\ Lead \in Nat \ {0, 1} /\ LateLimit \in Nat
ASSUME BoundAssumption ==
  /\ QueueLimit \in Nat \ {0} /\ MaxInbox \in Nat \ {0} /\ MaxFaults \in Nat

Radios == 1 .. RadioCount

VARIABLES
  radio,        \* the radios
  session,      \* the controller's Session and ClientTransport of each radio
  pc, at,       \* what the worker does, for which session
  budget,       \* time left in the worker's blocking call
  ready,        \* run()'s flag: no session failed in this pass
  backoff,      \* run()'s next sleep
  before, after,\* reconcile()'s two status snapshots
  coordinated,  \* coordinated_
  admitted,     \* radios that admitted a start of the current attempt
  faults        \* faults so far

control == <<pc, at, budget>>
worker == <<control, ready, backoff, before, after, coordinated>>
vars == <<radio, session, worker, admitted, faults>>

\* Who owns a radio: a connection of a replaced controller, one that this
\* controller has closed, or its current one.
Owners == {"none", "foreign", "old", "current"}
NoBoot == 0
Boots == 1 .. (MaxFaults + 1)
NoStatus == [boot |-> NoBoot, owner |-> "none", streaming |-> FALSE]
Statuses == [boot : Boots \cup {NoBoot}, owner : Owners, streaming : BOOLEAN]

\* left: ticks until a start's epoch; ttl: ticks until the transmit deadline of
\* its slot; live: the controller still holds the transaction's handle.
Commands == [op : {"status", "stop", "configure", "start", "cancel"},
             left : 0 .. Lead, ttl : 0 .. IoTimeout, live : BOOLEAN]
command(op, left) == [op |-> op, left |-> left, ttl |-> IoTimeout, live |-> TRUE]

\* Calls in which the worker waits; time passes in no other place.
Waits == {"connect", "reconcile", "stop", "configure", "restart", "liveness", "admit"}
Blocking == Waits \cup {"before", "after", "tail", "sleep"}
Phases == Blocking \cup {"check", "visit", "alive", "submit"}
Longest == Lead + 1 + IoTimeout * RadioCount + MaxBackoff

\* restarting: down, but about to execute itself again; fuse: ticks until the
\* epoch of an armed start; overdue: ticks since, while the radio was stalled.
Radio == [up : BOOLEAN, restarting : BOOLEAN, stalled : BOOLEAN, boot : Boots,
          mode : {"idle", "armed", "streaming"}, fuse : 0 .. Lead, overdue : 0 .. LateLimit,
          device : BOOLEAN, ours : BOOLEAN,
          owner : Owners, pending : {"none", "old", "current"},
          idle : 0 .. StaleTimeout, inbox : Seq(Commands)]
Session == [connected : BOOLEAN, reconciled : BOOLEAN, retry : BOOLEAN,
            status : Statuses, configured : BOOLEAN, started : BOOLEAN, liveAge : 0 .. LivenessInterval,
            outbox : Seq(Commands), evidence : {"none", "accepted", "refused"}]

\* Every variable keeps its type; queues, counters and waits stay bounded.
TypeOK ==
  /\ radio \in [Radios -> Radio] /\ session \in [Radios -> Session]
  /\ \A r \in Radios : /\ Len(radio[r].inbox) <= MaxInbox
                       /\ Len(session[r].outbox) <= QueueLimit
  /\ pc \in Phases /\ at \in Radios /\ budget \in 0 .. Longest
  /\ ready \in BOOLEAN /\ backoff \in 0 .. MaxBackoff
  /\ before \in Statuses /\ after \in Statuses
  /\ coordinated \in BOOLEAN /\ admitted \subseteq Radios
  /\ faults \in 0 .. MaxFaults

\* A processor starts with fresh sessions.  The radios may be as another
\* controller left them: idle, about to start or streaming, with its
\* connection still recorded as the owner.
Init ==
  /\ \E m \in [Radios -> {"idle", "armed", "streaming"}],
        o \in [Radios -> {"none", "foreign"}] :
       radio = [r \in Radios |->
         [up |-> TRUE, restarting |-> FALSE, stalled |-> FALSE, boot |-> 1,
          mode |-> m[r], fuse |-> IF m[r] = "armed" THEN Lead - 1 ELSE 0, overdue |-> 0,
          device |-> FALSE, ours |-> FALSE,
          owner |-> o[r], pending |-> "none", idle |-> 0, inbox |-> <<>>]]
  /\ session = [r \in Radios |->
       [connected |-> FALSE, reconciled |-> FALSE, retry |-> FALSE, status |-> NoStatus,
        configured |-> FALSE, started |-> FALSE, liveAge |-> 0,
        outbox |-> <<>>, evidence |-> "none"]]
  /\ pc = "check" /\ at = 1 /\ budget = 0 /\ ready = TRUE /\ backoff = 0
  /\ before = NoStatus /\ after = NoStatus
  /\ coordinated = FALSE /\ admitted = {} /\ faults = 0

-----------------------------------------------------------------------------
(* The radio: RadioTransport's ownership rules and, external, the VITA     *)
(* runtime that executes commands.                                         *)

running(r) == radio[r].up /\ ~radio[r].stalled

\* The owner's socket was closed by the controller: EOF after its last bytes.
eofDue(r) ==
  radio[r].owner = "old" /\ radio[r].pending = "none" /\ radio[r].inbox = <<>>
staleDue(r) == radio[r].owner # "none" /\ radio[r].idle >= StaleTimeout

\* progress_next accepts before it receives, so a connection attempt that
\* arrives with the old owner's EOF is rejected.
RadioAccept(r) ==
  /\ running(r) /\ radio[r].pending # "none" /\ ~staleDue(r)
  /\ radio' = [radio EXCEPT ![r].pending = "none",
       ![r].owner = IF @ = "none" THEN radio[r].pending ELSE @,
       ![r].idle = IF radio[r].owner = "none" THEN 0 ELSE @]
  /\ UNCHANGED <<session, worker, admitted, faults>>

\* fail_control: what was received but not executed is discarded.
dropOwner(d) == [d EXCEPT !.owner = "none", !.idle = 0, !.inbox = <<>>]
RadioRelease(r) ==
  /\ running(r) /\ (eofDue(r) \/ staleDue(r))
  /\ radio' = [radio EXCEPT ![r] = dropOwner(@)]
  /\ UNCHANGED <<session, worker, admitted, faults>>

\* Native SDR configuration and start are illegal while streaming; a start is
\* admitted only before its epoch.
legal(d, c) ==
  CASE c.op = "configure" -> d.mode # "streaming"
    [] c.op = "start"     -> d.mode # "streaming" /\ c.left > 0
    [] OTHER              -> TRUE

effect(d, c) ==
  CASE c.op = "status"                      -> [d EXCEPT !.idle = 0]
    [] c.op = "configure" /\ legal(d, c)    -> [d EXCEPT !.device = TRUE]
    [] c.op = "start" /\ legal(d, c)        ->
         [d EXCEPT !.mode = "armed", !.fuse = c.left, !.ours = TRUE]
    [] \/ c.op = "stop"
       \/ c.op = "cancel" /\ d.mode = "armed" ->
         [d EXCEPT !.mode = "idle", !.fuse = 0, !.ours = FALSE]
    [] OTHER                                -> d

\* The reply reaches the controller if its connection is still the owner.
RadioExecute(r) ==
  LET c == Head(radio[r].inbox)
      ok == legal(radio[r], c)
  IN
  /\ running(r) /\ radio[r].inbox # <<>> /\ ~staleDue(r)
  /\ radio' = [radio EXCEPT ![r] = [effect(radio[r], c) EXCEPT !.inbox = Tail(@)]]
  /\ session' = [session EXCEPT ![r].evidence =
       IF ~c.live \/ radio[r].owner # "current" THEN @
       ELSE IF ok THEN "accepted" ELSE "refused"]
  /\ admitted' = admitted \cup {x \in {r} : c.op = "start" /\ ok /\ c.live}
  /\ UNCHANGED <<worker, faults>>

-----------------------------------------------------------------------------
(* Faults and recovery.                                                    *)

fault == faults < MaxFaults /\ faults' = faults + 1

\* Evidence that had not reached the controller goes with the connection.
replyMayBeLost(r) ==
  \E lost \in BOOLEAN :
    session' = [session EXCEPT ![r].evidence = IF lost THEN "none" ELSE @]

\* The process ends: connections, configuration and stream are gone.
ended(d, again) ==
  [dropOwner(d) EXCEPT
     !.up = FALSE, !.restarting = again, !.stalled = FALSE, !.mode = "idle", !.fuse = 0,
     !.overdue = 0, !.device = FALSE, !.ours = FALSE, !.pending = "none"]
Crash(r) ==
  /\ fault /\ radio[r].up
  /\ radio' = [radio EXCEPT ![r] = ended(@, FALSE)]
  /\ replyMayBeLost(r)
  /\ UNCHANGED <<worker, admitted>>

\* SIGHUP: the main loop ends and the process executes itself again.
Hangup(r) ==
  /\ fault /\ running(r)
  /\ radio' = [radio EXCEPT ![r] = ended(@, TRUE)]
  /\ replyMayBeLost(r)
  /\ UNCHANGED <<worker, admitted>>

\* The process comes back: new boot identifier, no configuration, idle.
RadioBoot(r) ==
  /\ ~radio[r].up
  /\ radio' = [radio EXCEPT ![r].up = TRUE, ![r].restarting = FALSE, ![r].boot = @ + 1]
  /\ UNCHANGED <<session, worker, admitted, faults>>
ReExec(r) == radio[r].restarting /\ RadioBoot(r)
\* Nothing restarts a crashed radio but its operator (docs/RECOVERY.md).
Redeploy(r) == ~radio[r].restarting /\ RadioBoot(r)

\* The connection breaks.
Disconnect(r) ==
  /\ fault /\ radio[r].owner = "current"
  /\ radio' = [radio EXCEPT ![r] = dropOwner(@)]
  /\ replyMayBeLost(r)
  /\ UNCHANGED <<worker, admitted>>

\* The radio's loop is held up.
Stall(r) ==
  /\ fault /\ running(r)
  /\ radio' = [radio EXCEPT ![r].stalled = TRUE]
  /\ UNCHANGED <<session, worker, admitted>>

\* A start that fell due meanwhile fires late, or is dropped when its window has
\* closed (external runtime, vrt_scheduled_start_tests.cpp).
missed(d) == d.mode = "armed" /\ d.fuse = 0 /\ d.overdue >= LateLimit
Recover(r) ==
  /\ radio[r].stalled
  /\ radio' = [radio EXCEPT ![r].stalled = FALSE, ![r].overdue = 0,
       ![r].mode = IF missed(radio[r]) THEN "idle"
                   ELSE IF @ = "armed" /\ radio[r].fuse = 0 THEN "streaming" ELSE @,
       ![r].ours = @ /\ ~missed(radio[r])]
  /\ UNCHANGED <<session, worker, admitted, faults>>

-----------------------------------------------------------------------------
(* ClientTransport, one per session.  It makes progress only while the     *)
(* worker waits on that session, and for every session at the end of a     *)
(* pass.                                                                   *)

progressing(r) == (at = r /\ pc \in Waits) \/ pc = "tail"

\* fail() and request_reconnect(): the socket is closed and every queued
\* transmission is dropped.  What the radio sees is now an old connection.
\* retry: less than a tick ago, so that a transport whose connection was refused
\* waits for the next one (retry_at_).
orphan(o) == IF o = "current" THEN "old" ELSE o
orphanRadio(r) ==
  [radio EXCEPT ![r].owner = orphan(@), ![r].pending = orphan(@)]
\* Seeded fault: a new connection counts as the reconciled one.
closed_staysReconciled(s, retry) ==
  [s EXCEPT !.connected = FALSE, !.outbox = <<>>, !.retry = retry]

closed(s, retry) ==
  [s EXCEPT !.connected = FALSE, !.reconciled = FALSE, !.outbox = <<>>, !.retry = retry]
fail(r, retry) ==
  /\ radio' = orphanRadio(r)
  /\ session' = [session EXCEPT ![r] = closed(@, retry)]

\* receive(): EOF or an error.
closedByRadio(r) ==
  session[r].connected /\ "current" \notin {radio[r].owner, radio[r].pending}
ClientFail(r) ==
  /\ progressing(r) /\ closedByRadio(r)
  /\ fail(r, TRUE)
  /\ UNCHANGED <<worker, admitted, faults>>

\* progress(): the transport reconnects by itself, 100 ms after fail(); by then
\* a radio that polls has seen the old connection's EOF, and a wait that had its
\* evidence has returned.
connectDue(r) ==
  /\ progressing(r) /\ ~session[r].connected /\ ~session[r].retry
  /\ radio[r].up /\ radio[r].pending = "none" /\ ~(running(r) /\ eofDue(r))
  /\ session[r].evidence # "accepted"
ClientConnect(r) ==
  /\ connectDue(r)
  /\ session' = [session EXCEPT ![r].connected = TRUE]
  /\ radio' = [radio EXCEPT ![r].pending = "current"]
  /\ UNCHANGED <<worker, admitted, faults>>

\* binding.send only queues; progress() writes, after it has received.  The
\* radio reads nothing from a connection it has not accepted.
canSubmit(r) == session[r].connected /\ Len(session[r].outbox) < QueueLimit
submitted(r, c) == [session EXCEPT ![r].outbox = Append(@, c)]

queued(r) ==
  /\ progressing(r) /\ session[r].connected /\ session[r].outbox # <<>>
  /\ ~closedByRadio(r)
expired(r) == Head(session[r].outbox).ttl = 0
transmitDue(r) ==
  /\ queued(r) /\ ~expired(r)
  /\ radio[r].owner = "current" /\ Len(radio[r].inbox) < MaxInbox

ClientTransmit(r) ==
  /\ transmitDue(r)
  /\ session' = [session EXCEPT ![r].outbox = Tail(@)]
  /\ radio' = [radio EXCEPT ![r].inbox =
       Append(@, [Head(session[r].outbox) EXCEPT !.ttl = 0])]
  /\ UNCHANGED <<worker, admitted, faults>>

\* transmit(): past the slot's deadline the whole connection is given up.
ClientExpire(r) ==
  /\ queued(r) /\ expired(r)
  /\ fail(r, TRUE)
  /\ UNCHANGED <<worker, admitted, faults>>

\* controller->release(handle): later evidence for it is not delivered.
released(q) == [k \in 1 .. Len(q) |-> [q[k] EXCEPT !.live = FALSE]]
radioReleased(S) ==
  [r \in Radios |-> IF r \in S THEN [radio[r] EXCEPT !.inbox = released(@)]
                               ELSE radio[r]]
forget(s) == [s EXCEPT !.outbox = released(@), !.evidence = "none"]
sessionReleased(S) ==
  [r \in Radios |-> IF r \in S THEN forget(session[r]) ELSE session[r]]

-----------------------------------------------------------------------------
(* The worker thread: run() and what it calls for one session.             *)

goto(phase, time) == pc' = phase /\ budget' = time /\ at' = at

\* The last progress of a pass may block in a connect for every session whose
\* radio is gone.
tailTime == 1 + IoTimeout * Cardinality({r \in Radios : ~radio[r].up})
endPass == pc' = "tail" /\ at' = 1 /\ budget' = tailTime

\* The end of the loop body for one session: the next session, the
\* coordinated start, or the end of the pass.
nextSession(ok) ==
  /\ ready' = (ready /\ ok)
  /\ IF at < RadioCount
       THEN pc' = "check" /\ at' = at + 1 /\ budget' = 0
       ELSE IF ready' /\ ~coordinated
         THEN pc' = "submit" /\ at' = 1 /\ budget' = 0
         ELSE endPass

\* A session whose connection is the reconciled one is not reconciled again.
Check ==
  /\ pc = "check"
  /\ IF session[at].reconciled THEN goto("visit", 0) ELSE goto("before", IoTimeout)
  /\ UNCHANGED <<radio, session, ready, backoff, before, after, coordinated,
                 admitted, faults>>

\* The radio's loop builds a status after it has accepted what was pending.
answers(r) == running(r) /\ radio[r].pending = "none"
snapshot(r) == [boot |-> radio[r].boot, owner |-> radio[r].owner,
                streaming |-> radio[r].mode = "streaming"]

\* reconcile(): first status, then request_reconnect.
ReadBefore ==
  /\ pc = "before" /\ answers(at)
  /\ before' = [snapshot(at) EXCEPT !.owner = orphan(@)]
  /\ fail(at, FALSE)
  /\ goto("connect", IoTimeout)
  /\ UNCHANGED <<ready, backoff, after, coordinated, admitted, faults>>

AwaitConnection ==
  /\ pc = "connect" /\ session[at].connected
  /\ goto("after", IoTimeout)
  /\ UNCHANGED <<radio, session, ready, backoff, before, after, coordinated,
                 admitted, faults>>

\* The second snapshot must show the same boot and an owner that was not the
\* owner before; then the VRT status query goes out.
consistent(now) ==
  now.boot = before.boot /\ now.owner # "none" /\ now.owner # before.owner
ReadAfter ==
  /\ pc = "after" /\ answers(at)
  /\ consistent(snapshot(at)) /\ canSubmit(at)
  /\ session' = submitted(at, command("status", 0))
  /\ after' = snapshot(at)
  /\ goto("reconcile", IoTimeout)
  /\ UNCHANGED <<radio, ready, backoff, before, coordinated, admitted, faults>>

\* Seeded faults: a reboot goes unnoticed; every reconnect counts as one.
boot_changed_never == FALSE
boot_changed_always == session[at].status.boot # NoBoot

boot_changed == session[at].status.boot \notin {NoBoot, after.boot}
Reconciled ==
  /\ pc = "reconcile" /\ session[at].evidence = "accepted"
  /\ session' = [session EXCEPT ![at] = [forget(session[at]) EXCEPT
       !.configured = @ /\ ~boot_changed, !.started = @ /\ ~boot_changed,
       !.status = [after EXCEPT !.owner = "none"],
       !.reconciled = session[at].connected, !.liveAge = 0]]
  /\ radio' = radioReleased({at})
  /\ before' = NoStatus /\ after' = NoStatus
  /\ goto("visit", 0)
  /\ UNCHANGED <<ready, backoff, coordinated, admitted, faults>>

\* No status, no connection, inconsistent snapshots or no VRT status reply.
reconcileFailed ==
  /\ nextSession(FALSE)
  /\ before' = NoStatus /\ after' = NoStatus
  /\ radio' = radioReleased({at}) /\ session' = sessionReleased({at})
  /\ UNCHANGED <<backoff, coordinated, admitted>>
ReconcileFails ==
  /\ \/ pc = "before" /\ (~radio[at].up \/ budget = 0)
     \/ pc = "connect" /\ ~session[at].connected /\ budget = 0
     \/ pc = "after" /\ (~radio[at].up \/ budget = 0)
     \/ pc = "after" /\ answers(at) /\ ~(consistent(snapshot(at)) /\ canSubmit(at))
     \/ pc = "reconcile" /\ budget = 0
  /\ reconcileFailed
  /\ UNCHANGED faults

\* The radio built the second status in the same turn of its loop in which the
\* connection arrived, before it accepted it: no owner, or the old one.
EarlyStatus ==
  /\ fault /\ pc = "after" /\ running(at) /\ radio[at].pending = "current"
  /\ reconcileFailed

-----------------------------------------------------------------------------

\* configure(): an unconfigured session stops a radio that its status shows
\* streaming, then configures it; each needs execution evidence.
Configure ==
  /\ pc = "visit" /\ ~session[at].configured /\ canSubmit(at)
  /\ LET op == IF session[at].status.streaming THEN "stop" ELSE "configure"
     IN  /\ session' = submitted(at, command(op, 0))
         /\ goto(op, IoTimeout)
  /\ UNCHANGED <<radio, ready, backoff, before, after, coordinated, admitted, faults>>

\* Seeded fault: the session goes on believing that the radio streams.
Quiesced_forgotten ==
  /\ pc = "stop" /\ session[at].evidence = "accepted"
  /\ session' = sessionReleased({at})
  /\ radio' = radioReleased({at})
  /\ goto("visit", 0)
  /\ UNCHANGED <<ready, backoff, before, after, coordinated, admitted, faults>>

Quiesced ==
  /\ pc = "stop" /\ session[at].evidence = "accepted"
  /\ session' = [session EXCEPT ![at] =
       [forget(session[at]) EXCEPT !.status.streaming = FALSE]]
  /\ radio' = radioReleased({at})
  /\ goto("visit", 0)
  /\ UNCHANGED <<ready, backoff, before, after, coordinated, admitted, faults>>

Configured ==
  /\ pc = "configure" /\ session[at].evidence = "accepted"
  /\ session' = [session EXCEPT ![at] =
       [forget(session[at]) EXCEPT !.configured = TRUE]]
  /\ radio' = radioReleased({at})
  /\ goto("visit", 0)
  /\ UNCHANGED <<ready, backoff, before, after, coordinated, admitted, faults>>

\* A session that stays unconfigured is neither restarted nor kept alive.
ConfigureFails ==
  /\ \/ pc = "visit" /\ ~session[at].configured /\ ~canSubmit(at)
     \/ pc \in {"stop", "configure"} /\ budget = 0
  /\ radio' = radioReleased({at}) /\ session' = sessionReleased({at})
  /\ nextSession(FALSE)
  /\ UNCHANGED <<backoff, before, after, coordinated, admitted, faults>>

\* Seeded fault: a rebooted radio is configured but not started again.
restartNeeded_never == FALSE

\* restart_after_boot_change(): only after the radios were coordinated once.
restartNeeded ==
  pc = "visit" /\ coordinated /\ session[at].configured /\ ~session[at].started

Restart ==
  /\ restartNeeded /\ canSubmit(at)
  /\ session' = submitted(at, command("start", Lead))
  /\ goto("restart", Lead - 1)
  /\ UNCHANGED <<radio, ready, backoff, before, after, coordinated, admitted, faults>>

Restarted ==
  /\ pc = "restart" /\ session[at].evidence = "accepted"
  /\ session' = [session EXCEPT ![at] =
       [forget(session[at]) EXCEPT !.started = TRUE]]
  /\ radio' = radioReleased({at})
  /\ goto("alive", 0)
  /\ UNCHANGED <<ready, backoff, before, after, coordinated, admitted, faults>>

RestartFails ==
  /\ \/ restartNeeded /\ ~canSubmit(at)
     \/ pc = "restart" /\ budget = 0
  /\ ready' = FALSE
  /\ radio' = radioReleased({at}) /\ session' = sessionReleased({at})
  /\ goto("alive", 0)
  /\ UNCHANGED <<backoff, before, after, coordinated, admitted, faults>>

\* liveness(): only a configured session is kept alive.
keepAlive ==
  /\ pc \in {"visit", "alive"} /\ session[at].configured /\ ~restartNeeded
livenessDue == session[at].liveAge >= LivenessInterval

Liveness ==
  /\ keepAlive /\ livenessDue /\ canSubmit(at)
  /\ session' = submitted(at, command("status", 0))
  /\ goto("liveness", IoTimeout)
  /\ UNCHANGED <<radio, ready, backoff, before, after, coordinated, admitted, faults>>

Alive ==
  /\ pc = "liveness" /\ session[at].evidence = "accepted"
  /\ session' = [session EXCEPT ![at] = [forget(session[at]) EXCEPT !.liveAge = 0]]
  /\ radio' = radioReleased({at})
  /\ nextSession(TRUE)
  /\ UNCHANGED <<backoff, before, after, coordinated, admitted, faults>>

LivenessFails ==
  /\ \/ keepAlive /\ livenessDue /\ ~canSubmit(at)
     \/ pc = "liveness" /\ budget = 0
  /\ session' = [session EXCEPT ![at] = closed(forget(@), TRUE)]
  /\ radio' = [orphanRadio(at) EXCEPT ![at].inbox = released(@)]
  /\ nextSession(FALSE)
  /\ UNCHANGED <<backoff, before, after, coordinated, admitted, faults>>

NotDue ==
  /\ keepAlive /\ ~livenessDue
  /\ nextSession(TRUE)
  /\ UNCHANGED <<radio, session, backoff, before, after, coordinated, admitted,
                 faults>>

-----------------------------------------------------------------------------
(* coordinate_start(): one start per session, then every admission by a    *)
(* common deadline, one session after the other.                           *)

SubmitStart ==
  /\ pc = "submit" /\ canSubmit(at)
  /\ session' = submitted(at, command("start", Lead))
  /\ admitted' = IF at = 1 THEN {} ELSE admitted
  /\ IF at < RadioCount
       THEN pc' = "submit" /\ at' = at + 1 /\ budget' = 0
       ELSE pc' = "admit" /\ at' = 1 /\ budget' = Lead - 1
  /\ UNCHANGED <<radio, ready, backoff, before, after, coordinated, faults>>

\* The early return: the starts queued so far are left as they are.
SubmitStartFails ==
  /\ pc = "submit" /\ ~canSubmit(at)
  /\ ready' = FALSE
  /\ radio' = radioReleased(Radios) /\ session' = sessionReleased(Radios)
  /\ endPass /\ admitted' = {}
  /\ UNCHANGED <<backoff, before, after, coordinated, faults>>

\* Seeded fault: any reply counts as an admission.
Admitted_anyReply ==
  /\ pc = "admit" /\ session[at].evidence # "none" /\ at < RadioCount
  /\ radio' = radioReleased({at}) /\ session' = sessionReleased({at})
  /\ at' = at + 1
  /\ UNCHANGED <<pc, budget, ready, backoff, before, after, coordinated, admitted,
                 faults>>

Admitted ==
  /\ pc = "admit" /\ session[at].evidence = "accepted" /\ at < RadioCount
  /\ radio' = radioReleased({at}) /\ session' = sessionReleased({at})
  /\ at' = at + 1
  /\ UNCHANGED <<pc, budget, ready, backoff, before, after, coordinated, admitted,
                 faults>>

AllAdmitted ==
  /\ pc = "admit" /\ session[at].evidence = "accepted" /\ at = RadioCount
  /\ radio' = radioReleased({at})
  /\ session' = [r \in Radios |-> [sessionReleased({at})[r] EXCEPT !.started = TRUE]]
  /\ coordinated' = TRUE
  /\ endPass /\ admitted' = {}
  /\ UNCHANGED <<ready, backoff, before, after, faults>>

\* The deadline passes.  The sessions before the failing one are cancelled
\* through handles that wait() has released, and the result is ignored: the
\* runtime may refuse any of them.
cancelTargets == {r \in 1 .. (at - 1) : canSubmit(r)}
AdmissionFails ==
  /\ pc = "admit" /\ budget = 0
  /\ ready' = FALSE
  /\ \E S \in SUBSET cancelTargets :
       session' = [r \in Radios |-> forget(
         IF r \in S THEN submitted(r, command("cancel", 0))[r] ELSE session[r])]
  /\ radio' = radioReleased(Radios)
  /\ endPass /\ admitted' = {}
  /\ UNCHANGED <<backoff, before, after, coordinated, faults>>

-----------------------------------------------------------------------------
(* The end of a pass: every session makes progress, then the worker goes   *)
(* on at once or backs off.  A pass takes at least a tick.                 *)

\* Seeded fault: the backoff is not capped.
TailDone_uncapped ==
  /\ pc = "tail" /\ budget < tailTime
  /\ \A r \in Radios : ~closedByRadio(r) /\ ~transmitDue(r)
  /\ at' = 1 /\ ready' = TRUE
  /\ IF ready
       THEN pc' = "check" /\ budget' = 0 /\ backoff' = 0
       ELSE pc' = "sleep" /\ budget' = backoff /\ backoff' = 2 * backoff + 1
  /\ UNCHANGED <<radio, session, before, after, coordinated, admitted, faults>>

TailDone ==
  /\ pc = "tail" /\ budget < tailTime
  /\ \A r \in Radios : ~closedByRadio(r) /\ ~transmitDue(r)
  /\ at' = 1 /\ ready' = TRUE
  /\ IF ready
       THEN pc' = "check" /\ budget' = 0 /\ backoff' = 0
       ELSE /\ pc' = "sleep" /\ budget' = backoff
            /\ backoff' = IF 2 * backoff + 1 < MaxBackoff THEN 2 * backoff + 1
                                                          ELSE MaxBackoff
  /\ UNCHANGED <<radio, session, before, after, coordinated, admitted, faults>>

Wake ==
  /\ pc = "sleep" /\ budget = 0
  /\ goto("check", 0)
  /\ UNCHANGED <<radio, session, ready, backoff, before, after, coordinated,
                 admitted, faults>>

-----------------------------------------------------------------------------
(* Time.  It passes while the worker waits, once everything that polls     *)
(* more often than a tick has nothing left to do.                          *)

radioSettled(r) ==
  running(r) => /\ radio[r].pending = "none" /\ radio[r].inbox = <<>>
                /\ ~eofDue(r) /\ ~staleDue(r)
clientSettled(r) ==
  progressing(r) => ~closedByRadio(r) /\ ~transmitDue(r) /\ ~connectDue(r)
workerSettled ==
  /\ pc \in Blocking /\ budget > 0
  /\ pc \in Waits => session[at].evidence # "accepted"
  /\ pc \in {"before", "after"} => ~running(at)
  /\ pc = "connect" => ~session[at].connected

less(n) == IF n = 0 THEN 0 ELSE n - 1
more(n, limit) == IF n = limit THEN n ELSE n + 1
aged(q) == [k \in 1 .. Len(q) |-> [q[k] EXCEPT !.left = less(@), !.ttl = less(@)]]

\* A scheduled start fires on its epoch.
fires(d) == d.mode = "armed" /\ d.fuse <= 1 /\ ~d.stalled

Tick ==
  /\ workerSettled /\ \A r \in Radios : radioSettled(r) /\ clientSettled(r)
  /\ budget' = budget - 1
  /\ radio' = [r \in Radios |-> [radio[r] EXCEPT
       !.mode = IF fires(radio[r]) THEN "streaming" ELSE @,
       !.fuse = less(@), !.inbox = aged(@),
       !.overdue = IF radio[r].mode = "armed" /\ radio[r].fuse = 0
                     THEN more(@, LateLimit) ELSE 0,
       !.idle = IF radio[r].owner = "none" THEN 0 ELSE more(@, StaleTimeout)]]
  /\ session' = [r \in Radios |-> [session[r] EXCEPT
       !.retry = FALSE, !.outbox = aged(@), !.liveAge = more(@, LivenessInterval)]]
  /\ UNCHANGED <<pc, at, ready, backoff, before, after, coordinated, admitted, faults>>

-----------------------------------------------------------------------------

RadioStep(r) ==
  \/ RadioAccept(r) \/ RadioRelease(r) \/ RadioExecute(r)
  \/ ReExec(r) \/ Recover(r)
ClientStep(r) ==
  \/ ClientFail(r) \/ ClientConnect(r) \/ ClientTransmit(r) \/ ClientExpire(r)
Fault(r) == Crash(r) \/ Hangup(r) \/ Disconnect(r) \/ Stall(r)

reconcile ==
  \/ ReadBefore \/ AwaitConnection \/ ReadAfter \/ Reconciled \/ ReconcileFails
configure == Configure \/ Quiesced \/ Configured \/ ConfigureFails
restart_after_boot_change == Restart \/ Restarted \/ RestartFails
liveness == Liveness \/ Alive \/ LivenessFails \/ NotDue
coordinate_start ==
  \/ SubmitStart \/ SubmitStartFails \/ Admitted \/ AllAdmitted \/ AdmissionFails
run ==
  \/ Check \/ reconcile \/ configure \/ restart_after_boot_change \/ liveness
  \/ coordinate_start \/ TailDone \/ Wake

Progress ==
  \/ \E r \in Radios : RadioStep(r) \/ ClientStep(r)
  \/ run
  \/ Tick

Next == Progress \/ EarlyStatus \/ \E r \in Radios : Fault(r) \/ Redeploy(r)

Spec == Init /\ [][Next]_vars

\* Threads and processes that can go on do, and time passes; a radio that restarts
\* itself comes back and a stall ends.  Containers have restart-policy `no', so
\* nothing is assumed about crashed radios, nor about faults, which MaxFaults bounds.
Fairness ==
  /\ WF_vars(Progress)
  /\ \A r \in Radios : WF_vars(ReExec(r)) /\ WF_vars(Recover(r))

FairSpec == Spec /\ Fairness

-----------------------------------------------------------------------------
(* Properties.                                                             *)

\* A radio that this controller armed or started has been configured in its
\* current lifetime: a reboot between configuration and start is noticed.
ConfiguredLifetime ==
  \A r \in Radios : radio[r].ours /\ radio[r].mode # "idle" => radio[r].device

\* While a session's reconciled connection is the one that owns the radio, the
\* boot identifier the session remembers is the radio's.
BootTracking ==
  \A r \in Radios :
    session[r].reconciled /\ radio[r].owner = "current"
      => session[r].status.boot = radio[r].boot

\* coordinate_start() reports success only when every radio admitted the start
\* of this attempt, and those still waiting for it share one epoch.
scheduled(r) == radio[r].mode = "armed" /\ radio[r].ours
CoordinatedStart ==
  [][~coordinated /\ coordinated' =>
       /\ admitted = Radios
       /\ \A r, s \in Radios :
            scheduled(r) /\ scheduled(s) => radio[r].fuse = radio[s].fuse]_vars

\* Ordinary reconnects keep a running session: once the radios were coordinated
\* the controller never stops one that it started and that streams, whatever
\* connections, replies and other radios are lost.
streams(r) == radio[r].ours /\ radio[r].mode = "streaming"
StreamingUndisturbed ==
  [][\A r \in Radios :
       coordinated /\ streams(r) => streams(r)' \/ ~radio[r].up']_vars

staysUp(r) == <>[]radio[r].up

\* Every radio that in the end stays up is configured for good, in its current
\* lifetime, whatever state an earlier controller left it in and although other
\* radios may have crashed for good: one worker thread serves them all.
EventuallyConfigured ==
  \A r \in Radios :
    staysUp(r) => <>[](session[r].configured /\ radio[r].device)

\* Once the radios were coordinated, every radio that stays up streams in the end,
\* the ones that restarted included, unless it was held up when the window of a
\* start closed that it had admitted: the controller takes admission for success
\* and never starts such a radio again.
missesStart(r) == radio[r].ours /\ missed(radio[r])
CoordinatedStreams ==
  <>coordinated =>
    \A r \in Radios :
      staysUp(r) => <>[]streams(r) \/ <>(coordinated /\ missesStart(r))

\* docs/RECOVERY.md: the new controller "admits a later coordinated start".  No
\* radio crashes for good here.
EventuallyCoordinated == (\A r \in Radios : staysUp(r)) => <>coordinated
=============================================================================
