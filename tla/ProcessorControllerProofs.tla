----------------------- MODULE ProcessorControllerProofs -----------------------
(***************************************************************************)
(* The controller's safety for every number of radios, queue sizes and     *)
(* timeouts, and any number of faults, proved with TLAPS.                  *)
(*                                                                         *)
(* Four questions carry the proof.  Which commands can still take effect   *)
(* on a radio (Link: a start only where the session's configuration is of  *)
(* the radio's lifetime, a stop only where nothing was started)?  Whose    *)
(* evidence can still arrive (AwaitOK: that of the command waited for, for *)
(* wait() releases every handle when it returns)?  What does evidence say  *)
(* of the connection it came by (VisitOK, ReconcileOK: a transport that    *)
(* has reconnected since has lost the command, so with evidence the        *)
(* connection is still the one that was reconciled)?  And what is left of  *)
(* the starts of one attempt (AttemptOK: each is the last command of its   *)
(* radio, its epoch a tick nearer with every tick)?                        *)
(***************************************************************************)
EXTENDS ProcessorController, FiniteSetTheorems, SequenceTheorems, TLAPS

\* Operations queued on a connection, and those whose handle is still held.
ops(q) == {q[k].op : k \in 1 .. Len(q)}
liveOps(q) == {q[k].op : k \in {k \in 1 .. Len(q) : q[k].live}}

\* No stop follows a start.
stopsFirst(q) ==
  \A j, k \in 1 .. Len(q) : q[j].op = "start" /\ q[k].op = "stop" => k < j

\* The controller's present connection is open at the radio or about to be.
alive(d) == d.owner = "current" \/ d.pending = "current"
\* A start of this controller took effect in the radio's lifetime.
started(d) == d.ours /\ d.mode # "idle"
\* No connection that was not reconciled.
good(s) == s.connected => s.reconciled
\* Evidence has arrived or still can.
hope(d, s) ==
  \/ s.evidence = "accepted" \/ liveOps(s.outbox) # {}
  \/ d.owner = "current" /\ liveOps(d.inbox) # {}

\* What holds between a radio d and the session s that controls it.
ConnectionOK(d, s) ==
  /\ ~d.up => ~alive(d) /\ d.inbox = <<>> /\ d.mode = "idle"
  /\ ~d.up => d.owner = "none" /\ d.pending = "none"
  /\ d.owner = "none" => d.inbox = <<>>
  /\ alive(d) => s.connected
  /\ s.outbox # <<>> => s.connected
  /\ s.reconciled => s.connected
BootOK(d, s) ==
  /\ s.status.boot <= d.boot
  /\ s.configured \/ s.reconciled => s.status.boot # NoBoot
  /\ s.reconciled /\ alive(d) => s.status.boot = d.boot
  /\ s.configured /\ s.status.boot = d.boot /\ d.up => d.device
StartOK(d, s) ==
  started(d) \/ "start" \in ops(d.inbox) \/ (alive(d) /\ "start" \in ops(s.outbox))
    => d.up /\ s.configured /\ s.status.boot = d.boot
StopOK(d, s) ==
  /\ stopsFirst(d.inbox)
  /\ "stop" \in ops(d.inbox) => ~started(d)
  /\ alive(d) => stopsFirst(s.outbox)
  /\ alive(d) /\ "stop" \in ops(s.outbox) => ~started(d) /\ "start" \notin ops(d.inbox)
Link(d, s) == ConnectionOK(d, s) /\ BootOK(d, s) /\ StartOK(d, s) /\ StopOK(d, s)

\* The operations whose evidence the worker waits for.
Exchanges == {"reconcile", "stop", "restart", "liveness"}
Ops == {"status", "stop", "configure", "start", "cancel"}
awaits(r) ==
  CASE pc \in Exchanges /\ at = r -> Ops
    [] pc = "configure" /\ at = r -> {"configure"}
    [] pc = "submit" /\ r < at    -> {"start"}
    [] pc = "admit" /\ r >= at    -> {"start"}
    [] OTHER                      -> {}
AwaitOK(r) ==
  /\ liveOps(radio[r].inbox) \subseteq awaits(r)
  /\ liveOps(session[r].outbox) \subseteq awaits(r)
  /\ session[r].evidence # "none" => awaits(r) # {}

Reconciling == {"check", "before", "connect", "after", "reconcile"}
Visiting == {"visit", "stop", "configure", "restart", "alive", "liveness"}
VisitOK ==
  /\ pc \in Visiting => session[at].status.boot # NoBoot
  /\ pc \in {"restart", "liveness", "alive"} => session[at].configured
  /\ (pc = "visit" \/ (pc = "alive" /\ ready)) => good(session[at])
  /\ (pc \in {"stop", "configure", "restart"} \/ (pc = "liveness" /\ ready))
     /\ hope(radio[at], session[at]) => good(session[at])
  /\ pc = "configure" /\ session[at].evidence = "accepted" /\ radio[at].up
       /\ session[at].status.boot = radio[at].boot => radio[at].device
ReconcileOK ==
  pc = "reconcile" =>
    /\ after.boot # NoBoot /\ session[at].status.boot <= after.boot
    /\ after.boot <= radio[at].boot
    /\ hope(radio[at], session[at]) /\ alive(radio[at]) => after.boot = radio[at].boot
PassOK ==
  /\ pc \in Reconciling \cup Visiting /\ ready =>
       \A r \in Radios : r < at => good(session[r]) /\ session[r].configured
  /\ pc = "submit" => \A r \in Radios : good(session[r]) /\ session[r].configured
  /\ pc \in {"tail", "sleep"} => at = 1

epoch == IF pc = "submit" THEN Lead ELSE budget + 1
attempt(r) == (pc = "submit" /\ r < at) \/ pc = "admit"
lastLive(q, left) ==
  \A k \in 1 .. Len(q) : q[k].live => k = Len(q) /\ q[k].left = left
\* What is left of a radio's start command in an attempt: it is the last thing
\* queued, or it was executed and nothing follows.
attempting(d, s, done, left) ==
  /\ s.evidence = "accepted" => done
  /\ lastLive(d.inbox, left) /\ lastLive(s.outbox, left)
  /\ liveOps(d.inbox) # {} => s.outbox = <<>>
  /\ done => /\ d.inbox = <<>> /\ s.outbox = <<>>
             /\ d.mode = "armed" /\ d.ours => d.fuse = left
AttemptOK ==
  /\ pc = "admit" => budget < Lead /\ \A r \in Radios : r < at => r \in admitted
  /\ pc = "submit" /\ at # 1 => \A r \in admitted : r < at
  /\ \A r \in Radios :
       attempt(r) => attempting(radio[r], session[r], r \in admitted, epoch)

Faulty(d) == d.boot + (IF d.up THEN 0 ELSE 1) <= faults + 1
DataOK ==
  /\ radio \in [Radios -> Radio] /\ session \in [Radios -> Session]
  /\ \A r \in Radios :
       /\ Len(radio[r].inbox) <= MaxInbox /\ Len(session[r].outbox) <= QueueLimit
       /\ Faulty(radio[r]) /\ Link(radio[r], session[r])
ControlTypes ==
  /\ pc \in Phases /\ at \in Radios /\ budget \in 0 .. Longest
  /\ ready \in BOOLEAN /\ backoff \in 0 .. MaxBackoff
  /\ before \in Statuses /\ after \in Statuses
  /\ coordinated \in BOOLEAN /\ admitted \subseteq Radios
  /\ faults \in 0 .. MaxFaults
Progressed == VisitOK /\ ReconcileOK /\ PassOK /\ AttemptOK
IInv == DataOK /\ ControlTypes /\ (\A r \in Radios : AwaitOK(r)) /\ Progressed

-----------------------------------------------------------------------------
(* Queues of commands.                                                     *)

LEMMA QueueEmpty ==
  /\ <<>> \in Seq(Commands) /\ Len(<<>>) = 0
  /\ ops(<<>>) = {} /\ liveOps(<<>>) = {} /\ stopsFirst(<<>>)
  /\ \A left \in Int : lastLive(<<>>, left)
BY DEF ops, liveOps, stopsFirst, lastLive

LEMMA QueueNonEmpty ==
  ASSUME NEW q \in Seq(Commands)
  PROVE  /\ Len(q) \in Nat /\ (q = <<>> <=> Len(q) = 0)
         /\ ops(q) # {} => q # <<>>
         /\ liveOps(q) # {} => q # <<>>
         /\ liveOps(q) \subseteq ops(q)
BY LenProperties, EmptySeq DEF ops, liveOps

LEMMA QueueAppend ==
  ASSUME NEW q \in Seq(Commands), NEW c \in Commands
  PROVE  /\ Append(q, c) \in Seq(Commands) /\ Append(q, c) # <<>>
         /\ Len(Append(q, c)) = Len(q) + 1
         /\ ops(Append(q, c)) = ops(q) \cup {c.op}
         /\ c.live => liveOps(Append(q, c)) = liveOps(q) \cup {c.op}
         /\ ~c.live => liveOps(Append(q, c)) = liveOps(q)
         /\ stopsFirst(q) /\ (c.op = "stop" => "start" \notin ops(q))
              => stopsFirst(Append(q, c))
         /\ \A left \in Int : liveOps(q) = {} /\ (c.live => c.left = left)
              => lastLive(Append(q, c), left)
<1>. DEFINE p == Append(q, c)
<1>1. /\ p \in Seq(Commands) /\ p # <<>> /\ Len(p) = Len(q) + 1 /\ Len(q) \in Nat
      /\ \A k \in 1 .. Len(q) : p[k] = q[k]
      /\ p[Len(q) + 1] = c
  BY AppendProperties, LenProperties
<1>2. 1 .. Len(p) = 1 .. Len(q) \cup {Len(q) + 1}
  BY <1>1
<1>. HIDE DEF p
<1>3. ops(p) = ops(q) \cup {c.op}
  BY <1>1, <1>2 DEF ops
<1>4. /\ c.live => liveOps(p) = liveOps(q) \cup {c.op}
      /\ ~c.live => liveOps(p) = liveOps(q)
  BY <1>1, <1>2 DEF liveOps
<1>5. stopsFirst(q) /\ (c.op = "stop" => "start" \notin ops(q)) => stopsFirst(p)
  BY <1>1, <1>2 DEF stopsFirst, ops
<1>6. \A left \in Int : liveOps(q) = {} /\ (c.live => c.left = left) => lastLive(p, left)
  BY <1>1, <1>2 DEF lastLive, liveOps
<1>. QED BY <1>1, <1>3, <1>4, <1>5, <1>6 DEF p

LEMMA QueueTail ==
  ASSUME NEW q \in Seq(Commands), q # <<>>
  PROVE  /\ Head(q) \in Commands /\ Tail(q) \in Seq(Commands)
         /\ Len(Tail(q)) = Len(q) - 1
         /\ Head(q).op \in ops(q) /\ (Head(q).live => Head(q).op \in liveOps(q))
         /\ ops(Tail(q)) \subseteq ops(q) /\ liveOps(Tail(q)) \subseteq liveOps(q)
         /\ stopsFirst(q) => stopsFirst(Tail(q))
         /\ stopsFirst(q) /\ Head(q).op = "start" => "stop" \notin ops(Tail(q))
         /\ \A left \in Int : lastLive(q, left) =>
              /\ lastLive(Tail(q), left)
              /\ Head(q).live => Tail(q) = <<>> /\ Head(q).left = left
<1>. DEFINE p == Tail(q)
<1>1. /\ Head(q) = q[1] /\ Head(q) \in Commands /\ p \in Seq(Commands)
      /\ Len(q) \in Nat \ {0} /\ Len(p) = Len(q) - 1
      /\ \A k \in 1 .. Len(p) : p[k] = q[k + 1]
  BY HeadTailProperties, LenProperties, EmptySeq
<1>2. \A k \in 1 .. Len(p) : k + 1 \in 1 .. Len(q)
  BY <1>1
<1>. HIDE DEF p
<1>3. Head(q).op \in ops(q) /\ (Head(q).live => Head(q).op \in liveOps(q))
  BY <1>1 DEF ops, liveOps
<1>4. ops(p) \subseteq ops(q) /\ liveOps(p) \subseteq liveOps(q)
  BY <1>1, <1>2 DEF ops, liveOps
<1>5. stopsFirst(q) => stopsFirst(p)
  <2>. SUFFICES ASSUME stopsFirst(q), NEW j \in 1 .. Len(p), NEW k \in 1 .. Len(p),
                       p[j].op = "start", p[k].op = "stop"
                PROVE  k < j
    BY DEF stopsFirst
  <2>1. k + 1 < j + 1
    BY <1>1, <1>2 DEF stopsFirst
  <2>. QED BY <2>1, <1>1
<1>6. stopsFirst(q) /\ Head(q).op = "start" => "stop" \notin ops(p)
  BY <1>1, <1>2 DEF stopsFirst, ops
<1>7. ASSUME NEW left \in Int, lastLive(q, left)
      PROVE  /\ lastLive(p, left)
             /\ Head(q).live => p = <<>> /\ Head(q).left = left
  <2>1. lastLive(p, left)
    <3>. SUFFICES ASSUME NEW k \in 1 .. Len(p), p[k].live
                  PROVE  k = Len(p) /\ p[k].left = left
      BY DEF lastLive
    <3>1. k + 1 = Len(q) /\ q[k + 1].left = left
      BY <1>1, <1>2, <1>7 DEF lastLive
    <3>. QED BY <3>1, <1>1
  <2>2. ASSUME Head(q).live PROVE Len(q) = 1 /\ Head(q).left = left
    BY <1>1, <1>7, <2>2 DEF lastLive
  <2>. QED BY <1>1, <2>1, <2>2, EmptySeq
<1>. QED BY <1>1, <1>3, <1>4, <1>5, <1>6, <1>7 DEF p

\* Releasing handles and the passing of time change no operation.
LEMMA QueueReleased ==
  ASSUME NEW q \in Seq(Commands)
  PROVE  /\ released(q) \in Seq(Commands) /\ Len(released(q)) = Len(q)
         /\ ops(released(q)) = ops(q) /\ liveOps(released(q)) = {}
         /\ stopsFirst(q) => stopsFirst(released(q))
         /\ released(q) = <<>> <=> q = <<>>
         /\ \A left \in Int : lastLive(released(q), left)
<1>. DEFINE p == released(q)
<1>1. Len(q) \in Nat /\ \A k \in 1 .. Len(q) : q[k] \in Commands
  BY LenProperties, ElementOfSeq
<1>2. /\ DOMAIN p = 1 .. Len(q)
      /\ \A k \in 1 .. Len(q) : p[k] = [q[k] EXCEPT !.live = FALSE]
  BY DEF released
<1>3. \A k \in 1 .. Len(q) : p[k] \in Commands /\ p[k].op = q[k].op /\ ~p[k].live
  BY <1>1, <1>2 DEF Commands
<1>4. p \in Seq(Commands) /\ Len(p) = Len(q)
  BY <1>1, <1>2, <1>3, IsASeq DEF released
<1>. HIDE DEF p
<1>5. ops(p) = ops(q) /\ liveOps(p) = {} /\ (stopsFirst(q) => stopsFirst(p))
  BY <1>3, <1>4 DEF ops, liveOps, stopsFirst
<1>6. \A left \in Int : lastLive(p, left)
  BY <1>3, <1>4 DEF lastLive
<1>. QED BY <1>4, <1>5, <1>6, EmptySeq DEF p

LEMMA QueueAged ==
  ASSUME NEW q \in Seq(Commands)
  PROVE  /\ aged(q) \in Seq(Commands) /\ Len(aged(q)) = Len(q)
         /\ ops(aged(q)) = ops(q) /\ liveOps(aged(q)) = liveOps(q)
         /\ stopsFirst(q) => stopsFirst(aged(q))
         /\ aged(q) = <<>> <=> q = <<>>
         /\ \A left \in Nat \ {0} : lastLive(q, left) => lastLive(aged(q), left - 1)
<1>. DEFINE p == aged(q)
<1>1. Len(q) \in Nat /\ \A k \in 1 .. Len(q) : q[k] \in Commands
  BY LenProperties, ElementOfSeq
<1>2. /\ DOMAIN p = 1 .. Len(q)
      /\ \A k \in 1 .. Len(q) :
           p[k] = [q[k] EXCEPT !.left = less(q[k].left), !.ttl = less(q[k].ttl)]
  BY <1>1 DEF aged, Commands
<1>3. \A k \in 1 .. Len(q) :
        /\ p[k] \in Commands /\ p[k].op = q[k].op /\ p[k].live = q[k].live
        /\ p[k].left = less(q[k].left)
  <2>. SUFFICES ASSUME NEW k \in 1 .. Len(q)
                PROVE  /\ p[k] \in Commands /\ p[k].op = q[k].op
                       /\ p[k].live = q[k].live /\ p[k].left = less(q[k].left)
    OBVIOUS
  <2>1. q[k].left \in 0 .. Lead /\ q[k].ttl \in 0 .. IoTimeout
    BY <1>1 DEF Commands
  <2>2. less(q[k].left) \in 0 .. Lead /\ less(q[k].ttl) \in 0 .. IoTimeout
    BY <2>1, TimeoutAssumption DEF less
  <2>. QED BY <1>1, <1>2, <2>2 DEF Commands
<1>4. p \in Seq(Commands) /\ Len(p) = Len(q)
  <2>1. p = [k \in 1 .. Len(q) |-> p[k]]
    BY DEF aged
  <2>. HIDE DEF p
  <2>. QED BY <1>1, <1>3, <2>1, IsASeq
<1>. HIDE DEF p
<1>5. ops(p) = ops(q) /\ liveOps(p) = liveOps(q) /\ (stopsFirst(q) => stopsFirst(p))
  BY <1>3, <1>4 DEF ops, liveOps, stopsFirst
<1>6. \A left \in Nat \ {0} : lastLive(q, left) => lastLive(p, left - 1)
  BY <1>3, <1>4 DEF lastLive, less
<1>. QED BY <1>4, <1>5, <1>6, EmptySeq DEF p

-----------------------------------------------------------------------------
(* The initial states, and sizes.                                          *)

LEMMA Constants ==
  /\ RadioCount \in Nat \ {0} /\ 1 \in Radios /\ RadioCount \in Radios
  /\ Radios \subseteq Nat \ {0} /\ IsFiniteSet(Radios) /\ Cardinality(Radios) = RadioCount
<1>1. RadioCount \in Nat \ {0}
  BY RadioCountAssumption
<1>2. IsFiniteSet(Radios) /\ Cardinality(Radios) = RadioCount
  BY <1>1, FS_Interval DEF Radios
<1>. QED BY <1>1, <1>2 DEF Radios

LEMMA ProductMonotone ==
  ASSUME NEW a \in Nat, NEW n \in Nat, NEW m \in Nat, m <= n
  PROVE  a * m \in Nat /\ a * m <= a * n
<1>1. PICK k \in Nat : n = m + k
  BY n - m \in Nat, n = m + (n - m)
<1>2. a * n = a * m + a * k /\ a * k \in Nat /\ a * m \in Nat
  BY <1>1
<1>. QED BY <1>2

\* Every wait has its bound: only the end of a pass depends on the radios.
LEMMA WaitsBounded ==
  /\ 0 \in 0 .. Longest /\ IoTimeout \in 0 .. Longest /\ Lead - 1 \in 0 .. Longest
  /\ tailTime \in 1 .. Longest /\ \A n \in 0 .. MaxBackoff : n \in 0 .. Longest
<1>. DEFINE D == {r \in Radios : ~radio[r].up}
<1>1. IsFiniteSet(D) /\ Cardinality(D) \in Nat /\ Cardinality(D) <= RadioCount
  BY Constants, FS_Subset, FS_CardinalityType
<1>. HIDE DEF D
<1>2. /\ IoTimeout * Cardinality(D) \in Nat
      /\ IoTimeout * Cardinality(D) <= IoTimeout * RadioCount
  BY <1>1, ProductMonotone, Constants, TimeoutAssumption
<1>3. IoTimeout * 1 <= IoTimeout * RadioCount /\ IoTimeout * RadioCount \in Nat
  BY ProductMonotone, Constants, TimeoutAssumption
<1>4. tailTime = 1 + IoTimeout * Cardinality(D)
  BY DEF tailTime, D
<1>. QED BY <1>2, <1>3, <1>4, TimeoutAssumption DEF Longest

LEMMA Initially == Init => IInv
<1>. SUFFICES ASSUME Init PROVE IInv
  OBVIOUS
<1>1. PICK m \in [Radios -> {"idle", "armed", "streaming"}],
           o \in [Radios -> {"none", "foreign"}] :
        radio = [r \in Radios |->
         [up |-> TRUE, restarting |-> FALSE, stalled |-> FALSE, boot |-> 1,
          mode |-> m[r], fuse |-> IF m[r] = "armed" THEN Lead - 1 ELSE 0, overdue |-> 0,
          device |-> FALSE, ours |-> FALSE,
          owner |-> o[r], pending |-> "none", idle |-> 0, inbox |-> <<>>]]
  BY DEF Init
<1>2. session = [r \in Radios |->
       [connected |-> FALSE, reconciled |-> FALSE, retry |-> FALSE, status |-> NoStatus,
        configured |-> FALSE, started |-> FALSE, liveAge |-> 0,
        outbox |-> <<>>, evidence |-> "none"]]
  BY DEF Init
<1>3. 1 \in Boots /\ NoStatus \in Statuses
  BY BoundAssumption DEF Boots, NoStatus, Statuses, Owners, NoBoot
<1>4. ControlTypes
  <2>1. 0 \in 0 .. MaxBackoff /\ 0 \in 0 .. MaxFaults /\ "check" \in Phases
    BY TimeoutAssumption, BoundAssumption DEF Phases
  <2>. QED BY <1>3, <2>1, Constants, WaitsBounded DEF Init, ControlTypes
<1>5. DataOK
  <2>. SUFFICES ASSUME NEW r \in Radios
                PROVE  /\ radio[r] \in Radio /\ session[r] \in Session
                       /\ Len(radio[r].inbox) <= MaxInbox
                       /\ Len(session[r].outbox) <= QueueLimit
                       /\ Faulty(radio[r]) /\ Link(radio[r], session[r])
    BY <1>1, <1>2 DEF DataOK
  <2>1. radio[r] \in Radio
    BY <1>1, <1>3, QueueEmpty, TimeoutAssumption DEF Radio, Owners
  <2>2. session[r] \in Session
    BY <1>2, <1>3, QueueEmpty, TimeoutAssumption DEF Session
  <2>3. /\ radio[r].up /\ radio[r].boot = 1 /\ radio[r].inbox = <<>> /\ ~radio[r].ours
        /\ radio[r].owner \in {"none", "foreign"} /\ radio[r].pending = "none"
    BY <1>1
  <2>4. /\ session[r].outbox = <<>> /\ ~session[r].reconciled /\ ~session[r].configured
        /\ session[r].status.boot = 0
    BY <1>2 DEF NoStatus, NoBoot
  <2>5. Link(radio[r], session[r])
    BY <2>3, <2>4, QueueEmpty
       DEF Link, ConnectionOK, BootOK, StartOK, StopOK, alive, started, NoBoot
  <2>6. Faulty(radio[r])
    BY <2>3 DEF Faulty, Init
  <2>. QED BY <2>1, <2>2, <2>3, <2>4, <2>5, <2>6, QueueEmpty, BoundAssumption
<1>6. ASSUME NEW r \in Radios PROVE AwaitOK(r)
  BY <1>1, <1>2, QueueEmpty DEF AwaitOK
<1>7. Progressed
  BY Constants DEF Init, Progressed, VisitOK, ReconcileOK, PassOK, AttemptOK, attempt, Visiting
<1>. QED BY <1>4, <1>5, <1>6, <1>7 DEF IInv

-----------------------------------------------------------------------------
(* What the worker does to a radio's session.                              *)

silenced(d) == [d EXCEPT !.inbox = released(d.inbox)]
orphaned(d) == [d EXCEPT !.owner = orphan(d.owner), !.pending = orphan(d.pending)]
sending(s, c) == [s EXCEPT !.outbox = Append(s.outbox, c)]

\* After a release no evidence can arrive.
quiet(d, s) == liveOps(d.inbox) = {} /\ liveOps(s.outbox) = {} /\ s.evidence = "none"

LEMMA Forgotten ==
  ASSUME NEW d \in Radio, NEW s \in Session, Link(d, s)
  PROVE  /\ silenced(d) \in Radio /\ forget(s) \in Session
         /\ Link(silenced(d), forget(s)) /\ quiet(silenced(d), forget(s))
         /\ Len(silenced(d).inbox) = Len(d.inbox) /\ Len(forget(s).outbox) = Len(s.outbox)
         /\ Faulty(d) => Faulty(silenced(d))
         /\ \A x \in {"up", "boot", "owner", "pending", "mode", "ours", "device"} :
              silenced(d)[x] = d[x]
         /\ \A x \in {"connected", "reconciled", "status", "configured", "started"} :
              forget(s)[x] = s[x]
<1>. DEFINE e == silenced(d)  t == forget(s)
<1>1. /\ e \in Radio /\ e.inbox = released(d.inbox)
      /\ e.up = d.up /\ e.boot = d.boot /\ e.owner = d.owner /\ e.pending = d.pending
      /\ e.mode = d.mode /\ e.ours = d.ours /\ e.device = d.device
  BY QueueReleased DEF Radio, silenced
<1>2. /\ t \in Session /\ t.outbox = released(s.outbox) /\ t.evidence = "none"
      /\ t.connected = s.connected /\ t.reconciled = s.reconciled
      /\ t.status = s.status /\ t.configured = s.configured /\ t.started = s.started
  BY QueueReleased DEF Session, forget
<1>3. d.inbox \in Seq(Commands) /\ s.outbox \in Seq(Commands)
  BY DEF Radio, Session
<1>. HIDE DEF e, t
<1>4. Link(e, t)
  BY <1>1, <1>2, <1>3, QueueReleased
     DEF Link, ConnectionOK, BootOK, StartOK, StopOK, alive, started
<1>5. quiet(e, t) /\ Len(e.inbox) = Len(d.inbox) /\ Len(t.outbox) = Len(s.outbox)
  BY <1>1, <1>2, <1>3, QueueReleased DEF quiet
<1>6. Faulty(d) => Faulty(e)
  BY <1>1 DEF Faulty
<1>. QED BY <1>1, <1>2, <1>4, <1>5, <1>6 DEF e, t

\* A start needs a configuration in the radio's lifetime, a stop the lack of one.
LEMMA Sending ==
  ASSUME NEW d \in Radio, NEW s \in Session, Link(d, s), NEW c \in Commands,
         s.connected, Len(s.outbox) < QueueLimit,
         c.op = "start" /\ alive(d) => s.configured /\ s.status.boot = d.boot,
         c.op = "stop" => ~s.configured
  PROVE  /\ sending(s, c) \in Session /\ Link(d, sending(s, c))
         /\ Len(sending(s, c).outbox) <= QueueLimit
         /\ sending(s, c).outbox = Append(s.outbox, c)
         /\ \A x \in {"connected", "reconciled", "status", "configured", "started",
                      "evidence"} : sending(s, c)[x] = s[x]
<1>. DEFINE t == sending(s, c)
<1>1. s.outbox \in Seq(Commands) /\ Len(s.outbox) \in Nat /\ QueueLimit \in Nat
  BY LenProperties, BoundAssumption DEF Session
<1>2. /\ t \in Session /\ t.outbox = Append(s.outbox, c)
      /\ t.connected = s.connected /\ t.reconciled = s.reconciled /\ t.evidence = s.evidence
      /\ t.status = s.status /\ t.configured = s.configured /\ t.started = s.started
  BY <1>1, QueueAppend DEF Session, sending
<1>. HIDE DEF t
<1>3. ConnectionOK(d, t) /\ BootOK(d, t)
  BY <1>2 DEF Link, ConnectionOK, BootOK
<1>4. ops(t.outbox) = ops(s.outbox) \cup {c.op} /\ Len(t.outbox) = Len(s.outbox) + 1
  BY <1>1, <1>2, QueueAppend
<1>5. alive(d) => d.up
  BY DEF Link, ConnectionOK
<1>6. StartOK(d, t)
  BY <1>2, <1>4, <1>5 DEF Link, StartOK
<1>7. ~s.configured => ~started(d) /\ "start" \notin ops(d.inbox)
                       /\ (alive(d) => "start" \notin ops(s.outbox))
  BY DEF Link, StartOK
<1>8. alive(d) => stopsFirst(t.outbox)
  BY <1>1, <1>2, <1>7, QueueAppend DEF Link, StopOK
<1>9. StopOK(d, t)
  <2>1. ASSUME alive(d), "stop" \in ops(t.outbox)
        PROVE  ~started(d) /\ "start" \notin ops(d.inbox)
    <3>1. CASE "stop" \in ops(s.outbox)
      BY <2>1, <3>1 DEF Link, StopOK
    <3>2. CASE c.op = "stop"
      BY <1>7, <3>2
    <3>. QED BY <1>4, <2>1, <3>1, <3>2
  <2>. QED BY <1>8, <2>1 DEF Link, StopOK
<1>10. Len(t.outbox) <= QueueLimit
  BY <1>1, <1>4
<1>11. Link(d, t)
  BY <1>3, <1>6, <1>9 DEF Link
<1>. QED BY <1>2, <1>10, <1>11 DEF t

LEMMA Closing ==
  ASSUME NEW d \in Radio, NEW s \in Session, Link(d, s), NEW retry \in BOOLEAN
  PROVE  /\ orphaned(d) \in Radio /\ closed(s, retry) \in Session
         /\ Link(orphaned(d), closed(s, retry)) /\ Len(closed(s, retry).outbox) = 0
         /\ closed(s, retry).outbox = <<>> /\ orphaned(d).inbox = d.inbox
         /\ ~alive(orphaned(d)) /\ orphaned(d).owner # "current"
         /\ good(closed(s, retry)) /\ ~closed(s, retry).connected
         /\ Faulty(d) => Faulty(orphaned(d))
         /\ \A x \in {"up", "boot", "mode", "fuse", "ours", "device"} : orphaned(d)[x] = d[x]
         /\ \A x \in {"status", "configured", "started", "evidence"} :
              closed(s, retry)[x] = s[x]
<1>. DEFINE e == orphaned(d)  t == closed(s, retry)
<1>1. /\ e \in Radio /\ e.inbox = d.inbox /\ e.owner # "current" /\ e.pending # "current"
      /\ e.up = d.up /\ e.boot = d.boot /\ e.mode = d.mode /\ e.fuse = d.fuse
      /\ e.ours = d.ours /\ e.device = d.device
      /\ e.owner = "none" <=> d.owner = "none"
      /\ e.pending = "none" <=> d.pending = "none"
  BY DEF Radio, orphaned, orphan, Owners
<1>2. /\ t \in Session /\ t.outbox = <<>> /\ ~t.connected /\ ~t.reconciled
      /\ t.status = s.status /\ t.configured = s.configured /\ t.started = s.started
      /\ t.evidence = s.evidence
  BY QueueEmpty DEF Session, closed
<1>. HIDE DEF e, t
<1>3. Link(e, t)
  BY <1>1, <1>2, QueueEmpty
     DEF Link, ConnectionOK, BootOK, StartOK, StopOK, alive, started
<1>4. Faulty(d) => Faulty(e)
  BY <1>1 DEF Faulty
<1>. QED BY <1>1, <1>2, <1>3, <1>4, QueueEmpty DEF alive, good, e, t

\* Time passes.
LEMMA Ageing ==
  ASSUME NEW d \in Radio, NEW s \in Session, Link(d, s), NEW e \in Radio, NEW t \in Session,
         e.inbox = aged(d.inbox), t.outbox = aged(s.outbox),
         e.up = d.up, e.boot = d.boot, e.owner = d.owner, e.pending = d.pending,
         e.ours = d.ours, e.device = d.device, e.mode = d.mode \/ d.mode = "armed",
         t.connected = s.connected, t.reconciled = s.reconciled, t.status = s.status,
         t.configured = s.configured
  PROVE  Link(e, t)
<1>1. d.inbox \in Seq(Commands) /\ s.outbox \in Seq(Commands)
  BY DEF Radio, Session
<1>2. started(e) => started(d)
  BY DEF started
<1>. QED BY <1>1, <1>2, QueueAged DEF Link, ConnectionOK, BootOK, StartOK, StopOK, alive

-----------------------------------------------------------------------------
(* A step of one radio or of one client transport, the worker waiting.     *)

LEMMA Local ==
  ASSUME IInv, NEW r \in Radios
  PROVE  /\ radio \in [Radios -> Radio] /\ session \in [Radios -> Session]
         /\ radio[r] \in Radio /\ session[r] \in Session
         /\ radio[r].inbox \in Seq(Commands) /\ session[r].outbox \in Seq(Commands)
         /\ Len(radio[r].inbox) <= MaxInbox /\ Len(session[r].outbox) <= QueueLimit
         /\ radio[r].boot \in Boots /\ Boots \subseteq Nat
         /\ faults \in 0 .. MaxFaults /\ faults \in Nat
         /\ Link(radio[r], session[r]) /\ Faulty(radio[r])
         /\ attempt(r) => attempting(radio[r], session[r], r \in admitted, epoch)
         /\ pc = "configure" /\ at = r /\ session[r].evidence = "accepted" /\ radio[r].up
              /\ session[r].status.boot = radio[r].boot => radio[r].device
         /\ epoch \in Int /\ (pc \in {"submit", "admit"} => epoch \in Nat \ {0})
<1>1. /\ radio \in [Radios -> Radio] /\ session \in [Radios -> Session]
      /\ radio[r] \in Radio /\ session[r] \in Session
      /\ Len(radio[r].inbox) <= MaxInbox /\ Len(session[r].outbox) <= QueueLimit
      /\ Link(radio[r], session[r]) /\ Faulty(radio[r])
  BY DEF IInv, DataOK
<1>2. /\ radio[r].inbox \in Seq(Commands) /\ session[r].outbox \in Seq(Commands)
      /\ radio[r].boot \in Boots
  BY <1>1 DEF Radio, Session
<1>3. Boots \subseteq Nat
  BY BoundAssumption DEF Boots
<1>4. attempt(r) => attempting(radio[r], session[r], r \in admitted, epoch)
  BY DEF IInv, Progressed, AttemptOK
<1>5. pc = "configure" /\ at = r /\ session[r].evidence = "accepted" /\ radio[r].up
        /\ session[r].status.boot = radio[r].boot => radio[r].device
  BY DEF IInv, Progressed, VisitOK
<1>6. epoch \in Nat \ {0}
  <2>1. Lead \in Nat \ {0} /\ budget \in 0 .. Longest
    BY TimeoutAssumption DEF IInv, ControlTypes
  <2>. QED BY <2>1 DEF epoch
<1>7. faults \in 0 .. MaxFaults /\ faults \in Nat
  BY BoundAssumption DEF IInv, ControlTypes
<1>. QED BY <1>1, <1>2, <1>3, <1>4, <1>5, <1>6, <1>7

\* Radio r and its session become d and s.
moved(r, d, s) ==
  /\ d \in Radio /\ s \in Session
  /\ radio' = [radio EXCEPT ![r] = d] /\ session' = [session EXCEPT ![r] = s]
  /\ UNCHANGED worker /\ (admitted' = admitted \/ admitted' = admitted \cup {r})
  /\ faults' \in 0 .. MaxFaults /\ faults <= faults'
  /\ d.boot + (IF d.up THEN 0 ELSE 1) <= faults' + 1
  /\ Len(d.inbox) <= MaxInbox /\ Len(s.outbox) <= QueueLimit
\* What the worker relies on.  Evidence can only go, and with it the connection.
kept(r, d, s) ==
  /\ s.status = session[r].status /\ s.configured = session[r].configured
  /\ radio[r].boot <= d.boot
  /\ liveOps(d.inbox) \cup liveOps(s.outbox)
       \subseteq liveOps(radio[r].inbox) \cup liveOps(session[r].outbox)
  /\ s.evidence \in {"none", session[r].evidence} \/ liveOps(radio[r].inbox) # {}
  /\ hope(d, s) => /\ hope(radio[r], session[r]) /\ (good(session[r]) => good(s))
                   /\ alive(d) => alive(radio[r]) /\ d.boot = radio[r].boot
  /\ ~progressing(r) /\ good(session[r]) => good(s)
settles(r, d, s) ==
  /\ pc = "configure" /\ at = r /\ s.evidence = "accepted" /\ d.up
       /\ s.status.boot = d.boot => d.device
  /\ attempt(r) => attempting(d, s, r \in admitted', epoch)
  /\ pc = "submit" => admitted' = admitted \/ r < at

LEMMA LocalStep ==
  ASSUME IInv, NEW r \in Radios, NEW d, NEW s,
         moved(r, d, s), kept(r, d, s), settles(r, d, s), Link(d, s)
  PROVE  IInv'
<1>. USE DEF moved, kept, settles
<1>1. /\ radio \in [Radios -> Radio] /\ session \in [Radios -> Session]
      /\ radio' \in [Radios -> Radio] /\ session' \in [Radios -> Session]
      /\ radio'[r] = d /\ session'[r] = s
      /\ \A x \in Radios \ {r} : radio'[x] = radio[x] /\ session'[x] = session[x]
  BY DEF IInv, DataOK
<1>2. UNCHANGED <<pc, at, budget, ready, backoff, before, after, coordinated>>
  BY DEF worker, control
<1>3. ControlTypes'
  BY <1>2 DEF IInv, ControlTypes
<1>4. DataOK'
  <2>. SUFFICES ASSUME NEW x \in Radios
                PROVE  /\ Len(radio'[x].inbox) <= MaxInbox
                       /\ Len(session'[x].outbox) <= QueueLimit
                       /\ Faulty(radio[x])' /\ Link(radio'[x], session'[x])
    BY <1>1 DEF DataOK, Faulty
  <2>1. CASE x = r
    BY <1>1, <2>1 DEF Faulty
  <2>2. CASE x # r
    <3>1. radio[x].boot \in Nat /\ faults \in Nat /\ faults' \in Nat
      <4>1. radio[x].boot \in Boots /\ faults \in 0 .. MaxFaults
        BY <1>1 DEF Radio, IInv, ControlTypes
      <4>. QED BY <4>1, BoundAssumption DEF Boots
    <3>2. Faulty(radio[x])'
      BY <1>1, <2>2, <3>1 DEF IInv, DataOK, Faulty
    <3>. QED BY <1>1, <2>2, <3>2 DEF IInv, DataOK
  <2>. QED BY <2>1, <2>2
<1>5. ASSUME NEW x \in Radios PROVE AwaitOK(x)'
  <2>1. awaits(x)' = awaits(x)
    BY <1>2 DEF awaits
  <2>2. AwaitOK(x)
    BY DEF IInv
  <2>3. CASE x = r
    BY <1>1, <2>1, <2>2, <2>3 DEF AwaitOK
  <2>4. CASE x # r
    BY <1>1, <2>1, <2>2, <2>4 DEF AwaitOK
  <2>. QED BY <2>3, <2>4
<1>6. at \in Radios /\ Radios \subseteq Nat
  BY Constants DEF IInv, ControlTypes
<1>8. /\ \A x \in Radios : session'[x].configured = session[x].configured
      /\ \A x \in Radios : session'[x].status = session[x].status
      /\ \A x \in Radios : ~progressing(x) /\ good(session[x]) => good(session'[x])
  BY <1>1
<1>9. VisitOK'
  <2>1. pc \in {"visit", "alive"} => ~progressing(at)
    BY DEF progressing, Waits
  <2>2. VisitOK
    BY DEF IInv, Progressed
  <2>3. CASE at = r
    BY <1>1, <1>2, <1>6, <1>8, <2>1, <2>2, <2>3 DEF VisitOK
  <2>4. CASE at # r
    BY <1>1, <1>2, <1>6, <2>2, <2>4 DEF VisitOK
  <2>. QED BY <2>3, <2>4
<1>10. ReconcileOK'
  <2>1. ReconcileOK
    BY DEF IInv, Progressed
  <2>2. /\ radio[at].boot \in Int /\ radio'[at].boot \in Int /\ after.boot \in Int
        /\ radio[at].boot <= radio'[at].boot
    <3>1. radio[at] \in Radio /\ radio'[at] \in Radio /\ after \in Statuses
      BY <1>1, <1>6 DEF IInv, ControlTypes
    <3>2. radio[at].boot \in Nat /\ radio'[at].boot \in Nat /\ after.boot \in Int
      BY <3>1, Local DEF Radio, Statuses, NoBoot
    <3>3. radio'[at] = radio[at] \/ radio[at].boot <= radio'[at].boot
      BY <1>1, <1>6
    <3>. QED BY <3>2, <3>3
  <2>3. CASE at = r
    BY <1>1, <1>2, <1>6, <2>1, <2>2, <2>3 DEF ReconcileOK
  <2>4. CASE at # r
    BY <1>1, <1>2, <1>6, <2>1, <2>4 DEF ReconcileOK
  <2>. QED BY <2>3, <2>4
<1>11. PassOK'
  <2>1. /\ pc \in Reconciling \cup Visiting => \A x \in Radios : x < at => ~progressing(x)
        /\ pc = "submit" => \A x \in Radios : ~progressing(x)
    BY <1>6 DEF progressing, Waits, Reconciling, Visiting
  <2>2. PassOK
    BY DEF IInv, Progressed
  <2>. QED BY <1>2, <1>8, <2>1, <2>2 DEF PassOK
<1>12. AttemptOK'
  <2>1. /\ epoch' = epoch /\ \A x \in Radios : attempt(x)' <=> attempt(x)
    BY <1>2 DEF epoch, attempt
  <2>2. AttemptOK
    BY DEF IInv, Progressed
  <2>3. ASSUME NEW x \in Radios, attempt(x)
        PROVE  attempting(radio'[x], session'[x], x \in admitted', epoch)
    <3>1. CASE x = r
      BY <1>1, <2>3, <3>1
    <3>2. CASE x # r
      BY <1>1, <2>2, <2>3, <3>2 DEF AttemptOK
    <3>. QED BY <3>1, <3>2
  <2>. QED BY <1>2, <2>1, <2>2, <2>3 DEF AttemptOK
<1>. QED BY <1>3, <1>4, <1>5, <1>9, <1>10, <1>11, <1>12 DEF IInv, Progressed

LEMMA RadioAcceptKeeps ==
  ASSUME IInv, NEW r \in Radios, RadioAccept(r)
  PROVE  IInv'
<1>. DEFINE s == session[r]
            d == [radio[r] EXCEPT !.pending = "none",
       !.owner = IF radio[r].owner = "none" THEN radio[r].pending ELSE radio[r].owner,
       !.idle = IF radio[r].owner = "none" THEN 0 ELSE radio[r].idle]
<1>1. /\ d \in Radio
      /\ d.inbox = radio[r].inbox /\ d.up = radio[r].up /\ d.boot = radio[r].boot
      /\ d.mode = radio[r].mode /\ d.ours = radio[r].ours /\ d.device = radio[r].device
      /\ d.fuse = radio[r].fuse /\ d.pending = "none"
      /\ d.owner = IF radio[r].owner = "none" THEN radio[r].pending ELSE radio[r].owner
  <2>1. /\ (IF radio[r].owner = "none" THEN radio[r].pending ELSE radio[r].owner) \in Owners
        /\ (IF radio[r].owner = "none" THEN 0 ELSE radio[r].idle) \in 0 .. StaleTimeout
    BY Local, TimeoutAssumption DEF Radio, Owners
  <2>. QED BY <2>1, Local DEF Radio
<1>2. radio' = [radio EXCEPT ![r] = d] /\ session' = [session EXCEPT ![r] = s]
  BY Local DEF RadioAccept
<1>. HIDE DEF d
<1>3. alive(d) => alive(radio[r])
  BY <1>1 DEF alive
<1>4. Link(d, s)
  BY <1>1, <1>3, Local
     DEF Link, ConnectionOK, BootOK, StartOK, StopOK, started, RadioAccept, running
<1>5. hope(d, s) => hope(radio[r], s)
  BY <1>1, Local, QueueEmpty DEF hope, Link, ConnectionOK
<1>6. attempt(r) => attempting(d, s, r \in admitted, epoch)
  BY <1>1, Local DEF attempting
<1>7. moved(r, d, s)
  <2>1. UNCHANGED worker /\ admitted' = admitted /\ faults' = faults
    BY DEF RadioAccept
  <2>2. d.boot + (IF d.up THEN 0 ELSE 1) <= faults' + 1 /\ faults <= faults'
    BY <1>1, <2>1, Local DEF Faulty
  <2>. QED BY <1>1, <1>2, <2>1, <2>2, Local DEF moved
<1>8. kept(r, d, s)
  BY <1>1, <1>3, <1>5, Local DEF kept
<1>9. settles(r, d, s)
  BY <1>1, <1>6, Local DEF settles, RadioAccept
<1>. QED BY <1>4, <1>7, <1>8, <1>9, LocalStep

LEMMA RadioReleaseKeeps ==
  ASSUME IInv, NEW r \in Radios, RadioRelease(r)
  PROVE  IInv'
<1>. DEFINE s == session[r]  d == dropOwner(radio[r])
<1>1. /\ d \in Radio /\ d.inbox = <<>> /\ d.owner = "none" /\ d.pending = radio[r].pending
      /\ d.up = radio[r].up /\ d.boot = radio[r].boot /\ d.fuse = radio[r].fuse
      /\ d.mode = radio[r].mode /\ d.ours = radio[r].ours /\ d.device = radio[r].device
  <2>1. "none" \in Owners /\ 0 \in 0 .. StaleTimeout
    BY TimeoutAssumption DEF Owners
  <2>. QED BY <2>1, Local, QueueEmpty DEF dropOwner, Radio
<1>2. radio' = [radio EXCEPT ![r] = d] /\ session' = [session EXCEPT ![r] = s]
  BY Local DEF RadioRelease
<1>. HIDE DEF d
<1>3. alive(d) => alive(radio[r])
  BY <1>1 DEF alive
<1>4. Link(d, s)
  BY <1>1, <1>3, Local, QueueEmpty
     DEF Link, ConnectionOK, BootOK, StartOK, StopOK, started, RadioRelease, running
<1>5. hope(d, s) => hope(radio[r], s)
  BY <1>1, Local, QueueEmpty DEF hope
<1>6. attempt(r) => attempting(d, s, r \in admitted, epoch)
  BY <1>1, Local, QueueEmpty DEF attempting
<1>7. moved(r, d, s)
  <2>1. UNCHANGED worker /\ admitted' = admitted /\ faults' = faults
    BY DEF RadioRelease
  <2>2. d.boot + (IF d.up THEN 0 ELSE 1) <= faults' + 1 /\ faults <= faults'
    BY <1>1, <2>1, Local DEF Faulty
  <2>3. Len(d.inbox) <= MaxInbox
    BY <1>1, BoundAssumption, QueueEmpty
  <2>. QED BY <1>1, <1>2, <2>1, <2>2, <2>3, Local DEF moved
<1>8. kept(r, d, s)
  BY <1>1, <1>3, <1>5, Local, QueueEmpty DEF kept
<1>9. settles(r, d, s)
  BY <1>1, <1>6, Local DEF settles, RadioRelease
<1>. QED BY <1>4, <1>7, <1>8, <1>9, LocalStep

\* The radio's execution of a command: what it changes, and when.
LEMMA Effect ==
  ASSUME NEW d \in Radio, NEW c \in Commands
  PROVE  /\ effect(d, c) \in Radio /\ effect(d, c).inbox = d.inbox
         /\ \A x \in {"up", "boot", "owner", "pending", "stalled"} : effect(d, c)[x] = d[x]
         /\ d.device => effect(d, c).device
         /\ c.op = "configure" /\ legal(d, c) => effect(d, c).device
         /\ started(effect(d, c)) => started(d) \/ c.op = "start"
         /\ c.op = "start" /\ legal(d, c) =>
              effect(d, c).mode = "armed" /\ effect(d, c).fuse = c.left
         /\ c.op \in {"status", "configure"} =>
              effect(d, c).mode = d.mode /\ effect(d, c).fuse = d.fuse
              /\ effect(d, c).ours = d.ours
         /\ c.op \notin {"stop", "start", "cancel"} =>
              started(effect(d, c)) <=> started(d)
         /\ c.op = "stop" => ~started(effect(d, c))
         /\ c.op # "stop" /\ d.ours /\ d.mode = "streaming" =>
              effect(d, c).ours /\ effect(d, c).mode = "streaming"
<1>1. /\ d.idle \in 0 .. StaleTimeout /\ 0 \in 0 .. StaleTimeout
      /\ 0 \in 0 .. Lead /\ c.left \in 0 .. Lead
  BY TimeoutAssumption DEF Radio, Commands
<1>2. CASE c.op = "status"
  BY <1>1, <1>2 DEF effect, Radio, started
<1>3. CASE c.op = "configure"
  BY <1>1, <1>3 DEF effect, Radio, started
<1>4. CASE c.op = "start"
  BY <1>1, <1>4 DEF effect, Radio, started, legal
<1>5. CASE c.op = "stop"
  BY <1>1, <1>5 DEF effect, Radio, started
<1>6. CASE c.op = "cancel"
  BY <1>1, <1>6 DEF effect, Radio, started
<1>. QED BY <1>2, <1>3, <1>4, <1>5, <1>6 DEF Commands

LEMMA RadioExecuteKeeps ==
  ASSUME IInv, NEW r \in Radios, RadioExecute(r)
  PROVE  IInv'
<1>. DEFINE c == Head(radio[r].inbox)
            ok == legal(radio[r], c)
            x == effect(radio[r], c)
            d == [x EXCEPT !.inbox = Tail(radio[r].inbox)]
            e == IF ~c.live \/ radio[r].owner # "current" THEN session[r].evidence
                 ELSE IF ok THEN "accepted" ELSE "refused"
            s == [session[r] EXCEPT !.evidence = e]
<1>1. /\ radio[r].inbox # <<>> /\ radio[r].inbox \in Seq(Commands) /\ radio[r].up
      /\ radio[r] \in Radio /\ session[r] \in Session /\ c \in Commands
  BY Local, QueueTail DEF RadioExecute, running
<1>2. x \in Radio /\ x.inbox = radio[r].inbox
  BY <1>1, Effect
<1>3. /\ d \in Radio /\ d.inbox = Tail(radio[r].inbox)
      /\ d.up = radio[r].up /\ d.boot = radio[r].boot /\ d.owner = radio[r].owner
      /\ d.pending = radio[r].pending
      /\ d.mode = x.mode /\ d.ours = x.ours /\ d.device = x.device /\ d.fuse = x.fuse
  BY <1>1, <1>2, Effect, QueueTail DEF Radio
<1>4. /\ s \in Session /\ s.evidence = e /\ s.outbox = session[r].outbox
      /\ s.connected = session[r].connected /\ s.reconciled = session[r].reconciled
      /\ s.status = session[r].status /\ s.configured = session[r].configured
  BY <1>1 DEF Session
<1>5. radio' = [radio EXCEPT ![r] = d] /\ session' = [session EXCEPT ![r] = s]
  <2>1. radio' = [radio EXCEPT ![r] = [x EXCEPT !.inbox = Tail(x.inbox)]]
    BY DEF RadioExecute
  <2>2. session' = [session EXCEPT ![r] = [session[r] EXCEPT !.evidence = e]]
    BY Local DEF RadioExecute
  <2>. QED BY <1>2, <2>1, <2>2
<1>6. /\ UNCHANGED <<worker, faults>>
      /\ admitted' = admitted \cup {y \in {r} : c.op = "start" /\ ok /\ c.live}
  BY DEF RadioExecute
<1>7. /\ started(d) => started(radio[r]) \/ c.op = "start"
      /\ radio[r].device => d.device
      /\ c.op = "configure" /\ ok => d.device
      /\ c.op = "start" /\ ok => d.mode = "armed" /\ d.fuse = c.left
  <2>1. started(d) <=> started(x)
    BY <1>3 DEF started
  <2>. QED BY <1>1, <1>3, <2>1, Effect, ZenonT(40)
<1>. DEFINE q == radio[r].inbox
<1>8. /\ c.op \in ops(q) /\ (c.live => c.op \in liveOps(q))
      /\ ops(d.inbox) \subseteq ops(q) /\ liveOps(d.inbox) \subseteq liveOps(q)
      /\ stopsFirst(q) => stopsFirst(d.inbox)
      /\ stopsFirst(q) /\ c.op = "start" => "stop" \notin ops(d.inbox)
      /\ \A left \in Int : lastLive(q, left) =>
              /\ lastLive(d.inbox, left)
              /\ c.live => d.inbox = <<>> /\ c.left = left
      /\ Len(d.inbox) <= MaxInbox
  <2>1. Len(d.inbox) = Len(q) - 1 /\ Len(q) <= MaxInbox /\ Len(q) \in Nat /\ MaxInbox \in Nat
    BY <1>1, <1>3, QueueTail, QueueNonEmpty, Local, BoundAssumption
  <2>. QED BY <1>1, <1>3, <2>1, QueueTail
<1>9. c.live => c.op \in awaits(r)
  BY <1>8 DEF IInv, AwaitOK
<1>10. e = session[r].evidence \/ (c.live /\ radio[r].owner = "current" /\ (e = "accepted" => ok))
  OBVIOUS
<1>. HIDE DEF d, s, c, ok, x, e
<1>11. Link(d, s)
  <2>1. alive(d) <=> alive(radio[r])
    BY <1>3 DEF alive
  <2>2. ConnectionOK(d, s)
    BY <1>1, <1>3, <1>4, <2>1, Local DEF Link, ConnectionOK
  <2>3. BootOK(d, s)
    BY <1>3, <1>4, <1>7, <2>1, Local DEF Link, BootOK
  <2>4. StartOK(d, s)
    BY <1>3, <1>4, <1>7, <1>8, <2>1, Local DEF Link, StartOK
  <2>5. StopOK(d, s)
    BY <1>3, <1>4, <1>7, <1>8, <2>1, Local DEF Link, StopOK
  <2>. QED BY <2>2, <2>3, <2>4, <2>5 DEF Link
<1>12. moved(r, d, s)
  <2>1. /\ UNCHANGED worker /\ faults' = faults
        /\ admitted' = admitted \/ admitted' = admitted \cup {r}
    BY <1>6
  <2>2. d.boot + (IF d.up THEN 0 ELSE 1) <= faults' + 1 /\ faults <= faults'
    BY <1>3, <2>1, Local DEF Faulty
  <2>. QED BY <1>3, <1>4, <1>5, <1>8, <2>1, <2>2, Local DEF moved
<1>13. kept(r, d, s)
  <2>1. radio[r].boot <= d.boot
    BY <1>3, Local
  <2>2. s.evidence \in {"none", session[r].evidence} \/ liveOps(q) # {}
    BY <1>4, <1>8, <1>10
  <2>3. hope(d, s) => hope(radio[r], session[r])
    BY <1>3, <1>4, <1>8, <1>10 DEF hope
  <2>4. (good(session[r]) <=> good(s)) /\ (alive(d) <=> alive(radio[r]))
    BY <1>3, <1>4 DEF good, alive
  <2>. QED BY <1>3, <1>4, <1>8, <2>1, <2>2, <2>3, <2>4 DEF kept
<1>14. settles(r, d, s)
  <2>1. ASSUME pc = "configure", at = r, e = "accepted", d.up, s.status.boot = d.boot
        PROVE  d.device
    <3>1. CASE session[r].evidence = "accepted"
      BY <1>3, <1>4, <1>7, <2>1, <3>1, Local
    <3>2. CASE session[r].evidence # "accepted"
      <4>1. c.live /\ ok
        BY <1>10, <2>1, <3>2
      <4>2. c.op = "configure"
        BY <1>9, <2>1, <4>1 DEF awaits, Exchanges
      <4>. QED BY <1>7, <4>1, <4>2
    <3>. QED BY <3>1, <3>2
  <2>2. ASSUME attempt(r)
        PROVE  attempting(d, s, r \in admitted', epoch)
    <3>1. attempting(radio[r], session[r], r \in admitted, epoch) /\ epoch \in Int
      BY <2>2, Local
    <3>2. lastLive(q, epoch) /\ r \notin admitted
      BY <1>1, <3>1 DEF attempting
    <3>3. lastLive(d.inbox, epoch) /\ lastLive(s.outbox, epoch)
      BY <1>4, <1>8, <3>1, <3>2 DEF attempting
    <3>4. CASE c.live
      <4>1. c.op = "start"
        BY <1>9, <2>2, <3>4 DEF awaits, attempt, Exchanges
      <4>2. d.inbox = <<>> /\ c.left = epoch /\ s.outbox = <<>>
        BY <1>4, <1>8, <3>1, <3>2, <3>4 DEF attempting
      <4>3. r \in admitted' <=> ok
        BY <1>6, <3>2, <3>4, <4>1
      <4>4. s.evidence = "accepted" => ok
        BY <1>4, <1>10, <3>1, <3>2 DEF attempting
      <4>5. ok => d.fuse = epoch
        BY <1>7, <4>1, <4>2
      <4>. QED BY <3>3, <4>2, <4>3, <4>4, <4>5, QueueEmpty DEF attempting
    <3>5. CASE ~c.live
      <4>1. admitted' = admitted /\ s.evidence = session[r].evidence
        BY <1>4, <1>6, <1>10, <3>5
      <4>. QED BY <1>4, <1>8, <3>1, <3>2, <3>3, <4>1 DEF attempting
    <3>. QED BY <3>4, <3>5
  <2>3. pc = "submit" => admitted' = admitted \/ r < at
    BY <1>6, <1>9 DEF awaits, Exchanges
  <2>. QED BY <1>4, <2>1, <2>2, <2>3 DEF settles
<1>. QED BY <1>11, <1>12, <1>13, <1>14, LocalStep

\* The process ends, for good or to execute itself again.
LEMMA Ended ==
  ASSUME NEW d \in Radio, NEW again \in BOOLEAN
  PROVE  /\ ended(d, again) \in Radio /\ ended(d, again).inbox = <<>>
         /\ ended(d, again).owner = "none" /\ ended(d, again).pending = "none"
         /\ ~ended(d, again).up /\ ended(d, again).boot = d.boot
         /\ ended(d, again).mode = "idle" /\ ~ended(d, again).ours
<1>1. /\ "none" \in Owners /\ 0 \in 0 .. StaleTimeout /\ 0 \in 0 .. Lead
      /\ 0 \in 0 .. LateLimit
  BY TimeoutAssumption DEF Owners
<1>2. dropOwner(d) \in Radio /\ dropOwner(d).inbox = <<>> /\ dropOwner(d).owner = "none"
      /\ dropOwner(d).boot = d.boot
  BY <1>1, QueueEmpty DEF dropOwner, Radio
<1>. DEFINE c == dropOwner(d)
            e == [c EXCEPT
     !.up = FALSE, !.restarting = again, !.stalled = FALSE, !.mode = "idle", !.fuse = 0,
     !.overdue = 0, !.device = FALSE, !.ours = FALSE, !.pending = "none"]
<1>3. ended(d, again) = e
  BY DEF ended
<1>4. c \in Radio /\ c.inbox = <<>> /\ c.owner = "none" /\ c.boot = d.boot
  BY <1>2
<1>. HIDE DEF c
<1>5. /\ e.inbox = c.inbox /\ e.owner = c.owner /\ e.pending = "none"
      /\ ~e.up /\ e.boot = c.boot /\ e.mode = "idle" /\ ~e.ours
  BY <1>4 DEF Radio
<1>6. e \in Radio
  BY <1>1, <1>4 DEF Radio
<1>. QED BY <1>3, <1>4, <1>5, <1>6

LEMMA CrashKeeps ==
  ASSUME IInv, NEW r \in Radios, Crash(r) \/ Hangup(r)
  PROVE  IInv'
<1>1. PICK lost \in BOOLEAN :
        session' = [session EXCEPT ![r].evidence =
                      IF lost THEN "none" ELSE session[r].evidence]
  BY DEF Crash, Hangup, replyMayBeLost
<1>13. PICK again \in BOOLEAN : radio' = [radio EXCEPT ![r] = ended(radio[r], again)]
  BY DEF Crash, Hangup
<1>. DEFINE e == IF lost THEN "none" ELSE session[r].evidence
            s == [session[r] EXCEPT !.evidence = e]
            d == ended(radio[r], again)
<1>2. /\ d \in Radio /\ d.inbox = <<>> /\ d.owner = "none" /\ d.pending = "none"
      /\ ~d.up /\ d.boot = radio[r].boot /\ d.mode = "idle" /\ ~d.ours
  BY Local, Ended
<1>3. /\ s \in Session /\ s.evidence = e /\ s.outbox = session[r].outbox
      /\ s.connected = session[r].connected /\ s.reconciled = session[r].reconciled
      /\ s.status = session[r].status /\ s.configured = session[r].configured
  BY Local DEF Session
<1>4. radio' = [radio EXCEPT ![r] = d] /\ session' = [session EXCEPT ![r] = s]
  BY <1>1, <1>13, Local
<1>5. faults < MaxFaults /\ faults' = faults + 1 /\ radio[r].up
      /\ UNCHANGED <<worker, admitted>>
  BY DEF Crash, Hangup, fault, running
<1>6. e \in {"none", session[r].evidence}
  OBVIOUS
<1>. HIDE DEF d, s, e
<1>7. ~alive(d) /\ ~started(d)
  BY <1>2 DEF alive, started
<1>8. Link(d, s)
  BY <1>2, <1>3, <1>7, Local, QueueEmpty DEF Link, ConnectionOK, BootOK, StartOK, StopOK
<1>9. moved(r, d, s)
  <2>1. d.boot + (IF d.up THEN 0 ELSE 1) <= faults' + 1 /\ faults <= faults'
        /\ faults' \in 0 .. MaxFaults
    BY <1>2, <1>5, Local, BoundAssumption DEF Faulty
  <2>2. Len(d.inbox) <= MaxInbox
    BY <1>2, BoundAssumption, QueueEmpty
  <2>. QED BY <1>2, <1>3, <1>4, <1>5, <2>1, <2>2, Local DEF moved
<1>10. kept(r, d, s)
  <2>1. radio[r].boot <= d.boot
    BY <1>2, Local
  <2>2. hope(d, s) => hope(radio[r], session[r])
    BY <1>2, <1>3, <1>6 DEF hope
  <2>3. good(session[r]) <=> good(s)
    BY <1>3 DEF good
  <2>. QED BY <1>2, <1>3, <1>6, <1>7, <2>1, <2>2, <2>3, QueueEmpty DEF kept
<1>11. attempt(r) => attempting(d, s, r \in admitted', epoch)
  BY <1>2, <1>3, <1>5, <1>6, Local, QueueEmpty DEF attempting
<1>12. settles(r, d, s)
  BY <1>2, <1>5, <1>11 DEF settles
<1>. QED BY <1>8, <1>9, <1>10, <1>12, LocalStep

LEMMA RadioBootKeeps ==
  ASSUME IInv, NEW r \in Radios, RadioBoot(r)
  PROVE  IInv'
<1>. DEFINE s == session[r]
            d == [radio[r] EXCEPT !.up = TRUE, !.restarting = FALSE,
                                  !.boot = radio[r].boot + 1]
<1>1. ~radio[r].up /\ radio[r].boot \in Nat /\ radio[r].boot + 1 \in Boots
      /\ radio[r].boot + 1 <= faults + 1
  <2>1. ~radio[r].up
    BY DEF RadioBoot
  <2>. QED BY <2>1, Local, BoundAssumption DEF Faulty, Boots
<1>2. /\ d \in Radio /\ d.inbox = radio[r].inbox /\ d.owner = radio[r].owner
      /\ d.pending = radio[r].pending /\ d.up /\ d.boot = radio[r].boot + 1
      /\ d.mode = radio[r].mode
  BY <1>1, Local DEF Radio
<1>3. radio' = [radio EXCEPT ![r] = d] /\ session' = [session EXCEPT ![r] = s]
      /\ UNCHANGED <<worker, admitted, faults>>
  BY Local DEF RadioBoot
<1>. HIDE DEF d
<1>4. /\ d.inbox = <<>> /\ ~alive(d) /\ ~alive(radio[r]) /\ ~started(d) /\ d.mode = "idle"
      /\ d.owner = "none"
  BY <1>1, <1>2, Local DEF Link, ConnectionOK, alive, started
<1>5. s.status.boot \in Nat /\ s.status.boot <= radio[r].boot
  <2>1. s.status \in Statuses
    BY Local DEF Session
  <2>2. s.status.boot \in Nat
    BY <2>1, Local DEF Statuses, NoBoot
  <2>. QED BY <2>2, Local DEF Link, BootOK
<1>6. s.status.boot # d.boot /\ s.status.boot <= d.boot /\ radio[r].boot <= d.boot
  BY <1>1, <1>2, <1>5
<1>7. Link(d, s)
  BY <1>2, <1>4, <1>6, Local, QueueEmpty DEF Link, ConnectionOK, BootOK, StartOK, StopOK
<1>8. moved(r, d, s)
  <2>1. d.boot + (IF d.up THEN 0 ELSE 1) <= faults' + 1 /\ faults <= faults'
    BY <1>1, <1>2, <1>3, Local
  <2>2. Len(d.inbox) <= MaxInbox
    BY <1>2, Local
  <2>. QED BY <1>2, <1>3, <2>1, <2>2, Local DEF moved
<1>9. kept(r, d, s)
  BY <1>2, <1>4, <1>6 DEF kept, hope
<1>10. attempt(r) => attempting(d, s, r \in admitted', epoch)
  BY <1>2, <1>3, <1>4, Local DEF attempting
<1>11. settles(r, d, s)
  BY <1>3, <1>6, <1>10 DEF settles
<1>. QED BY <1>7, <1>8, <1>9, <1>11, LocalStep

LEMMA DisconnectKeeps ==
  ASSUME IInv, NEW r \in Radios, Disconnect(r)
  PROVE  IInv'
<1>1. PICK lost \in BOOLEAN :
        session' = [session EXCEPT ![r].evidence =
                      IF lost THEN "none" ELSE session[r].evidence]
  BY DEF Disconnect, replyMayBeLost
<1>. DEFINE e == IF lost THEN "none" ELSE session[r].evidence
            s == [session[r] EXCEPT !.evidence = e]
            d == dropOwner(radio[r])
<1>2. /\ d \in Radio /\ d.inbox = <<>> /\ d.owner = "none" /\ d.pending = radio[r].pending
      /\ d.up = radio[r].up /\ d.boot = radio[r].boot /\ d.fuse = radio[r].fuse
      /\ d.mode = radio[r].mode /\ d.ours = radio[r].ours /\ d.device = radio[r].device
  <2>1. "none" \in Owners /\ 0 \in 0 .. StaleTimeout
    BY TimeoutAssumption DEF Owners
  <2>. QED BY <2>1, Local, QueueEmpty DEF dropOwner, Radio
<1>3. /\ s \in Session /\ s.evidence = e /\ s.outbox = session[r].outbox
      /\ s.connected = session[r].connected /\ s.reconciled = session[r].reconciled
      /\ s.status = session[r].status /\ s.configured = session[r].configured
  BY Local DEF Session
<1>4. radio' = [radio EXCEPT ![r] = d] /\ session' = [session EXCEPT ![r] = s]
  BY <1>1, Local DEF Disconnect
<1>5. faults < MaxFaults /\ faults' = faults + 1 /\ UNCHANGED <<worker, admitted>>
  BY DEF Disconnect, fault
<1>6. e \in {"none", session[r].evidence}
  OBVIOUS
<1>. HIDE DEF d, s, e
<1>7. (alive(d) => alive(radio[r])) /\ (started(d) <=> started(radio[r]))
  BY <1>2 DEF alive, started
<1>8. Link(d, s)
  BY <1>2, <1>3, <1>7, Local, QueueEmpty DEF Link, ConnectionOK, BootOK, StartOK, StopOK
<1>9. moved(r, d, s)
  <2>1. d.boot + (IF d.up THEN 0 ELSE 1) <= faults' + 1 /\ faults <= faults'
        /\ faults' \in 0 .. MaxFaults
    BY <1>2, <1>5, Local, BoundAssumption DEF Faulty
  <2>2. Len(d.inbox) <= MaxInbox
    BY <1>2, BoundAssumption, QueueEmpty
  <2>. QED BY <1>2, <1>3, <1>4, <1>5, <2>1, <2>2, Local DEF moved
<1>10. kept(r, d, s)
  <2>1. radio[r].boot <= d.boot
    BY <1>2, Local
  <2>2. hope(d, s) => hope(radio[r], session[r])
    BY <1>2, <1>3, <1>6 DEF hope
  <2>3. good(session[r]) <=> good(s)
    BY <1>3 DEF good
  <2>. QED BY <1>2, <1>3, <1>6, <1>7, <2>1, <2>2, <2>3, QueueEmpty DEF kept
<1>11. attempt(r) => attempting(d, s, r \in admitted', epoch)
  BY <1>2, <1>3, <1>5, <1>6, Local, QueueEmpty DEF attempting
<1>12. settles(r, d, s)
  BY <1>2, <1>3, <1>5, <1>6, <1>11, Local DEF settles
<1>. QED BY <1>8, <1>9, <1>10, <1>12, LocalStep

\* A stall, and its end: a start that fell due meanwhile takes effect now, or not
\* at all.
LEMMA StallKeeps ==
  ASSUME IInv, NEW r \in Radios, Stall(r) \/ Recover(r)
  PROVE  IInv'
<1>. DEFINE s == session[r]
            held == [radio[r] EXCEPT !.stalled = TRUE]
            late == missed(radio[r])
            m == IF late THEN "idle"
                 ELSE IF radio[r].mode = "armed" /\ radio[r].fuse = 0 THEN "streaming"
                 ELSE radio[r].mode
            o == radio[r].ours /\ ~late
            freed == [radio[r] EXCEPT !.stalled = FALSE, !.overdue = 0, !.mode = m,
                                      !.ours = o]
            d == IF Stall(r) THEN held ELSE freed
<1>1. /\ held \in Radio /\ held.inbox = radio[r].inbox /\ held.owner = radio[r].owner
      /\ held.pending = radio[r].pending /\ held.mode = radio[r].mode
      /\ held.up = radio[r].up /\ held.boot = radio[r].boot /\ held.fuse = radio[r].fuse
      /\ held.ours = radio[r].ours /\ held.device = radio[r].device
  BY Local DEF Radio
<1>2. /\ freed \in Radio /\ freed.inbox = radio[r].inbox /\ freed.owner = radio[r].owner
      /\ freed.pending = radio[r].pending
      /\ freed.mode \in {"idle", "streaming", radio[r].mode}
      /\ freed.mode = "streaming" => radio[r].mode # "idle"
      /\ freed.mode = "armed" => radio[r].mode = "armed"
      /\ radio[r].mode = "idle" => freed.mode = "idle"
      /\ freed.up = radio[r].up /\ freed.boot = radio[r].boot /\ freed.fuse = radio[r].fuse
      /\ freed.ours => radio[r].ours
      /\ freed.device = radio[r].device
  <2>1. m \in {"idle", "armed", "streaming"} /\ late \in BOOLEAN /\ 0 \in 0 .. LateLimit
        /\ m \in {"idle", "streaming", radio[r].mode}
        /\ (m = "streaming" => radio[r].mode # "idle") /\ (m = "armed" => radio[r].mode = "armed")
        /\ (radio[r].mode = "idle" => m = "idle")
    BY Local, TimeoutAssumption DEF Radio, missed
  <2>2. o \in BOOLEAN /\ (o => radio[r].ours)
    BY Zenon
  <2>. HIDE DEF m, late, o
  <2>3. radio[r] \in Radio
    BY Local
  <2>4. /\ freed.inbox = radio[r].inbox /\ freed.owner = radio[r].owner
        /\ freed.pending = radio[r].pending /\ freed.mode = m /\ freed.ours = o
        /\ freed.up = radio[r].up /\ freed.boot = radio[r].boot
        /\ freed.fuse = radio[r].fuse /\ freed.device = radio[r].device
    BY <2>3 DEF Radio
  <2>5. freed \in Radio
    BY <2>1, <2>2, <2>3 DEF Radio
  <2>. HIDE DEF freed
  <2>. QED BY <2>1, <2>2, <2>4, <2>5
<1>3. /\ d \in Radio /\ d.inbox = radio[r].inbox /\ d.owner = radio[r].owner
      /\ d.pending = radio[r].pending
      /\ d.up = radio[r].up /\ d.boot = radio[r].boot /\ d.fuse = radio[r].fuse
      /\ d.device = radio[r].device /\ (d.ours => radio[r].ours)
      /\ radio[r].mode = "idle" => d.mode = "idle"
      /\ d.mode = "armed" => radio[r].mode = "armed"
  BY <1>1, <1>2
<1>11. radio' = [radio EXCEPT ![r] = d]
  BY Local DEF Stall, Recover
<1>. HIDE DEF d, held, freed, m, late, o
<1>4. /\ radio' = [radio EXCEPT ![r] = d] /\ session' = [session EXCEPT ![r] = s]
      /\ UNCHANGED <<worker, admitted>>
      /\ faults' \in 0 .. MaxFaults /\ faults <= faults'
  <2>1. faults' \in 0 .. MaxFaults /\ faults <= faults'
    BY Local, BoundAssumption DEF Stall, Recover, fault
  <2>. QED BY <1>11, <2>1, Local DEF Stall, Recover
<1>5. /\ alive(d) <=> alive(radio[r])
      /\ started(d) => started(radio[r])
  BY <1>3 DEF alive, started
<1>6. Link(d, s)
  BY <1>3, <1>5, Local DEF Link, ConnectionOK, BootOK, StartOK, StopOK
<1>7. moved(r, d, s)
  <2>1. d.boot + (IF d.up THEN 0 ELSE 1) <= faults' + 1
    BY <1>3, <1>4, Local, BoundAssumption DEF Faulty
  <2>. QED BY <1>3, <1>4, <2>1, Local DEF moved
<1>8. kept(r, d, s)
  BY <1>3, <1>5, Local DEF kept, hope
<1>9. attempt(r) => attempting(d, s, r \in admitted', epoch)
  BY <1>3, <1>4, <1>5, Local DEF attempting
<1>10. settles(r, d, s)
  BY <1>3, <1>4, <1>9, Local DEF settles
<1>. QED BY <1>6, <1>7, <1>8, <1>10, LocalStep

\* fail(): the transport gives its connection up.
LEMMA ClientFailKeeps ==
  ASSUME IInv, NEW r \in Radios, ClientFail(r) \/ ClientExpire(r)
  PROVE  IInv'
<1>. DEFINE s == closed(session[r], TRUE)  d == orphaned(radio[r])
<1>1. /\ d \in Radio /\ s \in Session /\ Link(d, s) /\ Len(s.outbox) = 0
      /\ s.outbox = <<>> /\ d.inbox = radio[r].inbox /\ ~alive(d) /\ d.owner # "current"
      /\ good(s) /\ (Faulty(radio[r]) => Faulty(d))
      /\ d.up = radio[r].up /\ d.boot = radio[r].boot /\ d.mode = radio[r].mode
      /\ d.fuse = radio[r].fuse /\ d.ours = radio[r].ours /\ d.device = radio[r].device
      /\ s.status = session[r].status /\ s.configured = session[r].configured
      /\ s.evidence = session[r].evidence
  BY Local, Closing
<1>2. radio' = [radio EXCEPT ![r] = d] /\ session' = [session EXCEPT ![r] = s]
  <2>1. fail(r, TRUE)
    BY DEF ClientFail, ClientExpire
  <2>. QED BY <2>1, Local DEF fail, orphanRadio, orphaned
<1>3. UNCHANGED <<worker, admitted, faults>>
  BY DEF ClientFail, ClientExpire
<1>. HIDE DEF d, s
<1>4. moved(r, d, s)
  <2>1. d.boot + (IF d.up THEN 0 ELSE 1) <= faults' + 1 /\ faults <= faults'
    BY <1>1, <1>3, Local DEF Faulty
  <2>2. Len(s.outbox) <= QueueLimit
    BY <1>1, BoundAssumption
  <2>. QED BY <1>1, <1>2, <1>3, <2>1, <2>2, Local DEF moved
<1>5. kept(r, d, s)
  <2>1. radio[r].boot <= d.boot
    BY <1>1, Local
  <2>2. hope(d, s) => hope(radio[r], session[r])
    BY <1>1, QueueEmpty DEF hope
  <2>. QED BY <1>1, <2>1, <2>2, QueueEmpty DEF kept
<1>6. attempt(r) => attempting(d, s, r \in admitted', epoch)
  BY <1>1, <1>3, Local, QueueEmpty DEF attempting
<1>7. settles(r, d, s)
  BY <1>1, <1>3, <1>6, Local DEF settles
<1>. QED BY <1>1, <1>4, <1>5, <1>7, LocalStep

\* A transport reconnects by itself only when the worker has no evidence.
LEMMA ClientConnectKeeps ==
  ASSUME IInv, NEW r \in Radios, ClientConnect(r)
  PROVE  IInv'
<1>. DEFINE s == [session[r] EXCEPT !.connected = TRUE]
            d == [radio[r] EXCEPT !.pending = "current"]
<1>1. /\ progressing(r) /\ ~session[r].connected /\ radio[r].up
      /\ session[r].evidence # "accepted"
      /\ UNCHANGED <<worker, admitted, faults>>
  BY DEF ClientConnect, connectDue
<1>2. /\ d \in Radio /\ d.inbox = radio[r].inbox /\ d.owner = radio[r].owner
      /\ d.pending = "current"
      /\ d.up = radio[r].up /\ d.boot = radio[r].boot /\ d.mode = radio[r].mode
      /\ d.fuse = radio[r].fuse /\ d.ours = radio[r].ours /\ d.device = radio[r].device
  BY Local DEF Radio
<1>3. /\ s \in Session /\ s.outbox = session[r].outbox /\ s.connected
      /\ s.reconciled = session[r].reconciled /\ s.evidence = session[r].evidence
      /\ s.status = session[r].status /\ s.configured = session[r].configured
  BY Local DEF Session
<1>4. radio' = [radio EXCEPT ![r] = d] /\ session' = [session EXCEPT ![r] = s]
  BY Local DEF ClientConnect
<1>. HIDE DEF d, s
<1>5. /\ ~alive(radio[r]) /\ radio[r].owner # "current" /\ ~session[r].reconciled
      /\ session[r].outbox = <<>>
  BY <1>1, Local DEF Link, ConnectionOK, alive
<1>6. started(d) <=> started(radio[r])
  BY <1>2 DEF started
<1>7. Link(d, s)
  BY <1>1, <1>2, <1>3, <1>5, <1>6, Local, QueueEmpty
     DEF Link, ConnectionOK, BootOK, StartOK, StopOK
<1>8. ~hope(d, s)
  BY <1>1, <1>2, <1>3, <1>5, QueueEmpty DEF hope
<1>9. moved(r, d, s)
  <2>1. d.boot + (IF d.up THEN 0 ELSE 1) <= faults' + 1 /\ faults <= faults'
    BY <1>1, <1>2, Local DEF Faulty
  <2>. QED BY <1>1, <1>2, <1>3, <1>4, <2>1, Local DEF moved
<1>10. kept(r, d, s)
  <2>1. radio[r].boot <= d.boot
    BY <1>2, Local
  <2>. QED BY <1>1, <1>2, <1>3, <1>8, <2>1 DEF kept
<1>11. attempt(r) => attempting(d, s, r \in admitted', epoch)
  BY <1>1, <1>2, <1>3, Local DEF attempting
<1>12. settles(r, d, s)
  BY <1>1, <1>2, <1>3, <1>11, Local DEF settles
<1>. QED BY <1>7, <1>9, <1>10, <1>12, LocalStep

LEMMA ClientTransmitKeeps ==
  ASSUME IInv, NEW r \in Radios, ClientTransmit(r)
  PROVE  IInv'
<1>. DEFINE q == session[r].outbox
            c == [Head(q) EXCEPT !.ttl = 0]
            s == [session[r] EXCEPT !.outbox = Tail(q)]
            d == [radio[r] EXCEPT !.inbox = Append(radio[r].inbox, c)]
<1>1. /\ q # <<>> /\ radio[r].owner = "current" /\ Len(radio[r].inbox) < MaxInbox
      /\ UNCHANGED <<worker, admitted, faults>>
  BY DEF ClientTransmit, transmitDue, queued
<1>2. /\ Head(q) \in Commands /\ q \in Seq(Commands) /\ Tail(q) \in Seq(Commands)
      /\ Len(Tail(q)) = Len(q) - 1 /\ Len(q) \in Nat /\ Len(q) <= QueueLimit
  BY <1>1, Local, QueueTail, QueueNonEmpty
<1>3. c \in Commands /\ c.op = Head(q).op /\ c.live = Head(q).live /\ c.left = Head(q).left
  <2>1. 0 \in 0 .. IoTimeout
    BY TimeoutAssumption
  <2>. QED BY <1>2, <2>1 DEF Commands
<1>4. /\ s \in Session /\ s.outbox = Tail(q) /\ s.connected = session[r].connected
      /\ s.reconciled = session[r].reconciled /\ s.evidence = session[r].evidence
      /\ s.status = session[r].status /\ s.configured = session[r].configured
  BY <1>2, Local DEF Session
<1>5. /\ d \in Radio /\ d.inbox = Append(radio[r].inbox, c) /\ d.owner = radio[r].owner
      /\ d.pending = radio[r].pending
      /\ d.up = radio[r].up /\ d.boot = radio[r].boot /\ d.mode = radio[r].mode
      /\ d.fuse = radio[r].fuse /\ d.ours = radio[r].ours /\ d.device = radio[r].device
  BY <1>3, Local, QueueAppend DEF Radio
<1>6. radio' = [radio EXCEPT ![r] = d] /\ session' = [session EXCEPT ![r] = s]
  BY Local DEF ClientTransmit
<1>. HIDE DEF d, s, c
<1>7. /\ c.op \in ops(q) /\ (c.live => c.op \in liveOps(q))
      /\ ops(s.outbox) \subseteq ops(q) /\ liveOps(s.outbox) \subseteq liveOps(q)
      /\ stopsFirst(q) => stopsFirst(s.outbox)
      /\ stopsFirst(q) /\ c.op = "start" => "stop" \notin ops(s.outbox)
      /\ \A left \in Int : lastLive(q, left) =>
              /\ lastLive(s.outbox, left)
              /\ c.live => s.outbox = <<>> /\ c.left = left
  BY <1>1, <1>2, <1>3, <1>4, QueueTail
<1>8. /\ ops(d.inbox) = ops(radio[r].inbox) \cup {c.op} /\ d.inbox # <<>>
      /\ c.live => liveOps(d.inbox) = liveOps(radio[r].inbox) \cup {c.op}
      /\ ~c.live => liveOps(d.inbox) = liveOps(radio[r].inbox)
      /\ stopsFirst(radio[r].inbox) /\ (c.op = "stop" => "start" \notin ops(radio[r].inbox))
           => stopsFirst(d.inbox)
      /\ \A left \in Int : liveOps(radio[r].inbox) = {} /\ (c.live => c.left = left)
           => lastLive(d.inbox, left)
      /\ Len(d.inbox) = Len(radio[r].inbox) + 1
  <2>. DEFINE p == radio[r].inbox  a == Append(p, c)
  <2>1. p \in Seq(Commands) /\ c \in Commands /\ d.inbox = a
    BY <1>3, <1>5, Local
  <2>2. /\ ops(a) = ops(p) \cup {c.op} /\ a # <<>>
        /\ c.live => liveOps(a) = liveOps(p) \cup {c.op}
        /\ ~c.live => liveOps(a) = liveOps(p)
        /\ stopsFirst(p) /\ (c.op = "stop" => "start" \notin ops(p)) => stopsFirst(a)
        /\ \A left \in Int : liveOps(p) = {} /\ (c.live => c.left = left) => lastLive(a, left)
        /\ Len(a) = Len(p) + 1
    BY <2>1, QueueAppend
  <2>. HIDE DEF a
  <2>. QED BY <2>1, <2>2
<1>9. alive(radio[r]) /\ alive(d) /\ session[r].connected /\ radio[r].up
  BY <1>1, <1>5, Local DEF alive, Link, ConnectionOK
<1>10. started(d) <=> started(radio[r])
  BY <1>5 DEF started
<1>11. Link(d, s)
  <2>1. ConnectionOK(d, s) /\ BootOK(d, s)
    BY <1>1, <1>4, <1>5, <1>9, Local DEF Link, ConnectionOK, BootOK
  <2>2. StartOK(d, s)
    BY <1>4, <1>5, <1>7, <1>8, <1>9, <1>10, Local DEF Link, StartOK
  <2>3. StopOK(d, s)
    BY <1>4, <1>5, <1>7, <1>8, <1>9, <1>10, Local DEF Link, StopOK
  <2>. QED BY <2>1, <2>2, <2>3 DEF Link
<1>12. moved(r, d, s)
  <2>1. d.boot + (IF d.up THEN 0 ELSE 1) <= faults' + 1 /\ faults <= faults'
    BY <1>1, <1>5, Local DEF Faulty
  <2>2. Len(d.inbox) <= MaxInbox /\ Len(s.outbox) <= QueueLimit
    BY <1>1, <1>2, <1>4, <1>8, Local, QueueNonEmpty, BoundAssumption
  <2>. QED BY <1>1, <1>4, <1>5, <1>6, <2>1, <2>2, Local DEF moved
<1>13. kept(r, d, s)
  <2>1. radio[r].boot <= d.boot
    BY <1>5, Local
  <2>2. liveOps(d.inbox) \cup liveOps(s.outbox) \subseteq liveOps(radio[r].inbox) \cup liveOps(q)
    BY <1>7, <1>8
  <2>3. hope(d, s) => hope(radio[r], session[r])
    BY <1>1, <1>4, <1>7, <1>8 DEF hope
  <2>4. good(session[r]) <=> good(s)
    BY <1>4 DEF good
  <2>. QED BY <1>4, <1>5, <1>9, <2>1, <2>2, <2>3, <2>4 DEF kept
<1>14. ASSUME attempt(r) PROVE attempting(d, s, r \in admitted', epoch)
  <2>1. attempting(radio[r], session[r], r \in admitted, epoch) /\ epoch \in Int
    BY <1>14, Local
  <2>2. r \notin admitted /\ liveOps(radio[r].inbox) = {} /\ lastLive(q, epoch)
    BY <1>1, <2>1 DEF attempting
  <2>3. lastLive(d.inbox, epoch) /\ lastLive(s.outbox, epoch)
    BY <1>7, <1>8, <2>1, <2>2
  <2>4. liveOps(d.inbox) # {} => s.outbox = <<>>
    BY <1>7, <1>8, <2>1, <2>2
  <2>. QED BY <1>1, <1>4, <2>1, <2>2, <2>3, <2>4 DEF attempting
<1>15. settles(r, d, s)
  BY <1>1, <1>4, <1>5, <1>14, Local DEF settles
<1>. QED BY <1>11, <1>12, <1>13, <1>15, LocalStep

-----------------------------------------------------------------------------
(* Steps of the worker.                                                    *)

silent == \A r \in Radios : quiet(radio[r], session[r])

LEMMA SilentBefore ==
  ASSUME IInv, pc \notin Exchanges \cup {"configure", "submit", "admit"}
  PROVE  silent
<1>. SUFFICES ASSUME NEW r \in Radios PROVE quiet(radio[r], session[r])
  BY DEF silent
<1>1. AwaitOK(r) /\ awaits(r) = {}
  BY DEF IInv, awaits
<1>2. session[r].evidence \in {"none", "accepted", "refused"}
  BY Local DEF Session
<1>. QED BY <1>1, <1>2 DEF AwaitOK, quiet

\* Where nothing is awaited and nothing can arrive, only these are left to show.
LEMMA SilentAfter ==
  ASSUME DataOK', ControlTypes', silent', VisitOK', PassOK', pc' \notin {"reconcile", "admit"},
         pc' = "submit" => at' = 1
  PROVE  IInv'
<1>1. ASSUME NEW r \in Radios PROVE AwaitOK(r)'
  BY DEF silent, quiet, AwaitOK
<1>2. ReconcileOK'
  BY DEF ReconcileOK
<1>3. AttemptOK'
  BY Constants DEF AttemptOK, attempt
<1>. QED BY <1>1, <1>2, <1>3 DEF IInv, Progressed

LEMMA DataAt ==
  ASSUME IInv, NEW d \in Radio, NEW s \in Session,
         radio' = [radio EXCEPT ![at] = d], session' = [session EXCEPT ![at] = s],
         Link(d, s), Faulty(d), fault \/ faults' = faults,
         Len(d.inbox) <= MaxInbox, Len(s.outbox) <= QueueLimit
  PROVE  /\ DataOK' /\ at \in Radios /\ radio'[at] = d /\ session'[at] = s
         /\ \A x \in Radios \ {at} : radio'[x] = radio[x] /\ session'[x] = session[x]
<1>1. /\ at \in Radios /\ radio \in [Radios -> Radio] /\ session \in [Radios -> Session]
  BY DEF IInv, DataOK, ControlTypes
<1>2. /\ radio' \in [Radios -> Radio] /\ session' \in [Radios -> Session]
      /\ radio'[at] = d /\ session'[at] = s
      /\ \A x \in Radios \ {at} : radio'[x] = radio[x] /\ session'[x] = session[x]
  BY <1>1
<1>3. ASSUME NEW e \in Radio, Faulty(e)
      PROVE  e.boot + (IF e.up THEN 0 ELSE 1) <= faults' + 1
  <2>1. e.boot \in Nat
    BY BoundAssumption DEF Radio, Boots
  <2>2. faults \in Nat
    BY BoundAssumption DEF IInv, ControlTypes
  <2>3. faults <= faults' /\ faults' \in Nat
    BY <2>2 DEF fault
  <2>. QED BY <1>3, <2>1, <2>2, <2>3 DEF Faulty
<1>4. ASSUME NEW x \in Radios
      PROVE  /\ Len(radio'[x].inbox) <= MaxInbox /\ Len(session'[x].outbox) <= QueueLimit
             /\ Faulty(radio[x])' /\ Link(radio'[x], session'[x])
  <2>1. CASE x = at
    BY <1>2, <1>3, <2>1 DEF Faulty
  <2>2. CASE x # at
    <3>1. radio[x] \in Radio /\ Faulty(radio[x])
      BY <1>1 DEF IInv, DataOK
    <3>2. Faulty(radio[x])'
      BY <1>2, <1>3, <2>2, <3>1 DEF Faulty
    <3>. QED BY <1>2, <2>2, <3>2 DEF IInv, DataOK
  <2>. QED BY <2>1, <2>2
<1>. QED BY <1>1, <1>2, <1>4 DEF DataOK

\* A wait ends: the handle is released, and with it what could still arrive.
LEMMA Releasing ==
  ASSUME IInv, pc \notin {"submit", "admit"},
         NEW d \in Radio, NEW s \in Session, Link(d, s), Faulty(d),
         radio' = [radio EXCEPT ![at] = silenced(d)],
         session' = [session EXCEPT ![at] = forget(s)], fault \/ faults' = faults,
         Len(d.inbox) <= MaxInbox, Len(s.outbox) <= QueueLimit
  PROVE  /\ DataOK' /\ silent' /\ at \in Radios
         /\ \A x \in Radios \ {at} : radio'[x] = radio[x] /\ session'[x] = session[x]
         /\ session'[at] = forget(s) /\ radio'[at] = silenced(d)
         /\ \A x \in {"connected", "reconciled", "status", "configured", "started"} :
              session'[at][x] = s[x]
         /\ good(session'[at]) <=> good(s)
<1>1. /\ DataOK' /\ at \in Radios /\ radio'[at] = silenced(d) /\ session'[at] = forget(s)
      /\ \A x \in Radios \ {at} : radio'[x] = radio[x] /\ session'[x] = session[x]
  BY DataAt, Forgotten
<1>2. ASSUME NEW x \in Radios \ {at} PROVE quiet(radio[x], session[x])
  <2>1. AwaitOK(x) /\ awaits(x) = {}
    BY <1>2 DEF IInv, awaits
  <2>2. session[x].evidence \in {"none", "accepted", "refused"}
    BY Local DEF Session
  <2>. QED BY <2>1, <2>2 DEF AwaitOK, quiet
<1>3. quiet(silenced(d), forget(s))
  BY Forgotten
<1>4. silent'
  <2>. SUFFICES ASSUME NEW x \in Radios PROVE quiet(radio'[x], session'[x])
    BY DEF silent
  <2>. QED BY <1>1, <1>2, <1>3
<1>. QED BY <1>1, <1>4, Forgotten DEF good

\* The end of the loop body for one session.
LEMMA NextSession ==
  ASSUME IInv, pc \in Reconciling \cup Visiting, NEW ok \in BOOLEAN, nextSession(ok),
         UNCHANGED <<backoff, coordinated, admitted>>, fault \/ faults' = faults,
         before' \in Statuses, after' \in Statuses, DataOK', silent',
         \A x \in Radios \ {at} : session'[x] = session[x],
         ready /\ ok => good(session'[at]) /\ session'[at].configured
  PROVE  IInv'
<1>1. /\ ready' = (ready /\ ok) /\ ready \in BOOLEAN /\ at \in Radios
      /\ \/ at < RadioCount /\ pc' = "check" /\ at' = at + 1 /\ budget' = 0
         \/ ~(at < RadioCount) /\ ready' /\ pc' = "submit" /\ at' = 1 /\ budget' = 0
         \/ ~(at < RadioCount) /\ pc' = "tail" /\ at' = 1 /\ budget' = tailTime
  BY DEF nextSession, endPass, IInv, ControlTypes
<1>2. ControlTypes'
  <2>1. at' \in Radios
    BY <1>1, Constants DEF Radios
  <2>2. budget' \in 0 .. Longest
    BY <1>1, WaitsBounded
  <2>3. faults' \in 0 .. MaxFaults
    BY BoundAssumption DEF fault, ControlTypes, IInv
  <2>. QED BY <1>1, <2>1, <2>2, <2>3 DEF ControlTypes, Phases, Blocking, Waits, IInv
<1>3. ready' => \A x \in Radios : x <= at => good(session'[x]) /\ session'[x].configured
  <2>. SUFFICES ASSUME ready', NEW x \in Radios, x <= at
                PROVE  good(session'[x]) /\ session'[x].configured
    OBVIOUS
  <2>1. CASE x = at
    BY <1>1, <2>1
  <2>2. CASE x # at
    <3>1. x < at
      BY <1>1, <2>2, Constants
    <3>. QED BY <1>1, <2>2, <3>1 DEF IInv, Progressed, PassOK
  <2>. QED BY <2>1, <2>2
<1>4. PassOK'
  <2>1. CASE pc' = "check"
    <3>1. \A x \in Radios : x < at' => x <= at
      BY <1>1, <2>1, Constants
    <3>. QED BY <1>3, <2>1, <3>1 DEF PassOK
  <2>2. CASE pc' = "submit"
    <3>1. \A x \in Radios : x <= at
      BY <1>1, <2>2, Constants DEF Radios
    <3>. QED BY <1>1, <1>3, <2>2, <3>1 DEF PassOK, Reconciling, Visiting
  <2>3. CASE pc' = "tail"
    BY <1>1, <2>3 DEF PassOK, Reconciling, Visiting
  <2>. QED BY <1>1, <2>1, <2>2, <2>3
<1>5. VisitOK'
  BY <1>1 DEF VisitOK, Visiting
<1>. QED BY <1>1, <1>2, <1>4, <1>5, SilentAfter

\* The worker goes on with the same session.
LEMMA SameSession ==
  ASSUME IInv, pc \in Reconciling \cup Visiting, at' = at,
         pc' \in {"visit", "alive", "before", "connect", "after"}, budget' \in 0 .. Longest,
         ready' \in BOOLEAN, ready' => ready,
         UNCHANGED <<backoff, coordinated, faults, admitted>>,
         before' \in Statuses, after' \in Statuses, DataOK', silent',
         \A x \in Radios \ {at} : session'[x] = session[x],
         pc' \in {"visit", "alive"} => session'[at].status.boot # NoBoot,
         pc' = "alive" => session'[at].configured,
         pc' = "visit" => good(session'[at]),
         pc' = "alive" /\ ready' => good(session'[at])
  PROVE  IInv'
<1>1. ControlTypes'
  BY DEF ControlTypes, Phases, Blocking, Waits, IInv
<1>2. VisitOK'
  BY DEF VisitOK, Visiting
<1>3. PassOK'
  <2>1. at \in Radios /\ \A x \in Radios : x < at => x \in Radios \ {at}
    BY Constants DEF IInv, ControlTypes
  <2>. QED BY <2>1 DEF PassOK, IInv, Progressed
<1>. QED BY <1>1, <1>2, <1>3, SilentAfter

\* The worker's own session and radio.
LEMMA Here ==
  ASSUME IInv
  PROVE  /\ at \in Radios /\ radio[at] \in Radio /\ session[at] \in Session
         /\ Link(radio[at], session[at]) /\ Faulty(radio[at])
         /\ Len(radio[at].inbox) <= MaxInbox /\ Len(session[at].outbox) <= QueueLimit
         /\ radio \in [Radios -> Radio] /\ session \in [Radios -> Session]
         /\ NoStatus \in Statuses /\ before \in Statuses /\ after \in Statuses
         /\ ready \in BOOLEAN /\ NoBoot \notin Boots /\ Boots \subseteq Nat
<1>1. at \in Radios
  BY DEF IInv, ControlTypes
<1>2. NoBoot \notin Boots /\ Boots \subseteq Nat
  BY BoundAssumption DEF NoBoot, Boots
<1>. QED BY <1>1, <1>2, Local DEF IInv, ControlTypes, NoStatus, Statuses, Owners

LEMMA CheckKeeps == ASSUME IInv, Check PROVE IInv'
<1>1. silent /\ pc \in Reconciling
  BY SilentBefore DEF Check, Exchanges, Reconciling
<1>2. DataOK' /\ silent' /\ UNCHANGED <<session, at, ready, before, after>>
  BY <1>1 DEF Check, goto, IInv, DataOK, Faulty, silent, quiet
<1>3. CASE session[at].reconciled
  <2>1. good(session[at]) /\ session[at].status.boot # NoBoot
    BY <1>3, Here DEF Link, BootOK, good
  <2>. QED BY <1>1, <1>2, <1>3, <2>1, Here, SameSession, WaitsBounded DEF Check, goto
<1>4. CASE ~session[at].reconciled
  BY <1>1, <1>2, <1>4, Here, SameSession, WaitsBounded DEF Check, goto
<1>. QED BY <1>3, <1>4

LEMMA ReadBeforeKeeps == ASSUME IInv, ReadBefore PROVE IInv'
<1>. DEFINE s == closed(session[at], FALSE)  d == orphaned(radio[at])
<1>1. /\ d \in Radio /\ s \in Session /\ Link(d, s) /\ Len(s.outbox) = 0
      /\ s.outbox = <<>> /\ d.inbox = radio[at].inbox
      /\ Faulty(d) /\ s.evidence = session[at].evidence
  BY Here, Closing
<1>2. radio' = [radio EXCEPT ![at] = d] /\ session' = [session EXCEPT ![at] = s]
  BY Here DEF ReadBefore, fail, orphanRadio, orphaned
<1>3. /\ pc = "before" /\ pc' = "connect" /\ at' = at /\ budget' = IoTimeout
      /\ UNCHANGED <<ready, backoff, after, coordinated, admitted, faults>>
  BY DEF ReadBefore, goto
<1>4. before' \in Statuses
  <2>1. /\ before' = [snapshot(at) EXCEPT !.owner = orphan(radio[at].owner)]
        /\ radio[at].boot \in Boots /\ orphan(radio[at].owner) \in Owners
    BY Here DEF ReadBefore, snapshot, Radio, Owners, orphan
  <2>. QED BY <2>1 DEF snapshot, Statuses
<1>. HIDE DEF d, s
<1>5. silent
  BY <1>3, SilentBefore DEF Exchanges
<1>6. /\ DataOK' /\ at \in Radios /\ radio'[at] = d /\ session'[at] = s
      /\ \A x \in Radios \ {at} : radio'[x] = radio[x] /\ session'[x] = session[x]
  <2>1. Len(s.outbox) <= QueueLimit /\ Len(d.inbox) <= MaxInbox /\ faults' = faults
    BY <1>1, <1>3, Here, BoundAssumption
  <2>. QED BY <1>1, <1>2, <2>1, DataAt
<1>7. quiet(d, s)
  BY <1>1, <1>5, <1>6, QueueEmpty DEF silent, quiet
<1>8. silent'
  <2>. SUFFICES ASSUME NEW x \in Radios PROVE quiet(radio'[x], session'[x])
    BY DEF silent
  <2>. QED BY <1>5, <1>6, <1>7 DEF silent
<1>. QED BY <1>3, <1>4, <1>6, <1>8, Here, SameSession, WaitsBounded DEF Reconciling

LEMMA AwaitConnectionKeeps == ASSUME IInv, AwaitConnection PROVE IInv'
<1>1. silent /\ pc \in Reconciling
  BY SilentBefore DEF AwaitConnection, Exchanges, Reconciling
<1>2. DataOK' /\ silent' /\ UNCHANGED <<session, at, ready, before, after>>
  BY <1>1 DEF AwaitConnection, goto, IInv, DataOK, Faulty, silent, quiet
<1>. QED BY <1>1, <1>2, Here, SameSession, WaitsBounded DEF AwaitConnection, goto

\* The worker submits a command on a session and waits for its evidence.
LEMMA Submitting ==
  ASSUME IInv, pc \in {"after", "visit", "alive"}, at' = at, budget' \in 0 .. Longest,
         pc' \in Exchanges \cup {"configure"},
         NEW op \in Ops, NEW left \in 0 .. Lead, pc' = "configure" => op = "configure",
         canSubmit(at), session' = submitted(at, command(op, left)),
         UNCHANGED <<radio, ready, backoff, before, coordinated, admitted, faults>>,
         op = "start" /\ alive(radio[at]) =>
           session[at].configured /\ session[at].status.boot = radio[at].boot,
         op = "stop" => ~session[at].configured,
         after' \in Statuses,
         pc = "after" => pc' = "reconcile",
         pc' \in {"stop", "configure", "restart"} => good(session[at]),
         pc' \in {"restart", "liveness"} => session[at].configured,
         pc' = "liveness" /\ ready => good(session[at]),
         pc' = "reconcile" => after' = snapshot(at)
  PROVE  IInv'
<1>. DEFINE c == command(op, left)  s == sending(session[at], c)
<1>1. c \in Commands /\ c.op = op /\ c.live
  BY TimeoutAssumption DEF command, Commands, Ops
<1>2. session[at].connected /\ Len(session[at].outbox) < QueueLimit
  BY DEF canSubmit
<1>3. /\ s \in Session /\ Link(radio[at], s) /\ Len(s.outbox) <= QueueLimit
      /\ s.outbox = Append(session[at].outbox, c)
      /\ s.connected = session[at].connected /\ s.reconciled = session[at].reconciled
      /\ s.status = session[at].status /\ s.configured = session[at].configured
      /\ s.evidence = session[at].evidence
  <2>. HIDE DEF c
  <2>1. /\ radio[at] \in Radio /\ session[at] \in Session /\ Link(radio[at], session[at])
        /\ c.op = "start" /\ alive(radio[at]) =>
             session[at].configured /\ session[at].status.boot = radio[at].boot
        /\ c.op = "stop" => ~session[at].configured
    BY <1>1, Here
  <2>. QED BY <1>1, <1>2, <2>1, Sending
<1>4. session' = [session EXCEPT ![at] = s] /\ radio' = [radio EXCEPT ![at] = radio[at]]
  BY Here DEF submitted, sending
<1>. HIDE DEF c, s
<1>5. /\ DataOK' /\ at \in Radios /\ radio'[at] = radio[at] /\ session'[at] = s
      /\ \A x \in Radios \ {at} : radio'[x] = radio[x] /\ session'[x] = session[x]
  BY <1>3, <1>4, Here, DataAt
<1>6. silent
  BY SilentBefore DEF Exchanges
<1>7. liveOps(s.outbox) = {op}
  <2>1. liveOps(session[at].outbox) = {}
    BY <1>5, <1>6 DEF silent, quiet
  <2>2. session[at].outbox \in Seq(Commands)
    BY Here DEF Session
  <2>. QED BY <1>1, <1>3, <2>1, <2>2, QueueAppend
<1>8. ASSUME NEW x \in Radios PROVE AwaitOK(x)'
  <2>1. CASE x # at
    BY <1>5, <1>6, <2>1 DEF silent, quiet, AwaitOK
  <2>2. CASE x = at
    <3>1. op \in awaits(at)'
      BY DEF awaits, Exchanges
    <3>2. liveOps(radio'[at].inbox) = {} /\ s.evidence = "none"
      BY <1>3, <1>5, <1>6 DEF silent, quiet
    <3>. QED BY <1>5, <1>7, <2>2, <3>1, <3>2 DEF AwaitOK
  <2>. QED BY <2>1, <2>2
<1>9. ControlTypes'
  BY DEF ControlTypes, Phases, Blocking, Waits, Exchanges, IInv
<1>10. good(s) <=> good(session[at])
  BY <1>3 DEF good
<1>11. VisitOK'
  <2>1. s.evidence = "none"
    BY <1>3, <1>5, <1>6 DEF silent, quiet
  <2>2. pc \in Visiting => session[at].status.boot # NoBoot
    BY DEF IInv, Progressed, VisitOK
  <2>. QED BY <1>3, <1>5, <1>10, <2>1, <2>2 DEF VisitOK, Visiting, Exchanges
<1>12. ReconcileOK'
  <2>1. radio[at].boot \in Boots /\ session[at].status.boot <= radio[at].boot
    BY Here DEF Link, BootOK, Radio
  <2>2. pc' = "reconcile" => after'.boot = radio[at].boot
    BY DEF snapshot
  <2>3. radio[at].boot <= radio[at].boot
    BY <2>1, Here
  <2>. QED BY <1>3, <1>5, <2>1, <2>2, <2>3, Here DEF ReconcileOK
<1>13. PassOK'
  <2>1. \A x \in Radios : x < at => x \in Radios \ {at}
    <3>1. at \in Nat /\ Radios \subseteq Nat
      BY Here, Constants
    <3>. QED BY <3>1
  <2>. QED BY <1>5, <2>1 DEF PassOK, Reconciling, Visiting, Exchanges, IInv, Progressed
<1>14. AttemptOK'
  BY DEF AttemptOK, attempt, Exchanges
<1>. QED BY <1>5, <1>8, <1>9, <1>11, <1>12, <1>13, <1>14 DEF IInv, Progressed

LEMMA ReleasedAt ==
  ASSUME IInv
  PROVE  /\ radioReleased({at}) = [radio EXCEPT ![at] = silenced(radio[at])]
         /\ sessionReleased({at}) = [session EXCEPT ![at] = forget(session[at])]
BY Here DEF radioReleased, sessionReleased, silenced

\* A wait ends without a change of the session.
LEMMA ReleasingOnly ==
  ASSUME IInv, pc \notin {"submit", "admit"}, fault \/ faults' = faults,
         radio' = radioReleased({at}), session' = sessionReleased({at})
  PROVE  /\ DataOK' /\ silent'
         /\ \A x \in Radios \ {at} : radio'[x] = radio[x] /\ session'[x] = session[x]
         /\ \A x \in {"connected", "reconciled", "status", "configured", "started"} :
              session'[at][x] = session[at][x]
         /\ good(session'[at]) <=> good(session[at])
BY Here, ReleasedAt, Releasing

LEMMA ReadAfterKeeps == ASSUME IInv, ReadAfter PROVE IInv'
<1>1. after' \in Statuses
  <2>1. radio[at].boot \in Boots /\ radio[at].owner \in Owners
    BY Here DEF Radio
  <2>. QED BY <2>1 DEF ReadAfter, snapshot, Statuses
<1>2. 0 \in 0 .. Lead
  BY TimeoutAssumption
<1>. QED BY <1>1, <1>2, Submitting, WaitsBounded DEF ReadAfter, goto, Exchanges, Ops

LEMMA ReconciledKeeps == ASSUME IInv, Reconciled PROVE IInv'
<1>. DEFINE o == session[at]
            st == [after EXCEPT !.owner = "none"]
            s == [o EXCEPT !.configured = o.configured /\ ~boot_changed,
                           !.started = o.started /\ ~boot_changed, !.status = st,
                           !.reconciled = o.connected, !.liveAge = 0]
<1>1. /\ pc = "reconcile" /\ o.evidence = "accepted"
      /\ radio' = radioReleased({at}) /\ before' = NoStatus /\ after' = NoStatus
      /\ at' = at /\ pc' = "visit" /\ budget' = 0
      /\ UNCHANGED <<ready, backoff, coordinated, admitted, faults>>
  BY DEF Reconciled, goto
<1>2. /\ after.boot # NoBoot /\ o.status.boot <= after.boot /\ after.boot <= radio[at].boot
      /\ alive(radio[at]) => after.boot = radio[at].boot
  BY <1>1 DEF IInv, Progressed, ReconcileOK, hope
<1>3. st \in Statuses /\ st.boot = after.boot
  BY Here DEF Statuses, Owners
<1>4. /\ s \in Session /\ s.outbox = o.outbox /\ s.connected = o.connected
      /\ s.reconciled = o.connected /\ s.status = st /\ s.evidence = o.evidence
      /\ s.configured = (o.configured /\ ~boot_changed)
  <2>1. 0 \in 0 .. LivenessInterval /\ boot_changed \in BOOLEAN
    BY TimeoutAssumption DEF boot_changed
  <2>. QED BY <1>3, <2>1, Here DEF Session
<1>5. session' = [session EXCEPT ![at] = forget(s)]
  BY Here, ZenonT(40) DEF Reconciled, forget, Session
<1>6. boot_changed <=> o.status.boot # NoBoot /\ o.status.boot # after.boot
  BY DEF boot_changed
<1>. HIDE DEF s, st
<1>7. Link(radio[at], s)
  <2>1. o.status.boot \in Int /\ after.boot \in Int /\ radio[at].boot \in Int
    BY Here DEF Session, Statuses, Radio, NoBoot
  <2>2. ConnectionOK(radio[at], s)
    BY <1>4, Here DEF Link, ConnectionOK
  <2>3. BootOK(radio[at], s)
    BY <1>2, <1>3, <1>4, <1>6, Here DEF Link, BootOK
  <2>4. StartOK(radio[at], s)
    <3>. SUFFICES ASSUME \/ started(radio[at]) \/ "start" \in ops(radio[at].inbox)
                         \/ alive(radio[at]) /\ "start" \in ops(s.outbox)
                  PROVE  radio[at].up /\ s.configured /\ s.status.boot = radio[at].boot
      BY DEF StartOK
    <3>1. radio[at].up /\ o.configured /\ o.status.boot = radio[at].boot
      BY <1>4, Here DEF Link, StartOK
    <3>2. after.boot = o.status.boot
      BY <1>2, <2>1, <3>1
    <3>. QED BY <1>3, <1>4, <1>6, <3>1, <3>2
  <2>5. StopOK(radio[at], s)
    BY <1>4, Here DEF Link, StopOK
  <2>. QED BY <2>2, <2>3, <2>4, <2>5 DEF Link
<1>8. good(s) /\ s.status.boot # NoBoot
  BY <1>2, <1>3, <1>4 DEF good
<1>9. /\ DataOK' /\ silent'
      /\ \A x \in Radios \ {at} : radio'[x] = radio[x] /\ session'[x] = session[x]
      /\ session'[at].status = s.status /\ good(session'[at])
  BY <1>1, <1>4, <1>5, <1>7, <1>8, Here, ReleasedAt, Releasing
<1>. QED BY <1>1, <1>8, <1>9, Here, SameSession, WaitsBounded DEF Reconciling

LEMMA ReconcileFailsKeeps == ASSUME IInv, ReconcileFails PROVE IInv'
<1>1. pc \in Reconciling /\ pc \notin {"submit", "admit"}
  BY DEF ReconcileFails, Reconciling
<1>2. reconcileFailed /\ faults' = faults
  BY DEF ReconcileFails
<1>. QED BY <1>1, <1>2, Here, ReleasingOnly, NextSession DEF reconcileFailed

LEMMA EarlyStatusKeeps == ASSUME IInv, EarlyStatus PROVE IInv'
<1>1. pc \in Reconciling /\ pc \notin {"submit", "admit"} /\ reconcileFailed /\ fault
  BY DEF EarlyStatus, Reconciling
<1>. QED BY <1>1, Here, ReleasingOnly, NextSession DEF reconcileFailed

LEMMA ConfigureKeeps == ASSUME IInv, Configure PROVE IInv'
<1>1. good(session[at])
  BY DEF IInv, Progressed, VisitOK, Configure
<1>2. 0 \in 0 .. Lead
  BY TimeoutAssumption
<1>. QED BY <1>1, <1>2, Here, Submitting, WaitsBounded DEF Configure, goto, Exchanges, Ops

LEMMA QuiescedKeeps == ASSUME IInv, Quiesced PROVE IInv'
<1>. DEFINE o == session[at]  s == [o EXCEPT !.status.streaming = FALSE]
<1>1. /\ pc = "stop" /\ o.evidence = "accepted"
      /\ radio' = radioReleased({at}) /\ at' = at /\ pc' = "visit" /\ budget' = 0
      /\ UNCHANGED <<ready, backoff, before, after, coordinated, admitted, faults>>
  BY DEF Quiesced, goto
<1>2. /\ s \in Session /\ s.outbox = o.outbox /\ s.connected = o.connected
      /\ s.reconciled = o.reconciled /\ s.status.boot = o.status.boot
      /\ s.evidence = o.evidence /\ s.configured = o.configured
  BY Here DEF Session, Statuses
<1>3. session' = [session EXCEPT ![at] = forget(s)]
  BY Here DEF Quiesced, forget, Session, Statuses
<1>4. good(o) /\ o.status.boot # NoBoot
  BY <1>1 DEF IInv, Progressed, VisitOK, Visiting, hope
<1>. HIDE DEF s
<1>5. Link(radio[at], s) /\ good(s)
  BY <1>2, <1>4, Here DEF Link, ConnectionOK, BootOK, StartOK, StopOK, good
<1>6. /\ DataOK' /\ silent'
      /\ \A x \in Radios \ {at} : radio'[x] = radio[x] /\ session'[x] = session[x]
      /\ session'[at].status = s.status /\ good(session'[at])
  BY <1>1, <1>2, <1>3, <1>5, Here, ReleasedAt, Releasing
<1>. QED BY <1>1, <1>2, <1>4, <1>6, Here, SameSession, WaitsBounded DEF Visiting

LEMMA ConfiguredKeeps == ASSUME IInv, Configured PROVE IInv'
<1>. DEFINE o == session[at]  s == [o EXCEPT !.configured = TRUE]
<1>1. /\ pc = "configure" /\ o.evidence = "accepted"
      /\ radio' = radioReleased({at}) /\ at' = at /\ pc' = "visit" /\ budget' = 0
      /\ UNCHANGED <<ready, backoff, before, after, coordinated, admitted, faults>>
  BY DEF Configured, goto
<1>2. /\ s \in Session /\ s.outbox = o.outbox /\ s.connected = o.connected
      /\ s.reconciled = o.reconciled /\ s.status = o.status
      /\ s.evidence = o.evidence /\ s.configured
  BY Here DEF Session
<1>3. session' = [session EXCEPT ![at] = forget(s)]
  BY Here DEF Configured, forget, Session
<1>4. good(o) /\ o.status.boot # NoBoot
      /\ (o.status.boot = radio[at].boot /\ radio[at].up => radio[at].device)
  BY <1>1 DEF IInv, Progressed, VisitOK, Visiting, hope
<1>. HIDE DEF s
<1>5. Link(radio[at], s) /\ good(s)
  BY <1>2, <1>4, Here DEF Link, ConnectionOK, BootOK, StartOK, StopOK, good
<1>6. /\ DataOK' /\ silent'
      /\ \A x \in Radios \ {at} : radio'[x] = radio[x] /\ session'[x] = session[x]
      /\ session'[at].status = s.status /\ good(session'[at])
  BY <1>1, <1>2, <1>3, <1>5, Here, ReleasedAt, Releasing
<1>. QED BY <1>1, <1>2, <1>4, <1>6, Here, SameSession, WaitsBounded DEF Visiting

LEMMA ConfigureFailsKeeps == ASSUME IInv, ConfigureFails PROVE IInv'
<1>1. pc \in Visiting /\ pc \notin {"submit", "admit"}
  BY DEF ConfigureFails, Visiting
<1>. QED BY <1>1, Here, ReleasingOnly, NextSession DEF ConfigureFails

LEMMA RestartKeeps == ASSUME IInv, Restart PROVE IInv'
<1>1. good(session[at]) /\ session[at].configured /\ canSubmit(at)
  BY DEF IInv, Progressed, VisitOK, Restart, restartNeeded
<1>2. alive(radio[at]) => session[at].status.boot = radio[at].boot
  BY <1>1, Here DEF Link, BootOK, good, canSubmit
<1>3. Lead \in 0 .. Lead
  BY TimeoutAssumption
<1>. QED BY <1>1, <1>2, <1>3, Here, Submitting, WaitsBounded
        DEF Restart, restartNeeded, goto, Exchanges, Ops

LEMMA RestartedKeeps == ASSUME IInv, Restarted PROVE IInv'
<1>. DEFINE o == session[at]  s == [o EXCEPT !.started = TRUE]
<1>1. /\ pc = "restart" /\ o.evidence = "accepted"
      /\ radio' = radioReleased({at}) /\ at' = at /\ pc' = "alive" /\ budget' = 0
      /\ UNCHANGED <<ready, backoff, before, after, coordinated, admitted, faults>>
  BY DEF Restarted, goto
<1>2. /\ s \in Session /\ s.outbox = o.outbox /\ s.connected = o.connected
      /\ s.reconciled = o.reconciled /\ s.status = o.status
      /\ s.evidence = o.evidence /\ s.configured = o.configured
  BY Here DEF Session
<1>3. session' = [session EXCEPT ![at] = forget(s)]
  BY Here DEF Restarted, forget, Session
<1>4. good(o) /\ o.status.boot # NoBoot /\ o.configured
  BY <1>1 DEF IInv, Progressed, VisitOK, Visiting, hope
<1>. HIDE DEF s
<1>5. Link(radio[at], s) /\ good(s)
  BY <1>2, <1>4, Here DEF Link, ConnectionOK, BootOK, StartOK, StopOK, good
<1>6. /\ DataOK' /\ silent'
      /\ \A x \in Radios \ {at} : radio'[x] = radio[x] /\ session'[x] = session[x]
      /\ session'[at].status = s.status /\ good(session'[at])
      /\ session'[at].configured = s.configured
  BY <1>1, <1>2, <1>3, <1>5, Here, ReleasedAt, Releasing
<1>. QED BY <1>1, <1>2, <1>4, <1>6, Here, SameSession, WaitsBounded DEF Visiting

LEMMA RestartFailsKeeps == ASSUME IInv, RestartFails PROVE IInv'
<1>1. /\ pc \in {"visit", "restart"} /\ session[at].configured
      /\ session[at].status.boot # NoBoot
  BY DEF RestartFails, restartNeeded, IInv, Progressed, VisitOK, Visiting
<1>2. /\ pc' = "alive" /\ at' = at /\ budget' = 0 /\ ready' = FALSE
      /\ radio' = radioReleased({at}) /\ session' = sessionReleased({at})
      /\ UNCHANGED <<backoff, before, after, coordinated, admitted, faults>>
  BY DEF RestartFails, goto
<1>3. /\ DataOK' /\ silent' /\ \A x \in Radios \ {at} : session'[x] = session[x]
      /\ session'[at].status = session[at].status
      /\ session'[at].configured = session[at].configured
  BY <1>1, <1>2, ReleasingOnly
<1>. QED BY <1>1, <1>2, <1>3, Here, SameSession, WaitsBounded DEF Visiting

LEMMA LivenessKeeps == ASSUME IInv, Liveness PROVE IInv'
<1>1. /\ pc \in {"visit", "alive"} /\ session[at].configured
      /\ ready => good(session[at])
  BY DEF IInv, Progressed, VisitOK, Liveness, keepAlive
<1>2. 0 \in 0 .. Lead
  BY TimeoutAssumption
<1>. QED BY <1>1, <1>2, Here, Submitting, WaitsBounded DEF Liveness, goto, Exchanges, Ops

LEMMA AliveKeeps == ASSUME IInv, Alive PROVE IInv'
<1>. DEFINE o == session[at]  s == [o EXCEPT !.liveAge = 0]
<1>1. /\ pc = "liveness" /\ o.evidence = "accepted"
      /\ radio' = radioReleased({at}) /\ nextSession(TRUE)
      /\ UNCHANGED <<backoff, before, after, coordinated, admitted, faults>>
  BY DEF Alive
<1>2. /\ s \in Session /\ s.outbox = o.outbox /\ s.connected = o.connected
      /\ s.reconciled = o.reconciled /\ s.status = o.status
      /\ s.evidence = o.evidence /\ s.configured = o.configured
  <2>1. 0 \in 0 .. LivenessInterval
    BY TimeoutAssumption
  <2>. QED BY <2>1, Here DEF Session
<1>3. session' = [session EXCEPT ![at] = forget(s)]
  BY Here DEF Alive, forget, Session
<1>4. (ready => good(o)) /\ o.configured
  BY <1>1 DEF IInv, Progressed, VisitOK, Visiting, hope
<1>. HIDE DEF s
<1>5. Link(radio[at], s) /\ (good(s) <=> good(o))
  BY <1>2, Here DEF Link, ConnectionOK, BootOK, StartOK, StopOK, good
<1>6. /\ DataOK' /\ silent' /\ \A x \in Radios \ {at} : session'[x] = session[x]
      /\ (good(session'[at]) <=> good(o)) /\ session'[at].configured = o.configured
  BY <1>1, <1>2, <1>3, <1>5, Here, ReleasedAt, Releasing
<1>. QED BY <1>1, <1>4, <1>6, Here, NextSession DEF Visiting

LEMMA LivenessFailsKeeps == ASSUME IInv, LivenessFails PROVE IInv'
<1>. DEFINE o == session[at]  s == closed(o, TRUE)  d == orphaned(radio[at])
<1>1. /\ pc \in Visiting /\ pc \notin {"submit", "admit"} /\ nextSession(FALSE)
      /\ UNCHANGED <<backoff, before, after, coordinated, admitted, faults>>
  BY DEF LivenessFails, keepAlive, Visiting
<1>2. /\ d \in Radio /\ s \in Session /\ Link(d, s) /\ Faulty(d)
      /\ Len(s.outbox) = 0 /\ d.inbox = radio[at].inbox
  BY Here, Closing
<1>3. radio' = [radio EXCEPT ![at] = silenced(d)]
  <2>1. orphanRadio(at) = [radio EXCEPT ![at] = d]
    BY Here DEF orphanRadio, orphaned
  <2>. QED BY <2>1, Here DEF LivenessFails, silenced
<1>4. session' = [session EXCEPT ![at] = forget(s)]
  <2>1. released(<<>>) = <<>>
    BY QueueEmpty, QueueReleased
  <2>2. closed(forget(o), TRUE) = forget(s)
    BY <2>1, Here DEF closed, forget, Session
  <2>. QED BY <2>2 DEF LivenessFails
<1>. HIDE DEF d, s
<1>5. Len(s.outbox) <= QueueLimit /\ Len(d.inbox) <= MaxInbox
  BY <1>2, Here, BoundAssumption
<1>6. DataOK' /\ silent' /\ \A x \in Radios \ {at} : session'[x] = session[x]
  BY <1>1, <1>2, <1>3, <1>4, <1>5, Releasing
<1>. QED BY <1>1, <1>6, Here, NextSession

LEMMA NotDueKeeps == ASSUME IInv, NotDue PROVE IInv'
<1>1. /\ pc \in {"visit", "alive"} /\ session[at].configured
      /\ ready => good(session[at])
  BY DEF IInv, Progressed, VisitOK, NotDue, keepAlive
<1>2. silent
  BY <1>1, SilentBefore DEF Exchanges
<1>3. DataOK' /\ silent' /\ UNCHANGED session
  BY <1>2 DEF NotDue, IInv, DataOK, Faulty, silent, quiet
<1>. QED BY <1>1, <1>3, Here, NextSession DEF NotDue, Visiting

LEMMA SubmitStartKeeps == ASSUME IInv, SubmitStart PROVE IInv'
<1>. DEFINE c == command("start", Lead)  s == sending(session[at], c)
<1>1. /\ pc = "submit" /\ session[at].connected /\ Len(session[at].outbox) < QueueLimit
      /\ admitted' = IF at = 1 THEN {} ELSE admitted
      /\ IF at < RadioCount
           THEN pc' = "submit" /\ at' = at + 1 /\ budget' = 0
           ELSE pc' = "admit" /\ at' = 1 /\ budget' = Lead - 1
      /\ UNCHANGED <<radio, ready, backoff, before, after, coordinated, faults>>
  BY DEF SubmitStart, canSubmit
<1>2. c \in Commands /\ c.op = "start" /\ c.live /\ c.left = Lead
  BY TimeoutAssumption DEF command, Commands
<1>3. \A r \in Radios : good(session[r]) /\ session[r].configured
  BY <1>1 DEF IInv, Progressed, PassOK
<1>4. alive(radio[at]) => session[at].configured /\ session[at].status.boot = radio[at].boot
  BY <1>1, <1>3, Here DEF Link, BootOK, good
<1>. HIDE DEF c
<1>5. /\ s \in Session /\ Link(radio[at], s) /\ Len(s.outbox) <= QueueLimit
      /\ s.outbox = Append(session[at].outbox, c)
      /\ s.connected = session[at].connected /\ s.reconciled = session[at].reconciled
      /\ s.configured = session[at].configured /\ s.evidence = session[at].evidence
  <2>1. /\ radio[at] \in Radio /\ session[at] \in Session /\ Link(radio[at], session[at])
        /\ c.op = "start" /\ alive(radio[at]) =>
             session[at].configured /\ session[at].status.boot = radio[at].boot
        /\ c.op = "stop" => ~session[at].configured
    BY <1>2, <1>4, Here
  <2>. QED BY <1>1, <1>2, <2>1, Sending
<1>6. session' = [session EXCEPT ![at] = s] /\ radio' = [radio EXCEPT ![at] = radio[at]]
  BY <1>1, Here DEF SubmitStart, submitted, sending, c
<1>. HIDE DEF s
<1>7. /\ DataOK' /\ at \in Radios /\ radio'[at] = radio[at] /\ session'[at] = s
      /\ \A x \in Radios \ {at} : radio'[x] = radio[x] /\ session'[x] = session[x]
  BY <1>1, <1>5, <1>6, Here, DataAt
<1>8. at \in Nat /\ Radios \subseteq Nat /\ at <= RadioCount
  BY <1>7, Constants DEF Radios
<1>9. /\ liveOps(radio[at].inbox) = {} /\ liveOps(session[at].outbox) = {}
      /\ session[at].evidence = "none"
  <2>1. AwaitOK(at) /\ awaits(at) = {}
    BY <1>1, <1>7, <1>8 DEF IInv, awaits, Exchanges
  <2>2. session[at].evidence \in {"none", "accepted", "refused"}
    BY Here DEF Session
  <2>. QED BY <2>1, <2>2 DEF AwaitOK
<1>10. liveOps(s.outbox) = {"start"} /\ lastLive(s.outbox, Lead)
  <2>1. session[at].outbox \in Seq(Commands) /\ Lead \in Int
    BY Here, TimeoutAssumption DEF Session
  <2>. QED BY <1>2, <1>5, <1>9, <2>1, QueueAppend
<1>11. ControlTypes'
  <2>1. at' \in Radios /\ budget' \in 0 .. Longest
    BY <1>1, <1>8, Constants, WaitsBounded DEF Radios
  <2>2. admitted' \subseteq Radios
    BY <1>1 DEF IInv, ControlTypes
  <2>. QED BY <1>1, <2>1, <2>2 DEF ControlTypes, Phases, Blocking, Waits, IInv
<1>12. ASSUME NEW r \in Radios PROVE AwaitOK(r)'
  <2>1. awaits(r)' = IF r <= at THEN {"start"} ELSE {}
    BY <1>1, <1>8, Constants DEF awaits, Exchanges, Radios
  <2>2. AwaitOK(r) /\ awaits(r) = IF r < at THEN {"start"} ELSE {}
    BY <1>1, <1>8 DEF IInv, awaits, Exchanges
  <2>3. CASE r = at
    <3>1. awaits(r)' = {"start"}
      BY <1>8, <2>1, <2>3
    <3>2. /\ liveOps(radio'[r].inbox) = {} /\ liveOps(session'[r].outbox) = {"start"}
          /\ session'[r].evidence = "none"
      BY <1>5, <1>7, <1>9, <1>10, <2>3
    <3>. QED BY <3>1, <3>2 DEF AwaitOK
  <2>4. CASE r # at
    BY <1>7, <1>8, <2>1, <2>2, <2>4 DEF AwaitOK
  <2>. QED BY <2>3, <2>4
<1>13. VisitOK' /\ ReconcileOK'
  BY <1>1 DEF VisitOK, ReconcileOK, Visiting
<1>14. PassOK'
  <2>1. ASSUME NEW r \in Radios PROVE good(session'[r]) /\ session'[r].configured
    BY <1>3, <1>5, <1>7 DEF good
  <2>. QED BY <1>1, <2>1 DEF PassOK, Reconciling, Visiting
<1>15. AttemptOK'
  <2>1. epoch = Lead /\ epoch' = Lead /\ Lead \in Nat
    BY <1>1, TimeoutAssumption DEF epoch
  <2>2. \A r \in Radios : (attempt(r)' <=> r <= at) /\ (attempt(r) <=> r < at)
    BY <1>1, <1>8, Constants DEF attempt, Radios
  <2>3. \A r \in admitted' : r < at
    BY <1>1 DEF IInv, Progressed, AttemptOK
  <2>4. ASSUME NEW r \in Radios, r <= at
        PROVE  attempting(radio'[r], session'[r], r \in admitted', Lead)
    <3>1. CASE r = at
      <4>1. r \notin admitted'
        BY <1>8, <2>3, <3>1
      <4>2. lastLive(radio[at].inbox, Lead)
        BY <1>9 DEF lastLive, liveOps
      <4>. QED BY <1>5, <1>7, <1>9, <1>10, <3>1, <4>1, <4>2 DEF attempting
    <3>2. CASE r # at
      <4>1. r < at /\ at # 1 /\ admitted' = admitted
        BY <1>1, <1>8, <2>4, <3>2, Constants
      <4>. QED BY <1>7, <2>1, <2>2, <3>2, <4>1 DEF IInv, Progressed, AttemptOK
    <3>. QED BY <3>1, <3>2
  <2>5. pc' = "admit" => budget' < Lead /\ \A r \in Radios : ~(r < at')
    BY <1>1, <2>1, Constants
  <2>6. pc' = "submit" => \A r \in admitted' : r < at'
    <3>1. admitted' \subseteq Radios
      BY <1>11 DEF ControlTypes
    <3>. QED BY <1>1, <1>8, <2>3, <3>1
  <2>. QED BY <2>1, <2>2, <2>4, <2>5, <2>6 DEF AttemptOK
<1>. QED BY <1>7, <1>11, <1>12, <1>13, <1>14, <1>15 DEF IInv, Progressed

\* The pass is over, and nothing is awaited any more.
LEMMA EndOfPass ==
  ASSUME IInv, DataOK', silent', endPass, ready' \in BOOLEAN, coordinated' \in BOOLEAN,
         admitted' \subseteq Radios, UNCHANGED <<backoff, before, after, faults>>
  PROVE  IInv'
<1>1. pc' = "tail" /\ at' = 1 /\ budget' = tailTime
  BY DEF endPass
<1>2. ControlTypes'
  BY <1>1, WaitsBounded, Constants DEF ControlTypes, Phases, Blocking, IInv
<1>3. VisitOK' /\ PassOK'
  BY <1>1 DEF VisitOK, PassOK, Visiting, Reconciling
<1>. QED BY <1>1, <1>2, <1>3, SilentAfter

\* coordinate_start() gives up: every handle is released.
LEMMA ReleasingAll ==
  ASSUME IInv, NEW f, \A r \in Radios : f[r] \in Session /\ Link(radio[r], f[r])
                                        /\ Len(f[r].outbox) <= QueueLimit,
         radio' = radioReleased(Radios), session' = [r \in Radios |-> forget(f[r])],
         faults' = faults
  PROVE  DataOK' /\ silent'
<1>1. ASSUME NEW r \in Radios
      PROVE  /\ radio'[r] \in Radio /\ session'[r] \in Session
             /\ Link(radio'[r], session'[r]) /\ Faulty(radio'[r])
             /\ Len(radio'[r].inbox) <= MaxInbox /\ Len(session'[r].outbox) <= QueueLimit
             /\ quiet(radio'[r], session'[r])
  <2>1. radio'[r] = silenced(radio[r]) /\ session'[r] = forget(f[r])
    BY DEF radioReleased, silenced
  <2>2. /\ radio[r] \in Radio /\ Faulty(radio[r]) /\ Len(radio[r].inbox) <= MaxInbox
    BY Local
  <2>. QED BY <2>1, <2>2, Forgotten
<1>2. radio' \in [Radios -> Radio] /\ session' \in [Radios -> Session]
  <2>1. radio' = [r \in Radios |-> radio'[r]] /\ session' = [r \in Radios |-> session'[r]]
    BY DEF radioReleased
  <2>. QED BY <1>1, <2>1
<1>. QED BY <1>1, <1>2 DEF DataOK, silent, Faulty

LEMMA SubmitStartFailsKeeps == ASSUME IInv, SubmitStartFails PROVE IInv'
<1>1. /\ ready' = FALSE /\ endPass /\ admitted' = {} /\ coordinated \in BOOLEAN
      /\ radio' = radioReleased(Radios) /\ session' = sessionReleased(Radios)
      /\ UNCHANGED <<backoff, before, after, coordinated, faults>>
  BY DEF SubmitStartFails, IInv, ControlTypes
<1>2. session' = [r \in Radios |-> forget(session[r])]
  BY <1>1 DEF sessionReleased
<1>3. DataOK' /\ silent'
  BY <1>1, <1>2, Local, ReleasingAll
<1>. QED BY <1>1, <1>3, EndOfPass

LEMMA AdmissionFailsKeeps == ASSUME IInv, AdmissionFails PROVE IInv'
<1>1. PICK S \in SUBSET cancelTargets :
        session' = [r \in Radios |-> forget(
          IF r \in S THEN submitted(r, command("cancel", 0))[r] ELSE session[r])]
  BY DEF AdmissionFails
<1>2. /\ ready' = FALSE /\ endPass /\ admitted' = {} /\ coordinated \in BOOLEAN
      /\ radio' = radioReleased(Radios)
      /\ UNCHANGED <<backoff, before, after, coordinated, faults>>
  BY DEF AdmissionFails, IInv, ControlTypes
<1>. DEFINE c == command("cancel", 0)
            f == [r \in Radios |-> IF r \in S THEN sending(session[r], c) ELSE session[r]]
<1>3. c \in Commands /\ c.op = "cancel"
  BY TimeoutAssumption DEF command, Commands
<1>. HIDE DEF c
<1>4. ASSUME NEW r \in Radios
      PROVE  /\ f[r] \in Session /\ Link(radio[r], f[r]) /\ Len(f[r].outbox) <= QueueLimit
  <2>1. CASE r \in S
    <3>1. session[r].connected /\ Len(session[r].outbox) < QueueLimit
      BY <2>1 DEF cancelTargets, canSubmit
    <3>2. f[r] = sending(session[r], c)
      BY <2>1
    <3>. QED BY <1>3, <3>1, <3>2, Local, Sending
  <2>2. CASE r \notin S
    BY <2>2, Local
  <2>. QED BY <2>1, <2>2
<1>5. session' = [r \in Radios |-> forget(f[r])]
  <2>1. \A r \in Radios : submitted(r, c)[r] = sending(session[r], c)
    BY Local DEF submitted, sending
  <2>2. \A r \in Radios :
          (IF r \in S THEN submitted(r, c)[r] ELSE session[r]) = f[r]
    BY <2>1
  <2>. QED BY <1>1, <2>2 DEF c
<1>. HIDE DEF f
<1>6. DataOK' /\ silent'
  BY <1>2, <1>4, <1>5, ReleasingAll
<1>. QED BY <1>2, <1>6, EndOfPass

\* What the worker awaits of a session whose admission it has seen.
LEMMA AdmissionSeen ==
  ASSUME IInv, pc = "admit", NEW r \in Radios, r < at
  PROVE  quiet(radio[r], session[r])
<1>1. AwaitOK(r) /\ awaits(r) = {}
  <2>1. ~(r >= at)
    <3>1. r \in Nat /\ at \in Nat
      BY Constants, Here
    <3>. QED BY <3>1
  <2>. QED BY <2>1 DEF IInv, awaits, Exchanges
<1>2. session[r].evidence \in {"none", "accepted", "refused"}
  BY Local DEF Session
<1>. QED BY <1>1, <1>2 DEF AwaitOK, quiet

LEMMA AdmittedKeeps == ASSUME IInv, Admitted PROVE IInv'
<1>1. /\ pc = "admit" /\ session[at].evidence = "accepted" /\ at < RadioCount
      /\ radio' = radioReleased({at}) /\ session' = sessionReleased({at})
      /\ at' = at + 1
      /\ UNCHANGED <<pc, budget, ready, backoff, before, after, coordinated, admitted, faults>>
  BY DEF Admitted
<1>2. /\ DataOK' /\ radio'[at] = silenced(radio[at]) /\ session'[at] = forget(session[at])
      /\ quiet(radio'[at], session'[at])
      /\ \A x \in Radios \ {at} : radio'[x] = radio[x] /\ session'[x] = session[x]
  <2>. DEFINE d == silenced(radio[at])  s == forget(session[at])
  <2>1. /\ d \in Radio /\ s \in Session /\ Link(d, s) /\ quiet(d, s) /\ Faulty(d)
        /\ Len(d.inbox) <= MaxInbox /\ Len(s.outbox) <= QueueLimit
    BY Here, Forgotten
  <2>2. radio' = [radio EXCEPT ![at] = d] /\ session' = [session EXCEPT ![at] = s]
    BY <1>1, ReleasedAt
  <2>. HIDE DEF d, s
  <2>3. /\ DataOK' /\ radio'[at] = d /\ session'[at] = s
        /\ \A x \in Radios \ {at} : radio'[x] = radio[x] /\ session'[x] = session[x]
    BY <1>1, <2>1, <2>2, DataAt
  <2>. QED BY <2>1, <2>3 DEF d, s
<1>3. at \in Nat /\ Radios \subseteq Nat /\ at + 1 \in Radios
  BY <1>1, Here, Constants DEF Radios
<1>4. ControlTypes'
  BY <1>1, <1>3 DEF IInv, ControlTypes
<1>5. ASSUME NEW r \in Radios PROVE AwaitOK(r)'
  <2>1. CASE r = at
    BY <1>2, <2>1 DEF AwaitOK, quiet
  <2>2. CASE r # at
    <3>1. awaits(r)' = awaits(r)
      BY <1>1, <1>3, <2>2 DEF awaits, Exchanges
    <3>2. AwaitOK(r)
      BY DEF IInv
    <3>. QED BY <1>2, <2>2, <3>1, <3>2 DEF AwaitOK
  <2>. QED BY <2>1, <2>2
<1>6. VisitOK' /\ ReconcileOK' /\ PassOK'
  BY <1>1 DEF VisitOK, ReconcileOK, PassOK, Visiting, Reconciling
<1>7. AttemptOK'
  <2>1. AttemptOK /\ \A r \in Radios : attempt(r) /\ attempt(r)'
    BY <1>1 DEF IInv, Progressed, attempt
  <2>2. epoch' = epoch /\ epoch \in Int
    BY <1>1, Local, Here DEF epoch
  <2>3. attempting(radio[at], session[at], at \in admitted, epoch)
    BY <2>1, Here DEF AttemptOK
  <2>4. at \in admitted
    BY <1>1, <2>3 DEF attempting
  <2>5. attempting(radio'[at], session'[at], at \in admitted, epoch)
    <3>1. /\ radio[at].inbox = <<>> /\ session[at].outbox = <<>>
      BY <2>3, <2>4 DEF attempting
    <3>2. released(<<>>) = <<>>
      BY QueueEmpty, QueueReleased
    <3>3. /\ radio'[at].inbox = <<>> /\ session'[at].outbox = <<>>
          /\ radio'[at].mode = radio[at].mode /\ radio'[at].ours = radio[at].ours
          /\ radio'[at].fuse = radio[at].fuse
      BY <1>2, <3>1, <3>2, Here DEF silenced, forget, Radio, Session
    <3>. QED BY <2>2, <2>3, <2>4, <3>3, QueueEmpty DEF attempting
  <2>6. ASSUME NEW r \in Radios
        PROVE  attempting(radio'[r], session'[r], r \in admitted', epoch')
    <3>1. CASE r = at
      BY <1>1, <2>2, <2>5, <3>1
    <3>2. CASE r # at
      BY <1>1, <1>2, <2>1, <2>2, <3>2 DEF AttemptOK
    <3>. QED BY <3>1, <3>2
  <2>7. \A r \in Radios : r < at' => r \in admitted'
    BY <1>1, <1>3, <2>1, <2>4 DEF AttemptOK
  <2>. QED BY <1>1, <2>1, <2>6, <2>7 DEF AttemptOK
<1>. QED BY <1>2, <1>4, <1>5, <1>6, <1>7 DEF IInv, Progressed

LEMMA AllAdmittedKeeps == ASSUME IInv, AllAdmitted PROVE IInv'
<1>1. /\ pc = "admit" /\ at = RadioCount /\ radio' = radioReleased({at})
      /\ session' = [r \in Radios |-> [sessionReleased({at})[r] EXCEPT !.started = TRUE]]
      /\ coordinated' = TRUE /\ endPass /\ admitted' = {}
      /\ UNCHANGED <<ready, backoff, before, after, faults>>
  BY DEF AllAdmitted
<1>2. ASSUME NEW r \in Radios
      PROVE  /\ radio'[r] \in Radio /\ session'[r] \in Session
             /\ Link(radio'[r], session'[r]) /\ Faulty(radio'[r])
             /\ Len(radio'[r].inbox) <= MaxInbox /\ Len(session'[r].outbox) <= QueueLimit
             /\ quiet(radio'[r], session'[r])
  <2>. DEFINE s == sessionReleased({at})[r]
  <2>1. /\ radio'[r] \in Radio /\ s \in Session
        /\ Link(radio'[r], s) /\ Faulty(radio'[r])
        /\ Len(radio'[r].inbox) <= MaxInbox /\ Len(s.outbox) <= QueueLimit
        /\ quiet(radio'[r], s)
    <3>1. CASE r = at
      <4>1. radio'[r] = silenced(radio[r]) /\ s = forget(session[r])
        BY <1>1, <3>1, Here, ReleasedAt
      <4>. HIDE DEF s
      <4>2. /\ radio[r] \in Radio /\ session[r] \in Session
            /\ Link(radio[r], session[r]) /\ Faulty(radio[r])
            /\ Len(radio[r].inbox) <= MaxInbox /\ Len(session[r].outbox) <= QueueLimit
        BY Local
      <4>. QED BY <4>1, <4>2, Forgotten
    <3>2. CASE r # at
      <4>1. r < at
        BY <1>1, <3>2, Constants DEF Radios
      <4>2. radio'[r] = radio[r] /\ s = session[r]
        BY <1>1, <3>2, Here, ReleasedAt
      <4>. QED BY <1>1, <4>1, <4>2, Local, AdmissionSeen
    <3>. QED BY <3>1, <3>2
  <2>2. session'[r] = [s EXCEPT !.started = TRUE]
    BY <1>1
  <2>. HIDE DEF s
  <2>3. /\ session'[r] \in Session /\ session'[r].outbox = s.outbox
        /\ session'[r].evidence = s.evidence /\ session'[r].connected = s.connected
        /\ session'[r].reconciled = s.reconciled /\ session'[r].status = s.status
        /\ session'[r].configured = s.configured
    BY <2>1, <2>2 DEF Session
  <2>4. Link(radio'[r], session'[r])
    BY <2>1, <2>3 DEF Link, ConnectionOK, BootOK, StartOK, StopOK
  <2>. QED BY <2>1, <2>3, <2>4 DEF quiet
<1>3. radio' \in [Radios -> Radio] /\ session' \in [Radios -> Session]
  <2>1. radio' = [r \in Radios |-> radio'[r]] /\ session' = [r \in Radios |-> session'[r]]
    BY <1>1 DEF radioReleased
  <2>. QED BY <1>2, <2>1
<1>4. DataOK' /\ silent'
  BY <1>1, <1>2, <1>3 DEF DataOK, silent, Faulty
<1>. QED BY <1>1, <1>4, Here, EndOfPass

LEMMA TailDoneKeeps == ASSUME IInv, TailDone PROVE IInv'
<1>1. /\ pc = "tail" /\ at' = 1 /\ ready' = TRUE
      /\ \/ pc' = "check" /\ budget' = 0 /\ backoff' = 0
         \/ /\ pc' = "sleep" /\ budget' = backoff
            /\ backoff' = IF 2 * backoff + 1 < MaxBackoff THEN 2 * backoff + 1
                                                          ELSE MaxBackoff
      /\ UNCHANGED <<radio, session, before, after, coordinated, admitted, faults>>
  BY DEF TailDone
<1>2. silent
  BY <1>1, SilentBefore DEF Exchanges
<1>3. DataOK' /\ silent'
  BY <1>1, <1>2 DEF IInv, DataOK, Faulty, silent, quiet
<1>4. ControlTypes'
  <2>1. backoff \in 0 .. MaxBackoff /\ backoff' \in 0 .. MaxBackoff
    BY <1>1, TimeoutAssumption DEF IInv, ControlTypes
  <2>2. budget' \in 0 .. Longest
    BY <1>1, <2>1, WaitsBounded
  <2>. QED BY <1>1, <2>1, <2>2, Constants DEF ControlTypes, Phases, Blocking, Waits, IInv
<1>5. VisitOK'
  BY <1>1 DEF VisitOK, Visiting
<1>6. PassOK'
  <2>1. \A r \in Radios : ~(r < 1)
    BY Constants
  <2>. QED BY <1>1, <2>1 DEF PassOK
<1>. QED BY <1>1, <1>3, <1>4, <1>5, <1>6, SilentAfter

LEMMA WakeKeeps == ASSUME IInv, Wake PROVE IInv'
<1>1. /\ pc = "sleep" /\ pc' = "check" /\ at' = at /\ budget' = 0 /\ at = 1
      /\ UNCHANGED <<radio, session, ready, backoff, before, after, coordinated,
                     admitted, faults>>
  BY DEF Wake, goto, IInv, Progressed, PassOK
<1>2. silent
  BY <1>1, SilentBefore DEF Exchanges
<1>3. DataOK' /\ silent'
  BY <1>1, <1>2 DEF IInv, DataOK, Faulty, silent, quiet
<1>4. ControlTypes'
  BY <1>1, WaitsBounded DEF ControlTypes, Phases, Blocking, Waits, IInv
<1>5. VisitOK'
  BY <1>1 DEF VisitOK, Visiting
<1>6. PassOK'
  <2>1. \A r \in Radios : ~(r < 1)
    BY Constants
  <2>. QED BY <1>1, <2>1 DEF PassOK
<1>. QED BY <1>1, <1>3, <1>4, <1>5, <1>6, SilentAfter

LEMMA TickKeeps == ASSUME IInv, Tick PROVE IInv'
<1>1. /\ pc \in Blocking /\ budget > 0 /\ budget' = budget - 1
      /\ UNCHANGED <<pc, at, ready, backoff, before, after, coordinated, admitted, faults>>
  BY DEF Tick, workerSettled
<1>2. ASSUME NEW r \in Radios
      PROVE  /\ radio'[r].inbox = aged(radio[r].inbox)
             /\ radio'[r].up = radio[r].up /\ radio'[r].boot = radio[r].boot
             /\ radio'[r].owner = radio[r].owner /\ radio'[r].pending = radio[r].pending
             /\ radio'[r].ours = radio[r].ours /\ radio'[r].device = radio[r].device
             /\ radio'[r].mode =
                  IF fires(radio[r]) THEN "streaming" ELSE radio[r].mode
             /\ radio'[r].fuse = less(radio[r].fuse)
             /\ radio'[r] \in Radio
  <2>. DEFINE d == radio[r]
              idle == IF d.owner = "none" THEN 0 ELSE more(d.idle, StaleTimeout)
              mode == IF fires(d) THEN "streaming" ELSE d.mode
              overdue == IF d.mode = "armed" /\ d.fuse = 0 THEN more(d.overdue, LateLimit)
                         ELSE 0
              e == [d EXCEPT !.mode = mode, !.fuse = less(d.fuse),
                             !.inbox = aged(d.inbox), !.overdue = overdue, !.idle = idle]
  <2>1. radio'[r] = e
    BY Local DEF Tick, Radio
  <2>2. /\ less(d.fuse) \in 0 .. Lead /\ aged(d.inbox) \in Seq(Commands)
        /\ idle \in 0 .. StaleTimeout /\ mode \in {"idle", "armed", "streaming"}
        /\ overdue \in 0 .. LateLimit
    <3>1. d.fuse \in 0 .. Lead /\ d.idle \in 0 .. StaleTimeout
          /\ d.overdue \in 0 .. LateLimit /\ d.mode \in {"idle", "armed", "streaming"}
      BY Local DEF Radio
    <3>2. less(d.fuse) \in 0 .. Lead /\ idle \in 0 .. StaleTimeout
          /\ overdue \in 0 .. LateLimit
      BY <3>1, TimeoutAssumption DEF less, more
    <3>. QED BY <3>1, <3>2, Local, QueueAged
  <2>3. d \in Radio
    BY Local
  <2>. HIDE DEF idle, mode, overdue
  <2>4. /\ e \in Radio /\ e.inbox = aged(d.inbox) /\ e.up = d.up /\ e.boot = d.boot
        /\ e.owner = d.owner /\ e.pending = d.pending /\ e.ours = d.ours
        /\ e.device = d.device /\ e.mode = mode /\ e.fuse = less(d.fuse)
    BY <2>2, <2>3 DEF Radio
  <2>. QED BY <2>1, <2>4 DEF mode
<1>3. ASSUME NEW r \in Radios
      PROVE  /\ session'[r].outbox = aged(session[r].outbox)
             /\ session'[r].connected = session[r].connected
             /\ session'[r].reconciled = session[r].reconciled
             /\ session'[r].status = session[r].status
             /\ session'[r].configured = session[r].configured
             /\ session'[r].evidence = session[r].evidence
             /\ session'[r] \in Session
  <2>. DEFINE s == session[r]
              t == [s EXCEPT !.retry = FALSE, !.outbox = aged(s.outbox),
                             !.liveAge = more(s.liveAge, LivenessInterval)]
  <2>1. session'[r] = t
    BY Local DEF Tick, Session
  <2>2. s \in Session /\ aged(s.outbox) \in Seq(Commands)
        /\ more(s.liveAge, LivenessInterval) \in 0 .. LivenessInterval
    <3>1. s \in Session /\ s.liveAge \in 0 .. LivenessInterval
      BY Local DEF Session
    <3>2. more(s.liveAge, LivenessInterval) \in 0 .. LivenessInterval
      BY <3>1, TimeoutAssumption DEF more
    <3>. QED BY <3>1, <3>2, Local, QueueAged
  <2>3. /\ t \in Session /\ t.outbox = aged(s.outbox) /\ t.connected = s.connected
        /\ t.reconciled = s.reconciled /\ t.status = s.status
        /\ t.configured = s.configured /\ t.evidence = s.evidence
    BY <2>2 DEF Session
  <2>. QED BY <2>1, <2>3
<1>4. ASSUME NEW r \in Radios
      PROVE  /\ Len(radio'[r].inbox) <= MaxInbox /\ Len(session'[r].outbox) <= QueueLimit
             /\ liveOps(radio'[r].inbox) = liveOps(radio[r].inbox)
             /\ liveOps(session'[r].outbox) = liveOps(session[r].outbox)
             /\ radio'[r].inbox = <<>> <=> radio[r].inbox = <<>>
             /\ session'[r].outbox = <<>> <=> session[r].outbox = <<>>
  BY <1>2, <1>3, Local, QueueAged
<1>5. DataOK'
  <2>1. radio' \in [Radios -> Radio] /\ session' \in [Radios -> Session]
    <3>1. radio' = [r \in Radios |-> radio'[r]] /\ session' = [r \in Radios |-> session'[r]]
      BY DEF Tick
    <3>. QED BY <1>2, <1>3, <3>1
  <2>2. ASSUME NEW r \in Radios PROVE Link(radio'[r], session'[r]) /\ Faulty(radio[r])'
    <3>1. radio'[r].mode = radio[r].mode \/ radio[r].mode = "armed"
      BY <1>2 DEF fires
    <3>2. Link(radio'[r], session'[r])
      BY <1>2, <1>3, <3>1, Local, Ageing
    <3>. QED BY <1>1, <1>2, <3>2, Local DEF Faulty
  <2>. QED BY <1>4, <2>1, <2>2 DEF DataOK
<1>6. ControlTypes'
  <2>1. budget \in 0 .. Longest
    BY DEF IInv, ControlTypes
  <2>2. budget' \in 0 .. Longest
    <3>1. IoTimeout * RadioCount \in Nat
      BY ProductMonotone, Constants, TimeoutAssumption
    <3>2. Longest \in Int
      BY <3>1, TimeoutAssumption DEF Longest
    <3>. QED BY <1>1, <2>1, <3>2
  <2>. QED BY <1>1, <2>2 DEF IInv, ControlTypes
<1>7. ASSUME NEW r \in Radios PROVE AwaitOK(r)'
  <2>1. awaits(r)' = awaits(r) /\ AwaitOK(r)
    BY <1>1 DEF awaits, IInv
  <2>. QED BY <1>3, <1>4, <2>1 DEF AwaitOK
<1>8. \A r \in Radios : /\ hope(radio'[r], session'[r]) <=> hope(radio[r], session[r])
                        /\ good(session'[r]) <=> good(session[r])
                        /\ alive(radio'[r]) <=> alive(radio[r])
  BY <1>2, <1>3, <1>4 DEF hope, good, alive
<1>9. VisitOK' /\ ReconcileOK' /\ PassOK'
  <2>1. at \in Radios /\ VisitOK /\ ReconcileOK /\ PassOK
    BY Here DEF IInv, Progressed
  <2>2. VisitOK'
    BY <1>1, <1>2, <1>3, <1>8, <2>1 DEF VisitOK
  <2>3. ReconcileOK'
    BY <1>1, <1>2, <1>3, <1>8, <2>1 DEF ReconcileOK
  <2>4. PassOK'
    BY <1>1, <1>3, <1>8, <2>1 DEF PassOK
  <2>. QED BY <2>2, <2>3, <2>4
<1>10. AttemptOK'
  <2>1. pc # "submit" /\ (\A r \in Radios : attempt(r)' <=> pc = "admit") /\ AttemptOK
        /\ (\A r \in Radios : attempt(r) <=> pc = "admit")
    BY <1>1 DEF Blocking, Waits, attempt, IInv, Progressed
  <2>2. epoch \in Nat \ {0} /\ epoch' = epoch - 1 /\ (pc = "admit" => budget' < Lead)
    <3>1. budget \in 0 .. Longest /\ Lead \in Nat
      BY TimeoutAssumption DEF IInv, ControlTypes
    <3>. QED BY <1>1, <2>1, <3>1 DEF epoch, AttemptOK
  <2>3. ASSUME NEW r \in Radios, pc = "admit"
        PROVE  attempting(radio'[r], session'[r], r \in admitted', epoch')
    <3>1. attempting(radio[r], session[r], r \in admitted, epoch)
      BY <2>1, <2>3 DEF AttemptOK
    <3>2. lastLive(radio'[r].inbox, epoch - 1) /\ lastLive(session'[r].outbox, epoch - 1)
      BY <1>2, <1>3, <2>2, <3>1, Local, QueueAged DEF attempting
    <3>3. radio'[r].mode = "armed" => radio[r].mode = "armed"
      BY <1>2
    <3>4. r \in admitted /\ radio'[r].mode = "armed" /\ radio'[r].ours
            => radio'[r].fuse = epoch - 1
      BY <1>2, <2>2, <3>1, <3>3 DEF attempting, less
    <3>. QED BY <1>1, <1>3, <1>4, <2>2, <3>1, <3>2, <3>4 DEF attempting
  <2>. QED BY <1>1, <2>1, <2>2, <2>3 DEF AttemptOK
<1>. QED BY <1>5, <1>6, <1>7, <1>9, <1>10 DEF IInv, Progressed

-----------------------------------------------------------------------------
(* Every step, and what follows.                                           *)

LEMMA WorkerKeeps == ASSUME IInv, run PROVE IInv'
<1>1. CASE reconcile
  BY <1>1, ReadBeforeKeeps, AwaitConnectionKeeps, ReadAfterKeeps, ReconciledKeeps,
     ReconcileFailsKeeps DEF reconcile
<1>2. CASE configure
  BY <1>2, ConfigureKeeps, QuiescedKeeps, ConfiguredKeeps, ConfigureFailsKeeps DEF configure
<1>3. CASE restart_after_boot_change
  BY <1>3, RestartKeeps, RestartedKeeps, RestartFailsKeeps DEF restart_after_boot_change
<1>4. CASE liveness
  BY <1>4, LivenessKeeps, AliveKeeps, LivenessFailsKeeps, NotDueKeeps DEF liveness
<1>5. CASE coordinate_start
  BY <1>5, SubmitStartKeeps, SubmitStartFailsKeeps, AdmittedKeeps, AllAdmittedKeeps,
     AdmissionFailsKeeps DEF coordinate_start
<1>. QED BY <1>1, <1>2, <1>3, <1>4, <1>5, CheckKeeps, TailDoneKeeps, WakeKeeps DEF run

LEMMA StepKeeps == IInv /\ [Next]_vars => IInv'
<1>. SUFFICES ASSUME IInv, [Next]_vars PROVE IInv'
  OBVIOUS
<1>1. ASSUME NEW r \in Radios, RadioStep(r) PROVE IInv'
  BY <1>1, RadioAcceptKeeps, RadioReleaseKeeps, RadioExecuteKeeps, RadioBootKeeps,
     StallKeeps DEF RadioStep, ReExec
<1>2. ASSUME NEW r \in Radios, ClientStep(r) PROVE IInv'
  BY <1>2, ClientFailKeeps, ClientConnectKeeps, ClientTransmitKeeps DEF ClientStep
<1>3. ASSUME NEW r \in Radios, Fault(r) PROVE IInv'
  BY <1>3, CrashKeeps, DisconnectKeeps, StallKeeps DEF Fault
<1>4. CASE UNCHANGED vars
  <2>1. UNCHANGED <<radio, session, pc, at, budget, ready, backoff, before, after,
                    coordinated, admitted, faults>>
    BY <1>4 DEF vars, worker, control
  <2>2. DataOK' /\ ControlTypes'
    BY <2>1 DEF IInv, DataOK, ControlTypes, Faulty
  <2>3. \A r \in Radios : AwaitOK(r)'
    BY <2>1 DEF IInv, AwaitOK, awaits
  <2>4. Progressed'
    BY <2>1 DEF IInv, Progressed, VisitOK, ReconcileOK, PassOK, AttemptOK, attempt, epoch
  <2>. QED BY <2>2, <2>3, <2>4 DEF IInv
<1>5. ASSUME NEW r \in Radios, Redeploy(r) PROVE IInv'
  BY <1>5, RadioBootKeeps DEF Redeploy
<1>. QED BY <1>1, <1>2, <1>3, <1>4, <1>5, WorkerKeeps, TickKeeps, EarlyStatusKeeps
        DEF Next, Progress

THEOREM ControllerInvariant == Spec => []IInv
<1>. QED BY Initially, StepKeeps, PTL DEF Spec

\* Every queue, wait and counter of the controller and of the radios keeps its
\* type and its bound.
THEOREM ControllerTypeCorrect == Spec => []TypeOK
<1>1. IInv => TypeOK
  BY DEF IInv, DataOK, ControlTypes, TypeOK
<1>. QED BY <1>1, ControllerInvariant, PTL

\* restart_after_boot_change() and coordinate_start() never start a radio that
\* was not configured since it last booted, however many radios crash, and
\* whenever they do.
THEOREM StartsOnlyConfigured == Spec => []ConfiguredLifetime
<1>1. IInv => ConfiguredLifetime
  <2>. SUFFICES ASSUME IInv, NEW r \in Radios, started(radio[r]) PROVE radio[r].device
    BY DEF ConfiguredLifetime, started
  <2>. QED BY Local DEF Link, StartOK, BootOK
<1>. QED BY <1>1, ControllerInvariant, PTL

\* What reconcile() remembers of a radio is right as long as the connection that
\* it reconciled owns the radio.
THEOREM BootIdentifierTracked == Spec => []BootTracking
<1>1. IInv => BootTracking
  <2>. SUFFICES ASSUME IInv, NEW r \in Radios, session[r].reconciled, alive(radio[r])
                PROVE  session[r].status.boot = radio[r].boot
    BY DEF BootTracking, alive
  <2>. QED BY Local DEF Link, BootOK
<1>. QED BY <1>1, ControllerInvariant, PTL

\* coordinate_start() reports success only when every radio has admitted the
\* start of the same attempt, with one epoch.
LEMMA CoordinationStep ==
  ASSUME IInv, [Next]_vars, ~coordinated, coordinated'
  PROVE  /\ admitted = Radios
         /\ \A r, s \in Radios :
              scheduled(r) /\ scheduled(s) => radio[r].fuse = radio[s].fuse
<1>1. AllAdmitted
  <2>1. ~(UNCHANGED coordinated)
    OBVIOUS
  <2>2. ~(UNCHANGED vars)
    BY <2>1 DEF vars, worker
  <2>3. \A r \in Radios : ~RadioStep(r) /\ ~ClientStep(r) /\ ~Fault(r) /\ ~Redeploy(r)
    BY <2>1 DEF RadioStep, ClientStep, Fault, RadioAccept, RadioRelease, RadioExecute,
       ReExec, Redeploy, RadioBoot, Hangup, Recover, ClientFail, ClientConnect, ClientTransmit, ClientExpire, Crash,
       Disconnect, Stall, worker
  <2>4. ~EarlyStatus /\ ~Tick /\ ~reconcile /\ ~configure
    BY <2>1 DEF EarlyStatus, Tick, reconcile, configure, ReadBefore, AwaitConnection,
       ReadAfter, Reconciled, ReconcileFails, reconcileFailed, Configure, Quiesced,
       Configured, ConfigureFails
  <2>5. ~restart_after_boot_change /\ ~liveness /\ ~Check /\ ~TailDone /\ ~Wake
    BY <2>1 DEF restart_after_boot_change, liveness, Restart, Restarted, RestartFails,
       Liveness, Alive, LivenessFails, NotDue, Check, TailDone, Wake
  <2>6. ~SubmitStart /\ ~SubmitStartFails /\ ~Admitted /\ ~AdmissionFails
    BY <2>1 DEF SubmitStart, SubmitStartFails, Admitted, AdmissionFails
  <2>. QED BY <2>2, <2>3, <2>4, <2>5, <2>6 DEF Next, Progress, run, coordinate_start
<1>2. pc = "admit" /\ at = RadioCount /\ session[at].evidence = "accepted" /\ AttemptOK
  BY <1>1 DEF AllAdmitted, IInv, Progressed
<1>3. \A r \in Radios : attempting(radio[r], session[r], r \in admitted, epoch)
  BY <1>2 DEF AttemptOK, attempt
<1>4. \A r \in Radios : r \in admitted
  <2>. SUFFICES ASSUME NEW r \in Radios PROVE r \in admitted
    OBVIOUS
  <2>1. CASE r = at
    BY <1>2, <1>3, <2>1 DEF attempting
  <2>2. CASE r # at
    <3>1. r < at
      BY <1>2, <2>2, Constants DEF Radios
    <3>. QED BY <1>2, <3>1 DEF AttemptOK
  <2>. QED BY <2>1, <2>2
<1>5. admitted = Radios
  BY <1>4 DEF IInv, ControlTypes
<1>6. \A r \in Radios : scheduled(r) => radio[r].fuse = epoch
  BY <1>3, <1>4 DEF attempting, scheduled
<1>. QED BY <1>5, <1>6

THEOREM CoordinatedStartHolds == Spec => CoordinatedStart
<1>1. IInv /\ [Next]_vars =>
        [~coordinated /\ coordinated' =>
           /\ admitted = Radios
           /\ \A r, s \in Radios :
                scheduled(r) /\ scheduled(s) => radio[r].fuse = radio[s].fuse]_vars
  BY CoordinationStep
<1>. QED BY <1>1, ControllerInvariant, PTL DEF Spec, CoordinatedStart

\* Only a stop, a cancel of a start that waits, or a crash ends a stream.
LEMMA StreamStep ==
  ASSUME IInv, [Next]_vars, NEW r \in Radios, streams(r)
  PROVE  streams(r)' \/ ~radio[r].up'
<1>. DEFINE same == radio'[r].mode = radio[r].mode /\ radio'[r].ours = radio[r].ours
<1>1. same => streams(r)'
  BY DEF streams
<1>2. ASSUME NEW S, radio' = radioReleased(S) PROVE same
  BY <1>2, Local DEF radioReleased, Radio
<1>3. ASSUME UNCHANGED radio PROVE same
  BY <1>3
<1>4. ASSUME NEW x \in Radios, NEW e, radio' = [radio EXCEPT ![x] = e],
             e.mode = radio[x].mode, e.ours = radio[x].ours
      PROVE  same
  BY <1>4, Local
<1>16. ASSUME NEW x \in Radios, RadioBoot(x) PROVE same
  <2>. DEFINE d == radio[x]
              e == [d EXCEPT !.up = TRUE, !.restarting = FALSE, !.boot = d.boot + 1]
  <2>1. radio' = [radio EXCEPT ![x] = e]
    BY <1>16, Local DEF RadioBoot
  <2>2. e.mode = d.mode /\ e.ours = d.ours
    BY Local DEF Radio
  <2>. HIDE DEF e, same
  <2>. QED BY <1>4, <2>1, <2>2
<1>5. ASSUME NEW x \in Radios, RadioStep(x)
      PROVE  same \/ streams(r)'
  <2>1. CASE RadioExecute(x) /\ x = r
    <3>. DEFINE c == Head(radio[r].inbox)  e == effect(radio[r], c)
                d == [e EXCEPT !.inbox = Tail(e.inbox)]
    <3>1. /\ radio[r].inbox # <<>> /\ radio[r].inbox \in Seq(Commands)
          /\ radio[r] \in Radio /\ c \in Commands /\ c.op \in ops(radio[r].inbox)
      BY <2>1, Local, QueueTail DEF RadioExecute
    <3>2. c.op # "stop"
      BY <3>1, Local DEF Link, StopOK, streams, started
    <3>3. e \in Radio /\ e.ours /\ e.mode = "streaming"
      BY <3>1, <3>2, Effect DEF streams
    <3>4. radio'[r] = d
      BY <2>1, Local DEF RadioExecute
    <3>. HIDE DEF e
    <3>5. d.ours /\ d.mode = "streaming"
      BY <3>3 DEF Radio
    <3>. QED BY <3>4, <3>5 DEF streams
  <2>2. CASE RadioExecute(x) /\ x # r
    BY <2>2, Local DEF RadioExecute
  <2>. DEFINE d == radio[x]
              o == IF d.owner = "none" THEN d.pending ELSE d.owner
              i == IF d.owner = "none" THEN 0 ELSE d.idle
  <2>3. CASE RadioAccept(x)
    <3>. DEFINE e == [d EXCEPT !.pending = "none", !.owner = o, !.idle = i]
    <3>1. radio' = [radio EXCEPT ![x] = e]
      BY <2>3, Local DEF RadioAccept
    <3>2. e.mode = d.mode /\ e.ours = d.ours
      BY Local DEF Radio
    <3>. HIDE DEF e, same
    <3>. QED BY <1>4, <3>1, <3>2
  <2>4. CASE RadioRelease(x)
    <3>1. dropOwner(d).mode = d.mode /\ dropOwner(d).ours = d.ours
      BY Local DEF Radio, dropOwner
    <3>2. radio' = [radio EXCEPT ![x] = dropOwner(d)]
      BY <2>4 DEF RadioRelease
    <3>. HIDE DEF same
    <3>. QED BY <1>4, <3>1, <3>2
  <2>5. CASE ReExec(x)
    BY <1>16, <2>5 DEF ReExec
  <2>6. CASE Recover(x)
    BY <1>5, <2>6, Local DEF Recover, Radio, streams, missed
  <2>. QED BY <1>5, <2>1, <2>2, <2>3, <2>4, <2>5, <2>6 DEF RadioStep
<1>6. ASSUME NEW x \in Radios PROVE orphanRadio(x)[r].mode = radio[r].mode
                                    /\ orphanRadio(x)[r].ours = radio[r].ours
  BY <1>6, Local DEF orphanRadio, Radio
<1>7. ASSUME NEW x \in Radios, ClientStep(x) PROVE same
  <2>1. CASE ClientFail(x) \/ ClientExpire(x)
    BY <1>6, <2>1 DEF ClientFail, ClientExpire, fail
  <2>2. CASE ClientConnect(x)
    <3>. DEFINE e == [radio[x] EXCEPT !.pending = "current"]
    <3>1. radio' = [radio EXCEPT ![x] = e]
      BY <2>2, Local DEF ClientConnect
    <3>2. e.mode = radio[x].mode /\ e.ours = radio[x].ours
      BY Local DEF Radio
    <3>. HIDE DEF e, same
    <3>. QED BY <1>4, <3>1, <3>2
  <2>3. CASE ClientTransmit(x)
    <3>. DEFINE q == Append(radio[x].inbox, [Head(session[x].outbox) EXCEPT !.ttl = 0])
                e == [radio[x] EXCEPT !.inbox = q]
    <3>1. radio' = [radio EXCEPT ![x] = e]
      BY <2>3, Local DEF ClientTransmit
    <3>2. e.mode = radio[x].mode /\ e.ours = radio[x].ours
      BY Local DEF Radio
    <3>. HIDE DEF e, same
    <3>. QED BY <1>4, <3>1, <3>2
  <2>. QED BY <1>7, <2>1, <2>2, <2>3 DEF ClientStep
<1>8. ASSUME NEW x \in Radios, Fault(x) PROVE same \/ ~radio'[r].up
  <2>1. CASE Crash(x) \/ Hangup(x)
    <3>1. PICK again \in BOOLEAN : radio' = [radio EXCEPT ![x] = ended(radio[x], again)]
      BY <2>1 DEF Crash, Hangup
    <3>2. CASE x = r
      BY <3>1, <3>2, Local, Ended
    <3>3. CASE x # r
      BY <3>1, <3>3, Local
    <3>. QED BY <3>2, <3>3
  <2>3. CASE Disconnect(x)
    <3>1. dropOwner(radio[x]).mode = radio[x].mode /\ dropOwner(radio[x]).ours = radio[x].ours
      BY Local DEF Radio, dropOwner
    <3>2. radio' = [radio EXCEPT ![x] = dropOwner(radio[x])]
      BY <2>3 DEF Disconnect
    <3>. HIDE DEF same
    <3>. QED BY <1>4, <3>1, <3>2
  <2>4. CASE Stall(x)
    <3>. DEFINE e == [radio[x] EXCEPT !.stalled = TRUE]
    <3>1. radio' = [radio EXCEPT ![x] = e] /\ e.mode = radio[x].mode /\ e.ours = radio[x].ours
      BY <2>4, Local DEF Stall, Radio
    <3>. HIDE DEF e, same
    <3>. QED BY <1>4, <3>1
  <2>. QED BY <1>8, <2>1, <2>3, <2>4 DEF Fault
<1>9. ASSUME Tick PROVE same
  <2>. DEFINE d == radio[r]
              i == IF d.owner = "none" THEN 0 ELSE more(d.idle, StaleTimeout)
              m == IF fires(d) THEN "streaming" ELSE d.mode
              w == IF d.mode = "armed" /\ d.fuse = 0 THEN more(d.overdue, LateLimit) ELSE 0
              e == [d EXCEPT !.mode = m, !.fuse = less(d.fuse),
                             !.inbox = aged(d.inbox), !.overdue = w, !.idle = i]
  <2>1. radio'[r] = e
    BY <1>9, Local DEF Tick, Radio
  <2>2. m = d.mode
    BY DEF streams
  <2>. HIDE DEF i, m, w
  <2>3. e.mode = m /\ e.ours = d.ours
    BY Local DEF Radio
  <2>. HIDE DEF e
  <2>. QED BY <2>1, <2>2, <2>3
<1>10. reconcile \/ EarlyStatus => same
  BY <1>2, <1>3, <1>6, Here DEF reconcile, EarlyStatus, ReadBefore, fail, AwaitConnection,
     ReadAfter, Reconciled, ReconcileFails, reconcileFailed
<1>11. configure \/ restart_after_boot_change => same
  BY <1>2, <1>3 DEF configure, restart_after_boot_change, Configure, Quiesced, Configured,
     ConfigureFails, Restart, Restarted, RestartFails
<1>12. LivenessFails => same
  BY <1>6, Here, Local DEF LivenessFails, orphanRadio, Radio
<1>13. liveness => same
  BY <1>2, <1>3, <1>12 DEF liveness, Liveness, Alive, NotDue
<1>14. coordinate_start => same
  BY <1>2, <1>3 DEF coordinate_start, SubmitStart, SubmitStartFails, Admitted,
     AllAdmitted, AdmissionFails
<1>15. Check \/ TailDone \/ Wake \/ UNCHANGED vars => same
  BY <1>3 DEF Check, TailDone, Wake, vars
<1>. HIDE DEF same
<1>17. ASSUME NEW x \in Radios, Redeploy(x) PROVE same
  BY <1>16, <1>17 DEF Redeploy
<1>. QED BY <1>1, <1>5, <1>7, <1>8, <1>9, <1>10, <1>11, <1>13, <1>14, <1>15, <1>17
        DEF Next, Progress, run

\* The controller never stops a radio that it started, however connections,
\* replies and other radios come and go.
THEOREM StreamsUndisturbed == Spec => StreamingUndisturbed
<1>1. IInv /\ [Next]_vars =>
        [\A r \in Radios :
           coordinated /\ streams(r) => streams(r)' \/ ~radio[r].up']_vars
  BY StreamStep
<1>. QED BY <1>1, ControllerInvariant, PTL DEF Spec, StreamingUndisturbed
=============================================================================
