-------------------------- MODULE DriverConnection --------------------------
(***************************************************************************)
(* The line between a driver's phone and the gateway: SocketService with   *)
(* its offline queue, heartbeat and reconnect timer on one side, the       *)
(* registry of driver sockets and the driver's row on the other, and the   *)
(* network that connects them, breaks, and tells the two sides of it at    *)
(* different times.                                                        *)
(*                                                                         *)
(* A phone numbers the sockets it creates and the pings it records, from 1 *)
(* on.  A socket's messages arrive in order, and its handlers start in     *)
(* order; a row is written some time after, by a query of its own.  The    *)
(* DRIVER_STATUS_CHANGE messages, heartbeats among them, are left out: the *)
(* gateway knows no such event and drops them.                             *)
(***************************************************************************)
EXTENDS Integers, Sequences, SequencesExt

CONSTANTS
  Phones,       \* running instances of the driver app
  Drivers,      \* the drivers they log in as
  DriverOf,     \* phone -> its driver
  MaxBuffer,    \* MAX_OFFLINE_BUFFER_SIZE
  MaxBatch,     \* pings in a batch of flushOfflineBuffer
  MaxSockets,   \* bound: sockets a phone creates
  MaxPings,     \* bound: pings a phone records
  MaxBreaks,    \* bound: connections that fail or break
  MaxUnmounts,  \* bound: times the home screen is unmounted
  MaxFailures   \* bound: rejected queries and crashes of the backend

ASSUME DriverAssumption == DriverOf \in [Phones -> Drivers]
ASSUME SizeAssumption   == MaxBuffer \in Nat \ {0} /\ MaxBatch \in Nat \ {0}
ASSUME BoundAssumption  == {MaxSockets, MaxPings, MaxBreaks, MaxUnmounts, MaxFailures}
                             \subseteq Nat

VARIABLES
  \* the phone
  mounted,     \* phones with the home screen mounted: driverId is set
  online,      \* those with the switch on ONLINE, which record pings
  ws,          \* phone -> number of its socket, 0 for null
  heartbeat,   \* phones whose pingInterval is set
  timer,       \* phone -> reconnectTimer: "none", "armed", or "stale" once cleared
  queue,       \* phone -> the offline queue
  recorded,    \* phone -> number of pings recorded
  \* sockets
  made,        \* phone -> number of sockets created
  ready,       \* socket -> readyState on the phone
  cut,         \* sockets whose connection is broken
  chan,        \* socket -> messages on their way to the gateway
  \* the gateway
  served,      \* sockets the gateway has open
  identified,  \* sockets with registeredDriverId set
  registry,    \* driverSockets: driver -> socket, or NoSocket
  updates,     \* queries of drivers.status on their way to PostgreSQL
  row,         \* driver -> drivers.status
  \* history
  got,         \* socket -> pings ingested from it
  lost,        \* phone -> pings gone with a connection
  discarded,   \* phone -> pings the full queue made room with
  crossed,     \* drivers two of whose updates were under way at once
  breaks, unmounts, failures

screenVars  == <<mounted, online>>
phoneVars   == <<ws, heartbeat, timer>>
pingVars    == <<queue, recorded, discarded>>
socketVars  == <<made, ready>>
netVars     == <<cut, chan, lost>>
gatewayVars == <<served, identified, registry, updates, crossed>>
boundVars   == <<breaks, unmounts, failures>>
clientVars  == <<screenVars, phoneVars, pingVars, socketVars>>
backendVars == <<gatewayVars, row, got>>
vars == <<clientVars, netVars, backendVars, boundVars>>

Sockets      == Phones \X (1 .. MaxSockets)
SocketsOf(p) == {p} \X (1 .. MaxSockets)
NoSocket     == <<>>

Identify == [op |-> "identify"]
Batch(q) == [op |-> "pings", pings |-> q]
Update(s, status) == [socket |-> s, status |-> status]

Driver(s)     == DriverOf[s[1]]
Ws(p)         == <<p, ws[p]>>                                \* this.ws, unless null
Connected(p)  == ws[p] # 0 /\ ready[Ws(p)] = "open"          \* isConnected
Connecting(p) == ws[p] # 0 /\ ready[Ws(p)] = "connecting"

PingsOf(m)    == IF m.op = "pings" THEN ToSet(m.pings) ELSE {}
OnTheWay(s)   == UNION {PingsOf(chan[s][i]) : i \in DOMAIN chan[s]}

Init ==
  /\ mounted = {} /\ online = {}
  /\ ws = [p \in Phones |-> 0] /\ heartbeat = {} /\ timer = [p \in Phones |-> "none"]
  /\ queue = [p \in Phones |-> <<>>] /\ recorded = [p \in Phones |-> 0]
  /\ made = [p \in Phones |-> 0] /\ ready = [s \in Sockets |-> "new"]
  /\ cut = {} /\ chan = [s \in Sockets |-> <<>>]
  /\ served = {} /\ identified = {} /\ registry = [d \in Drivers |-> NoSocket]
  /\ updates = {} /\ row = [d \in Drivers |-> "offline"]
  /\ got = [s \in Sockets |-> {}]
  /\ lost = [p \in Phones |-> {}] /\ discarded = [p \in Phones |-> {}]
  /\ crossed = {}
  /\ breaks = 0 /\ unmounts = 0 /\ failures = 0
-----------------------------------------------------------------------------
(* The phone *)

\* The Slip definitions are variants with one plausible mistake each, which the
\* properties tell from the code; no behaviour uses them.

SlipConnect(p) ==                        \* CONNECTING not tested
  IF Connected(p)
  THEN UNCHANGED <<ws, socketVars>>
  ELSE /\ made[p] < MaxSockets
       /\ made' = [made EXCEPT ![p] = @ + 1]
       /\ ws' = [ws EXCEPT ![p] = made[p] + 1]
       /\ ready' = [ready EXCEPT ![<<p, made[p] + 1>>] = "connecting"]

\* connect(), once driverId is set; the URL is one WebSocket accepts.
Connect(p) ==
  IF Connected(p) \/ Connecting(p)
  THEN UNCHANGED <<ws, socketVars>>
  ELSE /\ made[p] < MaxSockets
       /\ made' = [made EXCEPT ![p] = @ + 1]
       /\ ws' = [ws EXCEPT ![p] = made[p] + 1]
       /\ ready' = [ready EXCEPT ![<<p, made[p] + 1>>] = "connecting"]

Mount(p) ==                              \* the effect of the home screen
  /\ p \notin mounted
  /\ mounted' = mounted \cup {p} /\ online' = online \cup {p}
  /\ Connect(p)
  /\ UNCHANGED <<heartbeat, timer, pingVars, netVars, backendVars, boundVars>>

StopTracking(p) == online' = online \ {p}

GoOnline(p) ==                           \* handleToggleOnline(true)
  /\ p \in mounted \ online
  /\ online' = online \cup {p}
  /\ Connect(p)
  /\ UNCHANGED <<mounted, heartbeat, timer, pingVars, netVars, backendVars,
                 boundVars>>

GoOffline(p) ==                          \* handleToggleOnline(false)
  /\ p \in online
  /\ StopTracking(p)
  /\ UNCHANGED <<mounted, phoneVars, pingVars, socketVars, netVars,
                 backendVars, boundVars>>

\* The effect's cleanup, disconnect(): the timer is cleared, its handle kept.
Unmount(p) ==
  /\ p \in mounted
  /\ unmounts < MaxUnmounts /\ unmounts' = unmounts + 1
  /\ mounted' = mounted \ {p} /\ StopTracking(p)
  /\ heartbeat' = heartbeat \ {p}
  /\ timer' = [timer EXCEPT ![p] = IF @ = "none" THEN "none" ELSE "stale"]
  /\ ws' = [ws EXCEPT ![p] = 0]
  /\ ready' = IF Connected(p) \/ Connecting(p)
              THEN [ready EXCEPT ![Ws(p)] = "closing"] ELSE ready
  /\ UNCHANGED <<made, pingVars, netVars, backendVars, breaks, failures>>

\* OfflineQueue.enqueue: a full queue makes room by dropping its oldest ping.
Enqueue(p, n) ==
  IF Len(queue[p]) >= MaxBuffer
  THEN /\ queue' = [queue EXCEPT ![p] = Append(Tail(@), n)]
       /\ discarded' = [discarded EXCEPT ![p] = @ \cup {Head(queue[p])}]
  ELSE queue' = [queue EXCEPT ![p] = Append(@, n)] /\ UNCHANGED discarded

\* streamTelemetryPing: over the socket, or into the queue.  A ping for a broken
\* connection is gone.
Locate(p) ==
  LET n == recorded[p] + 1 IN
  /\ p \in online
  /\ n <= MaxPings
  /\ recorded' = [recorded EXCEPT ![p] = n]
  /\ \/ /\ Connected(p)
        /\ IF Ws(p) \in cut
           THEN lost' = [lost EXCEPT ![p] = @ \cup {n}] /\ UNCHANGED chan
           ELSE chan' = [chan EXCEPT ![Ws(p)] = Append(@, Batch(<<n>>))] /\ UNCHANGED lost
        /\ UNCHANGED <<queue, discarded>>
     \/ /\ ~ Connected(p)
        /\ Enqueue(p, n)
        /\ UNCHANGED <<chan, lost>>
  /\ UNCHANGED <<screenVars, phoneVars, socketVars, cut, backendVars,
                 boundVars>>

SlipFlushed(q) ==                        \* one batch, the rest is dropped
  IF q = <<>> THEN <<>>
  ELSE <<Batch(SubSeq(q, 1, IF MaxBatch < Len(q) THEN MaxBatch ELSE Len(q)))>>

SlipFlushedLifo(q) ==                    \* the newest first
  [i \in 1 .. Len(q) |-> Batch(<<q[Len(q) + 1 - i]>>)]

\* OfflineQueue.drain: what the i-th call of a flush takes.
Drained(q, i) ==
  SubSeq(q, (i - 1) * MaxBatch + 1,
            IF i * MaxBatch < Len(q) THEN i * MaxBatch ELSE Len(q))

\* flushOfflineBuffer: drains until the queue is empty.
Flushed(q) ==
  [i \in 1 .. (Len(q) + MaxBatch - 1) \div MaxBatch |-> Batch(Drained(q, i))]

SlipStartHeartbeat(p) == UNCHANGED heartbeat
StartHeartbeat(p)     == heartbeat' = heartbeat \cup {p}

Opened(p) ==                             \* onopen
  /\ Connecting(p)
  /\ ready' = [ready EXCEPT ![Ws(p)] = "open"]
  /\ chan' = [chan EXCEPT ![Ws(p)] = <<Identify>> \o Flushed(queue[p])]
  /\ queue' = [queue EXCEPT ![p] = <<>>]
  /\ StartHeartbeat(p)
  /\ served' = served \cup {Ws(p)}
  /\ UNCHANGED <<screenVars, ws, timer, recorded, discarded, made, cut, lost,
                 identified, registry, updates, crossed, row, got, boundVars>>

SlipOnClose(s) ==                        \* no cleanup
  /\ ready' = [ready EXCEPT ![s] = "closed"]
  /\ timer' = [timer EXCEPT ![s[1]] = IF @ = "none" THEN "armed" ELSE @]
  /\ UNCHANGED heartbeat

\* onclose of any socket of the phone: cleanup() and scheduleReconnect().
OnClose(s) ==
  /\ ready' = [ready EXCEPT ![s] = "closed"]
  /\ heartbeat' = heartbeat \ {s[1]}
  /\ timer' = [timer EXCEPT ![s[1]] = IF @ = "none" THEN "armed" ELSE @]

ConnectFails(p) ==
  /\ Connecting(p)
  /\ breaks < MaxBreaks /\ breaks' = breaks + 1
  /\ OnClose(Ws(p))
  /\ UNCHANGED <<screenVars, ws, pingVars, made, netVars, backendVars,
                 unmounts, failures>>

\* The phone learns that a socket is closed: one it closed itself, or a broken
\* connection, on which nothing but what it sends tells it.
Closed(s) ==
  /\ ready[s] = "closing" \/ (ready[s] = "open" /\ s \in cut)
  /\ OnClose(s)
  /\ UNCHANGED <<screenVars, ws, pingVars, made, netVars, backendVars,
                 boundVars>>

SlipTimerFired(p) == timer' = [timer EXCEPT ![p] = "stale"]   \* handle kept
TimerFired(p)     == timer' = [timer EXCEPT ![p] = "none"]

Reconnect(p) ==                          \* the reconnect timer fires
  /\ timer[p] = "armed"
  /\ TimerFired(p)
  /\ IF p \in mounted THEN Connect(p) ELSE UNCHANGED <<ws, socketVars>>
  /\ UNCHANGED <<screenVars, heartbeat, pingVars, netVars, backendVars,
                 boundVars>>
-----------------------------------------------------------------------------
(* The network *)

\* The connection breaks: a part of what was on its way still arrives.
Break(s) ==
  /\ ready[s] \in {"open", "closing"} /\ s \in served \ cut
  /\ breaks < MaxBreaks /\ breaks' = breaks + 1
  /\ cut' = cut \cup {s}
  /\ \E k \in 0 .. Len(chan[s]) :
       /\ chan' = [chan EXCEPT ![s] = SubSeq(@, 1, k)]
       /\ lost' = [lost EXCEPT ![s[1]] =
                     @ \cup UNION {PingsOf(chan[s][i]) : i \in k + 1 .. Len(chan[s])}]
  /\ UNCHANGED <<clientVars, backendVars, unmounts, failures>>
-----------------------------------------------------------------------------
(* The gateway *)

Pending(d) == {u \in updates : Driver(u.socket) = d}

\* A handler issues its query; others of the driver may overtake it.
Issue(s, status) ==
  /\ updates' = updates \cup {Update(s, status)}
  /\ crossed' = crossed \cup {d \in {Driver(s)} : Pending(d) # {}}

\* on('message'): DRIVER_IDENTIFY, TELEMETRY_PING and TELEMETRY_BATCH.
Handle(s) ==
  LET m == Head(chan[s]) IN
  /\ s \in served
  /\ chan[s] # <<>>
  /\ chan' = [chan EXCEPT ![s] = Tail(@)]
  /\ \/ /\ m.op = "identify"
        /\ identified' = identified \cup {s}
        /\ registry' = [registry EXCEPT ![Driver(s)] = s]
        /\ Issue(s, "idle")
        /\ UNCHANGED got
     \/ /\ m.op = "pings"
        /\ got' = [got EXCEPT ![s] = @ \cup PingsOf(m)]
        /\ UNCHANGED <<identified, registry, updates, crossed>>
  /\ UNCHANGED <<clientVars, cut, lost, served, row, boundVars>>

Unregister(s) == registry' = [registry EXCEPT ![Driver(s)] = NoSocket]

SlipMarkOffline(s) == UNCHANGED <<updates, crossed>>
MarkOffline(s)     == Issue(s, "offline")

\* on('close'): the last message has been handled and the gateway has noticed.
\* The entry goes, whichever socket it holds.
GatewayClose(s) ==
  /\ s \in served
  /\ chan[s] = <<>>
  /\ s \in cut \/ ready[s] \in {"closing", "closed"}
  /\ served' = served \ {s}
  /\ IF s \in identified
     THEN Unregister(s) /\ MarkOffline(s)
     ELSE UNCHANGED <<registry, updates, crossed>>
  /\ UNCHANGED <<clientVars, netVars, identified, row, got, boundVars>>

Query(u) ==                              \* PostgreSQL executes an UPDATE
  /\ updates' = updates \ {u}
  /\ row' = [row EXCEPT ![Driver(u.socket)] = u.status]
  /\ UNCHANGED <<clientVars, netVars, served, identified, registry, crossed,
                 got, boundVars>>

\* The process ends, and every connection with it; of the updates on their way
\* some are executed.
Down ==
  /\ served' = {} /\ registry' = [d \in Drivers |-> NoSocket] /\ updates' = {}
  /\ cut' = cut \cup served
  /\ chan' = [s \in Sockets |-> <<>>]
  /\ lost' = [p \in Phones |-> lost[p] \cup UNION {OnTheWay(s) : s \in SocketsOf(p)}]
  /\ row' \in {r \in [Drivers -> {"idle", "offline"}] :
                 \A d \in Drivers : r[d] = row[d] \/ \E u \in Pending(d) : r[d] = u.status}
  /\ UNCHANGED <<identified, crossed>>

\* A rejected UPDATE, executed or not.  The message handler catches the error,
\* the close handler does not, and Node ends the process.
QueryFails(u) ==
  /\ failures < MaxFailures /\ failures' = failures + 1
  /\ \/ /\ u.status = "idle"
        /\ updates' = updates \ {u}
        /\ row' \in {row, [row EXCEPT ![Driver(u.socket)] = u.status]}
        /\ UNCHANGED <<served, identified, registry, crossed, netVars>>
     \/ u.status = "offline" /\ Down
  /\ UNCHANGED <<clientVars, got, breaks, unmounts>>

Crash ==                                 \* the backend restarts
  /\ failures < MaxFailures /\ failures' = failures + 1
  /\ Down
  /\ UNCHANGED <<clientVars, got, breaks, unmounts>>

Screen(p) == Mount(p) \/ GoOnline(p) \/ GoOffline(p) \/ Unmount(p) \/ Locate(p)

Next ==
  \/ \E p \in Phones : Screen(p) \/ Opened(p) \/ ConnectFails(p) \/ Reconnect(p)
  \/ \E s \in Sockets : Closed(s) \/ Break(s) \/ Handle(s) \/ GatewayClose(s)
  \/ \E u \in updates : Query(u) \/ QueryFails(u)
  \/ Crash

Spec == Init /\ [][Next]_vars

\* The network carries what is sent, a connection that can be made is made, and
\* the timers fire.  The phone notices a broken connection only by what it sends
\* over it, the heartbeat; when the gateway notices, nothing says.
Fairness ==
  /\ \A p \in Phones : WF_vars(Opened(p)) /\ WF_vars(Reconnect(p))
  /\ \A s \in Sockets : /\ WF_vars(Handle(s))
                        /\ WF_vars(Closed(s) /\ (s[1] \in heartbeat \/ ready[s] = "closing"))

FairSpec == Spec /\ Fairness
-----------------------------------------------------------------------------
(* Safety *)

Message == {Identify} \cup [op : {"pings"}, pings : Seq(Nat)]

TypeOK ==
  /\ online \subseteq mounted /\ mounted \subseteq Phones /\ heartbeat \subseteq Phones
  /\ ws \in [Phones -> Nat] /\ \A p \in Phones : ws[p] \in {0, made[p]}
  /\ timer \in [Phones -> {"none", "armed", "stale"}]
  /\ queue \in [Phones -> Seq(Nat)] /\ recorded \in [Phones -> Nat]
  /\ made \in [Phones -> 0 .. MaxSockets]
  /\ ready \in [Sockets -> {"new", "connecting", "open", "closing", "closed"}]
  /\ cut \subseteq Sockets /\ chan \in [Sockets -> Seq(Message)]
  /\ served \subseteq Sockets /\ identified \subseteq Sockets
  /\ registry \in [Drivers -> Sockets \cup {NoSocket}]
  /\ updates \subseteq [socket : identified, status : {"idle", "offline"}]
  /\ row \in [Drivers -> {"idle", "offline"}]
  /\ got \in [Sockets -> SUBSET Nat]
  /\ lost \in [Phones -> SUBSET Nat] /\ discarded \in [Phones -> SUBSET Nat]
  /\ crossed \subseteq Drivers
  /\ breaks \in Nat /\ unmounts \in Nat /\ failures \in Nat

\* However the timer, the switch and the mounting of the screen call connect,
\* a phone has one live socket at most, this.ws.
OneSocket ==
  \A s \in Sockets : ready[s] \in {"connecting", "open"} => ws[s[1]] = s[2]

\* The heartbeat never outlives its connection, so that onopen cannot start a
\* second one over it, which nothing would stop; and it runs as long as the
\* connection does, unless the close event of an unmounted screen's socket came
\* late and cleared the heartbeat of its successor.
HeartbeatRuns ==
  /\ \A p \in heartbeat : Connected(p)
  /\ unmounts = 0 => \A p \in Phones : Connected(p) => p \in heartbeat

\* A mounted phone without a socket has its reconnect timer running, unless the
\* screen was unmounted before: disconnect() keeps the handle of the timer it
\* clears, and scheduleReconnect does nothing while there is a handle.
WillReconnect ==
  unmounts = 0 =>
    \A p \in mounted : Connected(p) \/ Connecting(p) \/ timer[p] = "armed"

\* Every ping is in one place: in the queue, on its way, at the ingestion, gone
\* with a connection, or discarded when MaxBuffer newer ones had to be kept.
PingPlaces(p) ==
  <<ToSet(queue[p]), UNION {OnTheWay(s) : s \in SocketsOf(p)},
    UNION {got[s] : s \in SocketsOf(p)}, lost[p], discarded[p]>>

PingsAccounted ==
  \A p \in Phones : LET P == PingPlaces(p) IN
    /\ 1 .. recorded[p] = UNION ToSet(P)
    /\ \A i, j \in DOMAIN P : i # j => P[i] \cap P[j] = {}
    /\ Len(queue[p]) <= MaxBuffer

\* A socket's pings arrive in the order recorded, those of a newer socket are
\* newer, and those of the queue newer still: no live ping overtakes the queue.
PingsInOrder ==
  \A p \in Phones :
    /\ \A s, t \in SocketsOf(p) :
         \A m \in got[s] \cup OnTheWay(s) : \A n \in got[t] \cup OnTheWay(t) :
           s[2] < t[2] => m < n
    /\ \A s \in SocketsOf(p) :
         /\ \A m \in got[s] \cup OnTheWay(s) : \A n \in ToSet(queue[p]) : m < n
         /\ \A m \in got[s] : \A n \in OnTheWay(s) : m < n
         /\ \A i, j \in DOMAIN chan[s] : i < j =>
              \A m \in PingsOf(chan[s][i]) : \A n \in PingsOf(chan[s][j]) : m < n
    /\ \A i, j \in DOMAIN queue[p] : i < j => queue[p][i] < queue[p][j]

\* sendToDriver never picks a socket that is closed or another driver's.
RegistryLive ==
  \A d \in Drivers : registry[d] # NoSocket =>
    registry[d] \in served \cap identified /\ Driver(registry[d]) = d

\* As long as a driver's updates do not overlap, the row and the registry agree
\* once they are through, even where a stale socket has emptied the entry.
RowAgrees ==
  \A d \in Drivers \ crossed : failures = 0 /\ Pending(d) = {} =>
    (row[d] = "idle" <=> registry[d] # NoSocket)
-----------------------------------------------------------------------------
(* Liveness, under FairSpec *)

\* The phone gets its connection back, whatever broke it, as long as the screen
\* stays mounted: the heartbeat finds the broken ones.
Reconnects ==
  \A p \in Phones :
    (p \in mounted) ~> ((Connected(p) /\ Ws(p) \notin cut) \/ unmounts > 0)

\* A ping is ingested or gone in the end, and does not stay in the queue.
PingsLeave ==
  \A p \in Phones : \A n \in 1 .. MaxPings :
    (n <= recorded[p]) ~>
      (\/ n \in lost[p] \cup discarded[p] \/ \E i \in 1 .. MaxSockets : n \in got[<<p, i>>]
       \/ unmounts > 0)
-----------------------------------------------------------------------------
(* What the repository says and the code does not guarantee *)

\* gateway.ts:15: "Active driver sockets: driverId -> WebSocket".
ActiveRegistered ==
  \A s \in (served \cap identified) \ cut :
    ready[s] = "open" => registry[Driver(s)] # NoSocket
=============================================================================
