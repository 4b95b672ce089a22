---------------------- MODULE DriverConnectionProofs ----------------------
(***************************************************************************)
(* Proofs about DriverConnection, for any phones, drivers, sizes of queue  *)
(* and batch, and any number of sockets, breaks, unmounts and failures.    *)
(*                                                                         *)
(* IInv is inductive.  To the safety invariants it adds that only an       *)
(* unmounted screen makes a stale timer (NotStale) or a closing socket     *)
(* (NoneClosing), and which status an UPDATE under way will write          *)
(* (RowFollows), of which RowAgrees is the part that shows when none is.   *)
(* There is one lemma per invariant, with one step per action that changes *)
(* what the invariant is about.                                            *)
(***************************************************************************)
EXTENDS DriverConnection, TLAPS, SequenceTheorems

\* The type invariant in three parts: the phone, the pings, the gateway.
TypeClient ==
  /\ online \subseteq mounted /\ mounted \subseteq Phones /\ heartbeat \subseteq Phones
  /\ ws \in [Phones -> Nat] /\ \A p \in Phones : ws[p] \in {0, made[p]}
  /\ timer \in [Phones -> {"none", "armed", "stale"}]
  /\ made \in [Phones -> 0 .. MaxSockets]
  /\ ready \in [Sockets -> {"new", "connecting", "open", "closing", "closed"}]
  /\ breaks \in Nat /\ unmounts \in Nat /\ failures \in Nat

TypePings ==
  /\ queue \in [Phones -> Seq(Nat)] /\ recorded \in [Phones -> Nat]
  /\ cut \subseteq Sockets /\ chan \in [Sockets -> Seq(Message)]
  /\ got \in [Sockets -> SUBSET Nat]
  /\ lost \in [Phones -> SUBSET Nat] /\ discarded \in [Phones -> SUBSET Nat]

TypeGateway ==
  /\ served \subseteq Sockets /\ identified \subseteq Sockets
  /\ registry \in [Drivers -> Sockets \cup {NoSocket}]
  /\ updates \subseteq [socket : identified, status : {"idle", "offline"}]
  /\ row \in [Drivers -> {"idle", "offline"}]
  /\ crossed \subseteq Drivers

\* Only disconnect() closes a socket from the phone's side.
NoneClosing == unmounts = 0 => \A s \in Sockets : ready[s] # "closing"

\* Only disconnect() leaves a stale handle behind.
NotStale == unmounts = 0 => \A p \in Phones : timer[p] # "stale"

\* An update under way writes what the registry says, and so did the last one.
RowFollows ==
  \A d \in Drivers \ crossed : failures = 0 =>
    /\ Pending(d) = {} => (row[d] = "idle" <=> registry[d] # NoSocket)
    /\ \A u \in Pending(d) : u.status = "idle" <=> registry[d] # NoSocket
IInv ==
  /\ TypeClient /\ TypePings /\ TypeGateway
  /\ OneSocket /\ HeartbeatRuns /\ NoneClosing
  /\ WillReconnect /\ NotStale
  /\ RegistryLive /\ RowFollows
-----------------------------------------------------------------------------
(* What the operators do. *)

\* A socket belongs to a driver.
LEMMA DriverType ==
  ASSUME NEW s \in Sockets
  PROVE  Driver(s) \in Drivers
BY DriverAssumption DEF Driver, Sockets

\* The phone's socket is one of its own.
LEMMA WsSocket ==
  ASSUME TypeClient, NEW p \in Phones, ws[p] # 0
  PROVE  Ws(p) \in Sockets
BY DEF TypeClient, Ws, Sockets

\* connect leaves the phone with a socket that is open or about to be, and
\* touches nothing of another phone.
LEMMA ConnectEffect ==
  ASSUME TypeClient, NEW p \in Phones, Connect(p)
  PROVE  /\ ws' \in [Phones -> Nat] /\ made' \in [Phones -> 0 .. MaxSockets]
         /\ \A q \in Phones : ws'[q] \in {0, made'[q]}
         /\ ready' \in [Sockets -> {"new", "connecting", "open", "closing", "closed"}]
         /\ \A q \in Phones \ {p} : ws'[q] = ws[q]
         /\ \A s \in Sockets : s # <<p, ws'[p]>> => ready'[s] = ready[s]
         /\ ws'[p] # 0 /\ ready'[<<p, ws'[p]>>] \in {"connecting", "open"}
         /\ Connected(p) \/ Connecting(p) => ws' = ws /\ ready' = ready
<1>1. CASE Connected(p) \/ Connecting(p)
  BY <1>1 DEF TypeClient, Connect, Connected, Connecting, Ws, socketVars
<1>2. CASE ~ (Connected(p) \/ Connecting(p))
  <2>1. /\ made[p] < MaxSockets /\ made[p] \in 0 .. MaxSockets
        /\ made' = [made EXCEPT ![p] = @ + 1]
        /\ ws' = [ws EXCEPT ![p] = made[p] + 1]
        /\ ready' = [ready EXCEPT ![<<p, made[p] + 1>>] = "connecting"]
    BY <1>2 DEF Connect, TypeClient
  <2>2. MaxSockets \in Nat
    BY BoundAssumption
  <2>3. made[p] + 1 \in 1 .. MaxSockets /\ <<p, made[p] + 1>> \in Sockets
    BY <2>1, <2>2 DEF Sockets
  <2> QED
    BY <1>2, <2>1, <2>2, <2>3 DEF TypeClient
<1> QED
  BY <1>1, <1>2

\* It opens no connection and closes none.
LEMMA ConnectOpensNone ==
  ASSUME TypeClient, NEW p \in Phones, Connect(p), NEW q \in Phones
  PROVE  Connected(q)' <=> Connected(q)
<1>1. CASE q = p /\ ~ (Connected(p) \/ Connecting(p))
  <2>1. ws'[p] = made[p] + 1 /\ ready' = [ready EXCEPT ![<<p, made[p] + 1>>] = "connecting"]
    BY <1>1 DEF Connect, TypeClient
  <2>2. <<p, ws'[p]>> \in Sockets
    <3>1. ws'[p] \in {0, made'[p]} /\ ws'[p] # 0 /\ made'[p] \in 0 .. MaxSockets /\ MaxSockets \in Nat
      BY ConnectEffect, BoundAssumption
    <3> QED
      BY <3>1 DEF Sockets
  <2>3. ready'[<<p, ws'[p]>>] = "connecting"
    BY <2>1, <2>2 DEF TypeClient
  <2> QED
    BY <1>1, <2>3 DEF Connected, Ws
<1>2. CASE q = p /\ (Connected(p) \/ Connecting(p))
  BY <1>2, ConnectEffect DEF Connected, Ws
<1>3. CASE q # p
  <2>1. ws'[q] = ws[q]
    BY <1>3, ConnectEffect
  <2>2. CASE ws[q] = 0
    BY <2>1, <2>2 DEF Connected
  <2>3. CASE ws[q] # 0
    <3>1. ready'[Ws(q)] = ready[Ws(q)]
      BY <1>3, <2>3, WsSocket, ConnectEffect DEF Ws
    <3> QED
      BY <2>1, <3>1 DEF Connected, Ws
  <2> QED
    BY <2>2, <2>3
<1> QED
  BY <1>1, <1>2, <1>3

\* What it does to each invariant of the phone.
LEMMA ConnectKeepsOne ==
  ASSUME TypeClient, OneSocket, NEW p \in Phones, Connect(p)
  PROVE  OneSocket'
<1> SUFFICES ASSUME NEW s \in Sockets, ready'[s] \in {"connecting", "open"}
             PROVE  ws'[s[1]] = s[2]
  BY DEF OneSocket
<1>1. PICK q \in Phones, n \in 1 .. MaxSockets : s = <<q, n>>
  BY DEF Sockets
<1>2. CASE s = <<p, ws'[p]>>
  BY <1>1, <1>2
<1>3. CASE s # <<p, ws'[p]>>
  <2>1. ready'[s] = ready[s]
    BY <1>3, ConnectEffect
  <2>2. ws[q] = n
    BY <2>1, <1>1 DEF OneSocket
  <2>3. CASE q = p
    <3>1. Connected(p) \/ Connecting(p)
      BY <1>1, <2>1, <2>2, <2>3 DEF Connected, Connecting, Ws
    <3> QED
      BY <1>1, <2>2, <2>3, <3>1, ConnectEffect
  <2>4. CASE q # p
    <3>1. ws'[q] = ws[q]
      BY <2>4, ConnectEffect
    <3> QED
      BY <1>1, <2>2, <3>1
  <2> QED
    BY <2>3, <2>4
<1> QED
  BY <1>2, <1>3

LEMMA ConnectKeepsHeartbeat ==
  ASSUME TypeClient, HeartbeatRuns, NoneClosing, NEW p \in Phones, Connect(p),
         UNCHANGED <<heartbeat, unmounts>>
  PROVE  HeartbeatRuns' /\ NoneClosing'
<1>1. \A q \in Phones : Connected(q)' <=> Connected(q)
  BY ConnectOpensNone
<1>2. NoneClosing'
  <2>1. ASSUME NEW s \in Sockets, ready'[s] = "closing"
        PROVE  ready[s] = "closing"
    BY <2>1, ConnectEffect
  <2> QED
    BY <2>1 DEF NoneClosing
<1>3. heartbeat \subseteq Phones
  BY DEF TypeClient
<1> QED
  BY <1>1, <1>2, <1>3 DEF HeartbeatRuns

LEMMA ConnectConnects ==
  ASSUME TypeClient, NEW p \in Phones, Connect(p)
  PROVE  /\ Connected(p)' \/ Connecting(p)'
         /\ \A q \in Phones \ {p} :
              Connected(q) \/ Connecting(q) => Connected(q)' \/ Connecting(q)'
<1>1. Connected(p)' \/ Connecting(p)'
  BY ConnectEffect DEF Connected, Connecting, Ws
<1>2. ASSUME NEW q \in Phones \ {p}, Connected(q) \/ Connecting(q)
      PROVE  Connected(q)' \/ Connecting(q)'
  <2>1. ws[q] # 0 /\ Ws(q) \in Sockets
    BY <1>2, WsSocket DEF Connected, Connecting
  <2>2. ws'[q] = ws[q] /\ ready'[Ws(q)] = ready[Ws(q)]
    BY <2>1, ConnectEffect DEF Ws
  <2> QED
    BY <1>2, <2>2 DEF Connected, Connecting, Ws
<1> QED
  BY <1>1, <1>2

\* Messages carry numbers of pings.
LEMMA PingsOfType ==
  ASSUME NEW m \in Message
  PROVE  PingsOf(m) \subseteq Nat
BY DEF Message, Identify, PingsOf, ToSet

\* A flush sends batches only.
LEMMA FlushedType ==
  ASSUME NEW q \in Seq(Nat)
  PROVE  Flushed(q) \in Seq(Message)
<1> DEFINE N == (Len(q) + MaxBatch - 1) \div MaxBatch
           E(i) == IF i * MaxBatch < Len(q) THEN i * MaxBatch ELSE Len(q)
<1>1. N \in Nat
  BY SizeAssumption
<1>2. ASSUME NEW i \in 1 .. N
      PROVE  SubSeq(q, (i - 1) * MaxBatch + 1, E(i)) \in Seq(Nat)
  <2>1. (i - 1) * MaxBatch \in Nat /\ i * MaxBatch \in Nat
    BY SizeAssumption
  <2>2. \A j \in (i - 1) * MaxBatch + 1 .. E(i) : q[j] \in Nat
    BY <2>1
  <2> QED
    BY <2>1, <2>2, SubSeqProperties
<1>3. \A i \in 1 .. N : Batch(SubSeq(q, (i - 1) * MaxBatch + 1, E(i))) \in Message
  BY <1>2 DEF Batch, Message
<1> QED
  BY <1>1, <1>3 DEF Flushed, Drained

\* The end of the process loses what was under way, and nothing more.
LEMMA DownType ==
  ASSUME TypePings, Down, served \subseteq Sockets
  PROVE  /\ cut' \subseteq Sockets /\ chan' \in [Sockets -> Seq(Message)]
         /\ lost' \in [Phones -> SUBSET Nat]
<1>1. \A s \in Sockets : OnTheWay(s) \subseteq Nat
  BY PingsOfType DEF TypePings, OnTheWay
<1>2. \A p \in Phones : SocketsOf(p) \subseteq Sockets
  BY DEF Sockets, SocketsOf
<1> QED
  BY <1>1, <1>2 DEF TypePings, Down

\* A query that is issued is the only one of its driver, or marks the driver.
LEMMA IssueEffect ==
  ASSUME NEW s \in Sockets, NEW status, Issue(s, status)
  PROVE  /\ crossed \subseteq crossed'
         /\ Driver(s) \notin crossed' => Pending(Driver(s))' = {Update(s, status)}
         /\ \A d \in Drivers \ {Driver(s)} : Pending(d)' = Pending(d)
BY DEF Issue, Pending, Update, Driver

\* A socket is not the absence of one.
LEMMA NotNoSocket ==
  ASSUME NEW s \in Sockets
  PROVE  s # NoSocket
<1>1. PICK p \in Phones, n \in 1 .. MaxSockets : s = <<p, n>>
  BY DEF Sockets
<1>2. Len(<<p, n>>) = 2
  OBVIOUS
<1> QED
  BY <1>1, <1>2 DEF NoSocket

\* An entry and the update issued with it agree.
LEMMA RowIssued ==
  ASSUME TypeGateway, RowFollows, NEW s \in Sockets, NEW status, Issue(s, status),
         NEW t, registry' = [registry EXCEPT ![Driver(s)] = t],
         status = "idle" <=> t # NoSocket, UNCHANGED <<row, failures>>
  PROVE  RowFollows'
<1> SUFFICES ASSUME NEW d \in Drivers \ crossed', failures' = 0
             PROVE  /\ Pending(d)' = {} => (row'[d] = "idle" <=> registry'[d] # NoSocket)
                    /\ \A u \in Pending(d)' : u.status = "idle" <=> registry'[d] # NoSocket
  BY DEF RowFollows
<1>1. CASE d = Driver(s)
  <2>1. Pending(d)' = {Update(s, status)} /\ registry'[d] = t
    BY <1>1, DriverType, IssueEffect DEF TypeGateway
  <2>2. Update(s, status).status = status
    BY DEF Update
  <2> QED
    BY <2>1, <2>2
<1>2. CASE d # Driver(s)
  <2>1. Pending(d)' = Pending(d) /\ registry'[d] = registry[d] /\ d \notin crossed
    BY <1>2, IssueEffect DEF TypeGateway
  <2> QED
    BY <2>1 DEF RowFollows
<1> QED
  BY <1>1, <1>2
-----------------------------------------------------------------------------
(* The steps, one lemma per invariant. *)

\* Types of the phone.
LEMMA TypeClientStep ==
  ASSUME TypeClient, [Next]_vars
  PROVE  TypeClient'
<1> USE DEF TypeClient, Sockets
<1>1. ASSUME NEW p \in Phones, Mount(p)
      PROVE  TypeClient'
  <2>1. Connect(p) /\ online' \subseteq mounted' /\ mounted' \subseteq Phones
    BY <1>1 DEF Mount
  <2> QED
    BY <1>1, <2>1, ConnectEffect DEF Mount, boundVars
<1>2. ASSUME NEW p \in Phones, GoOnline(p)
      PROVE  TypeClient'
  <2>1. Connect(p) /\ online' \subseteq mounted' /\ mounted' \subseteq Phones
    BY <1>2 DEF GoOnline
  <2> QED
    BY <1>2, <2>1, ConnectEffect DEF GoOnline, boundVars
<1>3. ASSUME NEW p \in Phones, GoOffline(p)
      PROVE  TypeClient'
  BY <1>3 DEF GoOffline, StopTracking, screenVars, phoneVars, pingVars,
      socketVars, netVars, gatewayVars, backendVars, clientVars, boundVars
<1>4. ASSUME NEW p \in Phones, Unmount(p)
      PROVE  TypeClient'
  BY <1>4, WsSocket DEF Unmount, StopTracking, Connected, Connecting, Ws,
      screenVars, phoneVars, pingVars, socketVars, netVars, gatewayVars,
      backendVars, clientVars, boundVars
<1>5. ASSUME NEW p \in Phones, Opened(p)
      PROVE  TypeClient'
  BY <1>5, WsSocket DEF Opened, StartHeartbeat, Connecting, Ws, screenVars,
      phoneVars, pingVars, socketVars, netVars, gatewayVars, backendVars,
      clientVars, boundVars
<1>6. ASSUME NEW p \in Phones, ConnectFails(p)
      PROVE  TypeClient'
  BY <1>6, WsSocket DEF ConnectFails, OnClose, Connecting, Ws, screenVars,
      phoneVars, pingVars, socketVars, netVars, gatewayVars, backendVars,
      clientVars, boundVars
<1>7. ASSUME NEW p \in Phones, Reconnect(p)
      PROVE  TypeClient'
  <2>1. CASE p \in mounted
    <3>1. Connect(p)
      BY <1>7, <2>1 DEF Reconnect
    <3> QED
      BY <1>7, <3>1, ConnectEffect DEF Reconnect, TimerFired, screenVars, boundVars
  <2>2. CASE p \notin mounted
    BY <1>7, <2>2 DEF Reconnect, TimerFired, screenVars, socketVars, boundVars
  <2> QED
    BY <2>1, <2>2
<1>8. ASSUME NEW s \in Sockets, Closed(s)
      PROVE  TypeClient'
  BY <1>8 DEF Closed, OnClose, screenVars, phoneVars, pingVars, socketVars,
      netVars, gatewayVars, backendVars, clientVars, boundVars
<1>9. ASSUME NEW s \in Sockets, Break(s)
      PROVE  TypeClient'
  BY <1>9 DEF Break, screenVars, phoneVars, pingVars, socketVars, netVars,
      gatewayVars, backendVars, clientVars, boundVars
<1>10. ASSUME NEW u \in updates, QueryFails(u)
       PROVE  TypeClient'
  BY <1>10 DEF QueryFails, Down, screenVars, phoneVars, pingVars, socketVars,
      netVars, gatewayVars, backendVars, clientVars, boundVars
<1>11. CASE Crash
  BY <1>11 DEF Crash, Down, screenVars, phoneVars, pingVars, socketVars,
      netVars, gatewayVars, backendVars, clientVars, boundVars
<1>12. CASE UNCHANGED <<mounted, online, ws, heartbeat, timer, made, ready,
                          breaks, unmounts, failures>>
  BY <1>12
<1> QED
  BY <1>1, <1>2, <1>3, <1>4, <1>5, <1>6, <1>7, <1>8, <1>9, <1>10, <1>11, <1>12
      DEF Next, Screen, Locate, Handle, GatewayClose, Query, vars, screenVars,
      phoneVars, pingVars, socketVars, netVars, gatewayVars, backendVars,
      clientVars, boundVars

\* Types of queue, connection and history.
LEMMA TypePingsStep ==
  ASSUME TypeClient, TypePings, TypeGateway, [Next]_vars
  PROVE  TypePings'
<1> USE DEF TypePings, TypeGateway
<1>1. ASSUME NEW p \in Phones, Locate(p)
      PROVE  TypePings'
  <2>1. recorded[p] + 1 \in Nat /\ queue[p] \in Seq(Nat)
    OBVIOUS
  <2>2. ASSUME NEW q \in Seq(Nat), NEW n \in Nat
        PROVE  Append(q, n) \in Seq(Nat) /\ (q # <<>> => Tail(q) \in Seq(Nat) /\ Head(q) \in Nat)
    OBVIOUS
  <2>3. CASE Connected(p)
    <3>1. Ws(p) \in Sockets
      BY <2>3, WsSocket DEF Connected
    <3>2. Batch(<<recorded[p] + 1>>) \in Message
      BY <2>1 DEF Batch, Message
    <3>3. Append(chan[Ws(p)], Batch(<<recorded[p] + 1>>)) \in Seq(Message)
      BY <3>1, <3>2
    <3>4. /\ UNCHANGED <<queue, discarded, cut, got>>
          /\ recorded' = [recorded EXCEPT ![p] = recorded[p] + 1]
          /\ \/ lost' = [lost EXCEPT ![p] = @ \cup {recorded[p] + 1}] /\ UNCHANGED chan
             \/ /\ chan' = [chan EXCEPT ![Ws(p)] = Append(@, Batch(<<recorded[p] + 1>>))]
                /\ UNCHANGED lost
      BY <1>1, <2>3 DEF Locate, backendVars
    <3>5. CASE lost' = [lost EXCEPT ![p] = @ \cup {recorded[p] + 1}] /\ UNCHANGED chan
      BY <2>1, <3>4, <3>5
    <3>6. CASE /\ chan' = [chan EXCEPT ![Ws(p)] = Append(@, Batch(<<recorded[p] + 1>>))]
               /\ UNCHANGED lost
      BY <2>1, <3>1, <3>3, <3>4, <3>6
    <3> QED
      BY <3>4, <3>5, <3>6
  <2>4. CASE ~ Connected(p)
    <3>1. Len(queue[p]) >= MaxBuffer => queue[p] # <<>>
      BY SizeAssumption
    <3>2. /\ UNCHANGED <<chan, lost, cut, got>>
          /\ recorded' = [recorded EXCEPT ![p] = recorded[p] + 1]
          /\ \/ /\ queue[p] # <<>>
                /\ queue' = [queue EXCEPT ![p] = Append(Tail(queue[p]), recorded[p] + 1)]
                /\ discarded' = [discarded EXCEPT ![p] = @ \cup {Head(queue[p])}]
             \/ /\ queue' = [queue EXCEPT ![p] = Append(queue[p], recorded[p] + 1)]
                /\ UNCHANGED discarded
      BY <1>1, <2>4, <3>1 DEF Locate, Enqueue, backendVars
    <3>3. CASE /\ queue' = [queue EXCEPT ![p] = Append(queue[p], recorded[p] + 1)]
               /\ UNCHANGED discarded
      BY <2>1, <2>2, <3>2, <3>3
    <3>4. CASE /\ queue[p] # <<>>
               /\ queue' = [queue EXCEPT ![p] = Append(Tail(queue[p]), recorded[p] + 1)]
               /\ discarded' = [discarded EXCEPT ![p] = @ \cup {Head(queue[p])}]
      <4>1. Append(Tail(queue[p]), recorded[p] + 1) \in Seq(Nat) /\ Head(queue[p]) \in Nat
        BY <2>1, <2>2, <3>4
      <4> QED
        BY <2>1, <3>2, <3>4, <4>1
    <3> QED
      BY <3>2, <3>3, <3>4
  <2> QED
    BY <2>3, <2>4
<1>2. ASSUME NEW p \in Phones, Opened(p)
      PROVE  TypePings'
  <2>1. Ws(p) \in Sockets /\ queue[p] \in Seq(Nat)
    BY <1>2, WsSocket DEF Opened, Connecting
  <2>2. <<Identify>> \in Seq(Message)
    BY DEF Identify, Message
  <2>3. Flushed(queue[p]) \in Seq(Message)
    BY <2>1, FlushedType
  <2>4. <<Identify>> \o Flushed(queue[p]) \in Seq(Message)
    BY <2>2, <2>3
  <2> QED
    BY <1>2, <2>1, <2>4 DEF Opened
<1>3. ASSUME NEW s \in Sockets, Break(s)
      PROVE  TypePings'
  <2>1. PICK k \in 0 .. Len(chan[s]) :
          /\ chan' = [chan EXCEPT ![s] = SubSeq(@, 1, k)]
          /\ lost' = [lost EXCEPT ![s[1]] =
                        @ \cup UNION {PingsOf(chan[s][i]) : i \in k + 1 .. Len(chan[s])}]
    BY <1>3 DEF Break
  <2>2. SubSeq(chan[s], 1, k) \in Seq(Message)
    BY SubSeqProperties
  <2>3. UNION {PingsOf(chan[s][i]) : i \in k + 1 .. Len(chan[s])} \subseteq Nat
    BY PingsOfType
  <2>4. s[1] \in Phones
    BY DEF Sockets
  <2> QED
    BY <1>3, <2>1, <2>2, <2>3, <2>4 DEF Break, clientVars, pingVars, backendVars
<1>4. ASSUME NEW s \in Sockets, Handle(s)
      PROVE  TypePings'
  <2>1. chan[s] # <<>> /\ chan[s] \in Seq(Message)
    BY <1>4 DEF Handle
  <2>2. Tail(chan[s]) \in Seq(Message) /\ Head(chan[s]) \in Message
    BY <2>1
  <2>3. PingsOf(Head(chan[s])) \subseteq Nat
    BY <2>2, PingsOfType
  <2> QED
    BY <1>4, <2>2, <2>3 DEF Handle, clientVars, pingVars
<1>5. ASSUME NEW u \in updates, QueryFails(u)
      PROVE  TypePings'
  BY <1>5, DownType DEF QueryFails, Down, screenVars, phoneVars, pingVars,
      socketVars, netVars, gatewayVars, backendVars, clientVars, boundVars
<1>6. CASE Crash
  BY <1>6, DownType DEF Crash, Down, screenVars, phoneVars, pingVars,
      socketVars, netVars, gatewayVars, backendVars, clientVars, boundVars
<1>7. CASE UNCHANGED <<queue, recorded, cut, chan, got, lost, discarded>>
  BY <1>7
<1> QED
  BY <1>1, <1>2, <1>3, <1>4, <1>5, <1>6, <1>7 DEF Next, Screen, Mount,
      GoOnline, GoOffline, Unmount, ConnectFails, Reconnect, Closed,
      GatewayClose, Query, vars, screenVars, phoneVars, pingVars, socketVars,
      netVars, gatewayVars, backendVars, clientVars, boundVars

\* Types of the gateway and the rows.
LEMMA TypeGatewayStep ==
  ASSUME TypeClient, TypeGateway, [Next]_vars
  PROVE  TypeGateway'
<1> USE DEF TypeGateway
<1>1. ASSUME NEW p \in Phones, Opened(p)
      PROVE  TypeGateway'
  BY <1>1, WsSocket DEF Opened, StartHeartbeat, Connecting, Ws, screenVars,
      phoneVars, pingVars, socketVars, netVars, gatewayVars, backendVars,
      clientVars, boundVars
<1>2. ASSUME NEW s \in Sockets, Handle(s)
      PROVE  TypeGateway'
  BY <1>2, DriverType DEF Handle, Issue, Update, screenVars, phoneVars,
      pingVars, socketVars, netVars, gatewayVars, backendVars, clientVars,
      boundVars
<1>3. ASSUME NEW s \in Sockets, GatewayClose(s)
      PROVE  TypeGateway'
  BY <1>3, DriverType DEF GatewayClose, Unregister, MarkOffline, Issue,
      Update, screenVars, phoneVars, pingVars, socketVars, netVars,
      gatewayVars, backendVars, clientVars, boundVars
<1>4. ASSUME NEW u \in updates, Query(u)
      PROVE  TypeGateway'
  BY <1>4 DEF Query, screenVars, phoneVars, pingVars, socketVars, netVars,
      gatewayVars, backendVars, clientVars, boundVars
<1>5. ASSUME NEW u \in updates, QueryFails(u)
      PROVE  TypeGateway'
  BY <1>5 DEF QueryFails, Down, screenVars, phoneVars, pingVars, socketVars,
      netVars, gatewayVars, backendVars, clientVars, boundVars
<1>6. CASE Crash
  BY <1>6 DEF Crash, Down, screenVars, phoneVars, pingVars, socketVars,
      netVars, gatewayVars, backendVars, clientVars, boundVars
<1>7. CASE UNCHANGED <<served, identified, registry, updates, row, crossed>>
  BY <1>7
<1> QED
  BY <1>1, <1>2, <1>3, <1>4, <1>5, <1>6, <1>7 DEF Next, Screen, Mount,
      GoOnline, GoOffline, Unmount, Locate, ConnectFails, Reconnect, Closed,
      Break, vars, screenVars, phoneVars, pingVars, socketVars, netVars,
      gatewayVars, backendVars, clientVars, boundVars

\* A socket goes live as this.ws or not at all.
LEMMA OneSocketStep ==
  ASSUME TypeClient, OneSocket, [Next]_vars
  PROVE  OneSocket'
<1>1. ASSUME NEW p \in Phones, Mount(p)
      PROVE  OneSocket'
  BY <1>1, ConnectKeepsOne DEF Mount
<1>2. ASSUME NEW p \in Phones, GoOnline(p)
      PROVE  OneSocket'
  BY <1>2, ConnectKeepsOne DEF GoOnline
<1>3. ASSUME NEW p \in Phones, Unmount(p)
      PROVE  OneSocket'
  BY <1>3 DEF Unmount, StopTracking, Connected, Connecting, Ws, TypeClient,
      OneSocket, Sockets, Ws, Connected, Connecting, screenVars, phoneVars,
      pingVars, socketVars, netVars, gatewayVars, backendVars, clientVars,
      boundVars
<1>4. ASSUME NEW p \in Phones, Opened(p)
      PROVE  OneSocket'
  BY <1>4 DEF Opened, StartHeartbeat, Connecting, Ws, TypeClient, OneSocket,
      Sockets, Ws, Connected, Connecting, screenVars, phoneVars, pingVars,
      socketVars, netVars, gatewayVars, backendVars, clientVars, boundVars
<1>5. ASSUME NEW p \in Phones, ConnectFails(p)
      PROVE  OneSocket'
  BY <1>5 DEF ConnectFails, OnClose, Connecting, Ws, TypeClient, OneSocket,
      Sockets, Ws, Connected, Connecting, screenVars, phoneVars, pingVars,
      socketVars, netVars, gatewayVars, backendVars, clientVars, boundVars
<1>6. ASSUME NEW p \in Phones, Reconnect(p)
      PROVE  OneSocket'
  <2>1. CASE p \in mounted
    BY <1>6, <2>1, ConnectKeepsOne DEF Reconnect, boundVars
  <2>2. CASE p \notin mounted
    BY <1>6, <2>2 DEF Reconnect, OneSocket, Connected, Ws, socketVars, boundVars
  <2> QED
    BY <2>1, <2>2
<1>7. ASSUME NEW s \in Sockets, Closed(s)
      PROVE  OneSocket'
  BY <1>7 DEF Closed, OnClose, TypeClient, OneSocket, Sockets, Ws, Connected,
      Connecting, screenVars, phoneVars, pingVars, socketVars, netVars,
      gatewayVars, backendVars, clientVars, boundVars
<1>8. CASE UNCHANGED <<ws, ready>>
  BY <1>8 DEF TypeClient, OneSocket, Sockets, Ws, Connected, Connecting
<1> QED
  BY <1>1, <1>2, <1>3, <1>4, <1>5, <1>6, <1>7, <1>8 DEF Next, Screen,
      GoOffline, Locate, Break, Handle, GatewayClose, Query, QueryFails,
      Crash, vars, Down, screenVars, phoneVars, pingVars, socketVars, netVars,
      gatewayVars, backendVars, clientVars, boundVars

\* onopen starts a heartbeat, onclose and disconnect stop it.
LEMMA HeartbeatStep ==
  ASSUME TypeClient, OneSocket, HeartbeatRuns, NoneClosing, [Next]_vars
  PROVE  (HeartbeatRuns /\ NoneClosing)'
<1>1. ASSUME NEW p \in Phones, Mount(p)
      PROVE  (HeartbeatRuns /\ NoneClosing)'
  BY <1>1, ConnectKeepsHeartbeat DEF Mount, boundVars
<1>2. ASSUME NEW p \in Phones, GoOnline(p)
      PROVE  (HeartbeatRuns /\ NoneClosing)'
  BY <1>2, ConnectKeepsHeartbeat DEF GoOnline, boundVars
<1>3. ASSUME NEW p \in Phones, Unmount(p)
      PROVE  (HeartbeatRuns /\ NoneClosing)'
  BY <1>3 DEF Unmount, StopTracking, Connected, Connecting, Ws, TypeClient,
      OneSocket, HeartbeatRuns, NoneClosing, Sockets, Connected, Connecting,
      Ws, screenVars, phoneVars, pingVars, socketVars, netVars, gatewayVars,
      backendVars, clientVars, boundVars
<1>4. ASSUME NEW p \in Phones, Opened(p)
      PROVE  (HeartbeatRuns /\ NoneClosing)'
  BY <1>4 DEF Opened, StartHeartbeat, Connecting, Ws, TypeClient, OneSocket,
      HeartbeatRuns, NoneClosing, Sockets, Connected, Connecting, Ws,
      screenVars, phoneVars, pingVars, socketVars, netVars, gatewayVars,
      backendVars, clientVars, boundVars
<1>5. ASSUME NEW p \in Phones, ConnectFails(p)
      PROVE  (HeartbeatRuns /\ NoneClosing)'
  BY <1>5 DEF ConnectFails, OnClose, Connecting, Ws, TypeClient, OneSocket,
      HeartbeatRuns, NoneClosing, Sockets, Connected, Connecting, Ws,
      screenVars, phoneVars, pingVars, socketVars, netVars, gatewayVars,
      backendVars, clientVars, boundVars
<1>6. ASSUME NEW p \in Phones, Reconnect(p)
      PROVE  (HeartbeatRuns /\ NoneClosing)'
  <2>1. CASE p \in mounted
    BY <1>6, <2>1, ConnectKeepsHeartbeat DEF Reconnect, boundVars
  <2>2. CASE p \notin mounted
    BY <1>6, <2>2 DEF Reconnect, HeartbeatRuns, NoneClosing, Connected, Ws, socketVars, boundVars
  <2> QED
    BY <2>1, <2>2
<1>7. ASSUME NEW s \in Sockets, Closed(s)
      PROVE  (HeartbeatRuns /\ NoneClosing)'
  BY <1>7 DEF Closed, OnClose, TypeClient, OneSocket, HeartbeatRuns,
      NoneClosing, Sockets, Connected, Connecting, Ws, screenVars, phoneVars,
      pingVars, socketVars, netVars, gatewayVars, backendVars, clientVars,
      boundVars
<1>8. CASE UNCHANGED <<ws, ready, heartbeat, unmounts>>
  BY <1>8 DEF TypeClient, OneSocket, HeartbeatRuns, NoneClosing, Sockets,
      Connected, Connecting, Ws
<1> QED
  BY <1>1, <1>2, <1>3, <1>4, <1>5, <1>6, <1>7, <1>8 DEF Next, Screen,
      GoOffline, Locate, Break, Handle, GatewayClose, Query, QueryFails,
      Crash, vars, Down, screenVars, phoneVars, pingVars, socketVars, netVars,
      gatewayVars, backendVars, clientVars, boundVars

\* onclose arms the timer, the timer connects.
LEMMA WillReconnectStep ==
  ASSUME TypeClient, WillReconnect, NotStale, [Next]_vars
  PROVE  (WillReconnect /\ NotStale)'
<1>1. ASSUME NEW p \in Phones, Mount(p)
      PROVE  (WillReconnect /\ NotStale)'
  <2>1. Connect(p) /\ UNCHANGED unmounts /\ timer' = timer /\ mounted' \subseteq mounted \cup {p}
    BY <1>1 DEF Mount, boundVars
  <2> QED
    BY <2>1, ConnectConnects DEF TypeClient, WillReconnect, NotStale
<1>2. ASSUME NEW p \in Phones, GoOnline(p)
      PROVE  (WillReconnect /\ NotStale)'
  <2>1. Connect(p) /\ UNCHANGED unmounts /\ timer' = timer /\ mounted' \subseteq mounted \cup {p}
    BY <1>2 DEF GoOnline, boundVars
  <2> QED
    BY <2>1, ConnectConnects DEF TypeClient, WillReconnect, NotStale
<1>3. ASSUME NEW p \in Phones, Unmount(p)
      PROVE  (WillReconnect /\ NotStale)'
  BY <1>3 DEF Unmount, StopTracking, Connected, Connecting, Ws, TypeClient,
      WillReconnect, NotStale, Sockets, Connected, Connecting, Ws, screenVars,
      phoneVars, pingVars, socketVars, netVars, gatewayVars, backendVars,
      clientVars, boundVars
<1>4. ASSUME NEW p \in Phones, Opened(p)
      PROVE  (WillReconnect /\ NotStale)'
  BY <1>4 DEF Opened, StartHeartbeat, Connecting, Ws, TypeClient,
      WillReconnect, NotStale, Sockets, Connected, Connecting, Ws, screenVars,
      phoneVars, pingVars, socketVars, netVars, gatewayVars, backendVars,
      clientVars, boundVars
<1>5. ASSUME NEW p \in Phones, ConnectFails(p)
      PROVE  (WillReconnect /\ NotStale)'
  BY <1>5 DEF ConnectFails, OnClose, Connecting, Ws, TypeClient,
      WillReconnect, NotStale, Sockets, Connected, Connecting, Ws, screenVars,
      phoneVars, pingVars, socketVars, netVars, gatewayVars, backendVars,
      clientVars, boundVars
<1>6. ASSUME NEW p \in Phones, Reconnect(p)
      PROVE  (WillReconnect /\ NotStale)'
  <2>1. CASE p \in mounted
    <3>1. Connect(p) /\ UNCHANGED <<unmounts, mounted>> /\ timer' = [timer EXCEPT ![p] = "none"]
      BY <1>6, <2>1 DEF Reconnect, TimerFired, boundVars, screenVars
    <3> QED
      BY <3>1, ConnectConnects DEF TypeClient, WillReconnect, NotStale
  <2>2. CASE p \notin mounted
    BY <1>6, <2>2 DEF Reconnect, TimerFired, boundVars, screenVars, socketVars, TypeClient,
                   WillReconnect, NotStale, Connected, Connecting, Ws
  <2> QED
    BY <2>1, <2>2
<1>7. ASSUME NEW s \in Sockets, Closed(s)
      PROVE  (WillReconnect /\ NotStale)'
  BY <1>7 DEF Closed, OnClose, TypeClient, WillReconnect, NotStale, Sockets,
      Connected, Connecting, Ws, screenVars, phoneVars, pingVars, socketVars,
      netVars, gatewayVars, backendVars, clientVars, boundVars
<1>8. CASE UNCHANGED <<mounted, ws, ready, timer, unmounts>>
  BY <1>8 DEF TypeClient, WillReconnect, NotStale, Sockets, Connected,
      Connecting, Ws
<1> QED
  BY <1>1, <1>2, <1>3, <1>4, <1>5, <1>6, <1>7, <1>8 DEF Next, Screen,
      GoOffline, Locate, Break, Handle, GatewayClose, Query, QueryFails,
      Crash, vars, Down, screenVars, phoneVars, pingVars, socketVars, netVars,
      gatewayVars, backendVars, clientVars, boundVars

\* The close handler takes the entry with the socket.
LEMMA RegistryLiveStep ==
  ASSUME TypeClient, TypeGateway, RegistryLive, [Next]_vars
  PROVE  RegistryLive'
<1> USE DEF RegistryLive
<1>1. ASSUME NEW p \in Phones, Opened(p)
      PROVE  RegistryLive'
  BY <1>1 DEF Opened, StartHeartbeat, Connecting, Ws, screenVars, phoneVars,
      pingVars, socketVars, netVars, gatewayVars, backendVars, clientVars,
      boundVars
<1>2. ASSUME NEW s \in Sockets, Handle(s)
      PROVE  RegistryLive'
  BY <1>2, DriverType DEF Handle, Issue, Update, TypeGateway, screenVars,
      phoneVars, pingVars, socketVars, netVars, gatewayVars, backendVars,
      clientVars, boundVars
<1>3. ASSUME NEW s \in Sockets, GatewayClose(s)
      PROVE  RegistryLive'
  BY <1>3, DriverType DEF GatewayClose, Unregister, MarkOffline, Issue,
      Update, TypeGateway, screenVars, phoneVars, pingVars, socketVars,
      netVars, gatewayVars, backendVars, clientVars, boundVars
<1>4. ASSUME NEW u \in updates, QueryFails(u)
      PROVE  RegistryLive'
  BY <1>4 DEF QueryFails, Down, TypeGateway, screenVars, phoneVars, pingVars,
      socketVars, netVars, gatewayVars, backendVars, clientVars, boundVars
<1>5. CASE Crash
  BY <1>5 DEF Crash, Down, TypeGateway, screenVars, phoneVars, pingVars,
      socketVars, netVars, gatewayVars, backendVars, clientVars, boundVars
<1>6. CASE UNCHANGED <<served, identified, registry>>
  BY <1>6
<1> QED
  BY <1>1, <1>2, <1>3, <1>4, <1>5, <1>6 DEF Next, Screen, Mount, GoOnline,
      GoOffline, Unmount, Locate, ConnectFails, Reconnect, Closed, Break,
      Query, vars, screenVars, phoneVars, pingVars, socketVars, netVars,
      gatewayVars, backendVars, clientVars, boundVars

\* An entry changes together with the update that follows it.
LEMMA RowStep ==
  ASSUME TypeClient, TypeGateway, RowFollows, [Next]_vars
  PROVE  RowFollows'
<1>1. ASSUME NEW s \in Sockets, Handle(s)
      PROVE  RowFollows'
  <2>1. CASE Head(chan[s]).op = "identify"
    <3>1. /\ Issue(s, "idle") /\ row' = row /\ failures' = failures
          /\ registry' = [registry EXCEPT ![Driver(s)] = s]
      BY <1>1, <2>1 DEF Handle, boundVars
    <3> QED
      BY <3>1, NotNoSocket, RowIssued DEF TypeGateway
  <2>2. CASE Head(chan[s]).op # "identify"
    BY <1>1, <2>2 DEF Handle, boundVars, RowFollows, Pending
  <2> QED
    BY <2>1, <2>2
<1>2. ASSUME NEW s \in Sockets, GatewayClose(s)
      PROVE  RowFollows'
  <2>1. CASE s \in identified
    <3>1. /\ Issue(s, "offline") /\ row' = row /\ failures' = failures
          /\ registry' = [registry EXCEPT ![Driver(s)] = NoSocket]
      BY <1>2, <2>1 DEF GatewayClose, Unregister, MarkOffline, boundVars
    <3>2. "offline" = "idle" <=> NoSocket # NoSocket
      OBVIOUS
    <3> QED
      BY <3>1, <3>2, RowIssued, Zenon
  <2>2. CASE s \notin identified
    BY <1>2, <2>2 DEF GatewayClose, boundVars, RowFollows, Pending
  <2> QED
    BY <2>1, <2>2
<1>3. ASSUME NEW u \in updates, Query(u)
      PROVE  RowFollows'
  BY <1>3 DEF Query, TypeGateway, Pending, RowFollows, screenVars, phoneVars,
      pingVars, socketVars, netVars, gatewayVars, backendVars, clientVars,
      boundVars
<1>4. ASSUME NEW u \in updates, QueryFails(u)
      PROVE  RowFollows'
  BY <1>4 DEF QueryFails, Down, TypeClient, RowFollows, screenVars, phoneVars,
      pingVars, socketVars, netVars, gatewayVars, backendVars, clientVars,
      boundVars
<1>5. CASE Crash
  BY <1>5 DEF Crash, Down, TypeClient, RowFollows, screenVars, phoneVars,
      pingVars, socketVars, netVars, gatewayVars, backendVars, clientVars,
      boundVars
<1>6. CASE UNCHANGED <<registry, updates, row, crossed, failures>>
  BY <1>6 DEF Pending, RowFollows
<1> QED
  BY <1>1, <1>2, <1>3, <1>4, <1>5, <1>6 DEF Next, Screen, Mount, GoOnline,
      GoOffline, Unmount, Locate, Opened, ConnectFails, Reconnect, Closed,
      Break, vars, screenVars, phoneVars, pingVars, socketVars, netVars,
      gatewayVars, backendVars, clientVars, boundVars
-----------------------------------------------------------------------------
(* The theorems. *)

\* The invariant holds at the start, and every step preserves it.
LEMMA InvInit == Init => IInv
<1> SUFFICES ASSUME Init PROVE IInv
  OBVIOUS
<1> USE DEF Init
<1>0. MaxSockets \in Nat
  BY BoundAssumption
<1>1. TypeClient /\ NotStale /\ WillReconnect
  BY <1>0 DEF TypeClient, NotStale, WillReconnect
<1>2. TypePings
  BY DEF TypePings
<1>3. TypeGateway /\ RegistryLive
  BY DEF TypeGateway, RegistryLive
<1>4. OneSocket /\ HeartbeatRuns /\ NoneClosing
  BY DEF OneSocket, HeartbeatRuns, NoneClosing, Connected
<1>5. RowFollows
  BY DEF RowFollows, Pending
<1> QED
  BY <1>1, <1>2, <1>3, <1>4, <1>5 DEF IInv

LEMMA InvStep == IInv /\ [Next]_vars => IInv'
<1> SUFFICES ASSUME IInv, [Next]_vars PROVE IInv'
  OBVIOUS
<1> USE DEF IInv
<1>1. TypeClient' /\ TypePings' /\ TypeGateway'
  BY TypeClientStep, TypePingsStep, TypeGatewayStep
<1>2. OneSocket' /\ (HeartbeatRuns /\ NoneClosing)' /\ (WillReconnect /\ NotStale)'
  BY OneSocketStep, HeartbeatStep, WillReconnectStep
<1>3. RegistryLive' /\ RowFollows'
  BY RegistryLiveStep, RowStep
<1> QED
  BY <1>1, <1>2, <1>3

LEMMA Invariance == Spec => []IInv
  BY InvInit, InvStep, PTL DEF Spec

\* The state of phone, network and gateway keeps its types: a phone's socket is
\* the last it created, and the screen's switch is off while it is unmounted.
THEOREM TypeCorrect == Spec => []TypeOK
<1>1. IInv => TypeOK
  BY DEF IInv, TypeOK, TypeClient, TypePings, TypeGateway
<1> QED
  BY <1>1, Invariance, PTL

\* connect() is called from the timer, the switch and the screen, and close
\* events come late: still a phone has one live socket at most.
THEOREM OneLiveSocket == Spec => []OneSocket
<1>1. IInv => OneSocket
  BY DEF IInv
<1> QED
  BY <1>1, Invariance, PTL

\* No heartbeat outlives its connection, so startHeartbeat never starts a second,
\* and until a screen is unmounted every open connection has one.
THEOREM HeartbeatsRun == Spec => []HeartbeatRuns
<1>1. IInv => HeartbeatRuns
  BY DEF IInv
<1> QED
  BY <1>1, Invariance, PTL

\* Until a screen is unmounted, an unconnected phone always has its timer armed.
THEOREM TimerArmed == Spec => []WillReconnect
<1>1. IInv => WillReconnect
  BY DEF IInv
<1> QED
  BY <1>1, Invariance, PTL

\* driverSockets never holds a socket that the gateway has closed.
THEOREM EntriesLive == Spec => []RegistryLive
<1>1. IInv => RegistryLive
  BY DEF IInv
<1> QED
  BY <1>1, Invariance, PTL

\* Row and registry agree as long as a driver's updates do not overlap.
THEOREM RowsAgree == Spec => []RowAgrees
<1>1. IInv => RowAgrees
  BY DEF IInv, RowFollows, RowAgrees
<1> QED
  BY <1>1, Invariance, PTL
=============================================================================
