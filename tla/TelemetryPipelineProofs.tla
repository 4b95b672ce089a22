---------------------- MODULE TelemetryPipelineProofs ----------------------
(***************************************************************************)
(* Proofs about TelemetryPipeline, for any drivers, messages and batch     *)
(* size, and any number of failures, signals, crashes and restarts.        *)
(*                                                                         *)
(* IInv is inductive.  The safety invariants of TelemetryPipeline lean on  *)
(*   - what a queued command was issued for (Queue): an XACK waits on the  *)
(*     connection long after its flush stored the batch;                   *)
(*   - how far a flush is with its batch (InFlight);                       *)
(*   - a process that ended leaves nothing behind in memory (Dead), and    *)
(*     one that shuts down was told to (Stopping);                         *)
(*   - without overlapping flushes records reach the history in stream     *)
(*     order (InOrder), so that a row falls behind only for a flush that   *)
(*     is about to renew it (RowsFollow);                                  *)
(*   - the position in the GEO set is that of the last XADD of the driver  *)
(*     that is queued, or else of the last one done (GeoFollows).          *)
(* There is one lemma per conjunct, with one step per action.              *)
(***************************************************************************)
EXTENDS TelemetryPipeline, TLAPS, FiniteSetTheorems, SequenceTheorems,
        WellFoundedInduction

\* A queued XACK names records of the history, and QUIT follows a signal.
Sound == {c \in Command : /\ c.op = "ack" => c.batch \subseteq stored
                          /\ c.op = "quit" => stops > 0}
Queue == conn \in Seq(Sound)

\* A flush that has rows left to update holds them in todo, and gets past its
\* INSERT only when its whole batch is in the history.
InFlight ==
  \A f \in flushes :
    /\ f.todo \subseteq DriversOf(f.batch)
    /\ f.at = "insert" => f.todo = DriversOf(f.batch)
    /\ f.at = "update" => f.todo # {}
    /\ f.at # "insert" => f.batch \subseteq stored

\* Only a signal begins a shutdown.
Stopping ==
  /\ stage \in {"flush", "close", "pool", "quit"} => stops > 0
  /\ \A f \in flushes : f.by = "shutdown" => stops > 0

\* A process that has ended holds nothing: Start begins with empty buffers.
Dead == ~ Alive => conn = <<>> /\ flushes = {} /\ buffer = {}
-----------------------------------------------------------------------------
(* What the operators and the steps do. *)

\* Sets of IDs have a least element: a driver in the Map has a first record.
LEMMA LeastExists ==
  ASSUME NEW S \in SUBSET Nat, S # {}
  PROVE  \E n \in S : \A k \in S : n <= k
<1>1. PICK n \in S : \A k \in S : ~ (<<k, n>> \in OpToRel(<, Nat))
  BY NatLessThanWellFounded, WFMin
<1>2. \A k \in S : ~ (k < n)
  BY <1>1 DEF OpToRel
<1> QED
  BY <1>2

\* A bounded set of IDs has a greatest element: a driver has a last record.
LEMMA GreatestExists ==
  ASSUME NEW S \in SUBSET Nat, S # {}, NEW c \in Nat, \A n \in S : n <= c
  PROVE  \E n \in S : \A k \in S : k <= n
<1> DEFINE T == {c - n : n \in S}
<1>0. \A n \in S : c - n \in Nat
  OBVIOUS
<1>1. T \in SUBSET Nat /\ T # {}
  BY <1>0
<1>2. PICK t \in T : \A k \in T : t <= k
  BY <1>1, LeastExists
<1>3. PICK n \in S : t = c - n
  OBVIOUS
<1>4. \A k \in S : c - n <= c - k
  BY <1>2, <1>3
<1>5. \A k \in S : k <= n
  BY <1>4
<1> QED
  BY <1>5

\* What a step does to the connection, taking a command off its front and
\* adding one at its end, keeps the type of the queue.
LEMMA QueueStep ==
  ASSUME NEW S, NEW T, S \subseteq T, NEW q \in Seq(S), NEW c \in T
  PROVE  /\ q \in Seq(T)
         /\ Append(q, c) \in Seq(T)
         /\ q # <<>> => Tail(q) \in Seq(T) /\ Append(Tail(q), c) \in Seq(T)
<1>1. q \in Seq(T)
  BY SeqMonotonic
<1>2. q # <<>> => Tail(q) \in Seq(T)
  BY <1>1, HeadTailProperties
<1> QED
  BY <1>1, <1>2, AppendProperties

\* The front of the queue and what is behind it have the type of the queue.
LEMMA HeadSound ==
  ASSUME TypeOK, conn # <<>>
  PROVE  Head(conn) \in Command /\ Tail(conn) \in Seq(Command)
BY HeadTailProperties DEF TypeOK

\* XREADGROUP moves the cursor past the entries it delivers, no further.
LEMMA FetchedEffect ==
  ASSUME TypeOK, cursor < Len(stream)
  PROVE  /\ cursor + Cardinality(Fetched) \in cursor + 1 .. Len(stream)
         /\ Fetched = cursor + 1 .. cursor + Cardinality(Fetched)
         /\ IsFiniteSet(Fetched)
         /\ Cardinality(Fetched) \in 1 .. BatchSize
<1> DEFINE m == IF cursor + BatchSize < Len(stream) THEN cursor + BatchSize ELSE Len(stream)
<1>1. stream \in Seq(Pings) /\ Len(stream) \in Nat /\ cursor \in Nat /\ BatchSize \in Nat \ {0}
  BY SizeAssumption, LenProperties DEF TypeOK
<1>2. m \in Nat /\ cursor < m /\ m <= Len(stream) /\ m - cursor <= BatchSize
  BY <1>1
<1>3. Fetched = cursor + 1 .. m
  BY DEF Fetched
<1>4. IsFiniteSet(Fetched) /\ Cardinality(Fetched) = m - cursor
  <2> HIDE DEF m
  <2> QED  BY <1>1, <1>2, <1>3, FS_Interval
<1> HIDE DEF m
<1> QED
  BY <1>1, <1>2, <1>3, <1>4

\* The UPDATE of a flush writes the ID of a record in its batch.
LEMMA UpdateEffect ==
  ASSUME TypeOK, InFlight, NEW f \in flushes, f.at = "update"
  PROVE  LET d == FirstDriver(f.batch, f.todo) IN
         /\ d \in f.todo
         /\ Newest(f.batch, d) \in f.batch
         /\ \A k \in f.batch : DriverAt(k) = d => k <= Newest(f.batch, d)
<1> DEFINE d == FirstDriver(f.batch, f.todo)
<1> DEFINE S == {n \in f.batch : DriverAt(n) \in f.todo}
<1> DEFINE T == {n \in f.batch : DriverAt(n) = d}
<1>1. /\ f.batch \subseteq 1 .. cursor /\ cursor \in Nat
      /\ f.todo \subseteq DriversOf(f.batch) /\ f.todo # {}
  BY LenProperties DEF TypeOK, InFlight
<1>2. S # {} /\ S \in SUBSET Nat
  BY <1>1 DEF DriversOf
<1>3. \E n \in S : \A k \in S : n <= k
  BY <1>2, LeastExists
<1>4. \E n \in f.batch : /\ DriverAt(n) \in f.todo
                         /\ \A k \in f.batch : DriverAt(k) \in f.todo => n <= k
  BY <1>3
<1>5. d \in f.todo
  BY <1>4 DEF FirstDriver
<1> HIDE DEF d
<1>6. T # {} /\ T \in SUBSET Nat /\ \A n \in T : n <= cursor
  BY <1>1, <1>5 DEF DriversOf
<1>7. \E n \in T : \A k \in T : k <= n
  BY <1>1, <1>6, GreatestExists
<1>8. \E n \in f.batch : DriverAt(n) = d /\ \A k \in f.batch : DriverAt(k) = d => k <= n
  BY <1>7
<1>9. /\ Newest(f.batch, d) \in f.batch
      /\ \A k \in f.batch : DriverAt(k) = d => k <= Newest(f.batch, d)
  BY <1>8 DEF Newest
<1> QED
  BY <1>5, <1>9 DEF d

\* The poll loop issues a read or ends.
LEMMA AgainEffect ==
  ASSUME NEW q, Again(q), NEW S, q \in Seq(S), Read \in S
  PROVE  conn' \in Seq(S) /\ loop' \in {"reading", "ended"}
BY AppendProperties DEF Again

\* A flush that ends leaves the others alone and may let the loop go on.
LEMMA EndFlushEffect ==
  ASSUME TypeOK, NEW f \in flushes, NEW q, EndFlush(f, q), NEW S, q \in Seq(S), Read \in S
  PROVE  /\ conn' \in Seq(S)
         /\ flushes' = flushes \ {f}
         /\ loop' \in {"reading", "flushing", "waiting", "ended"}
         /\ stage' \in {stage, "close"}
BY AgainEffect DEF EndFlush, TypeOK

\* The history only grows, the stream keeps its entries in place and gains some
\* at its end, and the cursor only moves on.
LEMMA Monotone ==
  ASSUME TypeOK, [Next]_vars
  PROVE  /\ stored \subseteq stored'
         /\ stream' \in Seq(Pings)
         /\ Len(stream) <= Len(stream')
         /\ \A n \in 1 .. Len(stream) : stream'[n] = stream[n]
         /\ cursor <= cursor'
         /\ cursor' \in 0 .. Len(stream')
         /\ received' \subseteq Messages
         /\ geo' \in [Drivers -> Pings \cup {None}]
<1> USE DEF TypeOK
<1>0. CASE UNCHANGED <<stream, cursor, stored, received, geo>>
  BY <1>0, LenProperties
<1>1. CASE \E m \in Messages : Receive(m)
  BY <1>1, LenProperties DEF Receive, redisVars, dbVars
<1>2. CASE GeoAdd
  <2>1. PingOf(Head(conn)) \in Pings
    <3>1. Head(conn) \in Command /\ Head(conn).op = "geo"
      BY <1>2, HeadSound DEF GeoAdd, NextIs
    <3>2. Head(conn).msg \in Messages /\ Head(conn).index \in DOMAIN Payload[Head(conn).msg]
      BY <3>1 DEF Command, Read, Quit
    <3> QED
      BY <3>2, PayloadAssumption, ElementOfSeq, LenProperties DEF PingOf
  <2>2. geo' \in {geo, [geo EXCEPT ![Owner[PingOf(Head(conn))]] = PingOf(Head(conn))]}
    BY <1>2 DEF GeoAdd
  <2>3. geo' \in [Drivers -> Pings \cup {None}]
    BY <2>1, <2>2
  <2> QED
    BY <1>2, <2>3, LenProperties DEF GeoAdd, dbVars, procVars
<1>3. ASSUME NextIs("add"), stream' = Append(stream, PingOf(Head(conn))),
             UNCHANGED <<cursor, stored, received, geo>>
      PROVE  stream' \in Seq(Pings) /\ Len(stream') = Len(stream) + 1
             /\ \A n \in 1 .. Len(stream) : stream'[n] = stream[n]
  <2>1. Head(conn) \in Command /\ Head(conn).op = "add"
    BY <1>3, HeadSound DEF NextIs
  <2>2. Head(conn).msg \in Messages /\ Head(conn).index \in DOMAIN Payload[Head(conn).msg]
    BY <2>1 DEF Command, Read, Quit
  <2>3. PingOf(Head(conn)) \in Pings
    BY <2>2, PayloadAssumption, ElementOfSeq, LenProperties DEF PingOf
  <2> QED
    BY <1>3, <2>3, AppendProperties
<1>4. CASE StreamAdd
  BY <1>3, <1>4, LenProperties DEF StreamAdd, dbVars, procVars
<1>5. CASE ReadStream
  BY <1>5, FetchedEffect, LenProperties DEF ReadStream, dbVars, procVars
<1>6. CASE LoseReply
  <2>1. UNCHANGED <<geo, stored, received>>
    BY <1>6 DEF LoseReply, dbVars, procVars
  <2>2. CASE UNCHANGED <<stream, cursor>>
    BY <2>1, <2>2, LenProperties
  <2>3. CASE NextIs("add") /\ stream' = Append(stream, PingOf(Head(conn))) /\ UNCHANGED cursor
    BY <1>3, <2>1, <2>3, LenProperties
  <2>4. CASE cursor < Len(stream) /\ cursor' = cursor + Cardinality(Fetched) /\ UNCHANGED stream
    BY <2>1, <2>4, FetchedEffect, LenProperties
  <2> QED
    BY <1>6, <2>2, <2>3, <2>4 DEF LoseReply
<1>7. ASSUME NEW f \in flushes, FlushStep(f) \/ QueryFails(f)
      PROVE  stored \subseteq stored' /\ UNCHANGED <<stream, cursor, received, geo>>
  BY <1>7 DEF FlushStep, Insert, UpdateRow, QueryFails, redisVars
<1>8. CASE BlockExpires \/ Resume \/ IntervalFlush \/ Start \/ CloseServer \/ EndPool
  BY <1>8, <1>0 DEF BlockExpires, Resume, IntervalFlush, Start, CloseServer, EndPool,
     redisVars, dbVars, procVars
<1>9. CASE Acknowledge \/ CommandFails \/ Signal
  BY <1>9, <1>0 DEF Acknowledge, CommandFails, Signal, redisVars, dbVars
<1>10. CASE Exit \/ Crash
  BY <1>10, <1>0 DEF Exit, Crash, End, redisVars, dbVars
<1>11. CASE UNCHANGED vars
  BY <1>11, <1>0 DEF vars, redisVars, dbVars, procVars
<1>12. CASE \E f \in flushes : FlushStep(f) \/ QueryFails(f)
  BY <1>7, <1>12, LenProperties
<1> HIDE DEF TypeOK
<1> QED
  BY <1>1, <1>2, <1>4, <1>5, <1>6, <1>8, <1>9, <1>10, <1>11, <1>12 DEF Next, RedisStep

\* Signal alone counts signals.
LEMMA StopsKept ==
  ASSUME TypeOK, [Next]_vars
  PROVE  stops' = stops \/ (Signal /\ stops' = stops + 1)
<1>1. CASE (\E m \in Messages : Receive(m)) \/ RedisStep \/ Resume \/ IntervalFlush
  BY <1>1 DEF Receive, RedisStep, GeoAdd, StreamAdd, ReadStream, BlockExpires, Acknowledge,
     Exit, Resume, IntervalFlush
<1>2. CASE \E f \in flushes : FlushStep(f) \/ QueryFails(f)
  BY <1>2 DEF FlushStep, Insert, UpdateRow, QueryFails
<1>3. CASE CommandFails \/ LoseReply \/ Crash \/ Start \/ Signal \/ CloseServer \/ EndPool
  BY <1>3 DEF CommandFails, LoseReply, Crash, Start, Signal, CloseServer, EndPool
<1>4. CASE UNCHANGED vars
  BY <1>4 DEF vars
<1> QED
  BY <1>1, <1>2, <1>3, <1>4 DEF Next

\* A command that may be queued may be queued after any step.
LEMMA SoundMono ==
  ASSUME TypeOK, [Next]_vars
  PROVE  Sound \subseteq Sound' /\ Read \in Sound' /\ (stops > 0 => Quit \in Sound')
<1>1. stored \subseteq stored' /\ 1 .. cursor \subseteq 1 .. cursor'
  BY Monotone, LenProperties DEF TypeOK
<1>2. stops > 0 => stops' > 0
  BY StopsKept DEF TypeOK
<1> QED
  BY <1>1, <1>2 DEF Sound, Command, Read, Quit
-----------------------------------------------------------------------------
(* Types. *)

\* Queue is kept: XACK is issued for a batch that has been inserted.
LEMMA QueueKept ==
  ASSUME TypeOK, Queue, InFlight, Stopping, [Next]_vars
  PROVE  Queue'
<1> DEFINE S == Sound'
<1>0. /\ conn \in Seq(S) /\ Read \in S /\ (stops > 0 => Quit \in S)
      /\ conn # <<>> => Tail(conn) \in Seq(S)
      /\ \A c \in S : Append(conn, c) \in Seq(S)
      /\ \A c \in S : conn # <<>> => Append(Tail(conn), c) \in Seq(S)
  BY SoundMono, QueueStep DEF Queue
<1>1. \A m \in Messages, i \in Nat : i \in DOMAIN Payload[m] => Geo(m, i) \in S /\ Add(m, i) \in S
  BY DEF Sound, Command, Geo, Add
<1>2. ASSUME NEW f \in flushes, f.batch \subseteq stored'
      PROVE  Ack(f.batch) \in S
  <2>1. f.batch \in SUBSET (1 .. cursor')
    BY Monotone, LenProperties DEF TypeOK
  <2> QED
    BY <1>2, <2>1 DEF Sound, Command, Ack
<1> SUFFICES conn' \in Seq(S)
  BY DEF Queue
<1> HIDE DEF S
<1>3. ASSUME NEW m \in Messages, Receive(m)
      PROVE  conn' \in Seq(S)
  <2>1. 1 \in DOMAIN Payload[m]
    BY PayloadAssumption, LenProperties
  <2> QED
    BY <1>0, <1>1, <1>3, <2>1 DEF Receive
<1>4. CASE GeoAdd
  <2>1. Head(conn) \in Command /\ Head(conn).op = "geo" /\ conn # <<>>
    BY <1>4, HeadSound DEF GeoAdd, NextIs
  <2>2. Head(conn).msg \in Messages /\ Head(conn).index \in Nat
        /\ Head(conn).index \in DOMAIN Payload[Head(conn).msg]
    BY <2>1 DEF Command, Read, Quit
  <2>3. Add(Head(conn).msg, Head(conn).index) \in S
    BY <1>1, <2>2
  <2>4. \/ conn' = Tail(conn)
        \/ conn' = Append(Tail(conn), Add(Head(conn).msg, Head(conn).index))
    BY <1>4 DEF GeoAdd
  <2> QED
    BY <1>0, <2>1, <2>3, <2>4
<1>5. CASE StreamAdd
  <2> DEFINE h == Head(conn)
  <2>1. h \in Command /\ h.op = "add" /\ conn # <<>>
    BY <1>5, HeadSound DEF StreamAdd, NextIs
  <2>2. h.msg \in Messages /\ h.index \in Nat /\ h.index \in DOMAIN Payload[h.msg]
    BY <2>1 DEF Command, Read, Quit
  <2>3. h.index < Len(Payload[h.msg]) => h.index + 1 \in DOMAIN Payload[h.msg]
    BY <2>2, PayloadAssumption, LenProperties
  <2>4. conn' = IF h.index < Len(Payload[h.msg])
                THEN Append(Tail(conn), Geo(h.msg, h.index + 1)) ELSE Tail(conn)
    BY <1>5 DEF StreamAdd
  <2>5. h.index < Len(Payload[h.msg]) => Geo(h.msg, h.index + 1) \in S
    <3> HIDE DEF h
    <3>1. h.index + 1 \in Nat
      BY <2>2
    <3> QED
      BY <1>1, <2>2, <2>3, <3>1
  <2> HIDE DEF h
  <2> QED
    BY <1>0, <2>1, <2>4, <2>5
<1>6. ASSUME NEW q \in {conn, Tail(conn)}, q = conn \/ conn # <<>>
      PROVE  /\ Again(q) => conn' \in Seq(S)
             /\ \A f \in flushes : EndFlush(f, q) => conn' \in Seq(S)
  BY <1>0, <1>6 DEF Again, EndFlush
<1>7. CASE RedisStep /\ ~ GeoAdd /\ ~ StreamAdd
  BY <1>0, <1>6, <1>7, EmptySeq DEF RedisStep, ReadStream, BlockExpires, Acknowledge, Exit, End, NextIs
<1>8. ASSUME NEW f \in flushes, UpdateRow(f)
      PROVE  conn' \in Seq(S)
  <2>1. f.batch \subseteq stored'
    BY <1>8 DEF UpdateRow, InFlight
  <2> QED
    BY <1>0, <1>2, <1>6, <1>8, <2>1 DEF UpdateRow, NextQuery
<1>9. ASSUME NEW f \in flushes, Insert(f) \/ QueryFails(f)
      PROVE  conn' \in Seq(S)
  BY <1>0, <1>6, <1>9 DEF Insert, QueryFails, NextQuery
<1>10. CASE Resume \/ IntervalFlush \/ CommandFails \/ LoseReply \/ Crash
  BY <1>0, <1>6, <1>10, EmptySeq DEF Resume, IntervalFlush, CommandFails, LoseReply, Crash, End,
     procVars, NextIs
<1>11. CASE Start \/ Signal \/ CloseServer \/ EndPool
  <2>1. <<Read>> \in Seq(S)
    BY <1>0
  <2>2. EndPool => stops > 0
    BY DEF EndPool, Stopping
  <2> QED
    BY <1>0, <1>11, <2>1, <2>2 DEF Start, Signal, CloseServer, EndPool
<1>12. CASE UNCHANGED vars
  BY <1>0, <1>12 DEF vars
<1> QED
  BY <1>3, <1>4, <1>5, <1>7, <1>8, <1>9, <1>10, <1>11, <1>12 DEF Next, RedisStep, FlushStep

\* The type of a flush of entries up to c.
FlushType(c) ==
  [batch : SUBSET (1 .. c), at : {"insert", "update", "ack"},
   todo : SUBSET Drivers, by : {"loop", "timer", "shutdown"}]

\* The drivers of a batch do not change as the stream grows.
LEMMA DriversOfType ==
  ASSUME TypeOK, NEW b \in SUBSET (1 .. Len(stream)), [Next]_vars
  PROVE  /\ DriversOf(b) \subseteq Drivers
         /\ DriversOf(b)' = DriversOf(b)
         /\ b # {} => DriversOf(b) # {}
<1>1. \A n \in b : stream[n] \in Pings /\ stream'[n] = stream[n]
  BY Monotone, ElementOfSeq, LenProperties DEF TypeOK
<1> QED
  BY <1>1, OwnerAssumption DEF DriversOf, DriverAt

\* What may be flushed are entries of the stream.
LEMMA BatchType ==
  ASSUME TypeOK, [Next]_vars
  PROVE  /\ buffer \subseteq 1 .. Len(stream)
         /\ cursor < Len(stream) => Gathered \subseteq 1 .. Len(stream)
BY FetchedEffect, LenProperties DEF TypeOK, Gathered

\* InFlight is kept: flush inserts, then updates driver after driver, then acks.
LEMMA InFlightKept ==
  ASSUME TypeOK, InFlight, [Next]_vars
  PROVE  InFlight'
<1> DEFINE Good(f) == /\ f.todo \subseteq DriversOf(f.batch)
                      /\ f.at = "insert" => f.todo = DriversOf(f.batch)
                      /\ f.at = "update" => f.todo # {}
                      /\ f.at # "insert" => f.batch \subseteq stored'
<1>1. stored \subseteq stored' /\ \A f \in flushes : f.batch \subseteq 1 .. Len(stream)
  BY Monotone, LenProperties DEF TypeOK
<1>2. \A f \in flushes : Good(f)
  BY <1>1 DEF InFlight
<1>3. ASSUME \A f \in flushes' : f.batch \subseteq 1 .. Len(stream) /\ Good(f)
      PROVE  InFlight'
  BY <1>3, DriversOfType DEF InFlight
<1>4. \A f \in flushes : f.at = "insert" => DriversOf(f.batch) # {}
  <2> SUFFICES ASSUME NEW f \in flushes PROVE DriversOf(f.batch) # {}
    OBVIOUS
  <2>2. f.batch # {}
    BY DEF TypeOK
  <2>3. f.batch \in SUBSET (1 .. Len(stream))
    BY <1>1
  <2> QED
    BY <2>2, <2>3, DriversOfType
<1>5. ASSUME flushes' \subseteq flushes
      PROVE  InFlight'
  BY <1>1, <1>2, <1>3, <1>5
<1>6. ASSUME NEW b \in SUBSET (1 .. Len(stream)), NEW o, StartFlush(b, o)
      PROVE  InFlight'
  <2> DEFINE g == [batch |-> b, at |-> "insert", todo |-> DriversOf(b), by |-> o]
  <2>1. flushes' \subseteq flushes \cup {g}
    BY <1>6 DEF StartFlush
  <2>2. g.batch \subseteq 1 .. Len(stream) /\ Good(g)
    OBVIOUS
  <2> HIDE DEF g, Good
  <2> QED
    BY <1>1, <1>2, <1>3, <2>1, <2>2
<1>7. CASE ReadStream
  BY <1>5, <1>6, <1>7, BatchType DEF ReadStream
<1>8. CASE IntervalFlush \/ Signal
  BY <1>5, <1>6, <1>8, BatchType DEF IntervalFlush, Signal
<1>9. ASSUME NEW f \in flushes, NEW q, EndFlush(f, q)
      PROVE  InFlight'
  BY <1>5, <1>9 DEF EndFlush
<1>10. ASSUME NEW f \in flushes, Insert(f)
       PROVE  InFlight'
  <2>1. CASE stored' = stored \cup f.batch /\ NextQuery(f, [f EXCEPT !.at = "update"])
    <3>1. CASE flushes' = (flushes \ {f}) \cup {[f EXCEPT !.at = "update"]}
      <4>1. f \in FlushType(cursor) /\ f.at = "insert"
        BY <1>10 DEF Insert, TypeOK, FlushType
      <4> QED
        BY <1>1, <1>2, <1>3, <1>4, <2>1, <3>1, <4>1 DEF FlushType
    <3> QED
      BY <1>9, <2>1, <3>1 DEF NextQuery
  <2> QED
    BY <1>9, <1>10, <2>1 DEF Insert
<1>11. ASSUME NEW f \in flushes, UpdateRow(f)
       PROVE  InFlight'
  <2>1. f \in FlushType(cursor) /\ f.at = "update" /\ UNCHANGED stored
    BY <1>11 DEF UpdateRow, TypeOK, FlushType
  <2> DEFINE rest == f.todo \ {FirstDriver(f.batch, f.todo)}
  <2>2. CASE rest = {} /\ flushes' = (flushes \ {f}) \cup {[f EXCEPT !.at = "ack", !.todo = {}]}
    BY <1>1, <1>2, <1>3, <2>1, <2>2 DEF FlushType
  <2>3. CASE rest # {} /\ flushes' = (flushes \ {f}) \cup {[f EXCEPT !.todo = rest]}
    <3> HIDE DEF Good
    <3>1. Good([f EXCEPT !.todo = rest])
      BY <1>2, <2>1, <2>3 DEF Good, FlushType
    <3> QED
      BY <1>1, <1>2, <1>3, <2>1, <2>3, <3>1 DEF FlushType
  <2> QED
    BY <1>9, <1>11, <2>2, <2>3 DEF UpdateRow, NextQuery
<1>12. ASSUME NEW f \in flushes, QueryFails(f)
       PROVE  InFlight'
  BY <1>9, <1>12 DEF QueryFails
<1>13. CASE Acknowledge \/ CommandFails
  BY <1>5, <1>9, <1>13 DEF Acknowledge, CommandFails
<1>14. CASE (\E m \in Messages : Receive(m)) \/ GeoAdd \/ StreamAdd \/ BlockExpires \/ Resume \/ LoseReply
  BY <1>5, <1>14 DEF Receive, GeoAdd, StreamAdd, BlockExpires, Resume, LoseReply, workVars
<1>15. CASE Exit \/ Crash \/ Start \/ CloseServer \/ EndPool \/ UNCHANGED vars
  BY <1>5, <1>15 DEF Exit, Crash, End, Start, CloseServer, EndPool, workVars, vars
<1> QED
  BY <1>7, <1>8, <1>10, <1>11, <1>12, <1>13, <1>14, <1>15 DEF Next, RedisStep, FlushStep

\* What a read gathers are delivered entries, and a full batch has some.
LEMMA GatheredEffect ==
  ASSUME TypeOK, ReadStream
  PROVE  /\ Gathered \subseteq 1 .. cursor'
         /\ Full(Gathered) => Gathered # {}
<1>1. Gathered \subseteq 1 .. cursor'
  BY FetchedEffect, LenProperties DEF TypeOK, ReadStream, Gathered
<1>2. Full({}) => FALSE
  BY FS_EmptySet, SizeAssumption DEF Full
<1> QED
  BY <1>1, <1>2

\* An XACK names entries that were delivered.
LEMMA HeadAck ==
  ASSUME TypeOK, NextIs("ack")
  PROVE  Head(conn).batch \subseteq 1 .. cursor
BY HeadSound DEF NextIs, Command, Read, Quit

\* Buffers and tables only ever name entries that were delivered.
LEMMA SetsKept ==
  ASSUME TypeOK, [Next]_vars
  PROVE  buffer' \cup acked' \cup stored' \cup dropped' \cup lost' \subseteq 1 .. cursor'
<1> DEFINE C == 1 .. cursor'
<1>1. 1 .. cursor \subseteq C
  BY Monotone, LenProperties DEF TypeOK
<1>2. /\ buffer \subseteq C /\ acked \subseteq C /\ stored \subseteq C
      /\ dropped \subseteq C /\ lost \subseteq C
      /\ \A f \in flushes : f.batch \subseteq C
  BY <1>1 DEF TypeOK
<1>3. ASSUME ReadStream \/ (LoseReply /\ NextIs("read"))
      PROVE  Fetched \subseteq C
  BY <1>3, FetchedEffect, LenProperties DEF TypeOK, ReadStream, LoseReply, NextIs
<1>4. NextIs("ack") => Head(conn).batch \subseteq C
  BY <1>1, HeadAck
<1>5. ReadStream => Gathered \subseteq C
  BY GatheredEffect
<1> HIDE DEF C
<1> SUFFICES buffer' \subseteq C /\ acked' \subseteq C /\ stored' \subseteq C
             /\ dropped' \subseteq C /\ lost' \subseteq C
  BY DEF C
<1>6. CASE ReadStream
  BY <1>2, <1>5, <1>6 DEF ReadStream, StartFlush, dbVars
<1>7. CASE IntervalFlush \/ Signal
  BY <1>2, <1>7 DEF IntervalFlush, Signal, StartFlush, dbVars, redisVars
<1>8. ASSUME NEW f \in flushes, FlushStep(f) \/ QueryFails(f)
      PROVE  buffer' \subseteq C /\ acked' \subseteq C /\ stored' \subseteq C
             /\ dropped' \subseteq C /\ lost' \subseteq C
  BY <1>2, <1>8 DEF FlushStep, Insert, UpdateRow, QueryFails, redisVars, historyVars
<1>9. CASE Acknowledge \/ CommandFails
  BY <1>2, <1>4, <1>9 DEF Acknowledge, CommandFails, redisVars, dbVars, historyVars
<1>10. CASE LoseReply
  BY <1>2, <1>3, <1>4, <1>10 DEF LoseReply, workVars, dbVars
<1>11. CASE Exit \/ Crash
  BY <1>2, <1>11 DEF Exit, Crash, End, Inserting, redisVars, dbVars
<1>12. CASE (\E m \in Messages : Receive(m)) \/ GeoAdd \/ StreamAdd \/ BlockExpires \/ Resume
  BY <1>2, <1>12 DEF Receive, GeoAdd, StreamAdd, BlockExpires, Resume, redisVars, dbVars,
     workVars, historyVars
<1>13. CASE Start \/ CloseServer \/ EndPool \/ UNCHANGED vars
  BY <1>2, <1>13 DEF Start, CloseServer, EndPool, vars, redisVars, dbVars, workVars, historyVars
<1> QED
  BY <1>6, <1>7, <1>8, <1>9, <1>10, <1>11, <1>12, <1>13 DEF Next, RedisStep

\* Flushes keep their type and are never empty.
LEMMA FlushesKept ==
  ASSUME TypeOK, [Next]_vars
  PROVE  flushes' \subseteq FlushType(cursor') /\ \A f \in flushes' : f.batch # {}
<1> DEFINE Good(f) == f \in FlushType(cursor') /\ f.batch # {}
<1>1. \A f \in flushes : Good(f)
  <2>1. 1 .. cursor \subseteq 1 .. cursor'
    BY Monotone, LenProperties DEF TypeOK
  <2> QED
    BY <2>1 DEF TypeOK, FlushType
<1> SUFFICES \A f \in flushes' : Good(f)
  OBVIOUS
<1>2. ASSUME NEW b \in SUBSET (1 .. cursor'), b # {}, b \subseteq 1 .. Len(stream),
             NEW o \in {"loop", "timer", "shutdown"}, StartFlush(b, o)
      PROVE  \A f \in flushes' : Good(f)
  <2> DEFINE g == [batch |-> b, at |-> "insert", todo |-> DriversOf(b), by |-> o]
  <2>1. flushes' \subseteq flushes \cup {g}
    BY <1>2 DEF StartFlush
  <2>2. Good(g)
    BY <1>2, DriversOfType DEF FlushType
  <2> HIDE DEF g, Good
  <2> QED
    BY <1>1, <2>1, <2>2
<1>3. CASE flushes' \subseteq flushes
  BY <1>1, <1>3
<1>4. CASE ReadStream
  <2>1. Gathered \subseteq 1 .. Len(stream)
    BY <1>4, BatchType DEF ReadStream
  <2> QED
    BY <1>2, <1>3, <1>4, <2>1, GatheredEffect DEF ReadStream
<1>5. CASE IntervalFlush \/ Signal
  <2>1. buffer \subseteq 1 .. cursor' /\ buffer \subseteq 1 .. Len(stream)
    BY BatchType, Monotone, LenProperties DEF TypeOK
  <2> QED
    BY <1>2, <1>3, <1>5, <2>1 DEF IntervalFlush, Signal
<1>6. ASSUME NEW f \in flushes, Insert(f) \/ UpdateRow(f)
      PROVE  \A g \in flushes' : Good(g)
  <2> DEFINE d == FirstDriver(f.batch, f.todo)
  <2>1. flushes' \subseteq flushes \cup {[f EXCEPT !.at = "update"],
          [f EXCEPT !.at = "ack", !.todo = {}], [f EXCEPT !.todo = f.todo \ {d}]}
    <3> HIDE DEF d
    <3> QED
      BY <1>6 DEF Insert, UpdateRow, NextQuery, EndFlush, d
  <2> HIDE DEF d
  <2>2. /\ Good([f EXCEPT !.at = "update"])
        /\ Good([f EXCEPT !.at = "ack", !.todo = {}])
        /\ Good([f EXCEPT !.todo = f.todo \ {d}])
    BY <1>1 DEF FlushType
  <2> HIDE DEF Good
  <2> QED
    BY <1>1, <2>1, <2>2
<1>7. CASE Acknowledge \/ CommandFails \/ \E f \in flushes : QueryFails(f)
  BY <1>3, <1>7 DEF Acknowledge, CommandFails, QueryFails, EndFlush
<1>8. CASE (\E m \in Messages : Receive(m)) \/ GeoAdd \/ StreamAdd \/ BlockExpires \/ Resume
           \/ LoseReply
  BY <1>3, <1>8 DEF Receive, GeoAdd, StreamAdd, BlockExpires, Resume, LoseReply, workVars
<1>9. CASE Exit \/ Crash \/ Start \/ CloseServer \/ EndPool \/ UNCHANGED vars
  BY <1>3, <1>9 DEF Exit, Crash, End, Start, CloseServer, EndPool, vars, workVars
<1> QED
  BY <1>4, <1>5, <1>6, <1>7, <1>8, <1>9 DEF Next, RedisStep, FlushStep

\* A driver's row names an entry that was delivered.
LEMMA RowsKept ==
  ASSUME TypeOK, InFlight, [Next]_vars
  PROVE  rows' \in [Drivers -> 0 .. cursor']
<1>1. rows \in [Drivers -> 0 .. cursor'] /\ 1 .. cursor \subseteq 0 .. cursor'
  BY Monotone, LenProperties DEF TypeOK
<1>2. ASSUME NEW f \in flushes, UpdateRow(f) \/ QueryFails(f)
      PROVE  rows' \in [Drivers -> 0 .. cursor']
  <2> DEFINE d == FirstDriver(f.batch, f.todo)
  <2> DEFINE n == Newest(f.batch, d)
  <2>1. CASE f.at = "update"
    <3>1. n \in 0 .. cursor'
      BY <1>1, <2>1, UpdateEffect DEF TypeOK
    <3>2. rows' = rows \/ rows' = [rows EXCEPT ![d] = n]
      <4> HIDE DEF d
      <4> QED
        BY <1>2, <2>1 DEF UpdateRow, QueryFails, d
    <3> HIDE DEF d, n
    <3> QED
      BY <1>1, <3>1, <3>2
  <2>2. CASE f.at # "update"
    BY <1>1, <1>2, <2>2 DEF UpdateRow, QueryFails
  <2> QED
    BY <2>1, <2>2
<1>3. CASE UNCHANGED rows
  BY <1>1, <1>3
<1>4. CASE (\E m \in Messages : Receive(m)) \/ RedisStep \/ Resume \/ IntervalFlush
  BY <1>3, <1>4 DEF Receive, RedisStep, GeoAdd, StreamAdd, ReadStream, BlockExpires,
     Acknowledge, Exit, End, Resume, IntervalFlush, dbVars
<1>5. CASE (\E f \in flushes : Insert(f)) \/ CommandFails \/ LoseReply \/ Crash \/ Start
  BY <1>3, <1>5 DEF Insert, CommandFails, LoseReply, Crash, End, Start, dbVars
<1>6. CASE Signal \/ CloseServer \/ EndPool \/ UNCHANGED vars
  BY <1>3, <1>6 DEF Signal, CloseServer, EndPool, vars, dbVars
<1> QED
  BY <1>2, <1>4, <1>5, <1>6 DEF Next, FlushStep

\* What pollLoop may await, and what the process may be doing.
LoopStates == {"reading", "flushing", "waiting", "ended"}
StageNames == {"up", "flush", "close", "pool", "quit", "exited", "crashed"}

\* The variables that hold control state and counters keep their types.
LEMMA ControlKept ==
  ASSUME TypeOK, [Next]_vars
  PROVE  /\ stage' \in StageNames /\ loop' \in LoopStates
         /\ overlap' \in BOOLEAN /\ failures' \in Nat /\ stops' \in Nat
<1> USE DEF TypeOK, LoopStates, StageNames
<1>1. CASE (\E m \in Messages : Receive(m)) \/ GeoAdd \/ StreamAdd \/ BlockExpires \/ Resume
  BY <1>1 DEF Receive, GeoAdd, StreamAdd, BlockExpires, Resume, Again, historyVars, workVars,
     procVars
<1>2. CASE ReadStream
  BY <1>2 DEF ReadStream, StartFlush, Again, procVars
<1>3. CASE IntervalFlush \/ Signal
  <2>1. ASSUME NEW o, StartFlush(buffer, o)
        PROVE  overlap' \in BOOLEAN
    BY <2>1 DEF StartFlush
  <2>2. overlap' \in BOOLEAN
    BY <1>3, <2>1 DEF IntervalFlush, Signal
  <2>3. stage' \in StageNames /\ loop' \in LoopStates /\ failures' \in Nat
    BY <1>3 DEF IntervalFlush, Signal, procVars
  <2>4. stops' \in Nat
    BY <1>3 DEF IntervalFlush, Signal
  <2> QED
    BY <2>2, <2>3, <2>4
<1>4. CASE \E f \in flushes : FlushStep(f) \/ QueryFails(f)
  BY <1>4 DEF FlushStep, Insert, UpdateRow, QueryFails, Fail, NextQuery, EndFlush, Again,
     historyVars
<1>5. CASE Acknowledge \/ CommandFails \/ LoseReply
  BY <1>5 DEF Acknowledge, CommandFails, LoseReply, Fail, EndFlush, Again, historyVars, procVars,
     workVars
<1>6. CASE Exit \/ Crash \/ Start \/ CloseServer \/ EndPool \/ UNCHANGED vars
  BY <1>6 DEF Exit, Crash, End, Fail, Start, CloseServer, EndPool, vars, historyVars, procVars,
     workVars
<1> QED
  BY <1>1, <1>2, <1>3, <1>4, <1>5, <1>6 DEF Next, RedisStep

\* TypeOK is kept.
LEMMA TypeKept ==
  ASSUME TypeOK, Queue, InFlight, Stopping, [Next]_vars
  PROVE  TypeOK'
<1>1. conn' \in Seq(Command')
  <2>1. Sound' \subseteq Command'
    BY DEF Sound
  <2> QED
    BY <2>1, QueueKept, SeqMonotonic DEF Queue
<1> QED
  BY <1>1, Monotone, SetsKept, FlushesKept, RowsKept, ControlKept
  DEF TypeOK, FlushType, StageNames, LoopStates

\* The first start of the system.
LEMMA InvInit ==
  ASSUME Init
  PROVE  TypeOK /\ Queue /\ InFlight /\ Stopping /\ Dead
<1>1. /\ <<>> \in Seq(Pings) /\ <<>> \in Seq(Command) /\ <<>> \in Seq(Sound)
      /\ Len(<<>>) = 0
  BY EmptySeq
<1>2. Queue /\ InFlight /\ Stopping /\ Dead
  BY <1>1 DEF Init, Queue, InFlight, Stopping, Dead
<1>3. /\ stream \in Seq(Pings) /\ cursor \in 0 .. Len(stream)
      /\ geo \in [Drivers -> Pings \cup {None}] /\ rows \in [Drivers -> 0 .. cursor]
      /\ conn \in Seq(Command)
  BY <1>1 DEF Init
<1>4. buffer \cup acked \cup stored \cup dropped \cup lost \subseteq 1 .. cursor
  BY DEF Init
<1> QED
  BY <1>2, <1>3, <1>4 DEF Init, TypeOK
-----------------------------------------------------------------------------
(* Where records are. *)

\* AckedIsStored is kept.
LEMMA AckedKept ==
  ASSUME TypeOK, Queue, AckedIsStored, [Next]_vars
  PROVE  AckedIsStored'
<1>1. stored \subseteq stored'
  BY Monotone
<1>2. NextIs("ack") => Head(conn).batch \subseteq stored
  <2>1. NextIs("ack") => Head(conn) \in Sound
    BY HeadTailProperties DEF NextIs, Queue
  <2> QED
    BY <2>1 DEF Sound, NextIs
<1>3. acked' \subseteq acked \cup stored
  <2>1. CASE Acknowledge \/ LoseReply
    BY <1>2, <2>1 DEF Acknowledge, LoseReply
  <2>2. CASE (\E m \in Messages : Receive(m)) \/ GeoAdd \/ StreamAdd \/ ReadStream
             \/ BlockExpires \/ Exit \/ Resume \/ IntervalFlush
    BY <2>2 DEF Receive, GeoAdd, StreamAdd, ReadStream, BlockExpires, Exit, End, Resume,
       IntervalFlush, redisVars
  <2>3. CASE \E f \in flushes : FlushStep(f) \/ QueryFails(f)
    BY <2>3 DEF FlushStep, Insert, UpdateRow, QueryFails, redisVars
  <2>4. CASE CommandFails \/ Crash \/ Start \/ Signal \/ CloseServer \/ EndPool \/ UNCHANGED vars
    BY <2>4 DEF CommandFails, Crash, End, Start, Signal, CloseServer, EndPool, vars, redisVars
  <2> QED
    BY <2>1, <2>2, <2>3, <2>4 DEF Next, RedisStep
<1> QED
  BY <1>1, <1>3 DEF AckedIsStored

\* An XACK that Redis turns to names records of the history.
LEMMA AckBatch ==
  ASSUME Queue, NextIs("ack")
  PROVE  Head(conn).batch \subseteq stored
<1>1. Head(conn) \in Sound
  BY HeadTailProperties DEF NextIs, Queue
<1> QED
  BY <1>1 DEF Sound, NextIs

\* A flush that starts puts its batch into an INSERT or drops it.
LEMMA StartFlushEffect ==
  ASSUME NEW b, NEW o, StartFlush(b, o)
  PROVE  /\ b \subseteq Inserting' \cup dropped'
         /\ Inserting \subseteq Inserting' /\ dropped \subseteq dropped'
         /\ Inserting' \subseteq Inserting \cup b
         /\ dropped' \subseteq dropped \cup b
<1> DEFINE g == [batch |-> b, at |-> "insert", todo |-> DriversOf(b), by |-> o]
<1>1. CASE PoolOpen
  <2>1. flushes' = flushes \cup {g} /\ dropped' = dropped
    BY <1>1 DEF StartFlush
  <2>2. g.batch = b /\ g.at = "insert"
    OBVIOUS
  <2> HIDE DEF g
  <2> QED
    BY <2>1, <2>2 DEF Inserting
<1>2. CASE ~ PoolOpen
  BY <1>2 DEF StartFlush, Inserting
<1> QED
  BY <1>1, <1>2

\* A lost answer to a read loses exactly the entries the cursor moves past.
LEMMA LoseEffect ==
  ASSUME TypeOK, LoseReply
  PROVE  \/ UNCHANGED <<cursor, lost>>
         \/ lost' = lost \cup Fetched /\ Fetched = cursor + 1 .. cursor'
<1>1. \/ UNCHANGED <<cursor, lost>>
      \/ /\ cursor < Len(stream) /\ cursor' = cursor + Cardinality(Fetched)
         /\ lost' = lost \cup Fetched
  BY DEF LoseReply
<1> QED
  BY <1>1, FetchedEffect

\* The records the process is through with, one way or another.
Done == stored \cup dropped \cup lost

\* NothingForgotten is kept.
LEMMA NothingForgottenKept ==
  ASSUME TypeOK, Queue, NothingForgotten, [Next]_vars
  PROVE  NothingForgotten'
<1> DEFINE Accounted == buffer \cup Inserting \cup Done
<1>1. /\ cursor <= cursor' /\ cursor \in Nat /\ cursor' \in Nat
      /\ \A n \in 1 .. cursor : stream'[n] = stream[n]
      /\ stored \subseteq stored'
  BY Monotone, LenProperties DEF TypeOK
<1>2. SUFFICES /\ Accounted \subseteq Accounted'
               /\ \A n \in cursor + 1 .. cursor' :
                    stream'[n] \notin Unparsable => n \in Accounted'
  BY <1>1, <1>2 DEF NothingForgotten, Done
<1> USE DEF Done
<1>3. CASE ReadStream
  <2>1. /\ cursor' = cursor + Cardinality(Fetched) /\ UNCHANGED <<stream, stored, lost>>
        /\ Fetched = cursor + 1 .. cursor'
    BY <1>3, FetchedEffect DEF ReadStream, dbVars
  <2>2. Gathered \subseteq buffer' \cup Inserting' \cup dropped'
        /\ Inserting \subseteq Inserting' /\ dropped \subseteq dropped'
    BY <1>3, StartFlushEffect DEF ReadStream, Inserting
  <2> QED
    BY <2>1, <2>2 DEF Gathered
<1>4. CASE IntervalFlush \/ Signal
  <2>1. /\ buffer \subseteq Inserting' \cup dropped'
        /\ Inserting \subseteq Inserting' /\ dropped \subseteq dropped'
    BY <1>4, StartFlushEffect DEF IntervalFlush, Signal, Inserting
  <2>2. UNCHANGED <<stored, lost, cursor>>
    BY <1>4 DEF IntervalFlush, Signal, dbVars, redisVars
  <2> QED
    BY <1>1, <2>1, <2>2
<1>5. ASSUME NEW f \in flushes, FlushStep(f) \/ QueryFails(f)
      PROVE  Accounted \subseteq Accounted' /\ UNCHANGED cursor
  <2>1. /\ flushes \ {f} \subseteq flushes' /\ UNCHANGED <<buffer, lost, cursor>>
        /\ stored \subseteq stored' /\ dropped \subseteq dropped'
    BY <1>5 DEF FlushStep, Insert, UpdateRow, QueryFails, NextQuery, EndFlush, redisVars,
       historyVars
  <2>2. f.at = "insert" => f.batch \subseteq stored' \cup dropped'
    BY <1>5 DEF FlushStep, Insert, UpdateRow, QueryFails
  <2>3. Inserting \subseteq Inserting' \cup stored' \cup dropped'
    BY <2>1, <2>2 DEF Inserting
  <2> QED
    BY <2>1, <2>3
<1>6. CASE Acknowledge \/ CommandFails
  <2>1. UNCHANGED <<buffer, stored, dropped, lost, cursor>>
    BY <1>6 DEF Acknowledge, CommandFails, redisVars, dbVars, historyVars
  <2>2. flushes' = flushes \/ \E f \in flushes : f.batch \subseteq stored /\ flushes' = flushes \ {f}
    BY <1>6, AckBatch DEF Acknowledge, CommandFails, Acknowledging, EndFlush
  <2>3. Inserting \subseteq Inserting' \cup stored'
    BY <2>1, <2>2 DEF Inserting
  <2> QED
    BY <1>1, <2>1, <2>3
<1>7. CASE LoseReply
  <2>1. UNCHANGED <<buffer, flushes, stored, dropped>> /\ lost \subseteq lost'
    BY <1>7 DEF LoseReply, dbVars, workVars
  <2>2. cursor' = cursor \/ (Fetched \subseteq lost' /\ Fetched = cursor + 1 .. cursor')
    BY <1>7, LoseEffect
  <2> QED
    BY <1>1, <2>1, <2>2 DEF Inserting
<1>8. CASE Exit \/ Crash
  BY <1>1, <1>8 DEF Exit, Crash, End, redisVars, dbVars
<1>9. ASSUME UNCHANGED <<buffer, flushes, stored, dropped, lost, cursor>>
      PROVE  Accounted \subseteq Accounted' /\ UNCHANGED cursor
  BY <1>9 DEF Inserting
<1>10. CASE (\E m \in Messages : Receive(m)) \/ GeoAdd \/ StreamAdd \/ BlockExpires \/ Resume
  BY <1>1, <1>9, <1>10 DEF Receive, GeoAdd, StreamAdd, BlockExpires, Resume, redisVars,
     dbVars, workVars, historyVars
<1>11. CASE Start \/ CloseServer \/ EndPool \/ UNCHANGED vars
  BY <1>1, <1>9, <1>11 DEF Start, CloseServer, EndPool, vars, redisVars, dbVars, workVars,
     historyVars
<1> QED
  BY <1>1, <1>3, <1>4, <1>5, <1>6, <1>7, <1>8, <1>10, <1>11 DEF Next, RedisStep

\* NeverTwice is kept.
LEMMA NeverTwiceKept ==
  ASSUME TypeOK, NeverTwice, [Next]_vars
  PROVE  NeverTwice'
<1> USE DEF Done
<1> DEFINE Apart == /\ \A f, g \in flushes : f # g => f.batch \cap g.batch = {}
                    /\ \A f \in flushes : f.batch \cap buffer = {}
<1>0. /\ buffer \subseteq 1 .. cursor /\ Done \subseteq 1 .. cursor /\ Inserting \subseteq 1 .. cursor
      /\ \A f \in flushes : f.batch \subseteq 1 .. cursor
      /\ cursor \in Nat
  BY LenProperties DEF TypeOK, Inserting
<1>1. /\ Apart
      /\ (buffer \cup Inserting) \cap Done = {}
  BY DEF NeverTwice
<1>2. SUFFICES Apart' /\ (buffer' \cup Inserting') \cap Done' = {}
  BY <1>2 DEF NeverTwice
<1>3. ASSUME NEW b, NEW o, StartFlush(b, o), buffer' = {},
             \A f \in flushes : f.batch \cap b = {},
             b \cap Done = {}, UNCHANGED <<stored, lost>>
      PROVE  Apart' /\ (buffer' \cup Inserting') \cap Done' = {}
  <2>1. CASE PoolOpen
    <3> DEFINE g == [batch |-> b, at |-> "insert", todo |-> DriversOf(b), by |-> o]
    <3>1. flushes' = flushes \cup {g} /\ dropped' = dropped /\ g.batch = b
      BY <1>3, <2>1 DEF StartFlush
    <3> HIDE DEF g
    <3>2. Apart'
      BY <1>1, <1>3, <3>1
    <3>3. Inserting' \subseteq Inserting \cup b
      BY <3>1 DEF Inserting
    <3> QED
      BY <1>1, <1>3, <3>1, <3>2, <3>3
  <2>2. CASE ~ PoolOpen
    <3>1. flushes' = flushes /\ dropped' = dropped \cup b
      BY <1>3, <2>2 DEF StartFlush
    <3>2. b \cap Inserting = {} /\ Inserting' = Inserting
      BY <1>3, <3>1 DEF Inserting
    <3> QED
      BY <1>1, <1>3, <3>1, <3>2
  <2> QED
    BY <2>1, <2>2
<1>4. CASE ReadStream
  <2>1. /\ Fetched = cursor + 1 .. cursor' /\ Gathered \subseteq buffer \cup Fetched
        /\ UNCHANGED <<stored, lost>>
    BY <1>4, FetchedEffect DEF ReadStream, Gathered, dbVars
  <2>2. Fetched \cap 1 .. cursor = {}
    BY <1>0, <2>1
  <2>3. \A f \in flushes : f.batch \cap Gathered = {}
    BY <1>0, <1>1, <2>1, <2>2
  <2>4. Gathered \cap Done = {}
    BY <1>0, <1>1, <2>1, <2>2
  <2>5. CASE buffer' = Gathered /\ UNCHANGED <<flushes, dropped>>
    BY <1>1, <2>1, <2>3, <2>4, <2>5 DEF Inserting
  <2> QED
    BY <1>3, <1>4, <2>1, <2>3, <2>4, <2>5 DEF ReadStream
<1>5. CASE IntervalFlush \/ Signal
  <2>1. UNCHANGED <<stored, lost>>
    BY <1>5 DEF IntervalFlush, Signal, dbVars
  <2>2. CASE buffer' = {} /\ UNCHANGED <<flushes, dropped>>
    BY <1>1, <2>1, <2>2 DEF Inserting
  <2> QED
    BY <1>1, <1>3, <1>5, <2>1, <2>2 DEF IntervalFlush, Signal
<1>6. ASSUME NEW f \in flushes, FlushStep(f) \/ QueryFails(f)
      PROVE  Apart' /\ (buffer' \cup Inserting') \cap Done' = {}
  <2>1. UNCHANGED <<buffer, lost>>
    BY <1>6 DEF FlushStep, Insert, UpdateRow, QueryFails, historyVars
  <2>2. \A g \in flushes' : \/ g \in flushes \ {f}
                            \/ g.batch = f.batch /\ g.at # "insert" /\ flushes' = (flushes \ {f}) \cup {g}
    <3>1. f \in FlushType(cursor)
      BY DEF TypeOK, FlushType
    <3>2. \/ flushes' = flushes \ {f}
          \/ f.at = "insert" /\ flushes' = (flushes \ {f}) \cup {[f EXCEPT !.at = "update"]}
          \/ flushes' = (flushes \ {f}) \cup {[f EXCEPT !.at = "ack", !.todo = {}]}
          \/ \E T : f.at = "update" /\ flushes' = (flushes \ {f}) \cup {[f EXCEPT !.todo = T]}
      BY <1>6 DEF FlushStep, Insert, UpdateRow, QueryFails, NextQuery, EndFlush
    <3>3. /\ [f EXCEPT !.at = "update"].batch = f.batch
          /\ [f EXCEPT !.at = "update"].at = "update"
          /\ [f EXCEPT !.at = "ack", !.todo = {}].batch = f.batch
          /\ [f EXCEPT !.at = "ack", !.todo = {}].at = "ack"
      BY <3>1 DEF FlushType
    <3>4. \A T : [f EXCEPT !.todo = T].batch = f.batch /\ [f EXCEPT !.todo = T].at = f.at
      BY <3>1 DEF FlushType
    <3>5. ASSUME NEW g, g.batch = f.batch, g.at # "insert", flushes' = (flushes \ {f}) \cup {g}
          PROVE  \A x \in flushes' : \/ x \in flushes \ {f}
                                    \/ /\ x.batch = f.batch /\ x.at # "insert"
                                       /\ flushes' = (flushes \ {f}) \cup {x}
      BY <3>5
    <3>6. CASE flushes' = flushes \ {f}
      BY <3>6
    <3>7. CASE \/ flushes' = (flushes \ {f}) \cup {[f EXCEPT !.at = "update"]}
               \/ flushes' = (flushes \ {f}) \cup {[f EXCEPT !.at = "ack", !.todo = {}]}
      BY <3>3, <3>5, <3>7, Zenon
    <3>8. ASSUME NEW T, f.at = "update",
                 flushes' = (flushes \ {f}) \cup {[f EXCEPT !.todo = T]}
          PROVE  \A x \in flushes' : \/ x \in flushes \ {f}
                                    \/ /\ x.batch = f.batch /\ x.at # "insert"
                                       /\ flushes' = (flushes \ {f}) \cup {x}
      <4>1. "update" # "insert"
        OBVIOUS
      <4> QED
        BY <3>4, <3>5, <3>8, <4>1, Zenon
    <3> QED
      BY <3>2, <3>6, <3>7, <3>8, Zenon
  <2>3. Done' \subseteq Done \cup (IF f.at = "insert" THEN f.batch ELSE {})
    BY <1>6 DEF FlushStep, Insert, UpdateRow, QueryFails, historyVars
  <2>4. Apart'
    BY <1>1, <2>1, <2>2
  <2>5. Inserting' \subseteq Inserting /\ (f.at = "insert" => Inserting' \cap f.batch = {})
    BY <1>1, <2>2 DEF Inserting
  <2>6. f.at = "insert" => f.batch \cap buffer = {}
    BY <1>1
  <2> QED
    BY <1>1, <2>1, <2>3, <2>4, <2>5, <2>6
<1>7. ASSUME flushes' \subseteq flushes, UNCHANGED <<buffer, stored, dropped, lost>>
      PROVE  Apart' /\ (buffer' \cup Inserting') \cap Done' = {}
  BY <1>1, <1>7 DEF Inserting
<1>8. CASE Acknowledge \/ CommandFails
  BY <1>7, <1>8 DEF Acknowledge, CommandFails, EndFlush, redisVars, dbVars, historyVars
<1>9. CASE LoseReply
  <2>1. UNCHANGED <<buffer, flushes, stored, dropped>>
    BY <1>9 DEF LoseReply, dbVars, workVars
  <2>2. lost' = lost \/ (lost' = lost \cup Fetched /\ Fetched = cursor + 1 .. cursor')
    BY <1>9, LoseEffect
  <2>3. \A n \in lost' : n \in lost \/ n \notin 1 .. cursor
    <3>1. \A n \in cursor + 1 .. cursor' : n \notin 1 .. cursor
      BY <1>0
    <3> QED
      BY <2>2, <3>1
  <2> QED
    BY <1>0, <1>1, <2>1, <2>3 DEF Inserting
<1>10. CASE Exit \/ Crash
  <2>1. buffer' = {} /\ flushes' = {} /\ Inserting' = {}
    BY <1>10 DEF Exit, Crash, End, Inserting
  <2> QED
    BY <2>1
<1>11. CASE (\E m \in Messages : Receive(m)) \/ GeoAdd \/ StreamAdd \/ BlockExpires \/ Resume
  BY <1>7, <1>11 DEF Receive, GeoAdd, StreamAdd, BlockExpires, Resume, dbVars, workVars,
     historyVars
<1>12. CASE Start \/ CloseServer \/ EndPool \/ UNCHANGED vars
  BY <1>7, <1>12 DEF Start, CloseServer, EndPool, vars, dbVars, workVars, historyVars
<1> QED
  BY <1>4, <1>5, <1>6, <1>8, <1>9, <1>10, <1>11, <1>12 DEF Next, RedisStep
-----------------------------------------------------------------------------
(* The life of the process, and the size of batches. *)

\* Stopping is kept.
LEMMA StoppingKept ==
  ASSUME TypeOK, Stopping, [Next]_vars
  PROVE  Stopping'
<1>1. CASE Signal
  <2>1. stops' > 0
    BY <1>1, StopsKept DEF TypeOK, Signal
  <2> QED
    BY <2>1 DEF Stopping
<1>2. ASSUME stops' = stops,
             \A f \in flushes' : f.by = "shutdown" => \E g \in flushes : g.by = "shutdown",
             \/ stage' \in {stage, "up", "exited", "crashed"}
             \/ stage \in {"close", "pool"}
             \/ \E g \in flushes : g.by = "shutdown"
      PROVE  Stopping'
  BY <1>2 DEF Stopping
<1>3. CASE ReadStream \/ IntervalFlush
  BY <1>2, <1>3 DEF ReadStream, IntervalFlush, StartFlush, procVars
<1>4. ASSUME NEW f \in flushes, FlushStep(f) \/ QueryFails(f)
      PROVE  Stopping'
  <2>1. f \in FlushType(cursor) /\ stops' = stops
    BY <1>4 DEF TypeOK, FlushType, FlushStep, Insert, UpdateRow, QueryFails
  <2>2. \/ flushes' = flushes \ {f}
        \/ flushes' = (flushes \ {f}) \cup {[f EXCEPT !.at = "update"]}
        \/ flushes' = (flushes \ {f}) \cup {[f EXCEPT !.at = "ack", !.todo = {}]}
        \/ \E T : flushes' = (flushes \ {f}) \cup {[f EXCEPT !.todo = T]}
    BY <1>4 DEF FlushStep, Insert, UpdateRow, QueryFails, NextQuery, EndFlush
  <2>3. stage' = stage \/ f.by = "shutdown"
    BY <1>4 DEF FlushStep, Insert, UpdateRow, QueryFails, NextQuery, EndFlush
  <2> QED
    BY <1>2, <2>1, <2>2, <2>3 DEF FlushType
<1>5. CASE Acknowledge \/ CommandFails
  BY <1>2, <1>5 DEF Acknowledge, CommandFails, EndFlush
<1>6. CASE (\E m \in Messages : Receive(m)) \/ GeoAdd \/ StreamAdd \/ BlockExpires \/ Resume
           \/ LoseReply
  BY <1>2, <1>6 DEF Receive, GeoAdd, StreamAdd, BlockExpires, Resume, LoseReply, workVars, procVars
<1>7. CASE Exit \/ Crash \/ Start \/ CloseServer \/ EndPool \/ UNCHANGED vars
  BY <1>2, <1>7 DEF Exit, Crash, End, Start, CloseServer, EndPool, vars, workVars, procVars
<1> QED
  BY <1>1, <1>3, <1>4, <1>5, <1>6, <1>7 DEF Next, RedisStep

\* Dead is kept.
LEMMA DeadKept ==
  ASSUME Dead, [Next]_vars
  PROVE  Dead'
<1>1. CASE Alive
  <2>1. CASE Exit \/ Crash
    BY <2>1 DEF Exit, Crash, End, Dead
  <2>2. CASE Alive'
    BY <2>2 DEF Dead
  <2>3. CASE (\E m \in Messages : Receive(m)) \/ GeoAdd \/ StreamAdd \/ BlockExpires \/ Resume
             \/ LoseReply \/ ReadStream \/ IntervalFlush
    BY <1>1, <2>2, <2>3 DEF Receive, GeoAdd, StreamAdd, BlockExpires, Resume, LoseReply,
       ReadStream, IntervalFlush, procVars, Alive
  <2>4. CASE \E f \in flushes : FlushStep(f) \/ QueryFails(f)
    BY <1>1, <2>2, <2>4 DEF FlushStep, Insert, UpdateRow, QueryFails, NextQuery, EndFlush, Alive
  <2>5. CASE Acknowledge \/ CommandFails
    BY <1>1, <2>2, <2>5 DEF Acknowledge, CommandFails, EndFlush, Alive
  <2>6. CASE Start \/ Signal \/ CloseServer \/ EndPool \/ UNCHANGED vars
    BY <1>1, <2>2, <2>6 DEF Start, Signal, CloseServer, EndPool, vars, procVars, Alive
  <2> QED
    BY <2>1, <2>3, <2>4, <2>5, <2>6 DEF Next, RedisStep
<1>2. CASE ~ Alive
  <2>1. conn = <<>> /\ flushes = {} /\ buffer = {} /\ ~ Up
        /\ stage \in {"exited", "crashed"}
    BY <1>2 DEF Dead, Alive, Up
  <2>2. Resume \/ Start \/ UNCHANGED vars
    BY <2>1 DEF Next, RedisStep, Receive, GeoAdd, StreamAdd, ReadStream, BlockExpires,
       Acknowledge, Exit, NextIs, IntervalFlush, CommandFails, LoseReply, Crash, Alive,
       Signal, CloseServer, EndPool
  <2> QED
    BY <2>1, <2>2 DEF Resume, Again, Start, vars, procVars, workVars, Dead, Alive
<1> QED
  BY <1>1, <1>2

\* BatchBounded is kept: a read adds at most a batch to less than one.
LEMMA BoundKept ==
  ASSUME TypeOK, BatchBounded, [Next]_vars
  PROVE  BatchBounded'
<1> DEFINE Small(b) == Cardinality(b) < 2 * BatchSize
<1>0. BatchSize \in Nat \ {0}
  BY SizeAssumption
<1>1. IsFiniteSet(buffer) /\ Cardinality(buffer) \in Nat
  <2>1. IsFiniteSet(1 .. cursor) /\ buffer \subseteq 1 .. cursor
    BY FS_Interval, LenProperties DEF TypeOK
  <2> QED
    BY <2>1, FS_Subset, FS_CardinalityType
<1>2. Cardinality(buffer) < BatchSize /\ \A f \in flushes : Small(f.batch)
  BY DEF BatchBounded
<1>3. SUFFICES Cardinality(buffer') < BatchSize /\ \A f \in flushes' : Small(f.batch)
  BY <1>3 DEF BatchBounded
<1>4. Cardinality({}) = 0
  BY FS_EmptySet
<1>5. ASSUME NEW b, NEW o, Small(b), StartFlush(b, o)
      PROVE  \A f \in flushes' : Small(f.batch)
  <2> HIDE DEF Small
  <2> QED
    BY <1>2, <1>5 DEF StartFlush
<1>6. CASE ReadStream
  <2> DEFINE T == {n \in Fetched : stream[n] \notin Unparsable}
  <2>1. IsFiniteSet(Fetched) /\ Cardinality(Fetched) \in 1 .. BatchSize
    BY <1>6, FetchedEffect DEF ReadStream
  <2>2. IsFiniteSet(T) /\ Cardinality(T) <= Cardinality(Fetched) /\ Cardinality(T) \in Nat
    BY <2>1, FS_Subset, FS_CardinalityType
  <2>3. Gathered = buffer \cup T
    BY DEF Gathered
  <2>4. /\ Cardinality(buffer \cup T) = Cardinality(buffer) + Cardinality(T) - Cardinality(buffer \cap T)
        /\ IsFiniteSet(buffer \cap T)
    BY <1>1, <2>2, FS_Union, FS_Subset
  <2>5. Cardinality(buffer \cap T) \in Nat
    BY <2>4, FS_CardinalityType
  <2>6. Small(Gathered) /\ Cardinality(Gathered) \in Int
    <3> HIDE DEF T
    <3> QED
      BY <1>0, <1>1, <1>2, <2>1, <2>2, <2>3, <2>4, <2>5
  <2>7. Full(Gathered) \/ Cardinality(Gathered) < BatchSize
    BY <1>0, <2>6 DEF Full
  <2> HIDE DEF Small
  <2>8. buffer' = {} \/ (buffer' = Gathered /\ ~ Full(Gathered))
    BY <1>6 DEF ReadStream
  <2>9. Cardinality(buffer') < BatchSize
    BY <1>0, <1>4, <2>7, <2>8
  <2>10. StartFlush(Gathered, "loop") \/ flushes' = flushes
    BY <1>6 DEF ReadStream
  <2> QED
    BY <1>2, <1>5, <2>6, <2>9, <2>10
<1>7. CASE IntervalFlush \/ Signal
  <2>1. Small(buffer)
    BY <1>0, <1>1, <1>2
  <2> HIDE DEF Small
  <2>2. Cardinality(buffer') < BatchSize
    BY <1>0, <1>4, <1>7 DEF IntervalFlush, Signal
  <2>3. (\E o : StartFlush(buffer, o)) \/ flushes' = flushes
    BY <1>7 DEF IntervalFlush, Signal
  <2> QED
    BY <1>2, <1>5, <2>1, <2>2, <2>3
<1>8. CASE \E f \in flushes : FlushStep(f) \/ QueryFails(f)
  <2>1. PICK f \in flushes : FlushStep(f) \/ QueryFails(f)
    BY <1>8
  <2>2. f \in FlushType(cursor) /\ buffer' = buffer
    BY <2>1 DEF TypeOK, FlushType, FlushStep, Insert, UpdateRow, QueryFails
  <2>3. \/ flushes' = flushes \ {f}
        \/ flushes' = (flushes \ {f}) \cup {[f EXCEPT !.at = "update"]}
        \/ flushes' = (flushes \ {f}) \cup {[f EXCEPT !.at = "ack", !.todo = {}]}
        \/ \E T : flushes' = (flushes \ {f}) \cup {[f EXCEPT !.todo = T]}
    BY <2>1 DEF FlushStep, Insert, UpdateRow, QueryFails, NextQuery, EndFlush
  <2> HIDE DEF Small
  <2> QED
    BY <1>2, <2>2, <2>3 DEF FlushType
<1>9. CASE Acknowledge \/ CommandFails
  BY <1>2, <1>9 DEF Acknowledge, CommandFails, EndFlush
<1>10. CASE (\E m \in Messages : Receive(m)) \/ GeoAdd \/ StreamAdd \/ BlockExpires \/ Resume
            \/ LoseReply
  BY <1>2, <1>10 DEF Receive, GeoAdd, StreamAdd, BlockExpires, Resume, LoseReply, workVars
<1>11. CASE Exit \/ Crash
  <2>1. buffer' = {} /\ flushes' = {}
    BY <1>11 DEF Exit, Crash, End
  <2> QED
    BY <1>0, <1>4, <2>1
<1>12. CASE Start \/ CloseServer \/ EndPool \/ UNCHANGED vars
  BY <1>2, <1>12 DEF Start, CloseServer, EndPool, vars, workVars
<1> QED
  BY <1>6, <1>7, <1>8, <1>9, <1>10, <1>11, <1>12 DEF Next, RedisStep
-----------------------------------------------------------------------------
(* Order of the history and of the rows. *)

\* Nothing has failed and nobody has stopped the process.
Calm == failures = 0 /\ stops = 0

\* The steps there are as long as that is so.
CalmStep ==
  \/ \E m \in Messages : Receive(m)
  \/ GeoAdd \/ StreamAdd \/ ReadStream \/ BlockExpires \/ Acknowledge
  \/ Resume \/ IntervalFlush
  \/ \E f \in flushes : FlushStep(f)
  \/ Start
  \/ UNCHANGED vars

\* While all is calm the process is up whenever it has anything to do.
LEMMA CalmSteps ==
  ASSUME TypeOK, Queue, Stopping, Dead, [Next]_vars, Calm'
  PROVE  /\ Calm /\ CalmStep
         /\ conn # <<>> \/ flushes # {} => PoolOpen /\ Up
<1>1. stops = 0 /\ stops' = 0 /\ ~ Signal
  BY StopsKept DEF Calm, TypeOK, Signal
<1>2. ~ Fail
  BY DEF Fail, Calm, TypeOK
<1>3. ~ Exit
  <2>1. ASSUME NextIs("quit") PROVE FALSE
    <3>1. Head(conn) \in Sound
      BY <2>1, HeadTailProperties DEF NextIs, Queue
    <3> QED
      BY <1>1, <2>1, <3>1 DEF Sound, NextIs
  <2> QED
    BY <2>1 DEF Exit
<1>4. stage \in {"up", "exited", "crashed"}
  BY <1>1 DEF Stopping, TypeOK
<1>5. CalmStep
  BY <1>1, <1>2, <1>3, <1>4 DEF Next, RedisStep, CalmStep, QueryFails, CommandFails, LoseReply,
     Crash, CloseServer, EndPool
<1>6. failures' = failures
  BY <1>5 DEF CalmStep, Receive, GeoAdd, StreamAdd, ReadStream, BlockExpires, Acknowledge, Resume,
     IntervalFlush, FlushStep, Insert, UpdateRow, Start, vars
<1> QED
  BY <1>1, <1>4, <1>5, <1>6 DEF Calm, Dead, Alive, PoolOpen, Up

\* While flushes do not overlap, records are stored in stream order: those in an
\* INSERT are older than those in the buffer, and those in the history older still.
InOrder ==
  Calm /\ ~ overlap =>
    /\ \A f, g \in flushes : f = g
    /\ \A n \in stored : \A k \in buffer \cup Inserting : n < k
    /\ \A n \in Inserting : \A k \in buffer : n < k
    /\ \A f \in flushes : f.at # "insert" =>
         \A n \in stored : \A k \in f.batch : n \in f.batch \/ n < k

\* InOrder is kept.
LEMMA InOrderKept ==
  ASSUME TypeOK, Queue, InFlight, Stopping, Dead, InOrder, [Next]_vars
  PROVE  InOrder'
<1> DEFINE Ordered ==
      /\ \A f, g \in flushes : f = g
      /\ \A n \in stored : \A k \in buffer \cup Inserting : n < k
      /\ \A n \in Inserting : \A k \in buffer : n < k
      /\ \A f \in flushes : f.at # "insert" =>
           \A n \in stored : \A k \in f.batch : n \in f.batch \/ n < k
<1> SUFFICES ASSUME Calm', ~ overlap' PROVE Ordered'
  BY DEF InOrder
<1>1. /\ Calm /\ CalmStep
      /\ conn # <<>> \/ flushes # {} => PoolOpen /\ Up
  BY CalmSteps
<1>2. ASSUME NEW b, NEW o, StartFlush(b, o)
      PROVE  ~ overlap /\ flushes = {}
  BY <1>2, <1>1 DEF StartFlush
<1>3. ASSUME ~ overlap PROVE Ordered
  BY <1>1, <1>3 DEF InOrder
<1>4. ASSUME UNCHANGED <<overlap, stored, buffer, flushes>>
      PROVE  Ordered'
  BY <1>3, <1>4 DEF Inserting
<1>5. ASSUME NEW b \in SUBSET Nat, NEW o, StartFlush(b, o), PoolOpen, buffer' = {},
             UNCHANGED stored, \A n \in stored : \A k \in b : n < k
      PROVE  Ordered'
  <2> DEFINE g == [batch |-> b, at |-> "insert", todo |-> DriversOf(b), by |-> o]
  <2>1. flushes = {} /\ flushes' = {g}
    BY <1>2, <1>5 DEF StartFlush
  <2>2. g.batch = b /\ g.at = "insert"
    OBVIOUS
  <2> HIDE DEF g
  <2>3. Inserting' = b
    BY <2>1, <2>2 DEF Inserting
  <2> QED
    BY <1>5, <2>1, <2>2, <2>3
<1>6. /\ cursor \in Nat /\ stored \subseteq 1 .. cursor /\ buffer \subseteq 1 .. cursor
      /\ Inserting \subseteq 1 .. cursor /\ \A f \in flushes : f \in FlushType(cursor)
  BY LenProperties DEF TypeOK, Inserting, FlushType
<1>7. CASE ReadStream
  <2>1. /\ Fetched = cursor + 1 .. cursor' /\ cursor' \in Nat /\ UNCHANGED stored
        /\ Gathered \subseteq buffer \cup Fetched
    BY <1>7, FetchedEffect, LenProperties DEF ReadStream, Gathered, dbVars, TypeOK
  <2>2. \A n \in 1 .. cursor : \A k \in Fetched : n < k
    BY <1>6, <2>1
  <2>3. Gathered \in SUBSET Nat
    BY <1>6, <2>1
  <2>4. PoolOpen
    BY <1>1, <1>7 DEF ReadStream, NextIs
  <2>5. CASE StartFlush(Gathered, "loop") /\ buffer' = {}
    <3>1. \A n \in stored : \A k \in Gathered : n < k
      BY <1>2, <1>3, <1>6, <2>1, <2>2, <2>5
    <3> QED
      BY <1>5, <2>1, <2>3, <2>4, <2>5, <3>1
  <2>6. CASE buffer' = Gathered /\ UNCHANGED <<flushes, overlap>>
    <3>1. Ordered /\ Inserting' = Inserting
      BY <1>3, <2>6 DEF Inserting
    <3> QED
      BY <1>6, <2>1, <2>2, <2>6, <3>1
  <2> QED
    BY <1>7, <2>5, <2>6 DEF ReadStream
<1>8. CASE IntervalFlush
  <2>1. /\ StartFlush(buffer, "timer") /\ PoolOpen /\ buffer' = {} /\ UNCHANGED stored
        /\ buffer \in SUBSET Nat
    BY <1>6, <1>8 DEF IntervalFlush, Up, PoolOpen, dbVars
  <2> QED
    BY <1>2, <1>3, <1>5, <2>1
<1>9. ASSUME NEW f \in flushes, Insert(f)
      PROVE  Ordered'
  <2>1. Ordered /\ flushes = {f} /\ f.at = "insert" /\ Inserting = f.batch /\ buffer' = buffer
    BY <1>3, <1>9 DEF Insert, Inserting
  <2>2. \/ flushes' = {} /\ stored' \subseteq stored \cup f.batch
        \/ flushes' = {[f EXCEPT !.at = "update"]} /\ stored' = stored \cup f.batch
    BY <1>9, <2>1 DEF Insert, NextQuery, EndFlush
  <2>3. Inserting' = {}
    BY <1>6, <2>2 DEF Inserting, FlushType
  <2>4. \A g \in flushes' : g.batch = f.batch /\ stored' = stored \cup f.batch
    BY <1>6, <2>2 DEF FlushType
  <2> QED
    BY <2>1, <2>2, <2>3, <2>4
<1>10. ASSUME NEW f \in flushes, UpdateRow(f)
       PROVE  Ordered'
  <2>1. Ordered /\ flushes = {f} /\ f.at = "update" /\ UNCHANGED <<buffer, stored>>
    BY <1>3, <1>10 DEF UpdateRow, historyVars
  <2> DEFINE ack == [f EXCEPT !.at = "ack", !.todo = {}]
  <2> DEFINE on == [f EXCEPT !.todo = f.todo \ {FirstDriver(f.batch, f.todo)}]
  <2>2. flushes' \in {{}, {ack}, {on}}
    BY <1>10, <2>1 DEF UpdateRow, NextQuery, EndFlush
  <2>6. ack.batch = f.batch /\ ack.at = "ack" /\ on.batch = f.batch /\ on.at = "update"
    BY <1>6, <2>1 DEF FlushType
  <2> HIDE DEF ack, on
  <2>3. \A g \in flushes' : g.batch = f.batch /\ g.at # "insert"
    BY <2>2, <2>6
  <2>4. Inserting' = {} /\ Inserting = {}
    BY <2>1, <2>3 DEF Inserting
  <2>5. \A g, h \in flushes' : g = h
    BY <2>2
  <2> QED
    BY <2>1, <2>3, <2>4, <2>5
<1>11. CASE Acknowledge
  <2>1. Ordered /\ flushes' \subseteq flushes /\ UNCHANGED <<buffer, stored>>
    BY <1>3, <1>11 DEF Acknowledge, EndFlush, historyVars, dbVars
  <2>2. Inserting' \subseteq Inserting
    BY <2>1 DEF Inserting
  <2> QED
    BY <2>1, <2>2
<1> HIDE DEF Ordered
<1>12. CASE (\E m \in Messages : Receive(m)) \/ GeoAdd \/ StreamAdd \/ BlockExpires \/ Resume
            \/ Start \/ UNCHANGED vars
  BY <1>4, <1>12 DEF Receive, GeoAdd, StreamAdd, BlockExpires, Resume, Start, vars, dbVars, workVars,
     historyVars
<1> QED
  BY <1>1, <1>7, <1>8, <1>9, <1>10, <1>11, <1>12 DEF CalmStep, FlushStep

\* A row older than the history is in a flush that has its UPDATE still to come.
RowsFollow ==
  Calm /\ ~ overlap =>
    \A n \in stored :
      \/ n <= rows[DriverAt(n)]
      \/ \E f \in flushes :
           /\ f.at = "update" /\ DriverAt(n) \in f.todo
           /\ \E k \in f.batch : DriverAt(k) = DriverAt(n) /\ n <= k

\* RowsFollow is kept.
LEMMA RowsFollowKept ==
  ASSUME TypeOK, Queue, InFlight, Stopping, Dead, InOrder, RowsFollow, [Next]_vars
  PROVE  RowsFollow'
<1> DEFINE Pending(n, f) == /\ f.at = "update" /\ DriverAt(n) \in f.todo
                            /\ \E k \in f.batch : DriverAt(k) = DriverAt(n) /\ n <= k
<1> DEFINE Shown(n) == n <= rows[DriverAt(n)]
<1>0. /\ cursor \in Nat /\ stored \subseteq 1 .. cursor
      /\ \A f \in flushes : f \in FlushType(cursor) /\ f.batch \subseteq 1 .. cursor
      /\ \A n \in 1 .. cursor : DriverAt(n)' = DriverAt(n)
  <2>1. \A n \in 1 .. cursor : stream'[n] = stream[n]
    BY Monotone, LenProperties DEF TypeOK
  <2>2. \A f \in flushes : f \in FlushType(cursor) /\ f.batch \subseteq 1 .. cursor
    BY DEF TypeOK, FlushType
  <2> QED
    BY <2>1, <2>2, LenProperties DEF TypeOK, DriverAt
<1> SUFFICES ASSUME Calm', ~ overlap', NEW n \in stored'
             PROVE  Shown(n)' \/ \E f \in flushes' : Pending(n, f)'
  BY DEF RowsFollow
<1>1. /\ Calm /\ CalmStep
      /\ conn # <<>> \/ flushes # {} => PoolOpen /\ Up
  BY CalmSteps
<1>2. ASSUME ~ overlap, n \in stored PROVE Shown(n) \/ \E f \in flushes : Pending(n, f)
  BY <1>1, <1>2 DEF RowsFollow
<1>3. ASSUME ~ overlap, UNCHANGED <<stored, rows>>, flushes \subseteq flushes'
      PROVE  Shown(n)' \/ \E f \in flushes' : Pending(n, f)'
  <2>1. n \in stored /\ n \in 1 .. cursor
    BY <1>0, <1>3
  <2>2. CASE Shown(n)
    BY <1>0, <1>3, <2>1, <2>2
  <2>3. CASE \E f \in flushes : Pending(n, f)
    <3>1. PICK f \in flushes : Pending(n, f)
      BY <2>3
    <3>2. Pending(n, f)'
      BY <1>0, <2>1, <3>1
    <3> QED
      BY <1>3, <3>1, <3>2
  <2> QED
    BY <1>2, <1>3, <2>1, <2>2, <2>3
<1>4. CASE ReadStream \/ IntervalFlush
  BY <1>3, <1>4 DEF ReadStream, IntervalFlush, StartFlush, dbVars
<1>5. ASSUME NEW f \in flushes, Insert(f)
      PROVE  Shown(n)' \/ \E g \in flushes' : Pending(n, g)'
  <2>1. ~ overlap /\ UNCHANGED rows /\ f.at = "insert" /\ flushes = {f}
    BY <1>1, <1>5 DEF Insert, InOrder
  <2>2. CASE n \in stored
    <3>1. n <= rows[DriverAt(n)] /\ n \in 1 .. cursor
      BY <1>0, <1>2, <2>1, <2>2
    <3> QED
      BY <1>0, <2>1, <3>1
  <2>3. CASE n \notin stored
    <3>1. /\ n \in f.batch /\ n \in 1 .. cursor
          /\ flushes' = {[f EXCEPT !.at = "update"]}
      BY <1>0, <1>1, <1>5, <2>1, <2>3 DEF Insert, NextQuery
    <3>2. DriverAt(n) \in f.todo
      BY <2>1, <3>1 DEF InFlight, DriversOf
    <3> DEFINE g == [f EXCEPT !.at = "update"]
    <3>3. g.at = "update" /\ g.todo = f.todo /\ g.batch = f.batch
      BY <1>0 DEF FlushType
    <3> HIDE DEF g
    <3>4. n <= n
      BY <1>0, <3>1
    <3>5. Pending(n, g)'
      BY <1>0, <3>1, <3>2, <3>3, <3>4
    <3> QED
      BY <3>1, <3>5 DEF g
  <2> QED
    BY <2>2, <2>3
<1>6. ASSUME NEW f \in flushes, UpdateRow(f)
      PROVE  Shown(n)' \/ \E g \in flushes' : Pending(n, g)'
  <2> DEFINE d == FirstDriver(f.batch, f.todo)
  <2> DEFINE m == Newest(f.batch, d)
  <2>1. /\ ~ overlap /\ UNCHANGED stored /\ f.at = "update" /\ flushes = {f}
        /\ n \in stored /\ n \in 1 .. cursor
    BY <1>0, <1>1, <1>6 DEF UpdateRow, historyVars, InOrder
  <2>2. /\ d \in f.todo /\ m \in f.batch
        /\ \A k \in f.batch : DriverAt(k) = d => k <= m
    BY <2>1, UpdateEffect
  <2>3. rows' = [rows EXCEPT ![d] = m]
    BY <1>6 DEF UpdateRow
  <2> HIDE DEF d, m
  <2>4. d \in Drivers /\ rows'[d] = m /\ \A e \in Drivers : e # d => rows'[e] = rows[e]
    BY <1>0, <2>2, <2>3 DEF FlushType, TypeOK
  <2>5. DriverAt(n) \in Drivers
    BY <2>1, ElementOfSeq, OwnerAssumption, LenProperties DEF DriverAt, TypeOK
  <2>6. CASE DriverAt(n) = d
    <3>1. n \in f.batch \/ n < m
      BY <1>1, <2>1, <2>2 DEF InOrder
    <3>2. n <= m
      BY <1>0, <2>1, <2>2, <2>6, <3>1
    <3> QED
      BY <1>0, <2>1, <2>4, <2>6, <3>2
  <2>7. CASE DriverAt(n) # d
    <3>1. CASE Shown(n)
      BY <1>0, <2>1, <2>4, <2>5, <2>7, <3>1
    <3>2. CASE Pending(n, f)
      <4>1. f.todo \ {d} # {}
        BY <2>7, <3>2
      <4>0. PICK g : g = [f EXCEPT !.todo = f.todo \ {d}]
        OBVIOUS
      <4>2. flushes' = {g}
        <5>1. flushes' = (flushes \ {f}) \cup {g}
          BY <1>1, <1>6, <4>0, <4>1 DEF UpdateRow, NextQuery, d
        <5> QED
          BY <2>1, <5>1
      <4>3. g.at = "update" /\ g.todo = f.todo \ {d} /\ g.batch = f.batch
        BY <1>0, <2>1, <4>0 DEF FlushType
      <4>4. Pending(n, g)'
        <5>1. PICK k \in f.batch : DriverAt(k) = DriverAt(n) /\ n <= k
          BY <3>2
        <5>2. DriverAt(k)' = DriverAt(k) /\ DriverAt(n)' = DriverAt(n)
          BY <1>0, <2>1
        <5>3. DriverAt(n) \in g.todo
          BY <2>7, <3>2, <4>3
        <5> QED
          BY <4>3, <5>1, <5>2, <5>3
      <4> QED
        BY <4>2, <4>4
    <3> QED
      BY <1>2, <2>1, <3>1, <3>2
  <2> QED
    BY <2>6, <2>7
<1>7. CASE Acknowledge
  <2>1. ~ overlap /\ UNCHANGED <<stored, rows>> /\ n \in stored /\ n \in 1 .. cursor
    BY <1>0, <1>7 DEF Acknowledge, historyVars, dbVars
  <2>2. PICK f \in flushes : f.at = "ack"
    BY <1>7 DEF Acknowledge, Acknowledging
  <2>3. flushes = {f}
    BY <1>1, <2>1 DEF InOrder
  <2>4. n <= rows[DriverAt(n)]
    BY <1>2, <2>1, <2>2, <2>3
  <2> QED
    BY <1>0, <2>1, <2>4
<1>8. CASE (\E m \in Messages : Receive(m)) \/ GeoAdd \/ StreamAdd \/ BlockExpires \/ Resume
           \/ Start \/ UNCHANGED vars
  BY <1>3, <1>8 DEF Receive, GeoAdd, StreamAdd, BlockExpires, Resume, Start, vars, dbVars, workVars,
     historyVars
<1> QED
  BY <1>1, <1>4, <1>5, <1>6, <1>7, <1>8 DEF CalmStep, FlushStep
-----------------------------------------------------------------------------
(* The GEO set and the stream. *)

\* The command at place i of the queue is an XADD of one of d's pings.
AddAt(i, d) == conn[i].op = "add" /\ Owner[PingOf(conn[i])] = d

\* The GEO set has the position of d's last entry of the stream.
IsLast(d) ==
  \/ geo[d] = None /\ \A n \in 1 .. Len(stream) : DriverAt(n) # d
  \/ \E n \in 1 .. Len(stream) :
       /\ DriverAt(n) = d /\ geo[d] = stream[n]
       /\ \A k \in 1 .. Len(stream) : DriverAt(k) = d => k <= n

\* The GEO set has the position of d's last XADD in the queue.
OnItsWay(d) ==
  \E i \in 1 .. Len(conn) :
    /\ AddAt(i, d) /\ PingOf(conn[i]) = geo[d]
    /\ \A k \in 1 .. Len(conn) : AddAt(k, d) => k <= i

\* The GEO set is as far as the XADDs of d's pings that are queued or done.
Follows(d) == OnItsWay(d) \/ (IsLast(d) /\ \A i \in 1 .. Len(conn) : ~ AddAt(i, d))

\* GEOADD and XADD take a driver's pings in the same order.
GeoFollows == Calm => \A d \in Drivers : Follows(d)

\* The queue keeps its XADDs in order as it moves up by k places.
AddsKept(k) ==
  /\ \A i \in 1 .. Len(conn') :
       conn'[i].op = "add" => i + k \in 1 .. Len(conn) /\ conn[i + k] = conn'[i]
  /\ \A i \in 1 .. Len(conn) :
       conn[i].op = "add" => i - k \in 1 .. Len(conn') /\ conn'[i - k] = conn[i]

\* The queue without its front.
LEMMA TailFacts ==
  ASSUME TypeOK, conn # <<>>
  PROVE  /\ Tail(conn) \in Seq(Command) /\ Len(Tail(conn)) = Len(conn) - 1
         /\ Len(conn) \in Nat \ {0} /\ Head(conn) = conn[1] /\ Head(conn) \in Command
         /\ \A i \in 1 .. Len(conn) - 1 : Tail(conn)[i] = conn[i + 1]
BY HeadTailProperties, LenProperties DEF TypeOK

\* XADDs stay in place as other commands are taken off the queue or added.
LEMMA QueueMoves ==
  ASSUME TypeOK, NEW c \in Command, c.op # "add"
  PROVE  /\ conn' = conn => AddsKept(0)
         /\ conn' = Append(conn, c) => AddsKept(0)
         /\ conn # <<>> /\ Head(conn).op # "add" =>
              /\ conn' = Tail(conn) => AddsKept(1)
              /\ conn' = Append(Tail(conn), c) => AddsKept(1)
<1>1. conn \in Seq(Command) /\ Len(conn) \in Nat
  BY LenProperties DEF TypeOK
<1>2. conn' = conn => AddsKept(0)
  BY <1>1 DEF AddsKept
<1>3. ASSUME conn' = Append(conn, c) PROVE AddsKept(0)
  <2>1. /\ Len(conn') = Len(conn) + 1 /\ conn'[Len(conn) + 1] = c
        /\ \A i \in 1 .. Len(conn) : conn'[i] = conn[i]
    BY <1>1, <1>3, AppendProperties
  <2> QED
    BY <1>1, <2>1 DEF AddsKept
<1>4. ASSUME conn # <<>>, Head(conn).op # "add", conn' = Tail(conn) PROVE AddsKept(1)
  BY <1>1, <1>4, TailFacts DEF AddsKept
<1>5. ASSUME conn # <<>>, Head(conn).op # "add", conn' = Append(Tail(conn), c) PROVE AddsKept(1)
  <2>1. /\ Len(conn') = Len(conn) /\ conn'[Len(conn)] = c
        /\ \A i \in 1 .. Len(conn) - 1 : conn'[i] = conn[i + 1]
    <3>1. /\ Len(conn') = Len(Tail(conn)) + 1 /\ conn'[Len(Tail(conn)) + 1] = c
          /\ \A i \in 1 .. Len(Tail(conn)) : conn'[i] = Tail(conn)[i]
      BY <1>5, TailFacts, AppendProperties
    <3> QED
      BY <1>1, <1>5, <3>1, TailFacts
  <2>2. Len(conn) \in Nat \ {0} /\ conn[1].op # "add"
    BY <1>5, TailFacts
  <2>3. \A i \in 1 .. Len(conn) : i = 1 \/ (i - 1 \in 1 .. Len(conn) - 1 /\ conn'[i - 1] = conn[i])
    BY <2>1, <2>2
  <2>4. \A i \in 1 .. Len(conn) : i = Len(conn) \/ (i + 1 \in 1 .. Len(conn) /\ conn'[i] = conn[i + 1])
    BY <2>1, <2>2
  <2> QED
    BY <2>1, <2>2, <2>3, <2>4 DEF AddsKept
<1> QED
  BY <1>2, <1>3, <1>4, <1>5

\* No step but GEOADD and XADD changes what Follows speaks of.
LEMMA CalmQueue ==
  ASSUME TypeOK, Dead, CalmStep, ~ GeoAdd, ~ StreamAdd
  PROVE  UNCHANGED <<stream, geo>> /\ \E k \in {0, 1} : AddsKept(k)
<1>1. /\ Read \in Command /\ Read.op = "read"
      /\ \A m \in Messages : Geo(m, 1) \in Command /\ Geo(m, 1).op = "geo"
      /\ \A f \in flushes : Ack(f.batch) \in Command /\ Ack(f.batch).op = "ack"
  <2>1. \A m \in Messages : 1 \in DOMAIN Payload[m]
    BY PayloadAssumption, LenProperties
  <2> QED
    BY <2>1 DEF Command, Read, Geo, Ack, TypeOK
<1>2. ASSUME NEW q, Again(q)
      PROVE  conn' = q \/ conn' = Append(q, Read)
  BY <1>2 DEF Again
<1>3. ASSUME NEW q, NEW f, EndFlush(f, q)
      PROVE  conn' = q \/ conn' = Append(q, Read)
  BY <1>2, <1>3 DEF EndFlush
<1>4. ASSUME NEW m \in Messages, Receive(m)
      PROVE  UNCHANGED <<stream, geo>> /\ AddsKept(0)
  BY <1>1, <1>4, QueueMoves DEF Receive, redisVars
<1>5. CASE ReadStream
  <2>1. NextIs("read") /\ UNCHANGED <<stream, geo>>
        /\ (conn' = Tail(conn) \/ conn' = Append(Tail(conn), Read))
    BY <1>2, <1>5 DEF ReadStream
  <2> QED
    BY <1>1, <2>1, QueueMoves DEF NextIs
<1>6. CASE BlockExpires
  BY <1>1, <1>2, <1>6, QueueMoves DEF BlockExpires, NextIs, redisVars
<1>7. CASE Acknowledge
  <2>1. NextIs("ack") /\ UNCHANGED <<stream, geo>>
        /\ (conn' = Tail(conn) \/ conn' = Append(Tail(conn), Read))
    BY <1>3, <1>7 DEF Acknowledge
  <2> QED
    BY <1>1, <2>1, QueueMoves DEF NextIs
<1>8. CASE Resume \/ IntervalFlush \/ UNCHANGED vars
  BY <1>1, <1>2, <1>8, QueueMoves DEF Resume, IntervalFlush, vars, redisVars
<1>9. ASSUME NEW f \in flushes, FlushStep(f)
      PROVE  UNCHANGED <<stream, geo>> /\ AddsKept(0)
  <2>1. UNCHANGED <<stream, geo>>
        /\ (conn' = conn \/ conn' = Append(conn, Read) \/ conn' = Append(conn, Ack(f.batch)))
    BY <1>3, <1>9 DEF FlushStep, Insert, UpdateRow, NextQuery, redisVars
  <2> QED
    BY <1>1, <2>1, QueueMoves
<1>10. CASE Start
  <2>1. conn = <<>> /\ conn' = <<Read>> /\ UNCHANGED <<stream, geo>>
    BY <1>10 DEF Start, Dead, redisVars
  <2>2. conn' = Append(conn, Read)
    BY <2>1
  <2> QED
    BY <1>1, <2>1, <2>2, QueueMoves
<1> QED
  BY <1>4, <1>5, <1>6, <1>7, <1>8, <1>9, <1>10 DEF CalmStep

\* Follows(d) is kept while the XADDs of d stay in order and d stays in place.
LEMMA FollowsKept ==
  ASSUME TypeOK, conn' \in Seq(Command'), NEW k \in {0, 1}, NEW d \in Drivers, Follows(d),
         geo'[d] = geo[d], IsLast(d) => IsLast(d)',
         \A i \in 1 .. Len(conn') : AddAt(i, d)' =>
           i + k \in 1 .. Len(conn) /\ conn[i + k] = conn'[i],
         \A i \in 1 .. Len(conn) : AddAt(i, d) =>
           i - k \in 1 .. Len(conn') /\ conn'[i - k] = conn[i]
  PROVE  Follows(d)'
<1>1. Len(conn) \in Nat /\ Len(conn') \in Nat
  BY LenProperties DEF TypeOK
<1>2. /\ \A i \in 1 .. Len(conn') : AddAt(i, d)' => i + k \in 1 .. Len(conn) /\ AddAt(i + k, d)
      /\ \A i \in 1 .. Len(conn) : AddAt(i, d) =>
           i - k \in 1 .. Len(conn') /\ AddAt(i - k, d)'
                                     /\ PingOf(conn[i - k])' = PingOf(conn[i])
  BY DEF AddAt, PingOf
<1>3. CASE OnItsWay(d)
  <2>1. PICK i \in 1 .. Len(conn) :
          /\ AddAt(i, d) /\ PingOf(conn[i]) = geo[d]
          /\ \A j \in 1 .. Len(conn) : AddAt(j, d) => j <= i
    BY <1>3 DEF OnItsWay
  <2>2. i - k \in 1 .. Len(conn') /\ AddAt(i - k, d)' /\ PingOf(conn[i - k])' = geo'[d]
    BY <1>2, <2>1
  <2>3. \A j \in 1 .. Len(conn') : AddAt(j, d)' => j <= i - k
    <3>1. \A j \in 1 .. Len(conn') : AddAt(j, d)' => j + k <= i
      BY <1>2, <2>1
    <3>2. \A j \in 1 .. Len(conn') : j + k <= i => j <= i - k
      BY <1>1
    <3> QED
      BY <3>1, <3>2
  <2> QED
    BY <2>2, <2>3 DEF Follows, OnItsWay
<1>4. CASE IsLast(d) /\ \A i \in 1 .. Len(conn) : ~ AddAt(i, d)
  <2>2. \A i \in 1 .. Len(conn') : ~ AddAt(i, d)'
    BY <1>2, <1>4
  <2> QED
    BY <1>4, <2>2 DEF Follows
<1> QED
  BY <1>3, <1>4 DEF Follows

\* Taking a command off the queue changes its length.
LEMMA Shorter ==
  ASSUME NEW S, NEW q \in Seq(S), q # <<>>
  PROVE  Len(Tail(q)) # Len(q)
<1>1. Len(Tail(q)) = Len(q) - 1 /\ Len(q) \in Nat
  BY HeadTailProperties, LenProperties
<1>2. \A n \in Nat : n - 1 # n
  OBVIOUS
<1> QED
  BY ONLY <1>1, <1>2, Zenon

\* The queue after a command whose continuation may issue another.
LEMMA Shifted ==
  ASSUME TypeOK, conn # <<>>, NEW c \in Command,
         conn' = Tail(conn) \/ conn' = Append(Tail(conn), c)
  PROVE  /\ Len(conn) \in Nat \ {0} /\ Len(conn') \in {Len(conn) - 1, Len(conn)}
         /\ \A i \in 1 .. Len(conn) - 1 : conn'[i] = conn[i + 1]
         /\ Len(conn') = Len(conn) => conn'[Len(conn)] = c
         /\ conn' = Append(Tail(conn), c) => Len(conn') = Len(conn)
<1>1. /\ Len(conn) \in Nat \ {0} /\ Len(Tail(conn)) = Len(conn) - 1
      /\ \A i \in 1 .. Len(conn) - 1 : Tail(conn)[i] = conn[i + 1]
  BY TailFacts
<1>2. ASSUME NEW q, q = Append(Tail(conn), c)
      PROVE  /\ Len(q) = Len(conn) /\ q[Len(conn)] = c
             /\ \A i \in 1 .. Len(conn) - 1 : q[i] = conn[i + 1]
  <2>1. /\ Len(q) = Len(Tail(conn)) + 1 /\ q[Len(Tail(conn)) + 1] = c
        /\ \A i \in 1 .. Len(Tail(conn)) : q[i] = Tail(conn)[i]
    BY <1>2, TailFacts, AppendProperties
  <2> QED
    BY <1>1, <2>1
<1>3. ASSUME NEW q, q = Tail(conn)
      PROVE  /\ Len(q) # Len(conn) /\ Len(q) = Len(conn) - 1
             /\ \A i \in 1 .. Len(conn) - 1 : q[i] = conn[i + 1]
  <2>1. Len(q) # Len(conn)
    BY <1>3, Shorter, Zenon DEF TypeOK
  <2> QED
    BY <1>1, <1>3, <2>1, Zenon
<1> QED
  BY <1>1, <1>2, <1>3

\* GEOADD moves the driver and queues the driver's XADD behind all others.
LEMMA GeoAddKept ==
  ASSUME TypeOK, GeoAdd, conn' \in Seq(Command'), NEW d \in Drivers, Follows(d)
  PROVE  Follows(d)'
<1> DEFINE h == Head(conn)
<1> DEFINE p == PingOf(h)
<1>1. /\ conn # <<>> /\ h = conn[1] /\ h.op = "geo" /\ h \in Command
      /\ h.msg \in Messages /\ h.index \in Nat /\ h.index \in DOMAIN Payload[h.msg]
  BY TailFacts DEF GeoAdd, NextIs, Command, Read, Quit
<1>2. /\ Add(h.msg, h.index) \in Command /\ Add(h.msg, h.index).op = "add"
      /\ PingOf(Add(h.msg, h.index)) = p
  BY <1>1 DEF Command, Add, PingOf
<1>3. /\ conn' = Tail(conn) \/ conn' = Append(Tail(conn), Add(h.msg, h.index))
      /\ UNCHANGED stream
      /\ \/ UNCHANGED geo /\ conn' = Tail(conn)
         \/ /\ geo' = [geo EXCEPT ![Owner[p]] = p]
            /\ conn' = Append(Tail(conn), Add(h.msg, h.index))
  BY DEF GeoAdd
<1> HIDE DEF h, p
<1>4. /\ Len(conn) \in Nat \ {0} /\ Len(conn') \in {Len(conn) - 1, Len(conn)}
      /\ \A i \in 1 .. Len(conn) - 1 : conn'[i] = conn[i + 1]
      /\ Len(conn') = Len(conn) => conn'[Len(conn)] = Add(h.msg, h.index)
      /\ conn' = Append(Tail(conn), Add(h.msg, h.index)) => Len(conn') = Len(conn)
  BY <1>1, <1>2, <1>3, Shifted
<1>5. CASE Owner[p] = d /\ geo' = [geo EXCEPT ![Owner[p]] = p] /\ Len(conn') = Len(conn)
  <2>1. geo'[d] = p
    BY <1>5 DEF TypeOK
  <2>2. AddAt(Len(conn), d)' /\ PingOf(conn[Len(conn)])' = p
    BY <1>2, <1>4, <1>5 DEF AddAt, PingOf
  <2>3. \A k \in 1 .. Len(conn)' : k <= Len(conn)
    BY <1>4, <1>5
  <2> QED
    BY <1>4, <1>5, <2>1, <2>2, <2>3 DEF Follows, OnItsWay
<1>6. CASE geo'[d] = geo[d] /\ (Len(conn') = Len(conn) => Owner[p] # d)
  <2>1. ~ AddAt(1, d)
    BY <1>1 DEF AddAt
  <2>2. Len(conn') = Len(conn) => ~ AddAt(Len(conn), d)'
    BY <1>2, <1>4, <1>6 DEF AddAt, PingOf
  <2>3. IsLast(d) => IsLast(d)'
    BY <1>3, <1>6 DEF IsLast, DriverAt
  <2>4. \A i \in 1 .. Len(conn') : AddAt(i, d)' => i + 1 \in 1 .. Len(conn) /\ conn[i + 1] = conn'[i]
    BY <1>4, <2>2
  <2>5. \A i \in 1 .. Len(conn) : AddAt(i, d) => i - 1 \in 1 .. Len(conn') /\ conn'[i - 1] = conn[i]
    BY <1>4, <2>1
  <2> QED
    BY <1>6, <2>3, <2>4, <2>5, FollowsKept
<1>7. geo' = [geo EXCEPT ![Owner[p]] = p] /\ Owner[p] # d => geo'[d] = geo[d]
  BY DEF TypeOK
<1>8. conn' = Tail(conn) => Len(conn') # Len(conn)
  BY <1>1, Shorter, Zenon DEF TypeOK
<1>9. CASE UNCHANGED geo /\ conn' = Tail(conn)
  BY <1>6, <1>8, <1>9
<1>10. CASE /\ geo' = [geo EXCEPT ![Owner[p]] = p]
            /\ conn' = Append(Tail(conn), Add(h.msg, h.index))
  BY <1>4, <1>5, <1>6, <1>7, <1>10
<1> QED
  BY <1>3, <1>9, <1>10

\* XADD makes the ping the driver's last entry.
LEMMA StreamAddKept ==
  ASSUME TypeOK, StreamAdd, conn' \in Seq(Command'), NEW d \in Drivers, Follows(d)
  PROVE  Follows(d)'
<1> DEFINE h == Head(conn)
<1> DEFINE p == PingOf(h)
<1> DEFINE next == Geo(h.msg, h.index + 1)
<1>1. /\ conn # <<>> /\ h = conn[1] /\ h.op = "add" /\ h \in Command
      /\ h.msg \in Messages /\ h.index \in Nat /\ h.index \in DOMAIN Payload[h.msg]
  BY TailFacts DEF StreamAdd, NextIs, Command, Read, Quit
<1>2. next.op = "geo"
  BY DEF Geo
<1>3. /\ UNCHANGED geo /\ stream' = Append(stream, p)
      /\ conn' = IF h.index < Len(Payload[h.msg]) THEN Append(Tail(conn), next) ELSE Tail(conn)
  BY DEF StreamAdd
<1>4. h.index < Len(Payload[h.msg]) => next \in Command
  BY <1>1, PayloadAssumption, LenProperties DEF Command, Geo
<1>5. p \in Pings
  BY <1>1, PayloadAssumption, ElementOfSeq, LenProperties DEF PingOf
<1>6. /\ Len(stream) \in Nat /\ Len(stream') = Len(stream) + 1
      /\ stream'[Len(stream) + 1] = p
      /\ \A n \in 1 .. Len(stream) : stream'[n] = stream[n] /\ DriverAt(n)' = DriverAt(n)
      /\ \A n \in 1 .. Len(stream') : n \in 1 .. Len(stream) \/ DriverAt(n)' = Owner[p]
  <2>1. /\ Len(stream) \in Nat /\ Len(stream') = Len(stream) + 1
        /\ stream'[Len(stream) + 1] = p
        /\ \A n \in 1 .. Len(stream) : stream'[n] = stream[n]
    BY <1>3, <1>5, AppendProperties, LenProperties DEF TypeOK
  <2>2. \A n \in 1 .. Len(stream) : Owner[stream'[n]] = Owner[stream[n]]
    BY <2>1
  <2> HIDE DEF p
  <2>3. \A n \in 1 .. Len(stream') : n \in 1 .. Len(stream) \/ Owner[stream'[n]] = Owner[p]
    BY <2>1
  <2> QED
    BY <2>1, <2>2, <2>3 DEF DriverAt
<1> HIDE DEF h, p, next
<1>7. /\ Len(conn) \in Nat \ {0} /\ Len(conn') \in {Len(conn) - 1, Len(conn)}
      /\ \A i \in 1 .. Len(conn) - 1 : conn'[i] = conn[i + 1]
      /\ Len(conn') = Len(conn) => conn'[Len(conn)] = next
  <2>1. CASE h.index < Len(Payload[h.msg])
    BY <1>1, <1>3, <1>4, <2>1, Shifted
  <2>2. CASE ~ (h.index < Len(Payload[h.msg]))
    <3>1. conn' = Tail(conn)
      BY <1>3, <2>2
    <3>2. Len(conn) \in Nat \ {0} /\ Len(Tail(conn)) = Len(conn) - 1
      BY <1>1, TailFacts
    <3>3. Len(conn') # Len(conn)
      BY <1>1, <3>1, Shorter, Zenon DEF TypeOK
    <3> QED
      BY <1>1, <3>1, <3>2, <3>3, TailFacts
  <2> QED
    BY <2>1, <2>2
<1>8. Len(conn') = Len(conn) => ~ AddAt(Len(conn), d)'
  BY <1>2, <1>7 DEF AddAt
<1>9. \A i \in 1 .. Len(conn') : AddAt(i, d)' => i + 1 \in 1 .. Len(conn) /\ conn[i + 1] = conn'[i]
  BY <1>7, <1>8
<1>10. CASE Owner[p] # d
  <2>1. ~ AddAt(1, d)
    BY <1>1, <1>10 DEF AddAt, p
  <2>2. \A i \in 1 .. Len(conn) : AddAt(i, d) => i - 1 \in 1 .. Len(conn') /\ conn'[i - 1] = conn[i]
    BY <1>7, <2>1
  <2>3. IsLast(d) => IsLast(d)'
    <3>1. \A n \in 1 .. Len(stream') : n \in 1 .. Len(stream) \/ DriverAt(n)' # d
      BY <1>6, <1>10
    <3> QED
      <4> SUFFICES ASSUME IsLast(d) PROVE IsLast(d)'
        OBVIOUS
      <4>1. CASE geo[d] = None /\ \A n \in 1 .. Len(stream) : DriverAt(n) # d
        BY <1>3, <1>6, <3>1, <4>1 DEF IsLast
      <4>2. ASSUME NEW n \in 1 .. Len(stream), DriverAt(n) = d, geo[d] = stream[n],
                   \A k \in 1 .. Len(stream) : DriverAt(k) = d => k <= n
            PROVE  IsLast(d)'
        <5>1. n \in 1 .. Len(stream') /\ DriverAt(n)' = d /\ geo'[d] = stream'[n]
          BY <1>3, <1>6, <4>2
        <5>2. \A k \in 1 .. Len(stream') : DriverAt(k)' = d => k <= n
          BY <1>6, <3>1, <4>2
        <5> QED
          BY <5>1, <5>2 DEF IsLast
      <4> QED
        BY <4>1, <4>2 DEF IsLast
  <2> QED
    BY <1>3, <1>9, <2>2, <2>3, FollowsKept
<1>11. CASE Owner[p] = d
  <2>1. AddAt(1, d)
    BY <1>1, <1>11 DEF AddAt, p
  <2>2. PICK i \in 1 .. Len(conn) :
          /\ AddAt(i, d) /\ PingOf(conn[i]) = geo[d]
          /\ \A j \in 1 .. Len(conn) : AddAt(j, d) => j <= i
    BY <1>7, <2>1 DEF Follows, OnItsWay
  <2>3. CASE i = 1
    <3>1. geo'[d] = p
      BY <1>1, <1>3, <2>2, <2>3 DEF p
    <3>2. IsLast(d)'
      <4>1. PICK n \in Nat : n = Len(stream) + 1
        BY <1>6
      <4>2. n \in 1 .. Len(stream') /\ geo'[d] = stream'[n] /\ DriverAt(n)' = d
        BY <1>6, <1>11, <3>1, <4>1
      <4>3. \A k \in 1 .. Len(stream') : k <= n
        BY <1>6, <4>1
      <4> QED
        BY <4>2, <4>3 DEF IsLast
    <3>3. \A j \in 1 .. Len(conn') : ~ AddAt(j, d)'
      <4>1. \A j \in 1 .. Len(conn') : AddAt(j, d)' => AddAt(j + 1, d)
        BY <1>9 DEF AddAt, PingOf
      <4> QED
        BY <1>7, <1>9, <2>2, <2>3, <4>1
    <3> QED
      BY <3>2, <3>3 DEF Follows
  <2>4. CASE i # 1
    <3>1. i - 1 \in 1 .. Len(conn') /\ conn'[i - 1] = conn[i]
      BY <1>7, <2>4
    <3>2. AddAt(i - 1, d)' /\ PingOf(conn[i - 1])' = geo'[d]
      BY <1>3, <2>2, <3>1 DEF AddAt, PingOf
    <3>3. \A j \in 1 .. Len(conn') : AddAt(j, d)' => AddAt(j + 1, d)
      BY <1>9 DEF AddAt, PingOf
    <3>4. \A j \in 1 .. Len(conn') : AddAt(j, d)' => j <= i - 1
      BY <1>7, <1>9, <2>2, <3>3
    <3> QED
      BY <3>1, <3>2, <3>4 DEF Follows, OnItsWay
  <2> QED
    BY <2>3, <2>4
<1> QED
  BY <1>10, <1>11

\* GeoFollows is kept.
LEMMA GeoFollowsKept ==
  ASSUME TypeOK, Queue, InFlight, Stopping, Dead, GeoFollows, [Next]_vars
  PROVE  GeoFollows'
<1> SUFFICES ASSUME Calm', NEW d \in Drivers PROVE Follows(d)'
  BY DEF GeoFollows
<1>1. Calm /\ CalmStep /\ (conn # <<>> \/ flushes # {} => PoolOpen /\ Up)
  BY CalmSteps
<1>2. Follows(d) /\ conn' \in Seq(Command')
  BY <1>1, TypeKept DEF GeoFollows, TypeOK
<1>3. CASE ~ GeoAdd /\ ~ StreamAdd
  <2>1. UNCHANGED <<stream, geo>> /\ \E k \in {0, 1} : AddsKept(k)
    BY <1>1, <1>3, CalmQueue
  <2>2. PICK k \in {0, 1} : AddsKept(k)
    BY <2>1
  <2>3. IsLast(d) => IsLast(d)'
    BY <2>1 DEF IsLast, DriverAt
  <2> QED
    BY <1>2, <2>1, <2>2, <2>3, FollowsKept DEF AddsKept, AddAt
<1> QED
  BY <1>2, <1>3, GeoAddKept, StreamAddKept

\* GeoFollows says more than GeoAgrees.
LEMMA GeoFollowsAgrees ==
  ASSUME TypeOK, GeoFollows
  PROVE  GeoAgrees
<1> SUFFICES ASSUME Calm, NEW d \in Drivers
             PROVE  \/ geo[d] = LastAdded(d)
                    \/ \E i \in DOMAIN conn : conn[i].op = "add" /\ Owner[PingOf(conn[i])] = d
  BY DEF GeoAgrees, Calm
<1>1. DOMAIN conn = 1 .. Len(conn) /\ DOMAIN stream = 1 .. Len(stream) /\ Len(stream) \in Nat
  BY LenProperties DEF TypeOK
<1>2. CASE OnItsWay(d)
  BY <1>1, <1>2 DEF OnItsWay, AddAt
<1>3. CASE IsLast(d)
  <2> DEFINE S == {n \in DOMAIN stream : DriverAt(n) = d}
  <2>1. CASE geo[d] = None /\ \A n \in 1 .. Len(stream) : DriverAt(n) # d
    BY <1>1, <2>1 DEF LastAdded
  <2>2. ASSUME NEW n \in 1 .. Len(stream), DriverAt(n) = d, geo[d] = stream[n],
               \A k \in 1 .. Len(stream) : DriverAt(k) = d => k <= n
        PROVE  geo[d] = LastAdded(d)
    <3>1. n \in S
      BY <1>1, <2>2
    <3>2. \A m \in S : (\A k \in S : DriverAt(k) = d => k <= m) => m = n
      BY <1>1, <2>2
    <3>3. Newest(S, d) = n
      BY <1>1, <2>2, <3>1, <3>2 DEF Newest
    <3> QED
      BY <2>2, <3>1, <3>3 DEF LastAdded
  <2> QED
    BY <1>3, <2>1, <2>2 DEF IsLast
<1> QED
  BY <1>2, <1>3 DEF GeoFollows, Follows
-----------------------------------------------------------------------------
(* The inductive invariant and the theorems. *)

\* The inductive invariant.
IInv ==
  /\ TypeOK /\ Queue /\ InFlight /\ Stopping /\ Dead
  /\ NothingForgotten /\ NeverTwice /\ AckedIsStored /\ BatchBounded
  /\ InOrder /\ RowsFollow /\ GeoFollows

\* IInv holds before the first start.
LEMMA IInvInit ==
  ASSUME Init
  PROVE  IInv
<1>1. TypeOK /\ Queue /\ InFlight /\ Stopping /\ Dead
  BY InvInit
<1>2. NothingForgotten /\ NeverTwice /\ AckedIsStored /\ InOrder /\ RowsFollow
  BY DEF Init, NothingForgotten, NeverTwice, AckedIsStored, InOrder, RowsFollow, Inserting
<1>3. BatchBounded
  BY FS_EmptySet, SizeAssumption DEF Init, BatchBounded
<1>4. GeoFollows
  <2>1. Len(stream) = 0 /\ Len(conn) = 0
    BY EmptySeq DEF Init
  <2>2. \A d \in Drivers : geo[d] = None
    BY DEF Init
  <2> QED
    BY <2>1, <2>2 DEF GeoFollows, Follows, IsLast
<1> QED
  BY <1>1, <1>2, <1>3, <1>4 DEF IInv

\* Every step keeps IInv.
LEMMA IInvKept ==
  ASSUME IInv, [Next]_vars
  PROVE  IInv'
<1> USE DEF IInv
<1>1. TypeOK' /\ Queue' /\ InFlight' /\ Stopping' /\ Dead'
  BY TypeKept, QueueKept, InFlightKept, StoppingKept, DeadKept
<1>2. NothingForgotten' /\ NeverTwice' /\ AckedIsStored' /\ BatchBounded'
  BY NothingForgottenKept, NeverTwiceKept, AckedKept, BoundKept
<1>3. InOrder' /\ RowsFollow' /\ GeoFollows'
  BY InOrderKept, RowsFollowKept, GeoFollowsKept
<1> QED
  BY <1>1, <1>2, <1>3

\* IInv holds in every reachable state.
THEOREM Invariance == Spec => []IInv
BY IInvInit, IInvKept, PTL DEF Spec

\* A flush that is past its UPDATEs leaves no row behind, unless another one
\* was in progress at the same time.
LEMMA RowsFollowLatest ==
  ASSUME RowsFollow
  PROVE  RowsLatest
BY DEF RowsFollow, RowsLatest, UpToDate, Calm

\* The buffers, tables and queues keep their types, and no flush is empty.
THEOREM TypeCorrect == Spec => []TypeOK
BY Invariance, PTL DEF IInv

\* Whatever fails and whenever the process stops, each record that Redis
\* delivered is in the buffer, in an INSERT, in the history or known to be gone.
THEOREM NoneForgotten == Spec => []NothingForgotten
BY Invariance, PTL DEF IInv

\* The poll loop, the interval and the shutdown never flush the same record.
THEOREM NoneTwice == Spec => []NeverTwice
BY Invariance, PTL DEF IInv

\* XACK names only records of driver_telemetry_history.
THEOREM AcksAreSafe == Spec => []AckedIsStored
BY Invariance, PTL DEF IInv

\* No flush holds two full batches, whatever the batch size.
THEOREM BatchesBounded == Spec => []BatchBounded
BY Invariance, PTL DEF IInv

\* However many messages interleave, the GEO set and the stream agree on where
\* a driver was last, or the driver's XADD is in the queue.
THEOREM PositionsAgree == Spec => []GeoAgrees
<1>1. IInv => GeoAgrees
  BY GeoFollowsAgrees DEF IInv
<1> QED
  BY <1>1, Invariance, PTL

\* As long as no two flushes overlap, the rows show the newest positions of the
\* history.
THEOREM RowsAreNewest == Spec => []RowsLatest
<1>1. IInv => RowsLatest
  BY RowsFollowLatest DEF IInv
<1> QED
  BY <1>1, Invariance, PTL
=============================================================================
