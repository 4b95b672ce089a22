------------------------- MODULE TelemetryPipeline -------------------------
(***************************************************************************)
(* A ping's way through the backend: ingestion into Redis (the GEO set and *)
(* the telemetry stream), the batch worker that reads the stream through a *)
(* consumer group and writes PostgreSQL, the end of the process and its    *)
(* restart.                                                                *)
(*                                                                         *)
(* All Redis commands of the process share one connection: they run one    *)
(* after the other in the order they were issued, and XREADGROUP ... BLOCK *)
(* holds up those behind it.  A command takes effect and its continuation  *)
(* runs, up to the next await, in one step; PostgreSQL queries of          *)
(* different flushes run in any order.                                     *)
(*                                                                         *)
(* An entry of the stream is known by its position, its stream ID.  The    *)
(* buffers pendingRecords and pendingMessageIds are filled and emptied     *)
(* together and in stream order: `buffer' is the set of IDs in them.       *)
(***************************************************************************)
EXTENDS Integers, Sequences, FiniteSets

CONSTANTS
  Drivers,      \* the drivers pings come from
  Strangers,    \* those without a row in drivers: INSERT rejects their pings
  Pings,        \* the pings drivers may send
  Owner,        \* ping -> its driver
  Rejected,     \* pings GEOADD rejects, their coordinates out of range
  Unparsable,   \* pings parseStreamFields returns null for
  Messages,     \* the requests and socket messages that carry pings
  Payload,      \* message -> its pings, in order; one ping unless a batch
  BatchSize,    \* config.telemetry.batchSize
  None,         \* no ping
  MaxFailures,  \* bound: rejected commands and queries, lost replies, crashes
  MaxStops      \* bound: SIGINT and SIGTERM

ASSUME StrangersAssumption == Strangers \subseteq Drivers
ASSUME OwnerAssumption     == Owner \in [Pings -> Drivers]
ASSUME PayloadAssumption   == Payload \in [Messages -> Seq(Pings) \ {<<>>}]
ASSUME PingAssumption      == /\ Rejected \cup Unparsable \subseteq Pings
                              /\ None \notin Pings
ASSUME SizeAssumption      == BatchSize \in Nat \ {0}
ASSUME BoundAssumption     == MaxFailures \in Nat /\ MaxStops \in Nat

VARIABLES
  \* Redis
  stream,    \* the pings of telemetry:stream, in order
  cursor,    \* the consumer group's last delivered ID
  acked,     \* the IDs acknowledged
  geo,       \* driver -> the ping of its position in the GEO set, or none
  \* PostgreSQL
  stored,    \* IDs whose record is in driver_telemetry_history
  rows,      \* driver -> ID of the entry in drivers.current_location, 0: none
  \* the process
  stage,     \* "up", the step of the shutdown, "exited" or "crashed"
  received,  \* messages whose handler has started
  conn,      \* commands issued on the Redis connection and not answered yet
  loop,      \* what pollLoop awaits
  buffer,    \* pendingRecords and pendingMessageIds
  flushes,   \* the calls of flush in progress
  \* history
  dropped,   \* IDs whose INSERT was rejected
  lost,      \* IDs delivered to a process that never got to insert them
  overlap,   \* two flushes have been in progress at once
  failures,  \* failures so far
  stops      \* signals so far

redisVars   == <<stream, cursor, acked, geo>>
dbVars      == <<stored, rows>>
procVars    == <<stage, received>>
workVars    == <<loop, buffer, flushes>>
historyVars == <<dropped, lost, overlap>>
vars == <<redisVars, dbVars, procVars, conn, workVars, historyVars, failures, stops>>

Geo(m, i) == [op |-> "geo", msg |-> m, index |-> i]
Add(m, i) == [op |-> "add", msg |-> m, index |-> i]
Read      == [op |-> "read"]
Ack(b)    == [op |-> "ack", batch |-> b]
Quit      == [op |-> "quit"]
Command   == {c \in [op : {"geo", "add"}, msg : Messages, index : Nat] :
                c.index \in DOMAIN Payload[c.msg]}
             \cup {Read, Quit} \cup [op : {"ack"}, batch : SUBSET (1 .. cursor)]
NextIs(op) == conn # <<>> /\ Head(conn).op = op     \* Redis turns to such a command

PingOf(c)    == Payload[c.msg][c.index]
DriverAt(n)  == Owner[stream[n]]
DriversOf(b) == {DriverAt(n) : n \in b}
SlipFull(b)  == Cardinality(b) > BatchSize
Full(b)      == Cardinality(b) >= BatchSize

\* latestDriverCoords: a Map keeps a driver's last record, at its first place.
SlipNewest(b, d) ==
  CHOOSE n \in b : DriverAt(n) = d /\ \A k \in b : DriverAt(k) = d => n <= k
Newest(b, d) ==
  CHOOSE n \in b : DriverAt(n) = d /\ \A k \in b : DriverAt(k) = d => k <= n
FirstDriver(b, D) ==
  DriverAt(CHOOSE n \in b : /\ DriverAt(n) \in D
                            /\ \A k \in b : DriverAt(k) \in D => n <= k)

Up       == stage = "up"                      \* isRunning, and the interval is set
Alive    == stage \notin {"exited", "crashed"}
PoolOpen == stage \in {"up", "flush", "close"}
Fail     == failures < MaxFailures /\ failures' = failures + 1

Init ==
  /\ stream = <<>> /\ cursor = 0 /\ acked = {}
  /\ geo = [d \in Drivers |-> None]
  /\ stored = {} /\ rows = [d \in Drivers |-> 0]
  /\ stage = "exited" /\ received = {}
  /\ conn = <<>> /\ loop = "ended" /\ buffer = {} /\ flushes = {}
  /\ dropped = {} /\ lost = {} /\ overlap = FALSE
  /\ failures = 0 /\ stops = 0
-----------------------------------------------------------------------------
(* The batch worker's control flow.  q: the commands left on the connection. *)

\* The Slip definitions are variants with one plausible mistake each, which the
\* properties tell from the code; no behaviour uses them: SlipFull compares with
\* '>', SlipNewest keeps the first record, SlipGathered replaces the buffer.

Again(q) ==                                   \* while (this.isRunning)
  IF Up THEN loop' = "reading" /\ conn' = Append(q, Read)
        ELSE loop' = "ended" /\ conn' = q

\* flush(), up to its first await.  After pool.end() the query is refused at
\* once and the records are dropped.
StartFlush(b, origin) ==
  IF PoolOpen
  THEN /\ flushes' = flushes \cup
            {[batch |-> b, at |-> "insert", todo |-> DriversOf(b), by |-> origin]}
       /\ overlap' = (overlap \/ flushes # {})
       /\ UNCHANGED dropped
  ELSE dropped' = dropped \cup b /\ UNCHANGED <<flushes, overlap>>

\* flush() returns, whether or not it caught an error.
EndFlush(f, q) ==
  /\ flushes' = flushes \ {f}
  /\ IF f.by = "loop" THEN Again(q) ELSE conn' = q /\ UNCHANGED loop
  /\ stage' = IF f.by = "shutdown" THEN "close" ELSE stage

\* flush() goes on to its next query, which a pool that has ended refuses.
NextQuery(f, g) ==
  IF PoolOpen
  THEN flushes' = (flushes \ {f}) \cup {g} /\ UNCHANGED <<conn, loop, stage>>
  ELSE EndFlush(f, conn)
-----------------------------------------------------------------------------
(* Ingestion: ingestTelemetryPing, one ping of a message after the other. *)

Receive(m) ==
  /\ stage \in {"up", "flush", "close"}
  /\ m \notin received
  /\ received' = received \cup {m}
  /\ conn' = Append(conn, Geo(m, 1))
  /\ UNCHANGED <<redisVars, dbVars, stage, workVars, historyVars, failures, stops>>

GeoAdd ==                       \* a rejection ends the handler, and its batch
  LET c == Head(conn)  p == PingOf(c) IN
  /\ NextIs("geo")
  /\ \/ /\ p \notin Rejected
        /\ geo' = [geo EXCEPT ![Owner[p]] = p]
        /\ conn' = Append(Tail(conn), Add(c.msg, c.index))
     \/ /\ p \in Rejected
        /\ conn' = Tail(conn)
        /\ UNCHANGED geo
  /\ UNCHANGED <<stream, cursor, acked, dbVars, procVars, workVars, historyVars,
                 failures, stops>>

SlipStreamAdd ==                \* GEOADD for the first ping of a batch only
  LET c == Head(conn) IN
  /\ NextIs("add")
  /\ stream' = Append(stream, PingOf(c))
  /\ conn' = IF c.index < Len(Payload[c.msg])
             THEN Append(Tail(conn), Add(c.msg, c.index + 1))
             ELSE Tail(conn)
  /\ UNCHANGED <<cursor, acked, geo, dbVars, procVars, workVars, historyVars,
                 failures, stops>>

StreamAdd ==
  LET c == Head(conn) IN
  /\ NextIs("add")
  /\ stream' = Append(stream, PingOf(c))
  /\ conn' = IF c.index < Len(Payload[c.msg])
             THEN Append(Tail(conn), Geo(c.msg, c.index + 1))
             ELSE Tail(conn)
  /\ UNCHANGED <<cursor, acked, geo, dbVars, procVars, workVars, historyVars,
                 failures, stops>>
-----------------------------------------------------------------------------
(* pollLoop *)

Fetched ==                                    \* COUNT: at most BatchSize entries
  cursor + 1 .. (IF cursor + BatchSize < Len(stream)
                 THEN cursor + BatchSize ELSE Len(stream))

SlipGathered == {n \in Fetched : stream[n] \notin Unparsable}
Gathered     == buffer \cup {n \in Fetched : stream[n] \notin Unparsable}

ReadStream ==
  LET b == Gathered IN
  /\ NextIs("read")
  /\ cursor < Len(stream)
  /\ cursor' = cursor + Cardinality(Fetched)
  /\ IF Full(b)
     THEN /\ buffer' = {}
          /\ StartFlush(b, "loop")
          /\ loop' = IF PoolOpen THEN "flushing" ELSE "ended"
          /\ conn' = Tail(conn)
     ELSE /\ buffer' = b
          /\ Again(Tail(conn))
          /\ UNCHANGED <<flushes, dropped, overlap>>
  /\ UNCHANGED <<stream, acked, geo, dbVars, procVars, lost, failures, stops>>

SlipBlockExpires ==                           \* BLOCK 0: the read waits on
  /\ NextIs("read")
  /\ cursor = Len(stream)
  /\ UNCHANGED vars

BlockExpires ==                               \* BLOCK 1000 passes, nothing to read
  /\ NextIs("read")
  /\ cursor = Len(stream)
  /\ Again(Tail(conn))
  /\ UNCHANGED <<redisVars, dbVars, procVars, buffer, flushes, historyVars,
                 failures, stops>>

Resume ==                                     \* one second after an error
  /\ loop = "waiting"
  /\ Again(conn)
  /\ UNCHANGED <<redisVars, dbVars, procVars, buffer, flushes, historyVars,
                 failures, stops>>
-----------------------------------------------------------------------------
(* flush *)

SlipFlushFull ==                              \* full batches only
  /\ Up
  /\ Full(buffer)
  /\ buffer' = {}
  /\ StartFlush(buffer, "timer")
  /\ UNCHANGED <<redisVars, dbVars, procVars, conn, loop, lost, failures, stops>>

SlipKeepBuffer ==                             \* not emptied before the await
  /\ Up
  /\ buffer # {}
  /\ StartFlush(buffer, "timer")
  /\ UNCHANGED <<redisVars, dbVars, procVars, conn, loop, buffer, lost, failures,
                 stops>>

IntervalFlush ==
  /\ Up
  /\ buffer # {}
  /\ buffer' = {}
  /\ StartFlush(buffer, "timer")
  /\ UNCHANGED <<redisVars, dbVars, procVars, conn, loop, lost, failures, stops>>

\* One multi-row INSERT, rejected as a whole when one driver is unknown.
Insert(f) ==
  /\ f.at = "insert"
  /\ \/ /\ f.todo \cap Strangers = {}
        /\ stored' = stored \cup f.batch
        /\ NextQuery(f, [f EXCEPT !.at = "update"])
        /\ UNCHANGED dropped
     \/ /\ f.todo \cap Strangers # {}
        /\ dropped' = dropped \cup f.batch
        /\ EndFlush(f, conn)
        /\ UNCHANGED stored
  /\ UNCHANGED <<redisVars, rows, received, buffer, lost, overlap, failures, stops>>

UpdateRow(f) ==
  LET d == FirstDriver(f.batch, f.todo)
      rest == f.todo \ {d} IN
  /\ f.at = "update"
  /\ rows' = [rows EXCEPT ![d] = Newest(f.batch, d)]
  /\ IF rest = {}
     THEN /\ flushes' = (flushes \ {f}) \cup {[f EXCEPT !.at = "ack", !.todo = {}]}
          /\ conn' = Append(conn, Ack(f.batch))
          /\ UNCHANGED <<loop, stage>>
     ELSE NextQuery(f, [f EXCEPT !.todo = rest])
  /\ UNCHANGED <<redisVars, stored, received, buffer, historyVars, failures, stops>>

\* The flush that waits for the answer to the XACK at the head of the queue.
Acknowledging(f) == f.at = "ack" /\ f.batch = Head(conn).batch

Acknowledge ==
  /\ NextIs("ack")
  /\ acked' = acked \cup Head(conn).batch
  /\ \E f \in flushes : Acknowledging(f) /\ EndFlush(f, Tail(conn))
  /\ UNCHANGED <<stream, cursor, geo, dbVars, received, buffer, historyVars,
                 failures, stops>>
-----------------------------------------------------------------------------
(* Failures *)

SlipAckAnyway(f) ==                           \* XACK in a finally
  /\ Fail
  /\ f.at = "insert"
  /\ dropped' = dropped \cup f.batch
  /\ flushes' = (flushes \ {f}) \cup {[f EXCEPT !.at = "ack"]}
  /\ conn' = Append(conn, Ack(f.batch))
  /\ UNCHANGED <<redisVars, dbVars, procVars, loop, buffer, lost, overlap, stops>>

\* A rejected query may have been executed all the same.
QueryFails(f) ==
  /\ Fail
  /\ \/ /\ f.at = "insert"
        /\ \/ stored' = stored \cup f.batch /\ UNCHANGED dropped
           \/ dropped' = dropped \cup f.batch /\ UNCHANGED stored
        /\ UNCHANGED rows
     \/ /\ f.at = "update"
        /\ LET d == FirstDriver(f.batch, f.todo) IN
             rows' \in {rows, [rows EXCEPT ![d] = Newest(f.batch, d)]}
        /\ UNCHANGED <<stored, dropped>>
  /\ EndFlush(f, conn)
  /\ UNCHANGED <<redisVars, received, buffer, lost, overlap, stops>>

\* Redis answers with an error: the handler or the flush ends, the loop waits.
CommandFails ==
  /\ Fail
  /\ \/ /\ NextIs("geo") \/ NextIs("add")
        /\ conn' = Tail(conn)
        /\ UNCHANGED <<loop, flushes, stage>>
     \/ /\ NextIs("read")
        /\ loop' = IF Up THEN "waiting" ELSE "ended"
        /\ conn' = Tail(conn)
        /\ UNCHANGED <<flushes, stage>>
     \/ /\ NextIs("ack")
        /\ \E f \in flushes : Acknowledging(f) /\ EndFlush(f, Tail(conn))
  /\ UNCHANGED <<redisVars, dbVars, received, buffer, historyVars, stops>>

\* The connection breaks before an answer arrives; ioredis connects again and
\* sends the unanswered commands once more.
LoseReply ==
  LET c == Head(conn) IN
  /\ Fail
  /\ \/ /\ NextIs("add")
        /\ stream' = Append(stream, PingOf(c))
        /\ UNCHANGED <<cursor, acked, lost>>
     \/ /\ NextIs("read")
        /\ cursor < Len(stream)
        /\ cursor' = cursor + Cardinality(Fetched)
        /\ lost' = lost \cup Fetched
        /\ UNCHANGED <<stream, acked>>
     \/ /\ NextIs("ack")
        /\ acked' = acked \cup c.batch
        /\ UNCHANGED <<stream, cursor, lost>>
  /\ UNCHANGED <<geo, dbVars, procVars, conn, workVars, dropped, overlap, stops>>

Inserting == UNION {f.batch : f \in {g \in flushes : g.at = "insert"}}

End(outcome) ==                               \* the memory of the process is gone
  /\ stage' = outcome
  /\ conn' = <<>> /\ loop' = "ended" /\ buffer' = {} /\ flushes' = {}
  /\ lost' = lost \cup buffer \cup Inserting
  /\ UNCHANGED <<redisVars, dbVars, received, dropped, overlap>>

Crash == Alive /\ Fail /\ End("crashed") /\ UNCHANGED stops
-----------------------------------------------------------------------------
(* Start and shutdown *)

Start ==                                      \* a consumer reads new entries only
  /\ ~ Alive
  /\ stage' = "up"
  /\ loop' = "reading" /\ conn' = <<Read>>
  /\ UNCHANGED <<redisVars, dbVars, received, buffer, flushes, historyVars,
                 failures, stops>>

Signal ==                                     \* stop(), and flush() up to its await
  /\ Up
  /\ stops < MaxStops /\ stops' = stops + 1
  /\ buffer' = {}
  /\ IF buffer = {}
     THEN stage' = "close" /\ UNCHANGED <<flushes, dropped, overlap>>
     ELSE stage' = "flush" /\ StartFlush(buffer, "shutdown")
  /\ UNCHANGED <<redisVars, dbVars, received, conn, loop, lost, failures>>

CloseServer ==                                \* fastify.close() done, pool.end() called
  /\ stage = "close"
  /\ stage' = "pool"
  /\ UNCHANGED <<redisVars, dbVars, received, conn, workVars, historyVars, failures,
                 stops>>

EndPool ==                                    \* once every client is released
  /\ stage = "pool"
  /\ \A f \in flushes : f.at = "ack"
  /\ stage' = "quit"
  /\ conn' = Append(conn, Quit)
  /\ UNCHANGED <<redisVars, dbVars, received, workVars, historyVars, failures, stops>>

Exit == NextIs("quit") /\ End("exited") /\ UNCHANGED <<failures, stops>>

RedisStep == GeoAdd \/ StreamAdd \/ ReadStream \/ BlockExpires \/ Acknowledge \/ Exit
FlushStep(f) == Insert(f) \/ UpdateRow(f)

Next ==
  \/ \E m \in Messages : Receive(m)
  \/ RedisStep
  \/ Resume \/ IntervalFlush
  \/ \E f \in flushes : FlushStep(f) \/ QueryFails(f)
  \/ CommandFails \/ LoseReply \/ Crash
  \/ Start \/ Signal \/ CloseServer \/ EndPool

Spec == Init /\ [][Next]_vars

\* Redis and PostgreSQL answer, the timers of the process fire, and a shutdown
\* once begun goes on; clients, operators and failures owe nothing.
Fairness ==
  /\ WF_vars(RedisStep)
  /\ WF_vars(\E f \in flushes : FlushStep(f))
  /\ WF_vars(Resume) /\ WF_vars(IntervalFlush)
  /\ WF_vars(CloseServer) /\ WF_vars(EndPool)

FairSpec == Spec /\ Fairness
-----------------------------------------------------------------------------
(* Safety *)

\* The type invariant; a flush always has something to insert.
TypeOK ==
  /\ stream \in Seq(Pings)
  /\ cursor \in 0 .. Len(stream)
  /\ geo \in [Drivers -> Pings \cup {None}]
  /\ buffer \cup acked \cup stored \cup dropped \cup lost \subseteq 1 .. cursor
  /\ rows \in [Drivers -> 0 .. cursor]
  /\ stage \in {"up", "flush", "close", "pool", "quit", "exited", "crashed"}
  /\ loop \in {"reading", "flushing", "waiting", "ended"}
  /\ received \subseteq Messages
  /\ conn \in Seq(Command)
  /\ flushes \subseteq [batch : SUBSET (1 .. cursor), at : {"insert", "update", "ack"},
                        todo : SUBSET Drivers, by : {"loop", "timer", "shutdown"}]
  /\ \A f \in flushes : f.batch # {}
  /\ overlap \in BOOLEAN
  /\ failures \in Nat /\ stops \in Nat

\* Every record the consumer group delivered is in the buffer, in an INSERT, in
\* the history, or known to be gone with a rejected INSERT, a lost answer or the
\* process.  Records that arrive while another flush waits are not forgotten.
NothingForgotten ==
  {n \in 1 .. cursor : stream[n] \notin Unparsable}
    \subseteq buffer \cup Inserting \cup stored \cup dropped \cup lost

\* No record is in two of those places: the poll loop, the interval and the
\* shutdown never flush the same record.
NeverTwice ==
  /\ \A f, g \in flushes : f # g => f.batch \cap g.batch = {}
  /\ \A f \in flushes : f.batch \cap buffer = {}
  /\ (buffer \cup Inserting) \cap (stored \cup dropped \cup lost) = {}

\* An entry is acknowledged only when its record is in the history: what a
\* failed flush held stays pending in the consumer group.
AckedIsStored == acked \subseteq stored

\* The poll loop keeps the buffer below the batch size, and a flush below twice
\* the batch size, whatever the interval and the shutdown do: what the code bounds,
\* which is not what src/README.md says (MicroBatches).
BatchBounded ==
  /\ Cardinality(buffer) < BatchSize
  /\ \A f \in flushes : Cardinality(f.batch) < 2 * BatchSize

\* "micro-batches of up to 100 pings", the batch size (src/README.md:72).  The code
\* breaks it: what one read delivers joins a buffer that is not empty.
MicroBatches == \A f \in flushes : Cardinality(f.batch) <= BatchSize

\* The GEO set and the stream agree on where a driver was last, however the
\* pings of several messages interleave, while none is between the two.
LastAdded(d) ==
  LET S == {n \in DOMAIN stream : DriverAt(n) = d} IN
  IF S = {} THEN None ELSE stream[Newest(S, d)]

GeoAgrees ==
  failures = 0 /\ stops = 0 =>
    \A d \in Drivers :
      \/ geo[d] = LastAdded(d)
      \/ \E i \in DOMAIN conn : conn[i].op = "add" /\ Owner[PingOf(conn[i])] = d

\* As long as no two flushes overlap, a driver's row shows the newest of the
\* driver's records in the history once the flush that stored it is at its XACK.
UpToDate ==
  \A d \in Drivers : \A n \in stored : DriverAt(n) = d => n <= rows[d]

RowsLatest ==
  failures = 0 /\ stops = 0 /\ ~ overlap /\ (\A f \in flushes : f.at # "update") => UpToDate
-----------------------------------------------------------------------------
(* Liveness, under FairSpec *)

\* Every ping the backend took is in the history in the end, even when too few
\* follow to fill a batch, short of failures, shutdowns and coordinates GEOADD
\* rejects earlier in the same message; or it is gone with the batch of a driver
\* PostgreSQL does not know.
Among(p, S) == \E n \in S : stream[n] = p

PingsStored ==
  \A m \in Messages : \A i \in DOMAIN Payload[m] : LET p == Payload[m][i] IN
    p \notin Unparsable /\ (\A k \in 1 .. i : Payload[m][k] \notin Rejected) =>
      ((m \in received) ~> (Among(p, stored \cup dropped) \/ failures + stops > 0))

\* A shutdown comes to its end, though QUIT waits behind a blocked XREADGROUP.
ShutdownEnds == (Alive /\ ~ Up) ~> ~ (Alive /\ ~ Up)
-----------------------------------------------------------------------------
(* What the repository says and the code does not guarantee *)

\* index.ts:71 "Graceful shutdown", :73 "Draining connections", :80 "Completed
\* cleanly": what the worker had read is stored.
CleanExitDrains ==
  stage = "exited" /\ failures = 0 => 1 .. cursor \subseteq stored
=============================================================================
