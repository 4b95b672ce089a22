------------------------------ MODULE Console ------------------------------
(***************************************************************************)
(* The web dispatcher console and the part of the backend it talks to: its *)
(* WebSocket with the reconnect timer, the job and telemetry events the    *)
(* gateway broadcasts, the lists it fetches over REST when one arrives,    *)
(* and the telemetry simulator that moves a driver's marker and streams    *)
(* the same ping to the backend.                                           *)
(*                                                                         *)
(* A write to the jobs table is known by its number: the list shows a      *)
(* revision of the table.  A position of the (one) simulated driver is     *)
(* known by the number of its ping, 0 the position in the seeded row; the  *)
(* positions that are not the simulator's, of the burst button and of the  *)
(* driver app whose id the simulator uses too, are all Elsewhere.          *)
(* REST requests run beside each other and beside the socket, and may be   *)
(* answered in any order; the messages of one socket keep theirs.          *)
(***************************************************************************)
EXTENDS Integers, Sequences

CONSTANTS
  MaxWrites,  \* bound: writes to the jobs table
  MaxEvents,  \* bound: those, steps of the simulator, other positions, breaks of
              \* the socket and failures, all together
  BurstSize   \* pings of a burst, 100 in the code

ASSUME BoundAssumption ==
  MaxWrites \in Nat /\ MaxEvents \in Nat /\ BurstSize \in Nat \ {0}

VARIABLES
  \* the backend
  written,     \* writes to the jobs table so far
  announcing,  \* writes whose handler has not come to its broadcast yet
  silent,      \* writes by job:update, whose event has no status
  posts,       \* the console's own POST /api/jobs not answered yet
  attached,    \* the console's socket is in consoleSockets
  ingesting,   \* pings inside ingestTelemetryPing, and what is left of their batch
  streamed,    \* the last position in telemetry:stream
  row,         \* drivers.current_location
  \* the socket
  link,        \* "none", "opening", "open", "closing" (its close event is due) or
               \* "broken": open for the client only, which does not know
  inbox,       \* messages on their way to the gateway
  wire,        \* events on their way to the console
  \* the console
  reconnectTimer,  \* "null", "armed", or "fired" and never reset
  boot,        \* what init awaits, "ready" when it is through
  fetches,     \* the REST requests in progress
  shown,       \* the revision in the jobs list
  isRunning,   \* the simulator's interval is set
  position,    \* where the simulator has its driver
  marker,      \* where the map has it, and who put it there
  \* history
  known,       \* job events delivered
  missed,      \* writes whose event no console received
  unlisted,    \* job events whose list request failed
  best,        \* the newest revision the jobs list has shown
  astray,      \* the newest position was lost or refused, or other positions of the
               \* driver came after it
  strays,      \* bursts and pings of the driver's app
  breaks, failures

writeVars   == <<written, announcing, silent, posts, missed>>
feedVars    == <<ingesting, streamed, row>>
socketVars  == <<attached, link, inbox, wire, reconnectTimer, breaks>>
fetchVars   == <<boot, fetches, shown, best, unlisted>>
simVars     == <<isRunning, position, strays>>
mapVars     == <<marker, astray>>
vars == <<writeVars, feedVars, socketVars, fetchVars, simVars, mapVars, known, failures>>

Elsewhere == MaxEvents + 1              \* no ping of the simulator has this number

Identify  == [event |-> "identify", n |-> 0]
Ping(n)   == [event |-> "ping", n |-> n]
Pings     == [event |-> "burst", n |-> Elsewhere]       \* telemetry:batch
Job(n)    == [event |-> "job", n |-> n]
Feed(n)   == [event |-> "feed", n |-> n]
JobsIn(q) == {q[i].n : i \in {k \in DOMAIN q : q[k].event = "job"}}

\* A request of the console, issued for its start, an event or a POST's reply.
Fetch(what, why, n) == [of |-> what, why |-> why, n |-> n, at |-> "asked", snap |-> 0]

Affordable      == written + position + strays + breaks + failures < MaxEvents
Fail            == Affordable /\ failures' = failures + 1
SetMarker(n, w) == marker' = [at |-> n, by |-> w]       \* updateDriverPosition

\* Nothing is on its way from the simulator to the map; a burst is not through.
Quiet    == wire = <<>> /\ inbox = <<>> /\ ingesting = <<>>
Bursting == \/ \E i \in DOMAIN inbox : inbox[i] = Pings
            \/ \E i \in DOMAIN ingesting : ingesting[i].left > 0

Init ==
  /\ written = 0 /\ announcing = {} /\ silent = {} /\ posts = {} /\ missed = {}
  /\ ingesting = <<>> /\ streamed = 0 /\ row = 0
  /\ link = "opening" /\ attached = FALSE /\ inbox = <<>> /\ wire = <<>>
  /\ reconnectTimer = "null" /\ breaks = 0
  /\ boot = "drivers" /\ fetches = {Fetch("drivers", "boot", 0)}
  /\ shown = 0 /\ best = 0 /\ unlisted = {}
  /\ isRunning = FALSE /\ position = 0 /\ strays = 0
  /\ marker = [at |-> 0, by |-> "row"] /\ astray = FALSE
  /\ known = {} /\ failures = 0
-----------------------------------------------------------------------------
(* Slips: variants of the steps below, each with one plausible mistake, that *)
(* the properties tell from the code; no behaviour uses them.                *)

SlipReconnect ==                        \* reconnectTimer keeps its handle
  /\ reconnectTimer = "armed"
  /\ reconnectTimer' = "fired"
  /\ link' = "opening"
  /\ UNCHANGED <<writeVars, feedVars, attached, inbox, wire, breaks, fetchVars, simVars,
                 mapVars, known, failures>>

SlipRefetch(n) == {Fetch("drivers", "event", n)}        \* fetchJobs forgotten

SlipSend(m) ==                          \* skipped while something is buffered
  inbox' = IF link = "open" /\ inbox = <<>> THEN Append(inbox, m) ELSE inbox
-----------------------------------------------------------------------------
(* The backend *)

\* A write to the jobs table takes effect: another client's POST, the dispatch
\* engine, a driver's job:update, or the console's own POST.
Write(n) ==
  /\ Affordable /\ written < MaxWrites
  /\ n = written + 1
  /\ written' = n
  /\ announcing' = announcing \cup {n}
  /\ UNCHANGED <<missed, feedVars, socketVars, fetchVars, simVars, mapVars, known, failures>>

JobWrite  == \E n \in 1 .. MaxWrites : Write(n) /\ UNCHANGED <<silent, posts>>
JobUpdate == \E n \in 1 .. MaxWrites :
               Write(n) /\ silent' = silent \cup {n} /\ UNCHANGED posts

CreateJob ==                            \* the form or the test button
  /\ boot = "ready"
  /\ \E n \in 1 .. MaxWrites :
       Write(n) /\ posts' = posts \cup {n} /\ UNCHANGED silent

\* broadcastToDispatcher: what goes to a broken or to no socket is gone.
Broadcast(e) ==
  wire' = IF attached /\ link = "open" THEN Append(wire, e) ELSE wire

Announce(n) ==
  /\ n \in announcing
  /\ announcing' = announcing \ {n}
  /\ Broadcast(Job(n))
  /\ missed' = IF wire' = wire THEN missed \cup {n} ELSE missed
  /\ UNCHANGED <<written, silent, posts, feedVars, attached, link, inbox, reconnectTimer,
                 breaks, fetchVars, simVars, mapVars, known, failures>>

HandlerFails(n) ==                      \* between the write and the broadcast
  /\ n \in announcing
  /\ Fail
  /\ announcing' = announcing \ {n}
  /\ missed' = missed \cup {n}
  /\ UNCHANGED <<written, silent, posts, feedVars, socketVars, fetchVars, simVars, mapVars,
                 known>>

Receive ==                              \* console:identify, telemetry:ping and :batch
  LET m == Head(inbox) IN
  /\ inbox # <<>> /\ link = "open"
  /\ inbox' = Tail(inbox)
  /\ \/ m = Identify /\ attached' = TRUE /\ UNCHANGED ingesting
     \/ /\ m # Identify
        /\ ingesting' = Append(ingesting,
             [n |-> m.n, left |-> IF m = Pings THEN BurstSize - 1 ELSE 0])
        /\ UNCHANGED attached
  /\ UNCHANGED <<writeVars, streamed, row, link, wire, reconnectTimer, breaks, fetchVars,
                 simVars, mapVars, known, failures>>

\* The Redis commands are answered in order; the next ping of a batch is started
\* when the one before it is through.
Echo ==
  LET p == Head(ingesting) IN
  /\ ingesting # <<>>
  /\ ingesting' = Tail(ingesting) \o
       (IF p.left > 0 THEN <<[n |-> p.n, left |-> p.left - 1]>> ELSE <<>>)
  /\ streamed' = p.n
  /\ Broadcast(Feed(p.n))
  /\ UNCHANGED <<writeVars, row, attached, link, inbox, reconnectTimer, breaks, fetchVars,
                 simVars, mapVars, known, failures>>

\* GEOADD or XADD is rejected, or XADD's answer lost: the ping is not broadcast, and
\* neither is what is left of its batch.
PingFails ==
  LET p == Head(ingesting) IN
  /\ ingesting # <<>>
  /\ Fail
  /\ ingesting' = Tail(ingesting)
  /\ streamed' \in {streamed, p.n}
  /\ astray' = (astray \/ p.n = position)
  /\ UNCHANGED <<writeVars, row, socketVars, fetchVars, simVars, marker, known>>

PhonePing ==                            \* from the app of the same driver
  /\ Affordable
  /\ strays' = strays + 1
  /\ ingesting' = Append(ingesting, [n |-> Elsewhere, left |-> 0])
  /\ astray' = TRUE
  /\ UNCHANGED <<writeVars, streamed, row, socketVars, fetchVars, isRunning, position,
                 marker, known, failures>>

StoreRow ==                             \* the batch worker's flush
  /\ row # streamed
  /\ row' = streamed
  /\ UNCHANGED <<writeVars, ingesting, streamed, socketVars, fetchVars, simVars, mapVars,
                 known, failures>>
-----------------------------------------------------------------------------
(* DispatcherSocket *)

Open ==
  /\ link = "opening"
  /\ link' = "open"
  /\ inbox' = <<Identify>>
  /\ UNCHANGED <<writeVars, feedVars, attached, wire, reconnectTimer, breaks, fetchVars,
                 simVars, mapVars, known, failures>>

\* The connection is refused or lost, and an end of an open one may not hear of it.
Break ==
  /\ Affordable
  /\ breaks' = breaks + 1
  /\ \/ link \in {"opening", "open"} /\ link' = "closing"
     \/ link = "open" /\ link' = "broken"
  /\ attached' = FALSE /\ inbox' = <<>> /\ wire' = <<>>
  /\ missed' = missed \cup JobsIn(wire)
  /\ astray' = (astray \/ ~ Quiet)
  /\ UNCHANGED <<written, announcing, silent, posts, feedVars, reconnectTimer, fetchVars,
                 simVars, marker, known, failures>>

\* What the console sent is never acknowledged, and its TCP gives up.
Notice ==
  /\ link = "broken"
  /\ link' = "closing"
  /\ UNCHANGED <<writeVars, feedVars, attached, inbox, wire, reconnectTimer, breaks,
                 fetchVars, simVars, mapVars, known, failures>>

Close ==                                \* onclose, scheduleReconnect
  /\ link = "closing"
  /\ link' = "none"
  /\ reconnectTimer' = IF reconnectTimer = "null" THEN "armed" ELSE reconnectTimer
  /\ UNCHANGED <<writeVars, feedVars, attached, inbox, wire, breaks, fetchVars, simVars,
                 mapVars, known, failures>>

Reconnect ==                            \* three seconds later
  /\ reconnectTimer = "armed"
  /\ reconnectTimer' = "null"
  /\ link' = "opening"
  /\ UNCHANGED <<writeVars, feedVars, attached, inbox, wire, breaks, fetchVars, simVars,
                 mapVars, known, failures>>

\* send: dropped unless the socket is open, and lost when it only seems to be.
Send(m) == inbox' = IF link = "open" THEN Append(inbox, m) ELSE inbox

Refetch(n) == {Fetch("jobs", "event", n), Fetch("drivers", "event", n)}

\* A job event without a status throws in the listener, before the lists are
\* fetched again; onmessage logs that as a parse error.
OnMessage ==
  LET e == Head(wire) IN
  /\ wire # <<>>
  /\ wire' = Tail(wire)
  /\ \/ /\ e.event = "feed"
        /\ SetMarker(e.n, "feed")
        /\ UNCHANGED <<fetches, known>>
     \/ /\ e.event = "job"
        /\ known' = known \cup {e.n}
        /\ fetches' = IF e.n \in silent THEN fetches ELSE fetches \cup Refetch(e.n)
        /\ UNCHANGED marker
  /\ UNCHANGED <<writeVars, feedVars, attached, link, inbox, reconnectTimer, breaks, boot,
                 shown, best, unlisted, simVars, astray, failures>>
-----------------------------------------------------------------------------
(* FleetRelayApp: the REST requests *)

\* The answers of GET /api/jobs and GET /api/drivers.
JobList    == written
DriverList == row

Serve(f) ==
  /\ f.at = "asked"
  /\ fetches' = (fetches \ {f}) \cup
       {[f EXCEPT !.at = "served", !.snap = CASE f.of = "jobs"    -> JobList
                                              [] f.of = "drivers" -> DriverList
                                              [] f.of = "metrics" -> 0]}
  /\ UNCHANGED <<writeVars, feedVars, socketVars, boot, shown, best, unlisted, simVars,
                 mapVars, known, failures>>

\* The request is through; init awaits its three one after the other.
Done(f) ==
  LET next == IF boot = "drivers" THEN "jobs"
              ELSE IF boot = "jobs" THEN "metrics" ELSE "ready" IN
  IF f.why # "boot" THEN fetches' = fetches \ {f} /\ UNCHANGED boot
  ELSE /\ boot' = next
       /\ fetches' = (fetches \ {f}) \cup
            (IF next = "ready" THEN {} ELSE {Fetch(next, "boot", 0)})

ShowJobs(f) ==
  /\ f.of = "jobs"
  /\ shown' = f.snap
  /\ best' = IF f.snap > best THEN f.snap ELSE best
  /\ UNCHANGED marker

ShowDrivers(f) ==
  /\ f.of = "drivers"
  /\ SetMarker(f.snap, "row")
  /\ UNCHANGED <<shown, best>>

ShowMetrics(f) == f.of = "metrics" /\ UNCHANGED <<shown, best, marker>>

Answer(f) ==
  /\ f.at = "served"
  /\ ShowJobs(f) \/ ShowDrivers(f) \/ ShowMetrics(f)
  /\ Done(f)
  /\ UNCHANGED <<writeVars, feedVars, socketVars, unlisted, simVars, astray, known,
                 failures>>

FetchFails(f) ==                        \* caught, or not ok: nothing is shown
  /\ Fail
  /\ Done(f)
  /\ unlisted' = IF f.of = "jobs" /\ f.why = "event" THEN unlisted \cup {f.n} ELSE unlisted
  /\ UNCHANGED <<writeVars, feedVars, socketVars, shown, best, simVars, mapVars, known>>

PostReply(n) ==
  /\ n \in posts \ announcing
  /\ posts' = posts \ {n}
  /\ \/ fetches' = fetches \cup {Fetch("jobs", "reply", n)} /\ UNCHANGED failures
     \/ Fail /\ UNCHANGED fetches       \* an error, or a reply without dispatch
  /\ UNCHANGED <<written, announcing, silent, missed, feedVars, socketVars, boot, shown,
                 best, unlisted, simVars, mapVars, known>>
-----------------------------------------------------------------------------
(* FleetSimulator *)

Toggle ==                               \* its button is live once init is through
  /\ boot = "ready"
  /\ Affordable
  /\ isRunning' = ~ isRunning
  /\ UNCHANGED <<writeVars, feedVars, socketVars, fetchVars, position, strays, mapVars,
                 known, failures>>

Step ==
  LET n == position + 1 IN
  /\ isRunning
  /\ Affordable
  /\ position' = n
  /\ Send(Ping(n))
  /\ SetMarker(n, "step")                \* "also update map immediately"
  /\ astray' = (Bursting \/ (link # "open" /\ ingesting # <<>>))
  /\ UNCHANGED <<writeVars, feedVars, attached, link, wire, reconnectTimer, breaks,
                 fetchVars, isRunning, strays, known, failures>>

Burst ==                                \* burstCoordinates, of the first driver
  /\ boot = "ready"
  /\ Affordable
  /\ strays' = strays + 1
  /\ Send(Pings)
  /\ astray' = (astray \/ link = "open")
  /\ UNCHANGED <<writeVars, feedVars, attached, link, wire, reconnectTimer, breaks,
                 fetchVars, isRunning, position, marker, known, failures>>

BackendStep ==
  \/ \E n \in announcing : Announce(n)
  \/ \E n \in posts : PostReply(n)
  \/ Receive \/ Echo
  \/ \E f \in fetches : Serve(f)

ConsoleStep ==
  \/ Open \/ Close \/ Reconnect \/ OnMessage
  \/ \E f \in fetches : Answer(f)

Next ==
  \/ JobWrite \/ JobUpdate \/ CreateJob
  \/ BackendStep \/ StoreRow \/ PingFails \/ PhonePing
  \/ ConsoleStep
  \/ \E n \in announcing : HandlerFails(n)
  \/ \E f \in fetches : FetchFails(f)
  \/ Break \/ Notice
  \/ Toggle \/ Step \/ Burst

Spec == Init /\ [][Next]_vars

\* The backend answers; the browser runs its callbacks and its timer, and settles an
\* attempt to connect.  It has no heartbeat, and hears of a connection lost without
\* a word only while the simulator sends.  Operators, drivers and failures owe
\* nothing.
Fairness ==
  /\ WF_vars(BackendStep)
  /\ WF_vars(ConsoleStep)
  /\ WF_vars(Notice /\ isRunning)

FairSpec == Spec /\ Fairness
-----------------------------------------------------------------------------
(* Properties *)

NoFetch(what) == \A f \in fetches : f.of # what

\* When no list is on its way, a console that shows the newest list it ever had
\* has every job event it was given in it, unless the event had no status
\* (app.js:56) or its request failed: a list that came late is not made up for by
\* an event that asks for none, nor spoilt by a request that failed for another.
ListFresh ==
  NoFetch("jobs") /\ shown = best =>
    \A n \in known \ (silent \cup unlisted) : n <= shown

\* When nothing is on its way, the simulated driver's marker is where the
\* simulator has the driver: the echoes of its pings never leave it behind, through
\* breaks of the socket and rejected pings, unless it was the newest position that
\* was lost or rejected, the burst button or the driver's app put other positions
\* after it, or fetchDrivers put the marker where the row lags.
MarkerSettles == Quiet /\ ~ astray => marker.at = position \/ marker.by = "row"
-----------------------------------------------------------------------------
(* Liveness, under FairSpec *)

\* A console that is not attached is attached in the end, however often its socket
\* breaks or is refused, or it sits with the simulator off on a connection that was
\* lost without a word.
Reattaches == ~ attached ~> (attached \/ (link = "broken" /\ ~ isRunning))

\* The jobs list catches up with every write to the table whose event had a status
\* and was broadcast to an attached console, and whose request did not fail, unless
\* an older list overtook a newer one that the console had shown.
Behind == \E n \in (1 .. written) \ (silent \cup missed \cup unlisted) : shown < n

JobsShown == Behind ~> (~ Behind \/ shown < best)
=============================================================================
