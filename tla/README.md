# FleetRelay: a TLA+ model of the dispatch backend and its clients

FleetRelay dispatches jobs to drivers. A Node backend keeps jobs and drivers in
PostgreSQL/PostGIS, locks and live telemetry in Redis, and talks to driver apps
and dispatcher consoles over one WebSocket endpoint. This directory holds TLA+
modules translated from the source, TLC configurations that check them on small
instances, and TLAPS proofs about them.

## Inventory

Paths are relative to `src/`; `backend/` stands for `services/backend/src/` and
`mobile/` for `apps/mobile/src/`.

| component | state it keeps | operations |
|---|---|---|
| dispatch engine, `backend/dispatch/engine.ts` | `activeOffers`: job -> offer on the table, with candidates, index and timeout handle (memory only) | `dispatchJob`, `sendOfferToCandidate`, the timeout callback, `handleOfferAccepted`, `handleOfferDeclined` |
| job routes, `backend/routes/jobs.ts` | none; writes `jobs` | `POST /jobs` (insert, broadcast, dispatch), `POST /jobs/:id/dispatch`, `GET /jobs` |
| driver routes, `backend/routes/drivers.ts` | none; writes `drivers.status` | `PATCH /drivers/:id/status`, read-only GETs |
| Redis layer, `backend/redis/index.ts` | lock keys with a TTL, GEO set, telemetry stream and its consumer group | `acquireLock` (SET NX PX), `releaseLock` (DEL), GEOADD, XADD, group creation |
| PostgreSQL, `backend/db/index.ts`, `schema.sql` | `jobs`, `drivers`, `driver_telemetry_history` | spatial query, UPDATEs, bulk INSERT |
| WebSocket gateway, `backend/websocket/gateway.ts` | `driverSockets`: driver -> socket, `consoleSockets`; per connection `registeredDriverId` | identify, pings, accept, decline, JOB_UPDATE, close |
| telemetry ingestion, `backend/telemetry/ingestion.ts`, `routes/telemetry.ts` | counters | GEOADD, XADD and broadcast per ping, one ping of a batch after the other |
| telemetry worker, `backend/telemetry/batchWriter.ts` | `pendingRecords`, `pendingMessageIds`, `isRunning`, the interval | `pollLoop`, the interval flush, `flush`, `stop` |
| bootstrap and shutdown, `backend/index.ts` | process | start order; stop, flush, close, quit on a signal |
| candidate scoring, `backend/dispatch/matcher.ts` | none | bearing, ETA, score |
| driver app, `mobile/services`, `mobile/screens`, `mobile/components` | socket, heartbeat and reconnect timers, offline queue; offer on screen, current job | connect, flush, ping; show, accept, decline, revoke |
| location service, `mobile/services/LocationService.ts` | `isTracking`, the simulated interval; the native service behind it | `startTracking`, `stopTracking`, the simulated track |
| dispatcher console, `apps/web-dispatcher` | socket and reconnect timer, the jobs list, driver markers, the simulator's positions | connect, send, the event listeners, `fetchDrivers`, `fetchJobs`, `fetchMetrics`, the job form, `step` |
| contracts, `packages/contracts` | none | type declarations |

**How they interact.** The routes and the gateway call the engine; the engine
awaits Redis (the lock) and PostgreSQL, sends offers through the gateway's
socket map and gets the answers back from the gateway's message handler or from
its own `setTimeout`. Everything in the backend shares one event loop: code
between two awaits is atomic, and anything may run at an await. PostgreSQL rows
are shared with the gateway (`drivers.status`), the driver routes and the
telemetry worker. Only PostgreSQL and Redis survive a crash.

**What is hard.** An accept, a decline and the 30 s timeout race for the same
offer. The lock is meant to cover a cascade of many handlers and timers but lives
35 s. Answers name a job and a driver, never an offer. The candidates are read
once. A registry and timers in memory are lost in a crash, and a rejected query in
a timer callback ends the process. In the telemetry worker, the interval and the
poll loop flush concurrently, and buffers are emptied before the INSERT. Phone and
gateway learn of a broken line at different times and in any order: in the gateway
a stale socket's close event undoes a newer registration, and on the phone it clears
the heartbeat and arms the reconnect timer of whatever socket came after it. The
console fetches a list for every event and nothing orders the answers. The location
service's native calls are awaited by nobody, while the driver flips the switch.
`PROJECT.json` lists each of these at its line under `hazards`, with the
properties that answer it.

## Modules

| module | what it is |
|---|---|
| `DispatchEngine` | the engine, the lock, the rows it reads and writes, the drivers' answers, crashes |
| `MCDispatchEngine` | symmetry, when a status may be patched and the prompt schedule for TLC |
| `OfferProtocol` | the abstract specification: what a dispatch run promises, without registry, timers, lock or rows |
| `DispatchEngineProofs` | the inductive invariant and the theorems |
| `DispatchRefinement` | the proof that `DispatchEngine` implements `OfferProtocol` |
| `TelemetryPipeline` | ingestion, the Redis connection, the batch worker, shutdown, crash and restart |
| `MCTelemetryPipeline` | constants for TLC |
| `TelemetryPipelineProofs` | the inductive invariant and the theorems |
| `DriverConnection` | the phone's socket, timers and offline queue, the network, the gateway's registry and the driver's row |
| `MCDriverConnection` | constants and the budget of disturbances for TLC |
| `DriverConnectionProofs` | the inductive invariant and the theorems about sockets, timers and registry |
| `ConnectionPingsProofs` | the inductive invariant and the theorems about where the pings are |
| `DriverApp` | `DispatchEngine` composed with the phones it makes offers to: screen, answers, job updates |
| `MCDriverApp` | constants, the budget of disturbances and the prompt schedule for TLC |
| `DriverAppProofs` | the inductive invariant and the theorems |
| `Console` | the web console, its socket, lists, marker and simulator, with the broadcasts and REST answers of the backend |
| `MCConsole` | the budget of disturbances for TLC |
| `ConsoleProofs` | the inductive invariant and the theorems |
| `LocationTracking` | the app's location service, the native module behind it and the switch that starts and stops both |
| `MCLocationTracking` | the model's instance for TLC |
| `LocationTrackingProofs` | the inductive invariant and the theorems |

### DispatchEngine

A *run* is one call of `dispatchJob` with every offer it leads to. The call
`POST /jobs` makes is named after the job, so `Runs == Jobs \cup Redispatches`.
The state and the code:

| variable | in the code |
|---|---|
| `jobStatus`, `assignee`, `driverStatus` | `jobs.status`, `jobs.assigned_driver_id`, `drivers.status` |
| `lock[j]` | the Redis key `lock:dispatch:<j>` with its remaining life; `by` says who set it, which Redis does not know (the value is `'1'`) |
| `job[r]`, `cands[r]` | the `jobId` and `candidates` arguments a run carries |
| `tasks` | runs inside `dispatchJob` or `sendOfferToCandidate`, at the await they wait for |
| `activeOffers` | the map of the same name |
| `timers` | armed `setTimeout` handles |
| `accepts` | runs inside `handleOfferAccepted`, at the await they wait for |
| `offered`, `won`, `lapsed` | history: offers sent, acceptances taken, jobs whose lock ran out while held |
| `failures` | rejected queries and crashes so far |

Each action is a query or Redis command taking effect plus the local code up to
the next await. `AcquireLock`, `FindCandidates`, `MarkOffered`, `PublishOffer`,
`MarkPending` and `ReleaseLock` are the path of `dispatchJob` and
`sendOfferToCandidate`; `ExpireOffer` is the timeout callback; `AcceptOffer`,
`Assign`, `MakeBusy`, `Unlock` are `handleOfferAccepted`, and `DeclineOffer` is
`handleOfferDeclined` up to its first await. `SearchFails`, `UpdateFails` and
`AcceptFails` are rejected queries, each leading where the code's catch leads:
`dispatchJob` releases the lock, the gateway logs, and a timer callback has no
catch, so Node ends the process (`CrashEffect`). A rejected UPDATE may have taken
effect. `Tick` lets time pass for the timeouts and for the lock's TTL.

A driver may answer any offer it was ever sent, at any time and as often as it
likes: `AcceptOffer(o)` and `DeclineOffer(o)` are enabled for every `o` in
`offered`, and whether the engine takes the answer is decided as in the code, by
comparing the driver with the entry of the job. That covers lost, late, repeated
and reordered answers.

Abstractions. The ranking is any sequence of idle drivers up to the query's
LIMIT (the scoring arithmetic decides which, and no property depends on it). A
repeated `PATCH` or the gateway sets any status in `Patches` at any time. Console
broadcasts and message bodies are left out. ioredis is configured to queue
commands while Redis is away, so lock commands wait and are never rejected. The
job statuses that only JOB_UPDATE writes occur in `DriverApp`.

**The abstract specification.** `OfferProtocol` knows of each run only its stage, the
drivers it has asked, the one whose answer it waits for and the winner. A run asks one
driver at a time and nobody twice; the one who was asked may win; a run that was won
asks nobody else; what is over stays over. `DispatchEngine` maps to it at its end:
`RunHolder` is the driver of the run's armed timeout, `RunWinner` the driver of its
acceptance, `RunStage` whether anything of it is in progress, and
`OneOfferAtATime == Protocol!ProtocolSpec` is the refinement. The registry, which two
overlapping runs of a job share and overwrite, is deliberately not in the mapping:
what the engine promises a driver is kept by the timeout.

### TelemetryPipeline

From a ping in a request or socket message to its row in the history. The engine
and the pipeline share the driver rows (`current_location`, which nothing in the
engine's model depends on) and the Redis connection, so the modules are checked
separately.

| variable | in the code |
|---|---|
| `stream`, `cursor`, `acked` | `telemetry:stream`, the group's last delivered ID, the IDs acknowledged |
| `geo` | `fleet:drivers:geo`, driver -> the ping whose position it holds |
| `stored`, `rows` | `driver_telemetry_history`, `drivers.current_location` |
| `stage` | where the process is: up, in a step of `shutdown`, exited or crashed |
| `conn` | the commands issued on the `redis` connection and not answered, first in, first out |
| `loop` | the await at which `pollLoop` stands |
| `buffer` | `pendingRecords` with `pendingMessageIds`: the stream IDs of the records |
| `flushes` | the calls of `flush` in progress: batch, next query, drivers left to update, caller |
| `dropped`, `lost`, `overlap` | history: records of rejected INSERTs, records delivered and gone, whether two flushes ever overlapped |

`Receive` starts a handler, `GeoAdd` and `StreamAdd` are the two awaits of
`ingestTelemetryPing` and of the loop over a batch. `ReadStream` and
`BlockExpires` are the two answers of XREADGROUP with all of `pollLoop` up to its
next await, the flush it starts included; `Resume` is the second it waits after an
error. `IntervalFlush` is the `setInterval` callback. `Insert`, `UpdateRow` and
`Acknowledge` are the awaits inside `flush`, and `EndFlush` gives control back to
whoever awaited it. `Signal`, `CloseServer`, `EndPool` and `Exit` are the awaits
of `shutdown`. `QueryFails`, `CommandFails`, `LoseReply` and `Crash` are what can
go wrong, each followed by what the catch around it does.

What is taken from outside `src/`: the process has one ioredis client for all of
this, whose commands run in the order they were issued; a blocking XREADGROUP
holds up those behind it; when the connection breaks, ioredis sends unanswered
commands again, so a command Redis had executed is executed twice (`LoseReply`,
for the first command of the queue). node-postgres runs the queries of different
callers in any order, refuses new ones once `pool.end()` was called, and ends the
pool when no client is in use. A multi-row INSERT stores all rows or none.

Abstractions. A ping is a value with a driver; its coordinates appear only as what
they lead to (`Rejected`, `Unparsable`, `Strangers`). Batches without pings touch
nothing and are left out. The console broadcast and the counters keep no state
that anything reads back. The stream is never trimmed, as in the code. A second
signal during a shutdown makes `pool.end()` throw and the process exit with 1; it
is not modelled apart from `Crash`, which may happen at every point. The start
is one step: connections that cannot be made are not modelled.

### DriverConnection

The line between a phone and the gateway, with what each end believes of it. The
offers that travel over it are the engine's business (`DispatchEngine` lets them be
lost, late and repeated), and what becomes of an ingested ping is
`TelemetryPipeline`'s.

| variable | in the code |
|---|---|
| `mounted`, `online` | phones whose home screen is mounted (`driverId` of the socket service is set), and whose switch is on (location tracking runs) |
| `ws`, `heartbeat`, `timer` | `SocketService.ws`, `pingInterval`, `reconnectTimer`; `"stale"` is a handle whose timer was cleared |
| `queue` | the buffer of `OfflineQueue` |
| `made`, `ready` | the sockets a phone has created, numbered, and the `readyState` of each on the phone |
| `cut`, `chan` | sockets whose connection is broken; messages under way, in order |
| `served`, `identified` | sockets open at the gateway; those whose `registeredDriverId` is set |
| `registry` | `driverSockets` |
| `updates`, `row` | UPDATEs of `drivers.status` issued and not executed; `drivers.status` |
| `got`, `lost`, `discarded` | history: pings whose ingestion began, pings gone with a connection, pings a full queue dropped |
| `recorded`, `breaks`, `unmounts`, `failures` | counters behind the bounds |
| `crossed` | history: drivers for whom two UPDATEs were ever under way at once |

`Mount`, `Unmount`, `GoOnline` and `GoOffline` are the home screen's effect, its
cleanup and its switch; `Locate` is `streamTelemetryPing`. `Opened` and `Closed`
are `onopen` and `onclose`, the latter also of sockets that were replaced;
`ConnectFails` is `onclose` of a socket that never opened, `Reconnect` the timer.
`Break` is the network. `Handle` is the gateway's message handler, `GatewayClose`
its close handler, each up to its query, which `Query` executes or `QueryFails`
rejects: the message handler catches that, the close handler does not and the
process ends. `Down` is that end and `Crash` another one; Redis and PostgreSQL
keep what they have and the backend restarts.

What is taken from outside `src/`: a WebSocket delivers in order until it breaks; a
part of what was sent still arrives; `close()` makes `readyState` CLOSING at once
and `close` is emitted later; a closed `connecting` socket emits no `open`. A phone
finds a broken connection by sending on it. On Android the back button unmounts the
screen while the JavaScript context, and with it the one `socketService`, lives on.

Abstractions. Delays and the backoff formula are left out: a timer fires some time
after it was armed. Ingestion is one step here. The row takes only the two statuses
that the gateway writes. `DRIVER_STATUS_CHANGE`, which the phone sends as heartbeat
and when the switch goes off, is a message the gateway has no case for: a driver who
switched off stays `idle`. The URL is one that `new WebSocket` accepts.

### DriverApp

It extends `DispatchEngine`: every step of the engine is a step of its own, and where
the code sends something to a phone or a phone's message reaches the engine, the step
does that too. So offers, revocations and answers are no longer free, as they are in
`DispatchEngine`, but travel in order and get lost with the line.

| variable | in the code |
|---|---|
| `linked` | drivers with an open socket in `driverSockets` |
| `up`, `down` | messages under way from and to a phone |
| `offer`, `current`, `phase` | `activeOffer`, `activeJob`, `jobPhase` of `DriverHomeScreen` |
| `clears` | armed 2-second timeouts of `advanceJobPhase` |
| `updates` | JOB_UPDATE handlers at one of their two queries |
| `drops` | the counter behind the bound |
| `lossy`, `crowded`, `piled`, `refused`, `disturbed` | history: lost messages, two offers on one phone, an accept over a job on the screen, refused accepts, overlapping or foreign updates |

`Publish` and `Expire` are the engine's steps that send. `Deliver` is a listener,
`Accept`, `Decline`, `Advance` and `ClearJob` are the handlers of the screen, the
countdown of the modal being a `Decline` nobody pressed. `Handle` is the gateway's
message handler up to its first await, `WriteJob` and `FreeDriver` the queries of
JOB_UPDATE, `RejectUpdate` one that is rejected. `Link` and `Drop` connect and
disconnect; `DriverConnection` has the details that take one step here. `Down` is the
end of the Node process.

Abstractions. The phone handles offers by job; nothing reads the offer's id. React
renders a state update and runs its effects at once. The listener for `job:assigned`
is left out: it closes over the offer of the first render, which is none, and does
nothing. The countdown has no clock: it may end before or after the engine's own.

### Console

The console in the browser and what of the backend it can see. A write to the jobs
table is known by its number, so the list shows a revision of the table, and the
position of the simulated driver by the number of its ping. Every other position of
that driver, one of a burst or of the driver's app, is `Elsewhere`.

| variable | in the code |
|---|---|
| `written`, `announcing`, `silent` | writes to `jobs` so far; those whose handler has yet to broadcast; those by JOB_UPDATE, whose event has no `status` |
| `posts` | `POST /api/jobs` of the console without an answer yet |
| `attached` | the console's socket is in `consoleSockets` |
| `ingesting`, `streamed`, `row` | pings inside `ingestTelemetryPing` with what is left of their batch, the last one in the stream, `drivers.current_location` |
| `link`, `inbox`, `wire` | the WebSocket, `"broken"` when only the console still takes it for open, and the messages under way in each direction |
| `reconnectTimer` | the handle in `DispatcherSocket` |
| `boot`, `fetches` | what `init` awaits; the REST requests in progress |
| `shown`, `marker`, `position` | the revision in the list, the marker on the map and who put it there, the simulator's own position |
| `isRunning` | the simulator's interval |
| `known`, `missed`, `unlisted`, `best` | history: events delivered, events nobody received, events whose list request failed, the newest list shown |
| `astray` | history: the simulator's newest position was lost or rejected, or other positions came after it |
| `strays`, `breaks`, `failures` | counters: bursts and pings of the app, breaks, failures |

`Open`, `Close`, `Reconnect` and `OnMessage` are the socket's callbacks, with the
listeners they call; `Serve` is a GET handler's query, `Answer` the rest of
`fetchDrivers`, `fetchJobs` or `fetchMetrics`, `FetchFails` its catch. `Step` and
`Burst` are the simulator and its burst button. `Receive` starts the ingestion of a ping
or a batch, `Echo` broadcasts one ping and goes on to the next of its batch, so batches
and pings interleave; `PingFails` is a GEOADD or XADD that is rejected, which ends the
batch. `PhonePing` is a ping of the driver's own app. `Break` leaves a connection that
either end may not know to be lost, and `Notice` is the browser finding out, which takes
something sent. `JobWrite`, `JobUpdate` and `CreateJob` are writes by the engine, a
driver and the console; `Announce` is the broadcast that follows one, `HandlerFails` a
handler that ends before it.

Abstractions. One console and one simulated driver. The metrics poll shows figures
only; the request that `init` awaits is in the model. What becomes of a ping in Redis
beyond its order is `TelemetryPipeline`'s. The list's rows, the log, the radius and
the layers of the map are left out; `addJobToMap` adds a layer per job and fetch and
removes none, which no state of the model depends on.

### LocationTracking

| variable | in the code |
|---|---|
| `linked` | `require('react-native-background-geolocation')` finds the module |
| `screen` | the home screen: away, online or offline; or the app was killed |
| `isTracking`, `mockInterval` | the fields of `LocationService` |
| `intervals` | intervals the JavaScript runtime has, the one in `mockInterval` or not |
| `running` | the native service reports locations |
| `subs` | `onLocation` subscriptions |
| `calls` | `ready`, `start` and `stop` calls in progress |
| `overlapped`, `rejected` | history: a call was made while another was in progress, or a stop was rejected; `ready` or `start` was rejected |

`StartTracking` and `StopTracking` are the service's methods up to their first await,
`Ready`, `Resolves` and `Rejects` what follows; `Mount`, `Unmount` and `ToggleOnline`
are the screen, which calls them and awaits neither. `Kill` is the system ending the
app, which the native service outlives, as configured (`stopOnTerminate: false`).
External: the native module answers each call once, with its effect at that moment.

## Runs

| run | instance | what it shows |
|---|---|---|
| `dispatch` | 1 job, 2 drivers, 1 manual dispatch, 1 failure, a driver taken offline in between, with fairness | type invariant and every safety property of the engine, while two runs of one job interleave and the lock may lapse; every run is a run of `OfferProtocol`; every offer settles; every lock is freed, a crash included |
| `dispatch_lock_lapses` | prompt schedule | a violation: two dispatches of one job at once |
| `dispatch_double_booking` | prompt schedule, 2 jobs | a violation: one driver assigned two jobs |
| `telemetry` | messages with a batch among them, of a driver PostgreSQL knows and of one it does not, rejected coordinates and an unparsable entry, batch size 2, 1 failure, 1 signal, with fairness | the accounting of records with crash and restart, also when some can never be stored; what can be is stored; a shutdown ends |
| `telemetry_clean_exit` | no failure | a violation: records left in the buffer at exit |
| `telemetry_micro_batches` | no failure | a violation: an INSERT of more than a batch |
| `connection` | 1 phone, 3 pings, queue of 2, batches of 1, 3 sockets, two of a break, an unmount and a failure, with fairness | sockets, timers, registry and row; where each ping is and in which order; the phone is connected again; no ping stays in the queue |
| `connection_registered` | no failure | a violation: a connected driver without an entry |
| `driver_app` | 1 driver; 2 jobs, or 1 job with a manual dispatch, a failure or a lost line | screen, answers and job updates against the engine and the rows |
| `console` | 2 writes, 3 events in all (writes, steps, a burst of 2, breaks, failures), with fairness | list and marker against the backend; the console reattaches and its list catches up |
| `location` | 5 uses of switch and screen, 2 rejected calls or kills, with the native module and without, with fairness | not tracked when offline, tracked when online |
| `location_simulated` | with the native module | a violation: made-up positions though the module is there |

**Bounds.** Two drivers give a cascade with a first, a second and an exhausted
step. `OfferTtl = 2` and `LockTtl = 3` ticks keep the order of the real values
(30 s < 35 s < 2 x 30 s), which is all that matters about them: one offer ends
before the lock, two do not. One manual dispatch is enough to overlap with the
first run, before, during and after it. `MaxFailures = 1` puts one rejected query
or crash at every point. Time stops when no timeout and no lock is running, so
`CHECK_DEADLOCK FALSE` is set, for a quiet system with no inputs left may stop. In
`dispatch`, `PatchSpec` has a driver taken offline at most once, while no handler is at an
await and before the manual dispatch: the search alone reads statuses, so a patch matters
only by coming before or after one, and after the first run's search it changes what the
second finds. The proofs take any status of `Patches` at any time. Symmetry is
used in the runs without temporal properties of the `~>` kind: jobs, drivers and manual
dispatches are interchangeable and `None` is not in a set.

In `telemetry`, a batch size of 2 lets the buffer fill below, at and above a batch and
leaves a partial one, and a driver has pings of two messages in flight at once.
`Strangers`, `Rejected` and `Unparsable` put one of each kind of bad ping among them: an
INSERT that fails as a whole, a loop over a batch that ends half way, a record that is
read and never gathered. A message names a driver per ping and the code goes by that,
so one of the two mixes drivers. `MaxFailures = 1` puts one rejected command or query,
lost answer or crash at every point, `MaxStops = 1` a shutdown at every point; a
process that ended may start again, so nothing deadlocks. Only one of the two drivers
has a row, which keeps the run small; flushes that update several rows are covered by
the proofs, which hold for any drivers.

In `connection`, three sockets are an old one, its successor and the one the
timer or a second mounting adds. A queue of 2 with batches of 1 overflows with the
third ping and is flushed in two batches, as 500 and 50 are; the break puts pings
onto a line that is broken already, where they are lost, and then into the queue.
`BudgetSpec` allows two of a break, an unmounting and a failure, and one ping only where
the driver leaves the screen: an unmounting concerns the timer, the heartbeat and who
connects, and the flush of a queue needs the break. `MaxSockets` bounds `Connect`: a break
and a failure use two of three sockets up, so without an unmounting, which the liveness
properties exclude, the bound is never what keeps a phone from connecting. With one phone
a driver is never registered from two at once; that case is left to the proofs, which
hold for any phones and drivers. All counters are bounded, so the runs end and
`CHECK_DEADLOCK FALSE` is set.

In `driver_app`, one driver and two jobs put two offers on one screen and a second
job after, or on top of, the first. `Budget` allows one of the second job, a manual
dispatch, a failure and a drop beyond the first dispatch, and `Prompt` lets the
awaits of the cascade go first, since `dispatch` has their interleavings
already; accepts keep theirs, and so do job updates
as long as there is one job; with two, the queries of an update follow each other at once. A tick is as long as an offer and the
lock, so both run out together, which is enough to have a late answer refused and a
second dispatch beside the first. Drivers who answer nothing leave a quiet system, so
`CHECK_DEADLOCK FALSE` is set.

In `console`, three events are enough for two writes whose lists overtake each other,
a write between a break and the reconnect, a step whose echo and whose row come late, a
step that meets a burst between its pings, of which two are a first and a last one.
`BudgetSpec` keeps other positions of the driver apart from writes, and writes apart from
each other when the simulator steps: a position meets a write only in the order of one
socket's messages and in the rows a fetch brings, which one write shows. The proofs have
no such bound.
In `location`, five uses are an online, offline, online turn with an unmounting, and
two failures a rejected call and a kill. Both are bounded and may stop:
`CHECK_DEADLOCK FALSE` is set.

**Fairness.** Dispatch: weak fairness of each run's handler steps (PostgreSQL and Redis
answer), of its due timeout (Node fires timers) and of `Tick`. Drivers, operators
and failures owe nothing: `OffersSettle` holds though no driver ever answers. Telemetry: weak
fairness of the Redis connection (one FIFO queue, so its head is answered), of the
queries, of the loop's and the interval's timers, and of the shutdown's own steps;
clients, signals, restarts and failures owe nothing. Connection: weak fairness of
opening (a connection that can be made is made), of the reconnect timer, of the
gateway's message handlers, and of the phone noticing a socket it closed or, as
long as the heartbeat sends on it, a broken one. The gateway need never notice a
broken socket: nothing in the code makes it. Console: weak fairness of the backend's
handlers and of the browser's callbacks, the reconnect timer among them. The console has
no heartbeat and the gateway sends none either, so the browser is fair in noticing a lost
connection only while the simulator runs and sends on it (its TCP gives up in the end):
`Reattaches` excepts a console that sits idle on such a connection. Writes, steps, breaks
and failures owe nothing. Location: weak fairness of the native module's answers.

**The violations of the dispatch runs** are disagreements between a comment and the code.
`acquireLock` is described as a mutex against races during dispatch, but its 35 s
are not renewed while each offer of the cascade lives 30 s. The engine looks for
idle drivers only, but the status is read once, before the first offer, so two
jobs can be accepted by the same driver. `PromptSpec` schedules every due handler
before time passes, so the first trace does not rest on a slow database.

**The violation of `telemetry_clean_exit`.** A shutdown that says it drained the
connections has flushed once, while the poll loop may still wait for a read; what
that read brings stays in the buffer of a process that exits. No failure is needed.
And a driver's row may go back to an older position, but only when two flushes overlap
(`RowsLatest`).

**The violation of `telemetry_micro_batches`.** `README.md:72` speaks of inserts of
"micro-batches of up to 100 pings", the batch size. The poll loop tests the size after it
has added a whole read, of up to 100 entries, to what waits for the interval, so an INSERT
may carry up to one less than two batches, which is what `BatchBounded` states.

**The violation of `connection_registered`.** `gateway.ts` deletes a driver's entry
whichever socket it holds, so a late close of an old socket unregisters the new one.
One break is enough. Two more surprises became premises of properties that hold:
`onclose` does not ask which socket it is called for, so the close of an unmounted
screen's socket stops its successor's heartbeat (`HeartbeatRuns`); `disconnect()`
clears the timer and keeps its handle, on which `scheduleReconnect` gives up
(`WillReconnect`). Both need an unmounted screen, hence their `unmounts = 0`. And
`streamTelemetryPing` trusts `readyState`, so pings sent on a broken line are neither
delivered nor queued, though the comment at `SocketService.ts:111` ("enqueues into offline
buffer if connection is lost") and `apps/mobile/README.md:23` say they are:
`PingsAccounted` has them in `lost`.

**The violation of `location_simulated`.** The simulated track is for builds without the
native module, says `apps/mobile/README.md:62` and the comment in the catch of
`startTracking`; the catch takes any error. Where the module is compiled in and `ready` or
`start` is rejected, for want of a permission say, the app streams made-up positions of a
real driver. `TracksOnline` therefore does not count a simulation as tracking where the
module is linked.

**What `Console` and `LocationTracking` showed besides** are the premises of their
properties. The event of a JOB_UPDATE carries `newStatus` and no `status`, so the listener
throws at `app.js:56` before it fetches (`silent`). Lists can overtake each other
(`shown < best`), an event broadcast while no console is attached is never made up for
(`missed`), and a rejected ping is not echoed or sent again (`astray`). A driver who goes
offline while `ready` or `start` is in progress may stay tracked (`overlapped`), and every
start adds a location subscription that no stop removes.

## Properties

- `EntryArmed`, `SingleThread`: an entry and its timeout come and go together,
  and a run goes on in one place only, so an answer and a timeout never both win.
- `LastOfferWins`, `CascadeOrder`: the winner is the driver of the last offer,
  and the offers go down the ranking with nobody skipped or repeated.
- `HoldsLock` (proved, and implied in the runs by its consequence),
  `DispatchMutex`, `OfferAnswerable`: what the lock does guarantee, which is
  everything until its TTL runs out.
- `NoOrphanedOffer`, `AssigneeBusy`: the rows agree with what goes on in memory, as long
  as no query fails and, for the latter, nobody else makes drivers idle.
- `OneOfferAtATime`: every run of the engine is a run of `OfferProtocol`.
- `AcceptedIsFinal`: what no step may do. `FinishedStaysFinished` (proved) is part of
  `OneOfferAtATime`.
- `OffersSettle`, `LockFreed`: liveness of the dispatch.
- `NothingForgotten`, `NeverTwice`: every record the consumer group delivered is in
  exactly one place: buffer, a pending INSERT, or done with (stored, dropped by a
  rejected INSERT, or lost with an answer or the process).
- `AckedIsStored`: no acknowledgement runs ahead of the history.
- `BatchBounded`: the buffer stays below a batch, an INSERT below two; not below one
  (`MicroBatches`, violated).
- `GeoAgrees`: GEO set and stream end up with the same last ping of a driver,
  because both are written over one connection, in order.
- `RowsLatest`: rows show the newest stored record unless two flushes overlap.
- `PingsStored`, `ShutdownEnds`: liveness of the telemetry.
- `OneSocket`, `HeartbeatRuns`: one live socket per phone, and a heartbeat with it
  and never without, although the timer, the switch and the screen all connect and stale sockets
  still close.
- `WillReconnect`: an unconnected phone has its timer armed, up to the first unmount.
- `PingsAccounted`, `PingsInOrder` (proved): each ping is in one place, and no ping overtakes
  an older one of its phone.
- `RegistryLive` (proved): the registry never holds a socket that is gone, though it may miss
  one that is there.
- `RowAgrees`: row and registry agree for drivers whose UPDATEs never overlapped,
  even when a stale socket has emptied the entry.
- `Reconnects`, `PingsLeave`: liveness of the connection.
- `OfferShown`: an offer the engine still waits for is on the driver's screen, unless
  a message was lost or two offers met on the phone.
- `UpdatesEarned`: nobody moves a job's row without having won the job, except drivers
  whose accept was refused or lost. The phone cannot tell them apart from winners.
- `PhoneAgrees`, `FreedWhenDone`: once everything under way has arrived, the winner's
  screen and the rows agree. The premises are the ways the code lets them part: an
  accept over a job still shown, and an update that overtakes the accept's own writes.

- `ListFresh`, `JobsShown`: a console that shows the newest list it ever had has every
  event it was given in it, as soon as no list is on its way, in whatever order its
  requests were served and answered; and it catches up with every write. Not covered are
  events without a status, those that no console received and those whose request failed.
- `MarkerSettles`: the marker never stays behind the simulator because of its own echoes,
  through breaks of the socket, bursts and rejected pings, unless the newest position
  itself was lost, rejected or followed by others, or a row was put over it.
- `Reattaches`: a console whose socket broke is attached again, unless it is idle and has
  not noticed.
- `QuietOffline`, `TracksOnline`: GPS and simulation are off when the driver is offline,
  whatever failed before; when the driver is online, the GPS is on where the module is
  compiled in and starts, and the simulation where it is not. That the latter is on only
  there (`SimulatesUnlinked`) is violated.

Each that a run checks has a mutant: an operator named `Slip...` next to the definition it varies,
with one plausible mistake (a lock set without NX, a timer not cleared, a driver
not compared, an index not advanced). The specification never uses them; replacing
the definition by its slip makes the property fail.

## Proofs

`DispatchEngineProofs` proves, for any sets of jobs, drivers and manual
dispatches, any candidate limit, any TTLs and any number of failures, all safety
properties above. The assumptions are the module's own:
runs of jobs and manual dispatches are distinct, `None` is neither a run nor a
driver, the limits are naturals, the TTLs positive, and patched statuses are
statuses.

None of the interesting properties is inductive by itself. `IInv` adds:

- `Underway`: whatever is in progress belongs to a run that was given a job;
- `Cascade`: the offers sent so far are the first ones of the ranking, up to the
  index that the live part of the run carries;
- `Winners`: a run that was won has no handler in the cascade and no timeout;
- `OfferOwned`: a job on offer has a run that still owes its status a write,
  which is stronger than `NoOrphanedOffer` (a run in its last step does not count);
- `Settled`: nothing is left that would write the row of an accepted job.

The heart of it is that an answer is matched by job and driver only, yet
`EntryArmed` gives the entry it closes a timeout of the same run, and
`SingleThread` makes that timeout the only live part of the run. So whichever of
the answer and the timeout comes first takes the other's right to go on, even when
two runs of a job overlap. `DispatchMutex` follows from `HoldsLock` alone.

There is one lemma per conjunct and action (`TypeStep`, `EntryArmedStep`, ...),
`InvInit` and `InvStep` put them together, and every theorem follows from
`Invariance`. `StaysFinished` and `AcceptedFinal` are action properties, proved
from the same invariant. `AssigneeLeavesPool` needs one conjunct more, `AssigneeMarked`:
the handler that assigned a job and is not through yet still owes the driver's row its
write, or the row is not idle any more.

`DispatchRefinement` proves `Refines == Spec => OneOfferAtATime`: from the parts of `IInv`
that do not speak of rows (`EngineInv`), the
initial states map to `ProtocolInit`, and each action maps to a step of the protocol or
leaves the mapped state alone: `AcquireLock` and its predecessors begin a run,
`PublishOffer` asks, an answer or a timeout withdraws or wins, `Crash` ends all runs
under way. `CascadeOrder` and the fact that a ranking names nobody twice make "nobody
twice" true; `SingleThread` makes the holder unique; `LastOfferWins` the winner.

`TelemetryPipelineProofs` proves the type invariant and all safety invariants of
`TelemetryPipeline`, for any drivers, pings and messages, any batch size and any
number of failures, signals, crashes and restarts. Its assumptions: a message
carries at least one ping, a ping belongs to a driver, the batch size is
positive. Its `IInv` adds to the properties:

- `Queue`: an XACK that waits on the connection names records of the history, and
  QUIT follows a signal. An XACK is issued long before it takes effect, and what
  it relies on must outlive the flush;
- `InFlight`: the drivers a flush still has to update are drivers of its batch,
  and past its INSERT the batch is in the history;
- `Dead` and `Stopping`: a process that ended holds nothing, and only a signal
  begins a shutdown. Without `Dead` a restart could find the old buffer;
- `InOrder`: while no two flushes overlapped, the history is older than what is in
  an INSERT, and that is older than the buffer. Then `RowsFollow`: a row behind the
  history is in a flush whose UPDATE is still to come, which is `RowsLatest` as
  soon as no flush is at its UPDATEs. Overlapping flushes break `InOrder`, and
  with it the rows, so the premise of `RowsLatest` cannot be dropped;
- `GeoFollows`: a driver's place in the GEO set is that of the driver's last XADD
  in the connection's queue or, when none is queued, of the last entry in the
  stream. GEOADD puts the XADD at the end of the queue in the same step, so the
  two orders cannot diverge; `GeoAgrees` is weaker, for it says nothing of which
  queued XADD it is.

`DriverConnectionProofs` proves the invariants of `connection` about sockets, timers and
rows for any number of phones and drivers, any sizes of queue and batch, and any number
of breaks, unmounts and failures, assuming of the constants only that every phone has a
driver, the sizes are positive and the bounds are naturals. `OneSocket` and
`RegistryLive` are nearly inductive together with the types: that `this.ws` is the last
socket created is what keeps a second one from living. `NotStale` and `NoneClosing` say
that stale handles and sockets being closed come from an unmounted screen only, which is
what the second half of `HeartbeatRuns` and `WillReconnect` need. `RowFollows`
strengthens `RowAgrees` to the updates under way: each of them will write what the
registry says now.

`ConnectionPingsProofs` proves `PingsAccounted` and `PingsInOrder` on top of it, for any
sizes of queue and batch. `FlushCarries` says that a flush carries the whole queue, in
order, cut into batches wherever `MaxBatch` puts the edges. The invariant `PInv` then
sees queues and channels as sets (`Queued`, `Way`): `Within` and `Covered` say that what
is somewhere is what was recorded, `Gone` and `Aligned` keep the places apart and in
order. That a ping never overtakes an older one rests on two facts: an open socket has
left nothing in the queue (`QueueIdle`), since `onopen` flushes in the same step, and a
socket that has not opened has carried nothing (`Fresh`), so a flush goes out on the
newest one. Each step that moves pings has a lemma for what it moves (`OpenedMoves`,
`BreakMoves`, ...) and one for what such a move does to the places (`QueueSent`,
`WayLost`, ...).

`DriverAppProofs` proves the composition, for any number of drivers, jobs, manual
dispatches, failures and lost connections; it rests on `DispatchEngineProofs`. A step of
`DriverApp` is a step of the engine or writes rows only (`EngineSide`): an answer the
gateway finds open names an offer on record, because the registry holds no other. So the
parts of the engine's invariant that do not speak of rows carry over (`EngineInv`,
`EngineStaysSafe`), which the run of `DriverApp` does not check again. For
`UpdatesEarned`, an accept is under way ahead of every update of its job until the
gateway has read it (`Earned`); a broken line cannot drop the one and keep the other
(`LinesCut`). For `OfferShown`, a driver who is not `crowded` has one armed offer at most
(`TimersApart`), so nothing is sent after it that would clear it, and the answer leaves
the line in the step that closes the offer (`Shown`).

The same step-by-step argument gives more than the invariants. `RunsStayFinished`: what
phones send late revives no run. `PhonesKeepProtocol`: the engine implements
`OfferProtocol` behind the phones, too, for the lemmas of `DispatchRefinement` need
`EngineInv` only, and a step that writes rows stutters.

`PhoneAgrees` and `FreedWhenDone` follow from a second invariant, `PhoneInv`. It is proved
for `AppSpec`, without the schedule `PromptSpec` gives the run, and it follows a job from
the screen to the row:

- `OneTrace`: the offer of a job nobody dispatches by hand leaves one trace with its
  driver, on the line down, on the screen or as an answer on the way, so nobody takes such
  a job twice;
- `Reported`: the last message of a job on the line up says what the screen shows;
  `ClearsArmed`: a screen at its last phase has the timer that clears it, and no other has;
- `WritesEarned`, `WritesInTurn`: a write in progress belongs to the job's winner, and an
  undisturbed job has one at a time;
- `RowFollows`: when nothing of the job is on the line, the one write still to be made, or
  the row when there is none, is what the screen shows. The latter is `PhoneAgrees`;
- `BusyForAJob`: the row of a driver is `en_route` only while one of the driver's jobs is
  not completed, or has something to be read or written. `FreedWhenDone` needs a statement
  over all jobs of a driver, because the driver's row does not say which job it is for.

A manual dispatch, a failed query, a crash or two crossing writes are in the premises
(`Untouched`, `failures`, `disturbed`), as in the properties themselves, and one such event
is never forgotten (`PastGrows`), so the invariant need not say anything after it.

`ConsoleProofs` proves `ListFresh` for any number of writes and events. Its invariant is
that every event the console has seen is covered (`Promised`): by the newest list it
showed, by a request the backend has yet to serve, by one it served with a table as new as
the event, or by being silent or `unlisted`; for a write precedes its announcement
(`Numbered`), and a request that fails covered no event but its own. It proves
`MarkerSettles`, for bursts of any size, with one more, `Followed`: unless the newest
position went astray, the first place that holds pings of the three they pass on their way
back to the map (inbox, ingestion, wire) has it as its last one, or the map has it when
all three are empty (`Newest`). `Attaching` is what makes an ingested ping reach the wire:
a socket carries its identification first, and whatever is not open carries nothing.

`LocationTrackingProofs` proves `QuietOffline` for any number of uses, failures and
kills: as long as nothing overlapped, at most one call is in progress, and the flags,
the interval and that call say together whether the service runs.

Left to TLC: liveness under fairness (`OffersSettle`, `LockFreed`, `PingsStored`,
`ShutdownEnds`, `Reconnects`, `PingsLeave`, `Reattaches`, `JobsShown`, `TracksOnline`)
and everything about ENABLED, which the provers cannot reason about. Every invariant a
passing run checks is proved, and so is every safety property that is not one. No
theorem depends on a recursive operator.

## Plan

Done: `DispatchEngine`, `OfferProtocol` and the refinement, `TelemetryPipeline`,
`DriverConnection`, `DriverApp`, `Console`, `LocationTracking`, with the proofs listed
above. Open: that the row of a job that was won never goes back while nothing disturbs
it, for a driver who lost messages, too (`RowFollows` speaks of drivers who lost none);
and a console composed with the engine itself instead of with numbered writes.

## Not modelled

The score of `matcher.ts` is floating-point arithmetic over sines and arc tangents;
TLA+ has neither, and the engine is checked with every order of the candidates, so
nothing rests on it. `migrate.ts` and `seed.ts` are one-shot scripts without concurrent
state. The HUD, the theme and the markup of the screens and of the console are
rendering; contracts are types. The figures of `GET /metrics`, the counters behind
them, `GET /drivers/nearby`, `findNearbyDriverIdsInRedis` and the telemetry history
route read only, and nothing in the repository acts on what they return. The map's
layers and radius circles and the metrics poll of the console are
left out for the reasons given under `Console`. A server whose start fails exits
before any of the state above exists.
