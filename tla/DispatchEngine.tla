--------------------------- MODULE DispatchEngine ---------------------------
(***************************************************************************)
(* The dispatch engine of the backend: dispatchJob, the cascade of timed   *)
(* offers it starts, and the drivers' answers, over the job and driver     *)
(* rows of PostgreSQL and the per-job mutex kept in Redis.                 *)
(*                                                                         *)
(* One Node process runs every handler on one thread, so the code between  *)
(* two awaits is one step and everything may happen at an await.  A step   *)
(* is a query or a Redis command taking effect, together with the purely   *)
(* local code up to the next await; code after an await that touches the   *)
(* process's own shared state (activeOffers, timers) is a step of its own. *)
(*                                                                         *)
(* A "run" is one call of dispatchJob with all the offers it leads to.     *)
(* The call POST /api/jobs makes for a new job is named after the job;     *)
(* Redispatches names the calls of POST /api/jobs/:id/dispatch.            *)
(***************************************************************************)
EXTENDS Integers, FiniteSets

CONSTANTS
  Jobs,            \* the jobs that may be created
  Drivers,         \* the drivers of the drivers table
  Redispatches,    \* the calls of the manual dispatch endpoint
  None,            \* no driver, no job, no offer, no holder
  CandidateLimit,  \* the LIMIT of the spatial query
  OfferTtl,        \* life of an offer, in ticks (30 s)
  LockTtl,         \* life of the Redis lock, in ticks (35 s)
  Patches,         \* the statuses set through PATCH /api/drivers/:id/status
  MaxFailures      \* bound: rejected queries and process crashes

Runs == Jobs \cup Redispatches

JobStatus    == {"absent", "pending", "offered", "accepted", "arrived_pickup",
                 "in_transit", "completed"}
DriverStatus == {"offline", "idle", "en_route", "on_job", "break"}

ASSUME RunsAssumption  == Jobs \cap Redispatches = {}
ASSUME NoneAssumption  == None \notin Runs \cup Drivers
ASSUME LimitAssumption == CandidateLimit \in Nat /\ MaxFailures \in Nat
ASSUME TtlAssumption   == OfferTtl \in Nat \ {0} /\ LockTtl \in Nat \ {0}
ASSUME PatchAssumption == Patches \subseteq DriverStatus

VARIABLES
  jobStatus,     \* jobs.status, "absent" before the row is inserted
  assignee,      \* jobs.assigned_driver_id
  driverStatus,  \* drivers.status
  lock,          \* the Redis key lock:dispatch:<job>, with its remaining life;
                 \* the value stored is always '1': "by" only records who set it
  job,           \* the job of each run, None before the run starts
  cands,         \* the ranked candidates each run found
  tasks,         \* runs that are inside dispatchJob or sendOfferToCandidate
  activeOffers,  \* the in-memory registry: job -> offer on the table
  timers,        \* the armed setTimeout handles
  accepts,       \* runs that are inside handleOfferAccepted
  offered,       \* history: every offer published
  won,           \* history: every acceptance the engine took
  lapsed,        \* history: jobs whose lock ran out while it was held
  failures       \* rejected queries and crashes so far

dbVars      == <<jobStatus, assignee, driverStatus>>
lockVars    == <<lock, lapsed>>
runVars     == <<job, cands>>
offerVars   == <<activeOffers, timers, offered>>
vars == <<dbVars, lockVars, runVars, offerVars, tasks, accepts, won, failures>>

Offer  == [run : Runs, index : Nat]
Timer  == [run : Runs, index : Nat, left : Nat]
Task   == [run : Runs, index : Nat,
           at : {"lock", "search", "mark", "publish", "pend", "release"},
           by : {"dispatch", "timer", "decline"}]
Acceptance == [run : Runs, driver : Drivers, at : {"assign", "busy", "unlock"}]

Rankings(S) ==      \* the ordered selections the query and the sort can return
  {c \in UNION {[1..n -> S] : n \in 0..CandidateLimit} :
     \A i, k \in DOMAIN c : c[i] = c[k] => i = k}

Free            == [by |-> None, left |-> 0]
OfferOf(x)      == [run |-> x.run, index |-> x.index]
DriverOf(o)     == cands[o.run][o.index]
At(k, stage)    == [k EXCEPT !.at = stage]
Move(k, stage)  == tasks' = (tasks \ {k}) \cup {At(k, stage)}
Leave(k)        == tasks' = tasks \ {k}
Fail            == failures < MaxFailures /\ failures' = failures + 1
SetJob(j, s)    == jobStatus' = [jobStatus EXCEPT ![j] = s]
MaybeSetJob(j, s) == SetJob(j, s) \/ UNCHANGED jobStatus
                    \* a rejected UPDATE may have been executed all the same

\* Slips of the next definition, see below.
SlipSendOffer(r, i, origin) ==             \* length compared off by one
  [run |-> r, index |-> i, by |-> origin,
   at  |-> IF i - 1 \in {0} \cup DOMAIN cands[r] THEN "mark" ELSE "pend"]

SlipQuietEnd(r, i, origin) ==              \* no UPDATE when exhausted
  [run |-> r, index |-> i, by |-> origin,
   at  |-> IF i \in DOMAIN cands[r] THEN "mark" ELSE "release"]

\* sendOfferToCandidate(job, candidates, index), up to its first await.
SendOffer(r, i, origin) ==
  [run |-> r, index |-> i, by |-> origin,
   at  |-> IF i \in DOMAIN cands[r] THEN "mark" ELSE "pend"]

Init ==
  /\ jobStatus = [j \in Jobs |-> "absent"]
  /\ assignee = [j \in Jobs |-> None]
  /\ driverStatus \in [Drivers -> {"offline", "idle"}]
  /\ lock = [j \in Jobs |-> Free]
  /\ job = [r \in Runs |-> None]
  /\ cands = [r \in Runs |-> <<>>]
  /\ activeOffers = [j \in Jobs |-> None]
  /\ tasks = {} /\ timers = {} /\ accepts = {}
  /\ offered = {} /\ won = {} /\ lapsed = {}
  /\ failures = 0
-----------------------------------------------------------------------------
(* Slips: variants of the steps below, each with one plausible mistake.  They *)
(* are no part of the specification; the properties tell them from the code.  *)

SlipLockNotNX(k) ==                        \* SET without NX
  LET j == job[k.run] IN
  /\ k.at = "lock"
  /\ lock' = [lock EXCEPT ![j] = [by |-> k.run, left |-> LockTtl]]
  /\ Move(k, "search")
  /\ UNCHANGED <<dbVars, lapsed, runVars, offerVars, accepts, won, failures>>

SlipLockNotPX(k) ==                        \* SET without PX: left = 0, no expiry
  LET j == job[k.run] IN
  /\ k.at = "lock"
  /\ IF lock[j].by = None
     THEN /\ lock' = [lock EXCEPT ![j] = [by |-> k.run, left |-> 0]]
          /\ Move(k, "search")
     ELSE Leave(k) /\ UNCHANGED lock
  /\ UNCHANGED <<dbVars, lapsed, runVars, offerVars, accepts, won, failures>>

SlipUnlockEarly(k) ==                      \* releaseLock in a finally
  /\ k.at = "publish"
  /\ timers' = timers \cup {[run |-> k.run, index |-> k.index, left |-> OfferTtl]}
  /\ activeOffers' = [activeOffers EXCEPT ![job[k.run]] = OfferOf(k)]
  /\ offered' = offered \cup {OfferOf(k)}
  /\ lock' = [lock EXCEPT ![job[k.run]] = Free]
  /\ Leave(k)
  /\ UNCHANGED <<dbVars, lapsed, runVars, accepts, won, failures>>

SlipNoTimer(k) ==                          \* the timeout is not armed
  /\ k.at = "publish"
  /\ activeOffers' = [activeOffers EXCEPT ![job[k.run]] = OfferOf(k)]
  /\ offered' = offered \cup {OfferOf(k)}
  /\ Leave(k)
  /\ UNCHANGED <<dbVars, lockVars, runVars, timers, accepts, won, failures>>

SlipExpiredStays(t) ==                     \* the timeout leaves the entry
  /\ t.left = 0
  /\ timers' = timers \ {t}
  /\ tasks' = tasks \cup {SendOffer(t.run, t.index + 1, "timer")}
  /\ UNCHANGED <<dbVars, lockVars, runVars, activeOffers, offered, accepts, won,
                 failures>>

SlipAnyDriver(o) == activeOffers[job[o.run]] # None    \* driver not compared

SlipTimerLives(e) ==                       \* no clearTimeout
  /\ activeOffers' = [activeOffers EXCEPT ![job[e.run]] = None]
  /\ UNCHANGED timers

SlipEntryLives(e) ==                       \* no delete
  /\ timers' = {t \in timers : OfferOf(t) # e}
  /\ UNCHANGED activeOffers

SlipSameDriver(o) ==                       \* candidateIndex not advanced
  LET e == activeOffers[job[o.run]] IN
  /\ e # None /\ DriverOf(e) = DriverOf(o)
  /\ timers' = {t \in timers : OfferOf(t) # e}
  /\ activeOffers' = [activeOffers EXCEPT ![job[e.run]] = None]
  /\ tasks' = tasks \cup {SendOffer(e.run, e.index, "decline")}
  /\ UNCHANGED <<dbVars, lockVars, runVars, accepts, offered, won, failures>>

SlipStillIdle(a) ==                        \* drivers.status is forgotten
  LET j == job[a.run] IN
  /\ a.at = "assign"
  /\ SetJob(j, "accepted")
  /\ assignee' = [assignee EXCEPT ![j] = a.driver]
  /\ accepts' = (accepts \ {a}) \cup {At(a, "unlock")}
  /\ UNCHANGED <<driverStatus, lockVars, runVars, offerVars, tasks, won, failures>>
-----------------------------------------------------------------------------
(* dispatchJob *)

Enter(r, j) ==
  /\ job[r] = None
  /\ job' = [job EXCEPT ![r] = j]
  /\ tasks' = tasks \cup
       {[run |-> r, index |-> 1, at |-> "lock", by |-> "dispatch"]}
  /\ UNCHANGED <<assignee, driverStatus, lockVars, cands, offerVars, accepts,
                 won, failures>>

PostJob(j) ==                              \* POST /api/jobs
  /\ jobStatus[j] = "absent"
  /\ SetJob(j, "pending")
  /\ Enter(j, j)

Redispatch(r, j) ==                        \* POST /api/jobs/:id/dispatch
  /\ jobStatus[j] # "absent"
  /\ Enter(r, j)
  /\ UNCHANGED jobStatus

AcquireLock(k) ==
  LET j == job[k.run] IN
  /\ k.at = "lock"
  /\ \/ /\ lock[j].by = None
        /\ lock' = [lock EXCEPT ![j] = [by |-> k.run, left |-> LockTtl]]
        /\ Move(k, "search")
     \/ /\ lock[j].by # None               \* answered with status 'locked'
        /\ Leave(k)
        /\ UNCHANGED lock
  /\ UNCHANGED <<dbVars, lapsed, runVars, offerVars, accepts, won, failures>>

\* The job row and the spatial query are read; the job's status is not used.
FindCandidates(k) ==
  /\ k.at = "search"
  /\ \E c \in Rankings({d \in Drivers : driverStatus[d] = "idle"}) :
       /\ cands' = [cands EXCEPT ![k.run] = c]
       /\ Move(k, IF 1 \in DOMAIN c THEN "mark" ELSE "release")
  /\ UNCHANGED <<dbVars, lockVars, job, offerVars, accepts, won, failures>>

SearchFails(k) ==                          \* a query is rejected, or no such job
  /\ k.at = "search"
  /\ Fail
  /\ Move(k, "release")
  /\ UNCHANGED <<dbVars, lockVars, runVars, offerVars, accepts, won>>

\* releaseLock deletes the key, whoever set it.
ReleaseLock(k) ==
  /\ k.at = "release"
  /\ lock' = [lock EXCEPT ![job[k.run]] = Free]
  /\ Leave(k)
  /\ UNCHANGED <<dbVars, lapsed, runVars, offerVars, accepts, won, failures>>
-----------------------------------------------------------------------------
(* sendOfferToCandidate *)

MarkOffered(k) ==
  /\ k.at = "mark"
  /\ SetJob(job[k.run], "offered")
  /\ Move(k, "publish")
  /\ UNCHANGED <<assignee, driverStatus, lockVars, runVars, offerVars, accepts,
                 won, failures>>

\* The offer goes out, its timer is armed and the registry entry overwritten.
PublishOffer(k) ==
  /\ k.at = "publish"
  /\ timers' = timers \cup {[run |-> k.run, index |-> k.index, left |-> OfferTtl]}
  /\ activeOffers' = [activeOffers EXCEPT ![job[k.run]] = OfferOf(k)]
  /\ offered' = offered \cup {OfferOf(k)}
  /\ Leave(k)
  /\ UNCHANGED <<dbVars, lockVars, runVars, accepts, won, failures>>

MarkPending(k) ==                          \* all candidates exhausted
  /\ k.at = "pend"
  /\ SetJob(job[k.run], "pending")
  /\ Move(k, "release")
  /\ UNCHANGED <<assignee, driverStatus, lockVars, runVars, offerVars, accepts,
                 won, failures>>

\* A rejected UPDATE: dispatchJob releases the lock, the gateway logs it, and
\* in a timer callback nothing handles it, which ends the Node process.
CrashEffect ==
  /\ activeOffers' = [j \in Jobs |-> None]
  /\ tasks' = {} /\ timers' = {} /\ accepts' = {}

UpdateFails(k) ==
  LET s == IF k.at = "mark" THEN "offered" ELSE "pending" IN
  /\ k.at \in {"mark", "pend"}
  /\ Fail
  /\ MaybeSetJob(job[k.run], s)
  /\ \/ /\ k.by = "dispatch"
        /\ Move(k, "release")
        /\ UNCHANGED <<activeOffers, timers, accepts>>
     \/ /\ k.by = "decline"
        /\ Leave(k)
        /\ UNCHANGED <<activeOffers, timers, accepts>>
     \/ /\ k.by = "timer"
        /\ CrashEffect
  /\ UNCHANGED <<assignee, driverStatus, lockVars, runVars, offered, won>>

\* The timeout callback removes whatever offer the job has on the table.
ExpireOffer(t) ==
  /\ t.left = 0
  /\ timers' = timers \ {t}
  /\ activeOffers' = [activeOffers EXCEPT ![job[t.run]] = None]
  /\ tasks' = tasks \cup {SendOffer(t.run, t.index + 1, "timer")}
  /\ UNCHANGED <<dbVars, lockVars, runVars, offered, accepts, won, failures>>
-----------------------------------------------------------------------------
(* The drivers' answers.  A driver may answer any offer it was sent, late    *)
(* or more than once; the handlers look at the job and the driver only.      *)

Answers(o) ==
  LET e == activeOffers[job[o.run]] IN
  /\ e # None
  /\ DriverOf(e) = DriverOf(o)

TakeOff(e) ==                              \* clearTimeout and delete
  /\ timers' = {t \in timers : OfferOf(t) # e}
  /\ activeOffers' = [activeOffers EXCEPT ![job[e.run]] = None]

AcceptOffer(o) ==
  LET e == activeOffers[job[o.run]] IN
  /\ Answers(o)
  /\ TakeOff(e)
  /\ accepts' = accepts \cup
       {[run |-> e.run, driver |-> DriverOf(o), at |-> "assign"]}
  /\ won' = won \cup {[run |-> e.run, driver |-> DriverOf(o)]}
  /\ UNCHANGED <<dbVars, lockVars, runVars, tasks, offered, failures>>

DeclineOffer(o) ==
  LET e == activeOffers[job[o.run]] IN
  /\ Answers(o)
  /\ TakeOff(e)
  /\ tasks' = tasks \cup {SendOffer(e.run, e.index + 1, "decline")}
  /\ UNCHANGED <<dbVars, lockVars, runVars, accepts, offered, won, failures>>

Assign(a) ==
  LET j == job[a.run] IN
  /\ a.at = "assign"
  /\ SetJob(j, "accepted")
  /\ assignee' = [assignee EXCEPT ![j] = a.driver]
  /\ accepts' = (accepts \ {a}) \cup {At(a, "busy")}
  /\ UNCHANGED <<driverStatus, lockVars, runVars, offerVars, tasks, won, failures>>

MakeBusy(a) ==
  /\ a.at = "busy"
  /\ driverStatus' = [driverStatus EXCEPT ![a.driver] = "en_route"]
  /\ accepts' = (accepts \ {a}) \cup {At(a, "unlock")}
  /\ UNCHANGED <<jobStatus, assignee, lockVars, runVars, offerVars, tasks, won,
                 failures>>

Unlock(a) ==
  /\ a.at = "unlock"
  /\ lock' = [lock EXCEPT ![job[a.run]] = Free]
  /\ accepts' = accepts \ {a}
  /\ UNCHANGED <<dbVars, lapsed, runVars, offerVars, tasks, won, failures>>

AcceptFails(a) ==                          \* logged by the gateway
  LET j == job[a.run] IN
  /\ a.at \in {"assign", "busy"}
  /\ Fail
  /\ accepts' = accepts \ {a}
  /\ \/ UNCHANGED dbVars
     \/ /\ a.at = "assign"
        /\ SetJob(j, "accepted")
        /\ assignee' = [assignee EXCEPT ![j] = a.driver]
        /\ UNCHANGED driverStatus
     \/ /\ a.at = "busy"
        /\ driverStatus' = [driverStatus EXCEPT ![a.driver] = "en_route"]
        /\ UNCHANGED <<jobStatus, assignee>>
  /\ UNCHANGED <<lockVars, runVars, offerVars, tasks, won>>
-----------------------------------------------------------------------------
(* The environment: operators, time, and the end of the process. *)

\* PATCH /api/drivers/:id/status; the gateway writes 'idle' and 'offline' too.
SetStatus(d, s) ==
  /\ driverStatus' = [driverStatus EXCEPT ![d] = s]
  /\ UNCHANGED <<jobStatus, assignee, lockVars, runVars, offerVars, tasks,
                 accepts, won, failures>>

RunsOut(j) == lock[j].left = 1

Tick ==
  /\ (\E t \in timers : t.left > 0) \/ (\E j \in Jobs : lock[j].left > 0)
  /\ timers' = {[t EXCEPT !.left = IF @ > 0 THEN @ - 1 ELSE 0] : t \in timers}
  /\ lock' = [j \in Jobs |-> IF RunsOut(j) THEN Free
                             ELSE [lock[j] EXCEPT !.left = IF @ > 0 THEN @ - 1 ELSE 0]]
  /\ lapsed' = lapsed \cup {j \in Jobs : RunsOut(j)}
  /\ UNCHANGED <<dbVars, runVars, activeOffers, offered, tasks, accepts, won,
                 failures>>

\* The process ends and is started again: only PostgreSQL and Redis remain.
Crash ==
  /\ Fail
  /\ CrashEffect
  /\ UNCHANGED <<dbVars, lockVars, runVars, offered, won>>

TaskStep(k) ==
  \/ AcquireLock(k) \/ FindCandidates(k) \/ ReleaseLock(k)
  \/ MarkOffered(k) \/ PublishOffer(k) \/ MarkPending(k)

AcceptStep(a) == Assign(a) \/ MakeBusy(a) \/ Unlock(a)

Next ==
  \/ \E j \in Jobs : PostJob(j)
  \/ \E r \in Redispatches, j \in Jobs : Redispatch(r, j)
  \/ \E k \in tasks : TaskStep(k) \/ SearchFails(k) \/ UpdateFails(k)
  \/ \E t \in timers : ExpireOffer(t)
  \/ \E o \in offered : AcceptOffer(o) \/ DeclineOffer(o)
  \/ \E a \in accepts : AcceptStep(a) \/ AcceptFails(a)
  \/ \E d \in Drivers, s \in Patches : SetStatus(d, s)
  \/ Tick
  \/ Crash

Spec == Init /\ [][Next]_vars

\* PostgreSQL and Redis answer, timers fire and time passes; operators,
\* drivers and failures owe nothing.
Fairness ==
  /\ \A r \in Runs :
       /\ WF_vars(\E k \in tasks : k.run = r /\ TaskStep(k))
       /\ WF_vars(\E a \in accepts : a.run = r /\ AcceptStep(a))
       /\ WF_vars(\E t \in timers : t.run = r /\ ExpireOffer(t))
  /\ WF_vars(Tick)

FairSpec == Spec /\ Fairness
-----------------------------------------------------------------------------
(* Safety *)

InProgress(r) ==
  \/ \E k \in tasks : k.run = r
  \/ \E t \in timers : t.run = r
  \/ \E a \in accepts : a.run = r

Started(r)  == job[r] # None
Finished(r) == Started(r) /\ ~ InProgress(r)

Waiting(r)  == \E k \in tasks : k.run = r /\ k.at = "lock"
Engaged(r)  == InProgress(r) /\ ~ Waiting(r)    \* past its acquireLock

OffersOf(r)       == {o \in offered : o.run = r}
FirstOffers(r, n) == [run : {r}, index : 1 .. n]

\* The type invariant.  Its conjunct on indices says that sendOfferToCandidate
\* never reads past the end of the candidates array.
TypeOK ==
  /\ jobStatus \in [Jobs -> JobStatus]
  /\ assignee \in [Jobs -> Drivers \cup {None}]
  /\ driverStatus \in [Drivers -> DriverStatus]
  /\ lock \in [Jobs -> [by : Runs \cup {None}, left : Nat]]
  /\ job \in [Runs -> Jobs \cup {None}]
  /\ cands \in [Runs -> Rankings(Drivers)]
  /\ tasks \subseteq Task
  /\ activeOffers \in [Jobs -> Offer \cup {None}]
  /\ timers \subseteq Timer
  /\ accepts \subseteq Acceptance
  /\ offered \subseteq Offer
  /\ \A o \in offered \cup timers : o.index \in DOMAIN cands[o.run]
  /\ won \subseteq [run : Runs, driver : Drivers]
  /\ lapsed \subseteq Jobs
  /\ failures \in Nat

\* An offer drivers can still answer is an offer of that job whose own timeout
\* is armed: none can be accepted after it expired, and none waits for ever
\* (activeOffers.set and setTimeout in sendOfferToCandidate against the two
\* places that delete the entry).
EntryArmed ==
  \A j \in Jobs : activeOffers[j] # None =>
    /\ job[activeOffers[j].run] = j
    /\ \E t \in timers : OfferOf(t) = activeOffers[j]

\* A run goes on in one place only: an armed timeout, a handler inside
\* sendOfferToCandidate or a handler inside handleOfferAccepted.  An answer
\* racing the timeout never leaves both alive.
SingleThread ==
  \A r \in Runs :
    /\ \A k \in tasks : k.run = r =>
         /\ \A t \in timers : t.run # r
         /\ \A a \in accepts : a.run # r
         /\ \A m \in tasks : m.run = r => m = k
    /\ \A t \in timers : t.run = r =>
         /\ \A a \in accepts : a.run # r
         /\ \A u \in timers : u.run = r => u = t
    /\ \A a \in accepts : a.run = r => \A b \in accepts : b.run = r => a = b

\* A run is won once, by the driver of its last offer: a driver whose offer was
\* declined or timed out cannot take the job from the one it was passed on to,
\* and the cascade never goes on past a driver who accepted.
LastOfferWins ==
  \A w \in won : \E o \in OffersOf(w.run) :
    /\ DriverOf(o) = w.driver
    /\ \A p \in OffersOf(w.run) : p.index <= o.index
    /\ \A v \in won : v.run = w.run => v = w

\* The cascade goes down the ranking without skipping or repeating a driver, and
\* gives up only when every candidate has had an offer.
CascadeOrder ==
  \A k \in tasks : k.at \in {"mark", "publish", "pend"} =>
    /\ OffersOf(k.run) = FirstOffers(k.run, k.index - 1)
    /\ k.at = "pend" => DOMAIN cands[k.run] = 1 .. (k.index - 1)

\* While a job's lock has not run out, a run that went past acquireLock owns it:
\* no other path releases it early.
HoldsLock ==
  \A r \in Runs : Engaged(r) /\ job[r] \notin lapsed => lock[job[r]].by = r

\* Two dispatches of one job are never under way at once, unless the lock's TTL
\* ran out under one of them.
DispatchMutex ==
  \A r, s \in Runs :
    Engaged(r) /\ Engaged(s) /\ job[r] = job[s] /\ job[r] \notin lapsed => r = s

\* Until the lock's TTL runs out, a driver who was sent an offer finds it in the
\* registry for as long as its timeout is armed.
OfferAnswerable ==
  \A t \in timers : job[t.run] \notin lapsed =>
    activeOffers[job[t.run]] = OfferOf(t)

\* A job is not left 'offered' with nobody at work on it, short of a rejected
\* query or a crash, even when several dispatches of it overlap.
NoOrphanedOffer ==
  \A j \in Jobs : jobStatus[j] = "offered" /\ failures = 0 =>
    \E r \in Runs : job[r] = j /\ InProgress(r)

\* A run that has ended stays ended: neither a late or repeated answer nor a
\* stale timer revives it.
FinishedStaysFinished ==
  [][\A r \in Runs : Finished(r) => Finished(r)']_vars

\* The driver a job is assigned to has left the idle pool once the handler that
\* assigned it is through, whoever declines, times out or is taken offline meanwhile,
\* unless a query failed or somebody else makes drivers idle.
AssigneeBusy ==
  \A j \in Jobs :
    /\ jobStatus[j] = "accepted" /\ failures = 0 /\ "idle" \notin Patches
    /\ \A a \in accepts : job[a.run] # j
    => driverStatus[assignee[j]] # "idle"

\* The engine leaves a job a driver has accepted its driver and its status as long
\* as nobody dispatches it by hand; the driver's own JOB_UPDATE is in DriverApp.
Untouched(j) == \A r \in Redispatches : job[r] # j
AcceptedIsFinal ==
  [][\A j \in Jobs : jobStatus[j] = "accepted" /\ Untouched(j)' =>
       jobStatus'[j] = "accepted" /\ assignee'[j] = assignee[j]]_vars
-----------------------------------------------------------------------------
(* Refinement: what OfferProtocol sees of a run *)

\* The driver of the run's armed timeout: the offer the run waits on.
Holding(r) == {DriverOf(OfferOf(t)) : t \in {u \in timers : u.run = r}}
Winning(r) == {w.driver : w \in {v \in won : v.run = r}}
Only(S)    == IF S = {} THEN None ELSE CHOOSE d \in S : TRUE

RunStage  == [r \in Runs |-> IF ~ Started(r) THEN "new"
                             ELSE IF InProgress(r) THEN "going" ELSE "over"]
RunAsked  == [r \in Runs |-> {DriverOf(o) : o \in OffersOf(r)}]
RunHolder == [r \in Runs |-> Only(Holding(r))]
RunWinner == [r \in Runs |-> Only(Winning(r))]

Protocol == INSTANCE OfferProtocol WITH
  stage <- RunStage, asked <- RunAsked, holder <- RunHolder, winner <- RunWinner

\* However answers, timeouts, overlapping dispatches and crashes interleave, each
\* run is a run of OfferProtocol: one driver at a time, none twice, the job to the
\* driver who holds the offer, and nothing after the end.
OneOfferAtATime == Protocol!ProtocolSpec
-----------------------------------------------------------------------------
(* Liveness, under FairSpec *)

\* No job stays on offer for ever, whether or not any driver ever answers,
\* unless a query was rejected or the process crashed.
OffersSettle ==
  \A j \in Jobs :
    (jobStatus[j] = "offered") ~> (jobStatus[j] # "offered" \/ failures > 0)

\* A dispatch lock is always freed in the end, whatever failed or crashed while
\* it was held.
LockFreed ==
  \A j \in Jobs : (lock[j].by # None) ~> (lock[j].by = None)
-----------------------------------------------------------------------------
(* What the repository's comments say and the code does not guarantee *)

\* redis/index.ts:84 calls the lock a "mutex lock [...] to prevent race
\* conditions during dispatch": one dispatch of a job at a time.
LockExcludes ==
  \A r, s \in Runs : Engaged(r) /\ Engaged(s) /\ job[r] = job[s] => r = s

\* The engine matches "idle only" drivers (engine.ts:39): a driver who took a
\* job is not given another one.
OneJobPerDriver ==
  \A i, j \in Jobs : assignee[i] = assignee[j] /\ assignee[i] # None => i = j
=============================================================================
