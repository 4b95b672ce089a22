----------------------------- MODULE DriverApp -----------------------------
(***************************************************************************)
(* The dispatch engine with the phones at the other end: an offer on the   *)
(* screen, its modal and countdown, the answer, the job the driver works   *)
(* on and the JOB_UPDATE messages that move the job's row.                 *)
(*                                                                         *)
(* What the engine publishes travels to the phone and what the driver does *)
(* travels back, in order, while the line holds.  The phone takes a job as *)
(* its own when the driver presses "accept", before the engine has decided *)
(* about the answer.  Its listeners and timers are those of                *)
(* DriverHomeScreen and JobOfferModal; a state update is rendered at once. *)
(***************************************************************************)
EXTENDS DispatchEngine, Sequences

CONSTANTS
  MaxDrops         \* bound: lost connections and killed apps

ASSUME DropAssumption == MaxDrops \in Nat

VARIABLES
  linked,    \* drivers with a registered socket
  up, down,  \* driver -> messages under way to the gateway and to the phone
  offer,     \* driver -> activeOffer, as the job on offer
  current,   \* driver -> activeJob
  phase,     \* driver -> jobPhase
  clears,    \* driver -> armed timers that clear a delivered job from the screen
  updates,   \* JOB_UPDATE handlers of the gateway at one of their awaits
  drops,     \* lost connections and killed apps so far
  lossy,     \* history: drivers who lost a message or their app
  crowded,   \* history: drivers who got an offer with another one's timer running
  piled,     \* history: drivers who accepted with a job on the screen
  refused,   \* history: accepts the engine rejected
  disturbed  \* history: jobs updated by a driver who did not win them, or while
             \* another write of the row was under way

screenVars == <<offer, current, phase, clears>>
lineVars   == <<linked, up, down, drops>>
pastVars   == <<crowded, piled, refused, disturbed>>
appVars    == <<screenVars, lineVars, updates, lossy, pastVars>>

Phases == {"to_pickup", "at_pickup", "in_transit", "delivered"}

\* What advanceJobPhase makes of the phase, and the status it reports.
NextPhase == [to_pickup |-> "at_pickup", at_pickup |-> "in_transit",
              in_transit |-> "delivered"]
StatusOf  == [to_pickup |-> "accepted", at_pickup |-> "arrived_pickup",
              in_transit |-> "in_transit", delivered |-> "completed"]

Progress == {"arrived_pickup", "in_transit", "completed"}
ToPhone  == [kind : {"offer", "revoked"}, job : Jobs]
ToServer == [kind : {"accept", "decline"} \cup Progress, job : Jobs]
JobUpdate == [driver : Drivers, job : Jobs, to : Progress, at : {"job", "driver"}]

Message(kind, j) == [kind |-> kind, job |-> j]

\* Over the line or lost: sendToDriver finds no open socket, send is not
\* connected, or the socket is broken already.
Send(line, d, m) == IF d \in linked THEN [line EXCEPT ![d] = Append(@, m)] ELSE line
LostBy(d)        == lossy' = IF d \in linked THEN lossy ELSE lossy \cup {d}

AppInit ==
  /\ Init
  /\ linked = {d \in Drivers : driverStatus[d] = "idle"}
  /\ up = [d \in Drivers |-> <<>>] /\ down = [d \in Drivers |-> <<>>]
  /\ offer = [d \in Drivers |-> None] /\ current = [d \in Drivers |-> None]
  /\ phase = [d \in Drivers |-> "to_pickup"] /\ clears = [d \in Drivers |-> 0]
  /\ updates = {} /\ drops = 0
  /\ lossy = {} /\ crowded = {} /\ piled = {} /\ refused = {} /\ disturbed = {}
-----------------------------------------------------------------------------
(* The engine, with what it sends to the phones *)

\* sendToDriver of an offer.
Publish(k) ==
  LET d == DriverOf(OfferOf(k)) IN
  /\ PublishOffer(k)
  /\ down' = Send(down, d, Message("offer", job[k.run])) /\ LostBy(d)
  /\ crowded' = IF \E t \in timers : DriverOf(OfferOf(t)) = d
                THEN crowded \cup {d} ELSE crowded
  /\ UNCHANGED <<screenVars, linked, up, drops, updates, piled, refused, disturbed>>

\* The timeout revokes the offer from the driver it was armed for.
Expire(t) ==
  LET d == DriverOf(OfferOf(t)) IN
  /\ ExpireOffer(t)
  /\ down' = Send(down, d, Message("revoked", job[t.run])) /\ LostBy(d)
  /\ UNCHANGED <<screenVars, linked, up, drops, updates, pastVars>>

\* The steps of the engine that send nothing to a phone.
Engine ==
  /\ \/ \E j \in Jobs : PostJob(j)
     \/ \E r \in Redispatches, j \in Jobs : Redispatch(r, j)
     \/ \E k \in tasks : \/ AcquireLock(k) \/ FindCandidates(k) \/ ReleaseLock(k)
                         \/ MarkOffered(k) \/ MarkPending(k) \/ SearchFails(k)
                         \/ k.by # "timer" /\ UpdateFails(k)
     \/ \E a \in accepts : AcceptStep(a) \/ AcceptFails(a)
     \/ Tick
  /\ UNCHANGED appVars

\* The Node process ends, by itself or on a rejected query of a timeout callback.
Down ==
  /\ Crash \/ \E k \in tasks : k.by = "timer" /\ UpdateFails(k)
  /\ linked' = {} /\ updates' = {}
  /\ up' = [d \in Drivers |-> <<>>] /\ down' = [d \in Drivers |-> <<>>]
  /\ lossy' = lossy \cup linked
  /\ UNCHANGED <<screenVars, drops, pastVars>>
-----------------------------------------------------------------------------
(* The phone *)

\* The Slip definitions are variants with one plausible mistake each, which the
\* properties tell from the code; no behaviour uses them.

SlipDeliver(d) ==                          \* no offers while a job is shown
  /\ down[d] # <<>>
  /\ down' = [down EXCEPT ![d] = Tail(@)]
  /\ offer' = [offer EXCEPT ![d] =
                 IF Head(down[d]).kind # "offer" THEN None
                 ELSE IF current[d] # None THEN @ ELSE Head(down[d]).job]
  /\ UNCHANGED <<vars, current, phase, clears, linked, up, drops, updates,
                 lossy, pastVars>>

Deliver(d) ==                              \* the listeners of DriverHomeScreen
  /\ down[d] # <<>>
  /\ down' = [down EXCEPT ![d] = Tail(@)]
  /\ offer' = [offer EXCEPT ![d] =
                 IF Head(down[d]).kind = "offer" THEN Head(down[d]).job ELSE None]
  /\ UNCHANGED <<vars, current, phase, clears, linked, up, drops, updates,
                 lossy, pastVars>>

SlipAnswer(d, kind) ==                     \* answers without an offer
  /\ offer' = [offer EXCEPT ![d] = None]
  /\ up' = Send(up, d, Message(kind, offer[d])) /\ LostBy(d)

Answer(d, kind) ==                         \* respondToOffer, and the modal goes
  /\ offer[d] # None
  /\ offer' = [offer EXCEPT ![d] = None]
  /\ up' = Send(up, d, Message(kind, offer[d])) /\ LostBy(d)

Accept(d) ==                               \* handleAcceptOffer
  /\ Answer(d, "accept")
  /\ current' = [current EXCEPT ![d] = offer[d]]
  /\ phase' = [phase EXCEPT ![d] = "to_pickup"]
  /\ piled' = IF current[d] # None THEN piled \cup {d} ELSE piled
  /\ UNCHANGED <<vars, clears, linked, down, drops, updates, crowded, refused,
                 disturbed>>

SlipDecline(d) ==                          \* the job is taken all the same
  /\ Answer(d, "decline")
  /\ current' = [current EXCEPT ![d] = offer[d]]
  /\ UNCHANGED <<vars, phase, clears, linked, down, drops, updates, pastVars>>

\* handleDeclineOffer, called by the button or by the countdown of the modal.
Decline(d) ==
  /\ Answer(d, "decline")
  /\ UNCHANGED <<vars, current, phase, clears, linked, down, drops, updates,
                 pastVars>>

SlipAdvance(d) ==                          \* the job is cleared in every phase
  /\ current[d] # None /\ phase[d] # "delivered"
  /\ LET p == NextPhase[phase[d]] IN
       /\ phase' = [phase EXCEPT ![d] = p]
       /\ up' = Send(up, d, Message(StatusOf[p], current[d])) /\ LostBy(d)
       /\ clears' = [clears EXCEPT ![d] = @ + 1]
  /\ UNCHANGED <<vars, offer, current, linked, down, drops, updates, pastVars>>

Advance(d) ==                              \* advanceJobPhase
  /\ current[d] # None /\ phase[d] # "delivered"
  /\ LET p == NextPhase[phase[d]] IN
       /\ phase' = [phase EXCEPT ![d] = p]
       /\ up' = Send(up, d, Message(StatusOf[p], current[d])) /\ LostBy(d)
       /\ clears' = [clears EXCEPT ![d] = IF p = "delivered" THEN @ + 1 ELSE @]
  /\ UNCHANGED <<vars, offer, current, linked, down, drops, updates, pastVars>>

\* The timeout armed at the delivery clears whatever job the screen shows.
ClearJob(d) ==
  /\ clears[d] > 0
  /\ clears' = [clears EXCEPT ![d] = @ - 1]
  /\ current' = [current EXCEPT ![d] = None]
  /\ phase' = [phase EXCEPT ![d] = "to_pickup"]
  /\ UNCHANGED <<vars, offer, lineVars, updates, lossy, pastVars>>
-----------------------------------------------------------------------------
(* The gateway *)

Open(d, j) == activeOffers[j] # None /\ DriverOf(activeOffers[j]) = d
Won(d, j)  == \E w \in won : job[w.run] = j /\ w.driver = d

\* Writes of the job's row, or of its winner's, that are under way.
Writing(j) ==
  \/ \E u \in updates : u.job = j
  \/ \E k \in tasks : job[k.run] = j
  \/ \E a \in accepts : job[a.run] = j

\* OFFER_ACCEPTED, OFFER_DECLINED and JOB_UPDATE, up to the first await.
Handle(d) ==
  LET m == Head(up[d]) IN
  /\ up[d] # <<>>
  /\ up' = [up EXCEPT ![d] = Tail(@)]
  /\ \/ /\ m.kind = "accept" /\ Open(d, m.job)
        /\ AcceptOffer(activeOffers[m.job])
        /\ UNCHANGED <<updates, refused, disturbed>>
     \/ /\ m.kind = "accept" /\ ~ Open(d, m.job)
        /\ refused' = refused \cup {<<d, m.job>>}
        /\ UNCHANGED <<vars, updates, disturbed>>
     \/ /\ m.kind = "decline" /\ Open(d, m.job)
        /\ DeclineOffer(activeOffers[m.job])
        /\ UNCHANGED <<updates, refused, disturbed>>
     \/ /\ m.kind = "decline" /\ ~ Open(d, m.job)
        /\ UNCHANGED <<vars, updates, refused, disturbed>>
     \/ /\ m.kind \in Progress
        /\ updates' = updates \cup
             {[driver |-> d, job |-> m.job, to |-> m.kind, at |-> "job"]}
        /\ disturbed' = IF Won(d, m.job) /\ ~ Writing(m.job)
                        THEN disturbed ELSE disturbed \cup {m.job}
        /\ UNCHANGED <<vars, refused>>
  /\ UNCHANGED <<screenVars, linked, down, drops, lossy, crowded, piled>>

SlipWriteJob(u) ==                         \* the driver is not freed
  /\ u.at = "job"
  /\ SetJob(u.job, u.to)
  /\ updates' = updates \ {u}
  /\ UNCHANGED <<assignee, driverStatus, lockVars, runVars, offerVars, tasks,
                 accepts, won, failures>>
  /\ UNCHANGED <<screenVars, lineVars, lossy, pastVars>>

\* JOB_UPDATE: the job's row and, when it is completed, the driver's.
WriteJob(u) ==
  /\ u.at = "job"
  /\ SetJob(u.job, u.to)
  /\ updates' = (updates \ {u}) \cup
                  (IF u.to = "completed" THEN {At(u, "driver")} ELSE {})
  /\ UNCHANGED <<assignee, driverStatus, lockVars, runVars, offerVars, tasks,
                 accepts, won, failures>>
  /\ UNCHANGED <<screenVars, lineVars, lossy, pastVars>>

FreeDriver(u) ==
  /\ u.at = "driver"
  /\ driverStatus' = [driverStatus EXCEPT ![u.driver] = "idle"]
  /\ updates' = updates \ {u}
  /\ UNCHANGED <<jobStatus, assignee, lockVars, runVars, offerVars, tasks,
                 accepts, won, failures>>
  /\ UNCHANGED <<screenVars, lineVars, lossy, pastVars>>

RejectUpdate(u) ==                         \* logged by the gateway
  /\ Fail
  /\ updates' = updates \ {u}
  /\ \/ u.at = "job" /\ MaybeSetJob(u.job, u.to) /\ UNCHANGED driverStatus
     \/ u.at = "driver" /\ UNCHANGED <<jobStatus, driverStatus>>
     \/ /\ u.at = "driver" /\ UNCHANGED jobStatus
        /\ driverStatus' = [driverStatus EXCEPT ![u.driver] = "idle"]
  /\ UNCHANGED <<assignee, lockVars, runVars, offerVars, tasks, accepts, won>>
  /\ UNCHANGED <<screenVars, lineVars, lossy, pastVars>>
-----------------------------------------------------------------------------
(* The line.  DriverConnection has its details: here a phone's identification *)
(* and the gateway's close handler take one step each, with their queries.    *)

Link(d) ==
  /\ d \notin linked
  /\ linked' = linked \cup {d}
  /\ SetStatus(d, "idle")
  /\ UNCHANGED <<screenVars, up, down, drops, updates, lossy, pastVars>>

Drop(d) ==
  /\ d \in linked
  /\ drops < MaxDrops /\ drops' = drops + 1
  /\ linked' = linked \ {d}
  /\ up' = [up EXCEPT ![d] = <<>>] /\ down' = [down EXCEPT ![d] = <<>>]
  /\ SetStatus(d, "offline")
  /\ \/ /\ lossy' = IF up[d] = <<>> /\ down[d] = <<>> THEN lossy ELSE lossy \cup {d}
        /\ UNCHANGED screenVars
     \/ /\ lossy' = lossy \cup {d}         \* the app is killed
        /\ offer' = [offer EXCEPT ![d] = None]
        /\ current' = [current EXCEPT ![d] = None]
        /\ phase' = [phase EXCEPT ![d] = "to_pickup"]
        /\ clears' = [clears EXCEPT ![d] = 0]
  /\ UNCHANGED <<updates, pastVars>>

Phone(d) == Deliver(d) \/ Accept(d) \/ Decline(d) \/ Advance(d) \/ ClearJob(d)

AppNext ==
  \/ Engine
  \/ \E k \in tasks : Publish(k)
  \/ \E t \in timers : Expire(t)
  \/ Down
  \/ \E d \in Drivers : Phone(d) \/ Handle(d) \/ Link(d) \/ Drop(d)
  \/ \E u \in updates : WriteJob(u) \/ FreeDriver(u) \/ RejectUpdate(u)

AppSpec == AppInit /\ [][AppNext]_<<vars, appVars>>
-----------------------------------------------------------------------------
(* Safety *)

UnderWay(line, j) == \E i \in DOMAIN line : line[i].job = j

AppTypeOK ==
  /\ TypeOK
  /\ linked \subseteq Drivers /\ drops \in Nat
  /\ up \in [Drivers -> Seq(ToServer)] /\ down \in [Drivers -> Seq(ToPhone)]
  /\ offer \in [Drivers -> Jobs \cup {None}]
  /\ current \in [Drivers -> Jobs \cup {None}]
  /\ phase \in [Drivers -> Phases] /\ clears \in [Drivers -> Nat]
  /\ updates \subseteq JobUpdate
  /\ lossy \cup crowded \cup piled \subseteq Drivers
  /\ refused \subseteq Drivers \X Jobs /\ disturbed \subseteq Jobs

\* An offer that waits for a driver's answer is on that driver's screen, once
\* the messages to the phone are read, unless one was lost or two offers met on
\* the phone: a newer one replaces it, a revocation of another one removes it.
OfferShown ==
  \A j \in Jobs, d \in Drivers :
    /\ Open(d, j) /\ d \notin lossy \cup crowded
    /\ down[d] = <<>> /\ ~ UnderWay(up[d], j)
    => offer[d] = j

\* A driver moves the row of a job only after winning it, unless the answer was
\* refused or lost: the phone has taken the job as its own by then.
UpdatesEarned ==
  \A u \in updates :
    u.driver \in lossy \/ <<u.driver, u.job>> \in refused \/ Won(u.driver, u.job)

\* Nothing that concerns the job and its winner is still to be written or read.
AtRest(d, j) ==
  /\ Won(d, j) /\ Untouched(j) /\ failures = 0
  /\ d \notin lossy \cup piled
  /\ \A i \in disturbed : ~ Won(d, i)
  /\ ~ Writing(j) /\ ~ UnderWay(up[d], j)

\* Phone and row agree: the winner's screen shows the job at the phase its status
\* says, and leaves it only when it is completed.  It takes an accept while
\* another job is shown, or two writes of the row that overlap, to part them.
PhoneAgrees ==
  \A d \in Drivers, j \in Jobs : AtRest(d, j) =>
    IF current[d] = j THEN jobStatus[j] = StatusOf[phase[d]]
                      ELSE jobStatus[j] = "completed"

\* A driver whose jobs are all completed is not left busy.
FreedWhenDone ==
  \A d \in Drivers :
    /\ \E j \in Jobs : Won(d, j)
    /\ \A j \in Jobs : Won(d, j) => AtRest(d, j) /\ jobStatus[j] = "completed"
    => driverStatus[d] # "en_route"
=============================================================================
