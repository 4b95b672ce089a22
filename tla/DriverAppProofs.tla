-------------------------- MODULE DriverAppProofs --------------------------
(***************************************************************************)
(* Proofs about DriverApp, for any number of drivers, jobs and manual      *)
(* dispatches and any number of failures and lost connections.             *)
(*                                                                         *)
(* The engine's part: a step of DriverApp is a step of DispatchEngine, or  *)
(* a write of JOB_UPDATE or of the gateway that changes rows only          *)
(* (EngineSide).  So the parts of the engine's inductive invariant that do *)
(* not speak of rows hold with the phones at the other end (EngineInv).    *)
(*                                                                         *)
(* The phones' part:                                                       *)
(*   - a driver's claim to a job is made when the phone takes the job and  *)
(*     decided when the gateway reads the accept; up to then the accept is *)
(*     under way, ahead of every update of the job (Earned), because a     *)
(*     socket keeps the order;                                             *)
(*   - a driver no two offers have met has one armed offer at most         *)
(*     (TimersApart), so that nothing is sent after it that would clear or *)
(*     replace it on the screen (Shown);                                   *)
(*   - the offer of a job leaves one trace with its driver (OneTrace), the *)
(*     reports that follow come in order and the newest says what the      *)
(*     screen shows (Reported), and the writes they lead to take turns     *)
(*     unless one of them disturbed the row (WritesInTurn): so the row     *)
(*     follows the screen (RowFollows) and the driver's own row is busy    *)
(*     only while a job is not through (BusyForAJob).                      *)
(***************************************************************************)
EXTENDS DriverApp, DispatchRefinement

allVars == <<vars, appVars>>

\* Nothing is under way from a driver without a connection.
LinesCut == \A d \in Drivers \ linked : up[d] = <<>>

\* The claims that are settled, one way or the other.
Decided ==
  {p \in Drivers \X Jobs : p[1] \in lossy \/ p \in refused \/ Won(p[1], p[2])}

\* An accept of the job is in the line before its n-th message.
Claimed(line, n, j) ==
  \E i \in DOMAIN line : i < n /\ line[i].kind = "accept" /\ line[i].job = j

\* Every update on its way from the phone, and those it may still send, come
\* behind the accept of the job unless that is decided already.
Ahead(d) ==
  \A j \in Jobs :
    /\ \A n \in DOMAIN up[d] : up[d][n].kind \in Progress /\ up[d][n].job = j =>
         <<d, j>> \in Decided \/ Claimed(up[d], n, j)
    /\ current[d] = j => <<d, j>> \in Decided \/ Claimed(up[d], Len(up[d]) + 1, j)

Earned ==
  /\ \A u \in updates : <<u.driver, u.job>> \in Decided
  /\ \A d \in Drivers : Ahead(d)

\* The driver an armed offer went to.
Offeree(t) == DriverOf(OfferOf(t))

TimersApart ==
  \A t, u \in timers : Offeree(t) = Offeree(u) /\ Offeree(t) \notin crowded => t = u

\* An answer for the job is on its way.
Answered(line, j) ==
  \E i \in DOMAIN line : line[i].kind \in {"accept", "decline"} /\ line[i].job = j

\* The offer is the last thing the phone was or will be told.
Showing(d, j) ==
  IF down[d] = <<>> THEN offer[d] = j
                    ELSE down[d][Len(down[d])] = Message("offer", j)

Shown ==
  \A j \in Jobs, d \in Drivers :
    Open(d, j) /\ d \notin lossy \cup crowded => Answered(up[d], j) \/ Showing(d, j)

AppInv ==
  /\ EngineInv
  /\ AppTypeOK
  /\ LinesCut
  /\ Earned
  /\ TimersApart
  /\ Shown

-----------------------------------------------------------------------------
(* Phone and row.  A report is what the phone tells of a job: the accept, then *)
(* the updates.  The newest report that has not reached the row yet says what  *)
(* the screen shows, whether it is on the line (Reported), at an await of the  *)
(* gateway, or written (RowFollows).  The offer of a job that nobody           *)
(* dispatches by hand leaves one trace with its driver, so that the job is     *)
(* taken and won once (OneTrace).                                              *)

\* The status the driver's screen stands for.
Screen(d, j) == IF current[d] = j THEN StatusOf[phase[d]] ELSE "completed"

Report(m) == IF m.kind = "accept" THEN "accepted" ELSE m.kind

\* The n-th message of the line is the last one about the job.
LastOf(line, n, j) ==
  /\ n \in DOMAIN line /\ line[n].job = j
  /\ \A i \in DOMAIN line : line[i].job = j => i <= n

Reported ==
  \A d \in Drivers \ (lossy \cup piled), j \in Jobs : \A n \in DOMAIN up[d] :
    LastOf(up[d], n, j) /\ up[d][n].kind # "decline" => Report(up[d][n]) = Screen(d, j)

\* A driver who takes one job at a time has a timer for a delivered job only.
ClearsArmed ==
  \A d \in Drivers \ piled :
    clears[d] = IF current[d] # None /\ phase[d] = "delivered" THEN 1 ELSE 0

\* Where the offer of a job may be with a driver: on the line to the phone, on the
\* screen, or answered and on the line back.
About(line, kinds, j) == {n \in DOMAIN line : line[n].kind \in kinds /\ line[n].job = j}
OffersIn(line, j)     == About(line, {"offer"}, j)
AnswersIn(line, j)    == About(line, {"accept", "decline"}, j)

Seen(dn, o, u, j) == OffersIn(dn, j) # {} \/ o = j \/ AnswersIn(u, j) # {}

Single(dn, o, u, j) ==
  /\ \A n, m \in OffersIn(dn, j) : n = m
  /\ \A n, m \in AnswersIn(u, j) : n = m
  /\ OffersIn(dn, j) # {} => o # j /\ AnswersIn(u, j) = {}
  /\ o = j => AnswersIn(u, j) = {}

Asked(d, j) == \E o \in offered : job[o.run] = j /\ DriverOf(o) = d

OneTrace ==
  \A d \in Drivers, j \in Jobs : Untouched(j) =>
    /\ Single(down[d], offer[d], up[d], j)
    /\ Seen(down[d], offer[d], up[d], j) => Asked(d, j) /\ ~ Won(d, j)

\* Writes of a job's row that a driver won follow each other.
Undisturbed(j) == Untouched(j) /\ failures = 0 /\ j \notin disturbed

UpdatesOf(j) == {u \in updates : u.job = j}
AcceptsOf(j) == {a \in accepts : job[a.run] = j}

WritesEarned ==
  /\ \A u \in updates : u.job \in disturbed \/ Won(u.driver, u.job)
  /\ \A a \in accepts : Won(a.driver, job[a.run])

InTurn(j) ==
  /\ \A u, v \in UpdatesOf(j) : u = v
  /\ UpdatesOf(j) = {} \/ AcceptsOf(j) = {}
  /\ \A a \in AcceptsOf(j) : a.at # "assign" => jobStatus[j] = "accepted"

WritesInTurn ==
  \A d \in Drivers, j \in Jobs : Won(d, j) /\ Undisturbed(j) => InTurn(j)

\* What is still to be written in the row's status.
Pending(j) == {u.to : u \in {v \in UpdatesOf(j) : v.at = "job"}} \cup
              {"accepted" : a \in {b \in AcceptsOf(j) : b.at = "assign"}}

RowFollows ==
  \A d \in Drivers \ (lossy \cup piled), j \in Jobs :
    Won(d, j) /\ Undisturbed(j) /\ ~ UnderWay(up[d], j) =>
      IF Pending(j) = {} THEN jobStatus[j] = Screen(d, j) ELSE Pending(j) = {Screen(d, j)}

\* A driver on the way to somewhere has a job that is not through.
Owing(d, j) == \/ jobStatus[j] # "completed" \/ UnderWay(up[d], j)
               \/ UpdatesOf(j) # {} \/ AcceptsOf(j) # {}

BusyForAJob ==
  \A d \in Drivers \ (lossy \cup piled) :
    /\ driverStatus[d] = "en_route"
    /\ \A j \in Jobs : Won(d, j) => Undisturbed(j)
    => \E j \in Jobs : Won(d, j) /\ Owing(d, j)

PhoneInv ==
  /\ Reported /\ ClearsArmed /\ OneTrace /\ WritesEarned /\ WritesInTurn
  /\ RowFollows /\ BusyForAJob

-----------------------------------------------------------------------------
(* Messages on a line. *)

\* What is left when the first message is read.
LEMMA ReadLine ==
  ASSUME NEW M, NEW line \in Seq(M), line # <<>>
  PROVE  /\ Len(line) \in Nat /\ Len(line) >= 1
         /\ Head(line) = line[1] /\ Head(line) \in M
         /\ Tail(line) \in Seq(M) /\ Len(Tail(line)) = Len(line) - 1
         /\ \A i \in 1 .. Len(line) - 1 : Tail(line)[i] = line[i + 1]
OBVIOUS

\* What there is when one more is sent.
LEMMA SentOn ==
  ASSUME NEW M, NEW line \in Seq(M), NEW m \in M
  PROVE  /\ Len(line) \in Nat
         /\ Append(line, m) \in Seq(M) /\ Len(Append(line, m)) = Len(line) + 1
         /\ \A i \in 1 .. Len(line) : Append(line, m)[i] = line[i]
         /\ Append(line, m)[Len(line) + 1] = m
OBVIOUS

\* The gateway reads answers and updates of jobs.
LEMMA HeadRead ==
  ASSUME AppTypeOK, NEW d \in Drivers, up[d] # <<>>
  PROVE  /\ Head(up[d]) \in ToServer
         /\ Head(up[d]).job \in Jobs
         /\ Head(up[d]).kind \in {"accept", "decline"} \cup Progress
<1>1. up[d] \in Seq(ToServer)
  BY DEF AppTypeOK
<1>2. Head(up[d]) \in ToServer
  BY <1>1, ReadLine
<1> QED
  BY <1>2 DEF ToServer
-----------------------------------------------------------------------------
(* The engine's part. *)

\* A write of rows that no engine step has made.
RowsWritten ==
  /\ UNCHANGED <<assignee, lockVars, runVars, offerVars, tasks, accepts, won>>
  /\ jobStatus' \in [Jobs -> JobStatus]
  /\ driverStatus' \in [Drivers -> DriverStatus]
  /\ failures' \in Nat

\* An offer in the registry is on record.
LEMMA EntryOffered ==
  ASSUME EngineInv, NEW j \in Jobs, activeOffers[j] # None
  PROVE  /\ activeOffers[j] \in offered
         /\ job[activeOffers[j].run] = j
<1>1. PICK t \in timers : OfferOf(t) = activeOffers[j]
  BY DEF EngineInv, EntryArmed
<1>2. t \in Timer /\ t.index \in DOMAIN cands[t.run] /\ t.run \in Runs
  BY DEF EngineInv, TypeOK, Timer
<1>3. t.index \in Nat /\ t.index >= 1
  BY <1>2, RankingsDomain DEF EngineInv, TypeOK
<1>4. OfferOf(t) \in FirstOffers(t.run, t.index)
  BY <1>3 DEF OfferOf, FirstOffers
<1>5. OfferOf(t) \in OffersOf(t.run)
  BY <1>4 DEF EngineInv, Cascade
<1> QED
  BY <1>1, <1>5 DEF OffersOf, EngineInv, EntryArmed

\* The row of a driver, written by the gateway.
LEMMA StatusWritten ==
  ASSUME TypeOK, NEW d \in Drivers, NEW s \in {"idle", "offline"}, SetStatus(d, s)
  PROVE  RowsWritten
BY DEF SetStatus, RowsWritten, TypeOK, DriverStatus

\* What JOB_UPDATE writes.
LEMMA UpdateWritten ==
  ASSUME AppTypeOK, NEW u \in updates, WriteJob(u) \/ FreeDriver(u) \/ RejectUpdate(u)
  PROVE  RowsWritten
<1>1. u.driver \in Drivers /\ u.job \in Jobs /\ u.to \in JobStatus
  BY DEF AppTypeOK, JobUpdate, Progress, JobStatus
<1>2. /\ jobStatus \in [Jobs -> JobStatus] /\ driverStatus \in [Drivers -> DriverStatus]
      /\ failures \in Nat
  BY DEF AppTypeOK, TypeOK
<1>3. CASE WriteJob(u)
  BY <1>1, <1>2, <1>3 DEF WriteJob, SetJob, RowsWritten
<1>4. CASE FreeDriver(u)
  BY <1>1, <1>2, <1>4 DEF FreeDriver, RowsWritten, DriverStatus
<1>5. CASE RejectUpdate(u)
  BY <1>1, <1>2, <1>5 DEF RejectUpdate, MaybeSetJob, SetJob, Fail, RowsWritten,
     DriverStatus
<1> QED
  BY <1>3, <1>4, <1>5

\* With its phones the engine takes its own steps, or rows are written.
LEMMA EngineSide ==
  ASSUME EngineInv, AppTypeOK, [AppNext]_allVars
  PROVE  [Next]_vars \/ RowsWritten
<1>1. CASE Engine
  BY <1>1 DEF Engine, Next, TaskStep
<1>2. ASSUME NEW k \in tasks, Publish(k)
      PROVE  Next
  BY <1>2 DEF Publish, Next, TaskStep
<1>3. ASSUME NEW t \in timers, Expire(t)
      PROVE  Next
  BY <1>3 DEF Expire, Next
<1>4. CASE Down
  BY <1>4 DEF Down, Next
<1>5. ASSUME NEW d \in Drivers, Phone(d)
      PROVE  UNCHANGED vars
  BY <1>5 DEF Phone, Deliver, Accept, Decline, Advance, ClearJob
<1>6. ASSUME NEW d \in Drivers, Handle(d)
      PROVE  [Next]_vars
  <2> DEFINE j == Head(up[d]).job
  <2>1. j \in Jobs
    BY <1>6, HeadRead DEF Handle
  <2>2. Open(d, j) => activeOffers[j] \in offered
    BY <2>1, EntryOffered DEF Open
  <2>3. \/ UNCHANGED vars
        \/ Open(d, j) /\ (AcceptOffer(activeOffers[j]) \/ DeclineOffer(activeOffers[j]))
    BY <1>6 DEF Handle
  <2>4. ASSUME NEW o \in offered, AcceptOffer(o) \/ DeclineOffer(o)
        PROVE  Next
    BY <2>4 DEF Next
  <2> HIDE DEF j
  <2> QED
    BY <2>2, <2>3, <2>4
<1>7. ASSUME NEW d \in Drivers, Link(d) \/ Drop(d)
      PROVE  RowsWritten
  BY <1>7, StatusWritten DEF Link, Drop, EngineInv
<1>8. ASSUME NEW u \in updates, WriteJob(u) \/ FreeDriver(u) \/ RejectUpdate(u)
      PROVE  RowsWritten
  BY <1>8, UpdateWritten
<1>9. CASE UNCHANGED allVars
  BY <1>9 DEF allVars
<1> QED
  BY <1>1, <1>2, <1>3, <1>4, <1>5, <1>6, <1>7, <1>8, <1>9 DEF AppNext

\* Writes of rows leave everything else as it is.
LEMMA RowsFrame ==
  ASSUME EngineInv, RowsWritten
  PROVE  EngineInv'
<1>1. UNCHANGED <<assignee, lock, lapsed, job, cands, activeOffers, timers, offered,
                  tasks, accepts, won>>
  BY DEF RowsWritten, lockVars, runVars, offerVars
<1>2. TypeOK'
  BY <1>1 DEF EngineInv, TypeOK, RowsWritten
<1>3. Underway' /\ SingleThread'
  BY <1>1 DEF EngineInv, Underway, SingleThread
<1>4. Cascade'
  BY <1>1 DEF EngineInv, Cascade, CascadeOrder, OffersOf
<1>5. EntryArmed' /\ OfferAnswerable'
  BY <1>1 DEF EngineInv, EntryArmed, OfferAnswerable
<1>6. Winners'
  BY <1>1 DEF EngineInv, Winners, LastOfferWins, OffersOf, DriverOf
<1>7. HoldsLock'
  BY <1>1 DEF EngineInv, HoldsLock, Engaged, InProgress, Waiting
<1> QED
  BY <1>2, <1>3, <1>4, <1>5, <1>6, <1>7 DEF EngineInv

\* The engine keeps its invariants with the phones at the other end.
LEMMA EngineKept ==
  ASSUME EngineInv, AppTypeOK, [AppNext]_allVars
  PROVE  EngineInv'
<1>1. CASE [Next]_vars
  <2>1. TypeOK /\ Underway /\ SingleThread /\ Cascade /\ EntryArmed
        /\ Winners /\ HoldsLock /\ OfferAnswerable
    BY DEF EngineInv
  <2>2. TypeOK' /\ Underway' /\ SingleThread' /\ EntryArmed'
    BY <1>1, <2>1, TypeStep, UnderwayStep, SingleThreadStep, EntryArmedStep
  <2>3. Cascade' /\ Winners' /\ HoldsLock' /\ OfferAnswerable'
    BY <1>1, <2>1, CascadeStep, WinnersStep, HoldsLockStep, AnswerableStep
  <2> QED
    BY <2>2, <2>3 DEF EngineInv
<1>2. CASE RowsWritten
  BY <1>2, RowsFrame
<1> QED
  BY <1>1, <1>2, EngineSide
-----------------------------------------------------------------------------
(* Types. *)

\* A message that is sent, or lost, is of the line's type.
LEMMA SendType ==
  ASSUME NEW M, NEW line \in [Drivers -> Seq(M)], NEW d \in Drivers, NEW m \in M
  PROVE  /\ Send(line, d, m) \in [Drivers -> Seq(M)]
         /\ Send(line, d, m)[d] = IF d \in linked THEN Append(line[d], m) ELSE line[d]
         /\ \A e \in Drivers \ {d} : Send(line, d, m)[e] = line[e]
<1>1. Append(line[d], m) \in Seq(M)
  BY SentOn
<1> QED
  BY <1>1 DEF Send

\* Every variable keeps its type.
LEMMA AppTypeStep ==
  ASSUME EngineInv, AppTypeOK, [AppNext]_allVars
  PROVE  AppTypeOK'
<1> DEFINE
      Screens == /\ offer \in [Drivers -> Jobs \cup {None}]
                 /\ current \in [Drivers -> Jobs \cup {None}]
                 /\ phase \in [Drivers -> Phases] /\ clears \in [Drivers -> Nat]
      Lines   == /\ linked \subseteq Drivers /\ drops \in Nat
                 /\ up \in [Drivers -> Seq(ToServer)]
                 /\ down \in [Drivers -> Seq(ToPhone)]
      Past    == /\ updates \subseteq JobUpdate
                 /\ lossy \cup crowded \cup piled \subseteq Drivers
                 /\ refused \subseteq Drivers \X Jobs /\ disturbed \subseteq Jobs
<1>0. TypeOK /\ TypeOK' /\ Screens /\ Lines /\ Past
  BY EngineKept DEF EngineInv, AppTypeOK
<1>1. SUFFICES Screens' /\ Lines' /\ Past'
  BY <1>0 DEF AppTypeOK
<1>2. CASE Engine \/ UNCHANGED allVars
  BY <1>0, <1>2 DEF Engine, allVars, appVars, screenVars, lineVars, pastVars
<1>3. ASSUME NEW k \in tasks, Publish(k)
      PROVE  Screens' /\ Lines' /\ Past'
  <2> DEFINE d == DriverOf(OfferOf(k))
  <2>1. k \in Task /\ k.run \in Runs /\ k.index \in DOMAIN cands[k.run] /\ job[k.run] \in Jobs
    BY <1>3 DEF Publish, PublishOffer, EngineInv, TypeOK, Cascade, Underway, Task
  <2>2. d \in Drivers
    BY <2>1, RankingsDomain DEF OfferOf, DriverOf, EngineInv, TypeOK
  <2>3. Message("offer", job[k.run]) \in ToPhone
    BY <2>1 DEF Message, ToPhone
  <2>4. down' \in [Drivers -> Seq(ToPhone)]
    BY <1>0, <1>3, <2>2, <2>3, SendType DEF Publish
  <2> HIDE DEF d
  <2>5. Screens' /\ Lines'
    BY <1>0, <1>3, <2>4 DEF Publish, screenVars
  <2>6. lossy' \in {lossy, lossy \cup {d}} /\ crowded' \in {crowded, crowded \cup {d}}
    BY <1>3 DEF Publish, LostBy, d
  <2> QED
    BY <1>0, <1>3, <2>2, <2>5, <2>6 DEF Publish
<1>4. ASSUME NEW t \in timers, Expire(t)
      PROVE  Screens' /\ Lines' /\ Past'
  <2> DEFINE d == DriverOf(OfferOf(t))
  <2>1. t \in Timer /\ t.run \in Runs /\ t.index \in DOMAIN cands[t.run] /\ job[t.run] \in Jobs
    BY DEF EngineInv, TypeOK, Underway, Timer
  <2>2. d \in Drivers
    BY <2>1, RankingsDomain DEF OfferOf, DriverOf, EngineInv, TypeOK
  <2>3. Message("revoked", job[t.run]) \in ToPhone
    BY <2>1 DEF Message, ToPhone
  <2>4. down' \in [Drivers -> Seq(ToPhone)]
    BY <1>0, <1>4, <2>2, <2>3, SendType DEF Expire
  <2> HIDE DEF d
  <2>5. Screens' /\ Lines'
    BY <1>0, <1>4, <2>4 DEF Expire, screenVars
  <2>6. lossy' \in {lossy, lossy \cup {d}}
    BY <1>4 DEF Expire, LostBy, d
  <2> QED
    BY <1>0, <1>4, <2>2, <2>5, <2>6 DEF Expire, pastVars
<1>5. CASE Down
  <2>1. <<>> \in Seq(ToServer) /\ <<>> \in Seq(ToPhone)
    OBVIOUS
  <2> QED
    BY <1>0, <1>5, <2>1 DEF Down, screenVars, pastVars
<1>6. ASSUME NEW d \in Drivers, Deliver(d)
      PROVE  Screens' /\ Lines' /\ Past'
  <2>1. Head(down[d]) \in ToPhone /\ Tail(down[d]) \in Seq(ToPhone)
    BY <1>0, <1>6, ReadLine DEF Deliver
  <2>2. Head(down[d]).job \in Jobs
    BY <2>1 DEF ToPhone
  <2> QED
    BY <1>0, <1>6, <2>1, <2>2 DEF Deliver, pastVars
<1>7. ASSUME NEW d \in Drivers, Accept(d) \/ Decline(d)
      PROVE  Screens' /\ Lines' /\ Past'
  <2>1. PICK kind \in {"accept", "decline"} : Answer(d, kind)
    BY <1>7 DEF Accept, Decline
  <2>2. offer[d] \in Jobs
    BY <1>0, <2>1 DEF Answer
  <2>3. Message(kind, offer[d]) \in ToServer
    BY <2>2 DEF Message, ToServer
  <2>4. up' \in [Drivers -> Seq(ToServer)]
    BY <1>0, <2>1, <2>3, SendType DEF Answer
  <2>5. Screens' /\ Lines'
    BY <1>0, <1>7, <2>1, <2>2, <2>4 DEF Accept, Decline, Answer, Phases
  <2>6. lossy' \subseteq Drivers /\ piled' \subseteq Drivers
    BY <1>0, <1>7, <2>1 DEF Accept, Decline, Answer, LostBy, pastVars
  <2> QED
    BY <1>0, <1>7, <2>5, <2>6 DEF Accept, Decline, pastVars
<1>8. ASSUME NEW d \in Drivers, Advance(d)
      PROVE  Screens' /\ Lines' /\ Past'
  <2> DEFINE p == NextPhase[phase[d]]
  <2>1. current[d] \in Jobs /\ phase[d] \in DOMAIN NextPhase
    BY <1>0, <1>8 DEF Advance, Phases, NextPhase
  <2>2. p \in Phases /\ StatusOf[p] \in Progress
    BY <2>1 DEF NextPhase, StatusOf, Phases, Progress
  <2>3. Message(StatusOf[p], current[d]) \in ToServer
    BY <2>1, <2>2 DEF Message, ToServer
  <2>4. up' \in [Drivers -> Seq(ToServer)]
    BY <1>0, <1>8, <2>3, SendType DEF Advance
  <2>5. clears[d] + 1 \in Nat
    BY <1>0
  <2> HIDE DEF p
  <2>6. clears' \in [Drivers -> Nat] /\ phase' \in [Drivers -> Phases]
    BY <1>0, <1>8, <2>2, <2>5 DEF Advance, p
  <2>7. lossy' \in {lossy, lossy \cup {d}}
    BY <1>8 DEF Advance, LostBy
  <2> QED
    BY <1>0, <1>8, <2>4, <2>6, <2>7 DEF Advance, pastVars
<1>9. ASSUME NEW d \in Drivers, ClearJob(d)
      PROVE  Screens' /\ Lines' /\ Past'
  <2>1. clears[d] - 1 \in Nat
    BY <1>0, <1>9 DEF ClearJob
  <2> QED
    BY <1>0, <1>9, <2>1 DEF ClearJob, lineVars, pastVars, Phases
<1>10. ASSUME NEW d \in Drivers, Handle(d)
       PROVE  Screens' /\ Lines' /\ Past'
  <2> DEFINE m == Head(up[d])
  <2>1. m.job \in Jobs /\ Tail(up[d]) \in Seq(ToServer)
    BY <1>0, <1>10, HeadRead, ReadLine DEF Handle
  <2>2. m.kind \in Progress =>
          [driver |-> d, job |-> m.job, to |-> m.kind, at |-> "job"] \in JobUpdate
    BY <2>1 DEF JobUpdate
  <2>3. /\ \/ updates' = updates
           \/ m.kind \in Progress /\ updates' = updates \cup
                {[driver |-> d, job |-> m.job, to |-> m.kind, at |-> "job"]}
        /\ refused' \in {refused, refused \cup {<<d, m.job>>}}
        /\ disturbed' \in {disturbed, disturbed \cup {m.job}}
        /\ up' = [up EXCEPT ![d] = Tail(@)]
        /\ UNCHANGED <<screenVars, linked, down, drops, lossy, crowded, piled>>
    BY <1>10 DEF Handle
  <2> HIDE DEF m
  <2>4. Lines' /\ Screens'
    BY <1>0, <2>1, <2>3 DEF screenVars
  <2> QED
    BY <1>0, <2>1, <2>2, <2>3, <2>4
<1>11. ASSUME NEW d \in Drivers, Link(d)
       PROVE  Screens' /\ Lines' /\ Past'
  BY <1>0, <1>11 DEF Link, screenVars, pastVars
<1>12. ASSUME NEW d \in Drivers, Drop(d)
       PROVE  Screens' /\ Lines' /\ Past'
  <2>1. /\ drops' \in Nat /\ linked' \subseteq Drivers
        /\ up' \in [Drivers -> Seq(ToServer)] /\ down' \in [Drivers -> Seq(ToPhone)]
    BY <1>0, <1>12 DEF Drop
  <2>2. offer' \in [Drivers -> Jobs \cup {None}] /\ current' \in [Drivers -> Jobs \cup {None}]
    BY <1>0, <1>12 DEF Drop, screenVars
  <2>3. phase' \in [Drivers -> Phases]
    BY <1>0, <1>12 DEF Drop, screenVars, Phases
  <2>4. clears' \in [Drivers -> Nat]
    <3>1. clears' = clears \/ clears' = [clears EXCEPT ![d] = 0]
      BY <1>12 DEF Drop, screenVars
    <3>2. clears \in [Drivers -> Nat]
      BY <1>0
    <3>3. [clears EXCEPT ![d] = 0] \in [Drivers -> Nat]
      BY <3>2
    <3> QED
      BY <3>1, <3>2, <3>3, Zenon
  <2> QED
    BY <1>0, <1>12, <2>1, <2>2, <2>3, <2>4 DEF Drop, pastVars
<1>13. ASSUME NEW u \in updates, WriteJob(u) \/ FreeDriver(u) \/ RejectUpdate(u)
       PROVE  Screens' /\ Lines' /\ Past'
  <2>1. u \in JobUpdate /\ At(u, "driver") \in JobUpdate
    BY <1>0 DEF At, JobUpdate
  <2>2. updates' \subseteq updates \cup {At(u, "driver")}
    BY <1>13 DEF WriteJob, FreeDriver, RejectUpdate
  <2>3. UNCHANGED <<screenVars, lineVars, lossy, pastVars>>
    BY <1>13 DEF WriteJob, FreeDriver, RejectUpdate
  <2> QED
    BY <1>0, <2>1, <2>2, <2>3 DEF screenVars, lineVars, pastVars
<1> QED
  BY <1>2, <1>3, <1>4, <1>5, <1>6, <1>7, <1>8, <1>9, <1>10, <1>11, <1>12, <1>13
  DEF AppNext, Phone
-----------------------------------------------------------------------------
(* Claims. *)

\* What no step takes back: jobs given to runs, wins, losses and refusals.
Forward ==
  /\ \A r \in Runs : job[r] # None => job'[r] = job[r]
  /\ won \subseteq won'
  /\ lossy \subseteq lossy' /\ refused \subseteq refused'

LEMMA EngineForward ==
  ASSUME TypeOK, [Next]_vars
  PROVE  /\ \A r \in Runs : job[r] # None => job'[r] = job[r]
         /\ won \subseteq won'
<1>1. ASSUME NEW r \in Runs, NEW j \in Jobs, Enter(r, j)
      PROVE  /\ \A s \in Runs : job[s] # None => job'[s] = job[s]
             /\ won' = won
  BY <1>1 DEF Enter, TypeOK
<1>2. ASSUME NEW k \in tasks, TaskStep(k) \/ SearchFails(k) \/ UpdateFails(k)
      PROVE  UNCHANGED <<job, won>>
  BY <1>2 DEF TaskStep, AcquireLock, FindCandidates, ReleaseLock, MarkOffered,
     PublishOffer, MarkPending, SearchFails, UpdateFails, runVars
<1>3. ASSUME NEW t \in timers, ExpireOffer(t)
      PROVE  UNCHANGED <<job, won>>
  BY <1>3 DEF ExpireOffer, runVars
<1>4. ASSUME NEW o \in offered, AcceptOffer(o) \/ DeclineOffer(o)
      PROVE  job' = job /\ won \subseteq won'
  BY <1>4 DEF AcceptOffer, DeclineOffer, runVars
<1>5. ASSUME NEW a \in accepts, AcceptStep(a) \/ AcceptFails(a)
      PROVE  UNCHANGED <<job, won>>
  BY <1>5 DEF AcceptStep, Assign, MakeBusy, Unlock, AcceptFails, runVars
<1>6. ASSUME NEW d \in Drivers, NEW s \in Patches, SetStatus(d, s)
      PROVE  UNCHANGED <<job, won>>
  BY <1>6 DEF SetStatus, runVars
<1>7. CASE Tick \/ Crash \/ UNCHANGED vars
  BY <1>7 DEF Tick, Crash, vars, runVars
<1> QED
  BY <1>1, <1>2, <1>3, <1>4, <1>5, <1>6, <1>7 DEF Next, PostJob, Redispatch, Runs

LEMMA GoesForward ==
  ASSUME EngineInv, AppTypeOK, [AppNext]_allVars
  PROVE  Forward
<1>1. lossy \subseteq lossy' /\ refused \subseteq refused'
  BY DEF AppNext, allVars, appVars, Engine, Publish, Expire, Down, Phone, Deliver, Accept,
     Decline, Answer, LostBy, Advance, ClearJob, Handle, Link, Drop, WriteJob, FreeDriver,
     RejectUpdate, pastVars
<1>2. CASE [Next]_vars
  BY <1>1, <1>2, EngineForward DEF Forward, EngineInv
<1>3. CASE RowsWritten
  BY <1>1, <1>3 DEF RowsWritten, runVars, Forward
<1> QED
  BY <1>2, <1>3, EngineSide

\* What is decided stays decided.
LEMMA DecidedStays ==
  ASSUME EngineInv, Forward
  PROVE  Decided \subseteq Decided'
<1> SUFFICES ASSUME NEW d \in Drivers, NEW j \in Jobs, <<d, j>> \in Decided
             PROVE  <<d, j>> \in Decided'
  BY DEF Decided
<1>1. CASE Won(d, j)
  <2>1. PICK w \in won : job[w.run] = j /\ w.driver = d
    BY <1>1 DEF Won
  <2>2. w \in won' /\ w.run \in Runs /\ j # None
    BY <2>1, NoneAssumption DEF Forward, EngineInv, TypeOK, Runs
  <2>3. job'[w.run] = j
    BY <2>1, <2>2 DEF Forward
  <2> QED
    BY <2>1, <2>2, <2>3 DEF Decided, Won
<1> QED
  BY <1>1 DEF Decided, Forward

\* A driver whose line and job are the same, or who has no job any more.
LEMMA AheadFrame ==
  ASSUME EngineInv, Forward, NEW d \in Drivers, Ahead(d),
         up'[d] = up[d], current'[d] \in {current[d], None}
  PROVE  Ahead(d)'
BY DecidedStays, NoneAssumption DEF Ahead, Runs

\* A driver who lost a message has nothing to show.
LEMMA AheadLossy ==
  ASSUME NEW d \in Drivers, d \in lossy'
  PROVE  Ahead(d)'
<1>1. \A j \in Jobs : <<d, j>> \in Decided'
  BY DEF Decided
<1> QED
  BY <1>1 DEF Ahead

\* A phone sends an accept of the job it takes, or an update of the job it has.
LEMMA AheadSent ==
  ASSUME EngineInv, AppTypeOK, Forward, NEW d \in Drivers, Ahead(d),
         NEW m \in ToServer, up'[d] = Append(up[d], m),
         m.kind \in Progress => m.job = current[d],
         \/ current'[d] = current[d]
         \/ m.kind = "accept" /\ current'[d] = m.job
  PROVE  Ahead(d)'
<1> DEFINE L == Len(up[d])
<1>1. up[d] \in Seq(ToServer) /\ L \in Nat /\ DOMAIN up[d] = 1 .. L
  BY DEF AppTypeOK
<1>2. /\ Len(up'[d]) = L + 1 /\ DOMAIN up'[d] = 1 .. (L + 1)
      /\ \A i \in 1 .. L : up'[d][i] = up[d][i]
      /\ up'[d][L + 1] = m
  BY <1>1, SentOn
<1>3. \A n, j : Claimed(up[d], n, j) => Claimed(up'[d], n, j)
  BY <1>1, <1>2 DEF Claimed
<1>4. \A j : Claimed(up[d], L + 1, j) => Claimed(up'[d], L + 2, j)
  BY <1>1, <1>2 DEF Claimed
<1>5. m.kind = "accept" => Claimed(up'[d], L + 2, m.job)
  BY <1>1, <1>2 DEF Claimed
<1>6. Len(up'[d]) + 1 = L + 2
  BY <1>1, <1>2
<1> SUFFICES ASSUME NEW j \in Jobs, <<d, j>> \notin Decided'
             PROVE  /\ \A n \in DOMAIN up'[d] :
                          up'[d][n].kind \in Progress /\ up'[d][n].job = j =>
                            Claimed(up'[d], n, j)
                    /\ current'[d] = j => Claimed(up'[d], L + 2, j)
  BY <1>6 DEF Ahead
<1>7. <<d, j>> \notin Decided
  BY DecidedStays
<1>8. /\ \A n \in DOMAIN up[d] : up[d][n].kind \in Progress /\ up[d][n].job = j =>
           Claimed(up[d], n, j)
      /\ current[d] = j => Claimed(up[d], L + 1, j)
  BY <1>7 DEF Ahead
<1>9. ASSUME NEW n \in DOMAIN up'[d], up'[d][n].kind \in Progress, up'[d][n].job = j
      PROVE  Claimed(up'[d], n, j)
  <2>1. CASE n \in 1 .. L
    BY <1>1, <1>2, <1>3, <1>8, <1>9, <2>1
  <2>2. CASE n = L + 1
    BY <1>2, <1>3, <1>8, <1>9, <2>2
  <2> QED
    BY <1>1, <1>2, <2>1, <2>2
<1> QED
  BY <1>4, <1>5, <1>8, <1>9

\* The gateway reads the first message: an accept that it reads is decided.
LEMMA AheadRead ==
  ASSUME EngineInv, AppTypeOK, Forward, NEW d \in Drivers, Ahead(d), up[d] # <<>>,
         up'[d] = Tail(up[d]), current'[d] = current[d],
         Head(up[d]).kind = "accept" => <<d, Head(up[d]).job>> \in Decided'
  PROVE  Ahead(d)'
<1> DEFINE L == Len(up[d])
<1>1. up[d] \in Seq(ToServer) /\ L \in Nat /\ DOMAIN up[d] = 1 .. L
  BY DEF AppTypeOK
<1>2. /\ L >= 1 /\ Len(up'[d]) = L - 1 /\ DOMAIN up'[d] = 1 .. (L - 1)
      /\ \A i \in 1 .. (L - 1) : up'[d][i] = up[d][i + 1]
      /\ Head(up[d]) = up[d][1]
  BY <1>1, ReadLine
<1>3. Len(up'[d]) + 1 = L
  BY <1>1, <1>2
<1> SUFFICES ASSUME NEW j \in Jobs, <<d, j>> \notin Decided'
             PROVE  /\ \A n \in DOMAIN up'[d] :
                          up'[d][n].kind \in Progress /\ up'[d][n].job = j =>
                            Claimed(up'[d], n, j)
                    /\ current'[d] = j => Claimed(up'[d], L, j)
  BY <1>3 DEF Ahead
<1>4. <<d, j>> \notin Decided
  BY DecidedStays
<1>5. /\ \A n \in DOMAIN up[d] : up[d][n].kind \in Progress /\ up[d][n].job = j =>
           Claimed(up[d], n, j)
      /\ current[d] = j => Claimed(up[d], L + 1, j)
  BY <1>4 DEF Ahead
<1>6. ASSUME NEW n \in 1 .. L, Claimed(up[d], n + 1, j)
      PROVE  Claimed(up'[d], n, j)
  <2>1. PICK i \in 1 .. L : i < n + 1 /\ up[d][i].kind = "accept" /\ up[d][i].job = j
    BY <1>1, <1>6 DEF Claimed
  <2>2. i # 1
    BY <1>2, <2>1
  <2>3. i - 1 \in DOMAIN up'[d] /\ i - 1 < n /\ up'[d][i - 1] = up[d][i]
    BY <1>1, <1>2, <2>1, <2>2
  <2> QED
    BY <2>1, <2>3 DEF Claimed
<1>7. ASSUME NEW n \in DOMAIN up'[d], up'[d][n].kind \in Progress, up'[d][n].job = j
      PROVE  Claimed(up'[d], n, j)
  <2>1. n \in 1 .. L /\ n + 1 \in DOMAIN up[d] /\ up'[d][n] = up[d][n + 1]
    BY <1>1, <1>2
  <2> QED
    BY <2>1, <1>5, <1>6, <1>7
<1>8. L \in 1 .. L
  BY <1>1, <1>2
<1> QED
  BY <1>5, <1>6, <1>7, <1>8

\* An answer the gateway finds open is to the offer of the job it names.
LEMMA AnswerTaken ==
  ASSUME EngineInv, NEW d \in Drivers, NEW j \in Jobs, Open(d, j),
         AcceptOffer(activeOffers[j]) \/ DeclineOffer(activeOffers[j])
  PROVE  /\ timers' \subseteq timers
         /\ activeOffers' = [activeOffers EXCEPT ![j] = None]
         /\ AcceptOffer(activeOffers[j]) => <<d, j>> \in Decided'
<1> DEFINE e == activeOffers[j]
           w == [run |-> e.run, driver |-> d]
<1>1. job[e.run] = j /\ DriverOf(e) = d
  BY EntryOffered DEF Open
<1>2. activeOffers[job[e.run]] = e
  BY <1>1
<1> HIDE DEF e
<1>3. /\ timers' \subseteq timers
      /\ activeOffers' = [activeOffers EXCEPT ![job[e.run]] = None]
      /\ job' = job
      /\ AcceptOffer(e) => w \in won'
  BY <1>1, <1>2 DEF AcceptOffer, DeclineOffer, TakeOff, runVars, e
<1>4. AcceptOffer(e) => <<d, j>> \in Decided'
  BY <1>1, <1>3 DEF Decided, Won
<1> QED
  BY <1>1, <1>3, <1>4 DEF e

\* Updates are earned, step by step.
LEMMA EarnedStep ==
  ASSUME EngineInv, AppTypeOK, LinesCut, Earned, [AppNext]_allVars
  PROVE  Earned'
<1>0. /\ Forward /\ Decided \subseteq Decided'
      /\ \A u \in updates : <<u.driver, u.job>> \in Decided
      /\ \A d \in Drivers : Ahead(d)
  BY GoesForward, DecidedStays DEF Earned
<1>1. ASSUME NEW d \in Drivers, UNCHANGED <<up[d], current[d]>>
      PROVE  Ahead(d)'
  BY <1>0, <1>1, AheadFrame
<1>2. ASSUME UNCHANGED <<up, current>>,
             \A u \in updates' : <<u.driver, u.job>> \in Decided'
      PROVE  Earned'
  BY <1>1, <1>2 DEF Earned
<1>3. CASE Engine \/ (\E k \in tasks : Publish(k)) \/ (\E t \in timers : Expire(t))
           \/ UNCHANGED allVars
  <2>1. UNCHANGED <<up, current, updates>>
    BY <1>3 DEF Engine, Publish, Expire, allVars, appVars, lineVars, screenVars
  <2> QED
    BY <2>1, <1>0, <1>2
<1>4. ASSUME NEW d \in Drivers, Deliver(d) \/ Link(d)
      PROVE  Earned'
  <2>1. UNCHANGED <<up, current, updates>>
    BY <1>4 DEF Deliver, Link, screenVars
  <2> QED
    BY <2>1, <1>0, <1>2
<1>5. CASE Down
  <2>1. ASSUME NEW d \in Drivers
        PROVE  Ahead(d)'
    <3>1. CASE d \in linked
      BY <1>5, <3>1, AheadLossy DEF Down
    <3>2. CASE d \notin linked
      <4>1. UNCHANGED <<up[d], current[d]>>
        BY <1>5, <3>2 DEF Down, LinesCut, screenVars
      <4> QED
        BY <4>1, <1>1
    <3> QED
      BY <3>1, <3>2
  <2> QED
    BY <1>5, <2>1 DEF Down, Earned
<1>6. ASSUME NEW d \in Drivers, NEW m \in ToServer,
             up' = Send(up, d, m), LostBy(d), updates' = updates,
             m.kind \in Progress => m.job = current[d],
             \/ current'[d] = current[d]
             \/ m.kind = "accept" /\ current'[d] = m.job,
             \A e \in Drivers \ {d} : current'[e] = current[e]
      PROVE  Earned'
  <2>0. /\ up'[d] = IF d \in linked THEN Append(up[d], m) ELSE up[d]
        /\ \A e \in Drivers \ {d} : up'[e] = up[e]
    <3>1. up \in [Drivers -> Seq(ToServer)]
      BY DEF AppTypeOK
    <3>2. m \in ToServer /\ up' = Send(up, d, m)
      BY <1>6
    <3> QED
      BY <3>1, <3>2, SendType
  <2>1. Ahead(d)'
    <3>1. CASE d \in linked
      <4>1. up'[d] = Append(up[d], m)
        BY <2>0, <3>1
      <4> QED
        BY <4>1, <1>0, <1>6, AheadSent
    <3>2. CASE d \notin linked
      BY <1>6, <3>2, AheadLossy DEF LostBy
    <3> QED
      BY <3>1, <3>2
  <2>2. ASSUME NEW e \in Drivers \ {d}
        PROVE  Ahead(e)'
    <3>1. UNCHANGED <<up[e], current[e]>>
      BY <1>6, <2>0
    <3> QED
      BY <3>1, <1>1
  <2> QED
    BY <1>0, <1>6, <2>1, <2>2 DEF Earned
<1>7. ASSUME NEW d \in Drivers, Accept(d) \/ Decline(d)
      PROVE  Earned'
  <2>1. PICK kind \in {"accept", "decline"} :
          /\ Answer(d, kind)
          /\ \/ kind = "accept" /\ current' = [current EXCEPT ![d] = offer[d]]
             \/ current' = current
          /\ updates' = updates
    BY <1>7 DEF Accept, Decline
  <2> DEFINE m == Message(kind, offer[d])
  <2>2. offer[d] \in Jobs
    BY <2>1 DEF Answer, AppTypeOK
  <2>3. m \in ToServer /\ m.kind \notin Progress /\ m.kind = kind /\ m.job = offer[d]
    BY <2>2 DEF Message, ToServer, Progress
  <2>4. up' = Send(up, d, m) /\ LostBy(d)
    BY <2>1 DEF Answer
  <2> HIDE DEF m
  <2>5. current \in [Drivers -> Jobs \cup {None}]
    BY DEF AppTypeOK
  <2> QED
    BY <2>1, <2>3, <2>4, <2>5, <1>6
<1>8. ASSUME NEW d \in Drivers, Advance(d)
      PROVE  Earned'
  <2> DEFINE s == StatusOf[NextPhase[phase[d]]]
             m == Message(s, current[d])
  <2>1. current[d] \in Jobs /\ phase[d] \in DOMAIN NextPhase
    BY <1>8 DEF Advance, AppTypeOK, Phases, NextPhase
  <2>2. s \in Progress
    BY <2>1 DEF NextPhase, StatusOf, Progress
  <2>3. m \in ToServer /\ m.job = current[d]
    BY <2>1, <2>2 DEF Message, ToServer
  <2>4. up' = Send(up, d, m) /\ LostBy(d) /\ updates' = updates /\ current' = current
    BY <1>8 DEF Advance
  <2> HIDE DEF m
  <2> QED
    BY <2>3, <2>4, <1>6
<1>9. ASSUME NEW d \in Drivers, ClearJob(d)
      PROVE  Earned'
  <2>1. /\ UNCHANGED <<up, updates>>
        /\ \A e \in Drivers : current'[e] \in {current[e], None}
    BY <1>9 DEF ClearJob, lineVars, AppTypeOK
  <2> QED
    BY <2>1, <1>0, AheadFrame DEF Earned
<1>10. ASSUME NEW d \in Drivers, Handle(d)
       PROVE  Earned'
  <2> DEFINE m == Head(up[d])
             u == [driver |-> d, job |-> m.job, to |-> m.kind, at |-> "job"]
  <2>1. m.job \in Jobs /\ m.kind \in {"accept", "decline"} \cup Progress /\ up[d] # <<>>
    BY <1>10, HeadRead DEF Handle
  <2>2. up \in [Drivers -> Seq(ToServer)]
    BY DEF AppTypeOK
  <2>3. m.kind = "accept" => <<d, m.job>> \in Decided'
    <3>1. CASE Open(d, m.job) /\ m.kind = "accept"
      <4>1. AcceptOffer(activeOffers[m.job])
        BY <1>10, <3>1 DEF Handle, Progress
      <4> QED
        BY <2>1, <3>1, <4>1, AnswerTaken
    <3>2. CASE ~ Open(d, m.job) /\ m.kind = "accept"
      <4>1. <<d, m.job>> \in refused'
        BY <1>10, <3>2 DEF Handle, Progress
      <4> QED
        BY <2>1, <4>1 DEF Decided
    <3> QED
      BY <3>1, <3>2
  <2>4. m.kind \in Progress => <<d, m.job>> \in Decided
    <3>1. up[d] \in Seq(ToServer)
      BY <2>2
    <3>2. m = up[d][1] /\ 1 \in DOMAIN up[d]
      BY <2>1, <3>1, ReadLine
    <3>3. ~ Claimed(up[d], 1, m.job)
      BY <3>1 DEF Claimed
    <3> QED
      BY <1>0, <2>1, <3>2, <3>3 DEF Ahead
  <2>5. /\ \/ updates' = updates
           \/ m.kind \in Progress /\ updates' = updates \cup {u}
        /\ up' = [up EXCEPT ![d] = Tail(@)] /\ current' = current
    BY <1>10 DEF Handle, screenVars
  <2>6. u.driver = d /\ u.job = m.job
    OBVIOUS
  <2> HIDE DEF m, u
  <2>7. \A v \in updates' : <<v.driver, v.job>> \in Decided'
    BY <1>0, <2>4, <2>5, <2>6
  <2>8. Ahead(d)'
    <3>1. up'[d] = Tail(up[d]) /\ current'[d] = current[d] /\ up[d] # <<>>
      BY <2>1, <2>2, <2>5
    <3>2. Head(up[d]).kind = "accept" => <<d, Head(up[d]).job>> \in Decided'
      BY <2>3 DEF m
    <3> QED
      BY <1>0, <3>1, <3>2, AheadRead
  <2>9. ASSUME NEW e \in Drivers \ {d}
        PROVE  Ahead(e)'
    <3>1. UNCHANGED <<up[e], current[e]>>
      BY <2>2, <2>5
    <3> QED
      BY <3>1, <1>1
  <2> QED
    BY <2>7, <2>8, <2>9 DEF Earned
<1>11. ASSUME NEW d \in Drivers, Drop(d)
       PROVE  Earned'
  <2>1. ASSUME NEW e \in Drivers
        PROVE  Ahead(e)'
    <3>1. CASE e \in lossy'
      BY <3>1, AheadLossy
    <3>2. CASE e \notin lossy'
      <4>1. UNCHANGED <<up[e], current[e]>>
        BY <1>11, <3>2 DEF Drop, AppTypeOK, screenVars
      <4> QED
        BY <4>1, <1>1
    <3> QED
      BY <3>1, <3>2
  <2> QED
    BY <1>0, <1>11, <2>1 DEF Drop, Earned
<1>12. ASSUME NEW u \in updates, WriteJob(u) \/ FreeDriver(u) \/ RejectUpdate(u)
       PROVE  Earned'
  <2>1. /\ UNCHANGED <<up, current>>
        /\ updates' \subseteq updates \cup {At(u, "driver")}
    BY <1>12 DEF WriteJob, FreeDriver, RejectUpdate, lineVars, screenVars
  <2>2. At(u, "driver").driver = u.driver /\ At(u, "driver").job = u.job
    BY DEF At, AppTypeOK, JobUpdate
  <2> QED
    BY <1>0, <1>2, <2>1, <2>2
<1> QED
  BY <1>3, <1>4, <1>5, <1>7, <1>8, <1>9, <1>10, <1>11, <1>12 DEF AppNext, Phone

\* Nothing waits on a line that is cut.
LEMMA CutStep ==
  ASSUME EngineInv, AppTypeOK, LinesCut, [AppNext]_allVars
  PROVE  LinesCut'
<1>0. up \in [Drivers -> Seq(ToServer)]
  BY DEF AppTypeOK
<1>1. CASE UNCHANGED <<up, linked>>
  BY <1>1 DEF LinesCut
<1>2. CASE Down
  BY <1>2 DEF Down, LinesCut
<1>3. ASSUME NEW d \in Drivers, Accept(d) \/ Decline(d) \/ Advance(d)
      PROVE  LinesCut'
  <2>1. linked' = linked /\ \E m : up' = Send(up, d, m)
    BY <1>3 DEF Accept, Decline, Answer, Advance
  <2> QED
    BY <1>0, <2>1 DEF Send, LinesCut
<1>4. ASSUME NEW d \in Drivers, Handle(d)
      PROVE  LinesCut'
  <2>1. up[d] # <<>> /\ up' = [up EXCEPT ![d] = Tail(@)] /\ linked' = linked
    BY <1>4 DEF Handle
  <2> QED
    BY <1>0, <2>1 DEF LinesCut
<1>5. ASSUME NEW d \in Drivers, Link(d) \/ Drop(d)
      PROVE  LinesCut'
  BY <1>0, <1>5 DEF Link, Drop, LinesCut
<1> QED
  BY <1>1, <1>2, <1>3, <1>4, <1>5 DEF AppNext, allVars, appVars, lineVars, Engine,
     Publish, Expire, Phone, Deliver, ClearJob, WriteJob, FreeDriver, RejectUpdate
-----------------------------------------------------------------------------
(* Offers on the screen. *)

\* A run that waits for an answer keeps its ranking.
LEMMA CandsKept ==
  ASSUME EngineInv, AppTypeOK, [AppNext]_allVars
  PROVE  \A t \in timers : cands'[t.run] = cands[t.run]
<1> SUFFICES ASSUME NEW t \in timers
             PROVE  cands'[t.run] = cands[t.run]
  OBVIOUS
<1>1. CASE [Next]_vars
  <2>1. ASSUME NEW k \in tasks, FindCandidates(k)
        PROVE  cands'[t.run] = cands[t.run]
    <3>1. k.run # t.run /\ k.run \in Runs /\ t.run \in Runs
      BY DEF EngineInv, SingleThread, TypeOK, Task, Timer
    <3> QED
      BY <2>1, <3>1 DEF FindCandidates, EngineInv, TypeOK
  <2>2. CASE \A k \in tasks : ~ FindCandidates(k)
    BY <1>1, <2>2 DEF Next, TaskStep, AcquireLock, ReleaseLock, MarkOffered, PublishOffer,
       MarkPending, SearchFails, UpdateFails, ExpireOffer, AcceptOffer, DeclineOffer,
       AcceptStep, Assign, MakeBusy, Unlock, AcceptFails, SetStatus, Tick, Crash, PostJob,
       Redispatch, Enter, vars, runVars
  <2> QED
    BY <2>1, <2>2
<1>2. CASE RowsWritten
  BY <1>2 DEF RowsWritten, runVars
<1> QED
  BY <1>1, <1>2, EngineSide

\* No offer but a published one comes into the registry or is armed.
OffersOnlyGo ==
  /\ timers' \subseteq timers \/ Tick
  /\ \A j \in Jobs : activeOffers'[j] \in {None, activeOffers[j]}

LEMMA WithdrawnOnly ==
  ASSUME EngineInv, AppTypeOK, [AppNext]_allVars
  PROVE  OffersOnlyGo \/ \E k \in tasks : Publish(k)
<1>0. activeOffers \in [Jobs -> Offer \cup {None}]
  BY DEF EngineInv, TypeOK
<1>1. ASSUME UNCHANGED <<activeOffers, timers>>
      PROVE  OffersOnlyGo
  BY <1>1 DEF OffersOnlyGo
<1>2. CASE Engine
  <2>1. ASSUME NEW k \in tasks,
               \/ AcquireLock(k) \/ FindCandidates(k) \/ ReleaseLock(k)
               \/ MarkOffered(k) \/ MarkPending(k) \/ SearchFails(k)
               \/ k.by # "timer" /\ UpdateFails(k)
        PROVE  UNCHANGED <<activeOffers, timers>>
    BY <2>1 DEF AcquireLock, FindCandidates, ReleaseLock, MarkOffered, MarkPending,
       SearchFails, UpdateFails, offerVars
  <2>2. ASSUME NEW a \in accepts, AcceptStep(a) \/ AcceptFails(a)
        PROVE  UNCHANGED <<activeOffers, timers>>
    BY <2>2 DEF AcceptStep, Assign, MakeBusy, Unlock, AcceptFails, offerVars
  <2>3. ASSUME NEW r \in Runs, NEW j \in Jobs, Enter(r, j)
        PROVE  UNCHANGED <<activeOffers, timers>>
    BY <2>3 DEF Enter, offerVars
  <2>4. CASE Tick
    BY <2>4 DEF Tick, OffersOnlyGo
  <2> QED
    BY <1>1, <1>2, <2>1, <2>2, <2>3, <2>4 DEF Engine, PostJob, Redispatch, Runs
<1>3. ASSUME NEW t \in timers, Expire(t)
      PROVE  OffersOnlyGo
  BY <1>0, <1>3 DEF Expire, ExpireOffer, OffersOnlyGo
<1>4. CASE Down
  BY <1>4 DEF Down, Crash, UpdateFails, CrashEffect, OffersOnlyGo
<1>5. ASSUME NEW d \in Drivers, Phone(d)
      PROVE  OffersOnlyGo
  BY <1>1, <1>5 DEF Phone, Deliver, Accept, Decline, Advance, ClearJob, vars, offerVars
<1>6. ASSUME NEW d \in Drivers, Handle(d)
      PROVE  OffersOnlyGo
  <2> DEFINE j == Head(up[d]).job
  <2>1. j \in Jobs
    BY <1>6, HeadRead DEF Handle
  <2>2. \/ UNCHANGED vars
        \/ Open(d, j) /\ (AcceptOffer(activeOffers[j]) \/ DeclineOffer(activeOffers[j]))
    BY <1>6 DEF Handle
  <2> HIDE DEF j
  <2>3. CASE UNCHANGED vars
    BY <1>1, <2>3 DEF vars, offerVars
  <2>4. CASE Open(d, j) /\ (AcceptOffer(activeOffers[j]) \/ DeclineOffer(activeOffers[j]))
    BY <1>0, <2>1, <2>4, AnswerTaken DEF OffersOnlyGo
  <2> QED
    BY <2>2, <2>3, <2>4
<1>7. CASE RowsWritten \/ UNCHANGED allVars
  BY <1>1, <1>7 DEF RowsWritten, allVars, vars, offerVars
<1>8. ASSUME NEW d \in Drivers, Link(d) \/ Drop(d)
      PROVE  RowsWritten
  BY <1>8, StatusWritten DEF Link, Drop, EngineInv
<1>9. ASSUME NEW u \in updates, WriteJob(u) \/ FreeDriver(u) \/ RejectUpdate(u)
      PROVE  RowsWritten
  BY <1>9, UpdateWritten
<1> QED
  BY <1>2, <1>3, <1>4, <1>5, <1>6, <1>7, <1>8, <1>9 DEF AppNext

\* Drivers whose offers met stay known as such.
LEMMA CrowdGrows == [AppNext]_allVars => crowded \subseteq crowded'
BY DEF AppNext, allVars, appVars, Engine, Publish, Expire, Down, Phone, Deliver, Accept,
   Decline, Advance, ClearJob, Handle, Link, Drop, WriteJob, FreeDriver, RejectUpdate, pastVars

\* Armed offers go to different drivers unless publishing noticed that they met.
LEMMA ApartStep ==
  ASSUME EngineInv, AppTypeOK, TimersApart, [AppNext]_allVars
  PROVE  TimersApart'
<1>0. crowded \subseteq crowded' /\ \A t \in timers : cands'[t.run] = cands[t.run]
  BY CrowdGrows, CandsKept
<1>1. ASSUME NEW k \in tasks, Publish(k)
      PROVE  TimersApart'
  <2> DEFINE n == [run |-> k.run, index |-> k.index, left |-> OfferTtl]
  <2>1. timers' = timers \cup {n} /\ cands' = cands
    BY <1>1 DEF Publish, PublishOffer, runVars
  <2>2. Offeree(n) = DriverOf(OfferOf(k))
    BY DEF Offeree, OfferOf
  <2>3. \A t \in timers : Offeree(t) = Offeree(n) => Offeree(n) \in crowded'
    BY <1>1, <2>2 DEF Publish, Offeree
  <2> HIDE DEF n
  <2>4. \A t, u \in timers \cup {n} :
          Offeree(t) = Offeree(u) /\ Offeree(t) \notin crowded' => t = u
    BY <1>0, <2>3 DEF TimersApart
  <2> QED
    BY <2>1, <2>4 DEF TimersApart, Offeree, DriverOf
<1>2. CASE timers' \subseteq timers
  BY <1>0, <1>2 DEF TimersApart, Offeree, DriverOf, OfferOf
<1>3. CASE Tick
  <2>1. timers' = {[t EXCEPT !.left = IF @ > 0 THEN @ - 1 ELSE 0] : t \in timers}
    BY <1>3 DEF Tick
  <2>2. \A t \in timers : OfferOf([t EXCEPT !.left = IF @ > 0 THEN @ - 1 ELSE 0]) = OfferOf(t)
    BY DEF OfferOf, EngineInv, TypeOK, Timer
  <2>3. cands' = cands
    BY <1>3 DEF Tick, runVars
  <2> QED
    BY <1>0, <2>1, <2>2, <2>3 DEF TimersApart, Offeree, DriverOf
<1> QED
  BY <1>1, <1>2, <1>3, WithdrawnOnly DEF OffersOnlyGo

\* An offer that waits for an answer has its timeout.
LEMMA OpenTimer ==
  ASSUME EngineInv, NEW j \in Jobs, NEW d \in Drivers, Open(d, j)
  PROVE  \E t \in timers : OfferOf(t) = activeOffers[j] /\ Offeree(t) = d
                           /\ job[t.run] = j
<1>1. PICK t \in timers : OfferOf(t) = activeOffers[j]
  BY DEF Open, EngineInv, EntryArmed
<1>2. job[activeOffers[j].run] = j /\ DriverOf(activeOffers[j]) = d
  BY DEF Open, EngineInv, EntryArmed
<1>3. OfferOf(t).run = t.run
  BY DEF OfferOf
<1> QED
  BY <1>1, <1>2, <1>3 DEF Offeree

\* It waited before the step, unless the step published it.
LEMMA OpenBefore ==
  ASSUME EngineInv, AppTypeOK, [AppNext]_allVars, NEW j \in Jobs, NEW d \in Drivers,
         Open(d, j)', activeOffers'[j] \in {None, activeOffers[j]}
  PROVE  Open(d, j)
<1>1. activeOffers[j] # None /\ activeOffers'[j] = activeOffers[j]
  BY DEF Open
<1>2. PICK t \in timers : OfferOf(t) = activeOffers[j]
  BY <1>1 DEF EngineInv, EntryArmed
<1>3. t.run = activeOffers[j].run
  BY <1>2 DEF OfferOf
<1>4. cands'[activeOffers[j].run] = cands[activeOffers[j].run]
  BY <1>2, <1>3, CandsKept
<1> QED
  BY <1>1, <1>4 DEF Open, DriverOf

\* A message more hides no answer.
LEMMA AnsweredSent ==
  ASSUME NEW line \in Seq(ToServer), NEW m \in ToServer, NEW j
  PROVE  /\ Answered(line, j) => Answered(Append(line, m), j)
         /\ m.kind \in {"accept", "decline"} /\ m.job = j => Answered(Append(line, m), j)
BY SentOn DEF Answered

\* Reading one takes no other answer away.
LEMMA AnsweredRead ==
  ASSUME NEW line \in Seq(ToServer), line # <<>>, NEW j, Answered(line, j),
         ~ (Head(line).kind \in {"accept", "decline"} /\ Head(line).job = j)
  PROVE  Answered(Tail(line), j)
<1>1. PICK i \in 1 .. Len(line) :
        line[i].kind \in {"accept", "decline"} /\ line[i].job = j
  BY DEF Answered
<1>2. i # 1
  BY <1>1, ReadLine
<1>3. i - 1 \in DOMAIN Tail(line) /\ Tail(line)[i - 1] = line[i]
  BY <1>1, <1>2, ReadLine
<1> QED
  BY <1>1, <1>3 DEF Answered

\* The gateway takes an answer off the line together with the offer.
LEMMA HandleCloses ==
  ASSUME EngineInv, AppTypeOK, NEW d \in Drivers, Handle(d), NEW j \in Jobs, Open(d, j),
         Head(up[d]).kind \in {"accept", "decline"}, Head(up[d]).job = j
  PROVE  activeOffers'[j] = None
<1>1. AcceptOffer(activeOffers[j]) \/ DeclineOffer(activeOffers[j])
  BY DEF Handle, Progress
<1>2. activeOffers' = [activeOffers EXCEPT ![j] = None]
  BY <1>1, AnswerTaken
<1> QED
  BY <1>2 DEF EngineInv, TypeOK

\* An offer that waits for an answer is shown or answered, step by step.
LEMMA ShownStep ==
  ASSUME EngineInv, AppTypeOK, TimersApart, Shown, [AppNext]_allVars
  PROVE  Shown'
<1> SUFFICES ASSUME NEW j \in Jobs, NEW d \in Drivers, Open(d, j)',
                    d \notin lossy', d \notin crowded'
             PROVE  Answered(up'[d], j) \/ Showing(d, j)'
  BY DEF Shown
<1>0. d \notin lossy /\ d \notin crowded
  BY GoesForward, CrowdGrows DEF Forward
<1>1. /\ up \in [Drivers -> Seq(ToServer)] /\ down \in [Drivers -> Seq(ToPhone)]
      /\ activeOffers \in [Jobs -> Offer \cup {None}]
  BY DEF AppTypeOK, EngineInv, TypeOK
<1>2. Open(d, j) => Answered(up[d], j) \/ Showing(d, j)
  BY <1>0 DEF Shown
<1>3. ASSUME NEW k \in tasks, Publish(k)
      PROVE  Answered(up'[d], j) \/ Showing(d, j)'
  <2> DEFINE e == DriverOf(OfferOf(k))
             m == Message("offer", job[k.run])
  <2>1. /\ activeOffers' = [activeOffers EXCEPT ![job[k.run]] = OfferOf(k)]
        /\ cands' = cands /\ down' = Send(down, e, m) /\ LostBy(e)
        /\ up' = up /\ offer' = offer
        /\ (\E t \in timers : Offeree(t) = e) => e \in crowded'
    BY <1>3 DEF Publish, PublishOffer, runVars, screenVars, Offeree
  <2>2. job[k.run] \in Jobs
    BY <1>3 DEF Publish, PublishOffer, EngineInv, Underway
  <2>3. k.run \in Runs /\ e \in Drivers
    <3>1. k \in Task /\ k.index \in DOMAIN cands[k.run]
      BY <1>3 DEF Publish, PublishOffer, EngineInv, TypeOK, Cascade
    <3> QED
      BY <3>1, RankingsDomain DEF OfferOf, DriverOf, EngineInv, TypeOK, Task
  <2>4. m \in ToPhone
    BY <2>2 DEF Message, ToPhone
  <2>. down \in [Drivers -> Seq(ToPhone)]
    BY <1>1
  <2>5. CASE j = job[k.run]
    <3>1. d = e
      BY <1>1, <2>1, <2>5 DEF Open, DriverOf
    <3> HIDE DEF e, m
    <3>2. d \in linked
      BY <2>1, <3>1 DEF LostBy
    <3>3. down'[d] = Append(down[d], m)
      BY <2>1, <3>1, <3>2 DEF Send
    <3>4. down[d] \in Seq(ToPhone)
      OBVIOUS
    <3>5. down'[d] # <<>> /\ down'[d][Len(down'[d])] = m
      BY <2>4, <3>3, <3>4
    <3> QED
      BY <2>5, <3>5 DEF Showing, m
  <2>6. CASE j # job[k.run]
    <3>1. activeOffers'[j] = activeOffers[j]
      BY <1>1, <2>1, <2>6
    <3>2. Open(d, j)
      BY <3>1, OpenBefore
    <3>3. d # e
      BY <2>1, <3>2, OpenTimer
    <3> HIDE DEF e, m
    <3>4. down'[d] = down[d]
      BY <2>1, <2>3, <3>3 DEF Send
    <3> QED
      BY <1>2, <2>1, <3>2, <3>4 DEF Showing
  <2> QED
    BY <2>5, <2>6
<1>4. SUFFICES ASSUME OffersOnlyGo
               PROVE  Answered(up'[d], j) \/ Showing(d, j)'
  BY <1>3, WithdrawnOnly
<1>5. Open(d, j) /\ activeOffers'[j] # None /\ (Answered(up[d], j) \/ Showing(d, j))
  <2>1. activeOffers'[j] \in {None, activeOffers[j]}
    BY <1>4 DEF OffersOnlyGo
  <2> QED
    BY <2>1, <1>2, OpenBefore DEF Open
<1>6. ASSUME UNCHANGED <<up[d], down[d], offer[d]>>
      PROVE  Answered(up'[d], j) \/ Showing(d, j)'
  BY <1>5, <1>6 DEF Showing
<1>7. CASE Engine \/ UNCHANGED allVars
  BY <1>6, <1>7 DEF Engine, allVars, appVars, lineVars, screenVars
<1>8. ASSUME NEW t \in timers, Expire(t)
      PROVE  Answered(up'[d], j) \/ Showing(d, j)'
  <2> DEFINE e == Offeree(t)
             m == Message("revoked", job[t.run])
  <2>1. /\ activeOffers' = [activeOffers EXCEPT ![job[t.run]] = None]
        /\ down' = Send(down, e, m) /\ up' = up /\ offer' = offer
    BY <1>8 DEF Expire, ExpireOffer, screenVars, Offeree
  <2>2. t \in Timer /\ t.index \in DOMAIN cands[t.run] /\ job[t.run] \in Jobs
    BY DEF EngineInv, TypeOK, Underway
  <2>3. e \in Drivers
    BY <2>2, RankingsDomain DEF Offeree, OfferOf, DriverOf, EngineInv, TypeOK, Timer
  <2>4. j # job[t.run]
    BY <1>1, <1>5, <2>1
  <2>5. PICK u \in timers : Offeree(u) = d /\ job[u.run] = j
    BY <1>5, OpenTimer
  <2>6. d # e
    BY <1>0, <2>4, <2>5 DEF TimersApart
  <2> HIDE DEF e, m
  <2>. down \in [Drivers -> Seq(ToPhone)]
    BY <1>1
  <2>7. down'[d] = down[d]
    BY <2>1, <2>3, <2>6 DEF Send
  <2> QED
    BY <1>6, <2>1, <2>7
<1>9. CASE Down
  <2>1. activeOffers' = [i \in Jobs |-> None]
    BY <1>9 DEF Down, Crash, UpdateFails, CrashEffect
  <2> QED
    BY <1>5, <2>1
<1>10. ASSUME NEW e \in Drivers, e # d,
              Phone(e) \/ Handle(e) \/ Link(e) \/ Drop(e)
       PROVE  Answered(up'[d], j) \/ Showing(d, j)'
  <2>1. offer \in [Drivers -> Jobs \cup {None}]
    BY DEF AppTypeOK
  <2>2. \A m : Send(up, e, m)[d] = up[d]
    BY <1>1, <1>10 DEF Send
  <2>3. UNCHANGED <<up[d], down[d], offer[d]>>
    BY <1>1, <1>10, <2>1, <2>2 DEF Phone, Deliver, Accept, Decline, Answer, Advance,
       ClearJob, Handle, Link, Drop, lineVars, screenVars
  <2> QED
    BY <1>6, <2>3
<1>11. CASE Deliver(d)
  <2>1. offer \in [Drivers -> Jobs \cup {None}]
    BY DEF AppTypeOK
  <2>2. /\ down[d] # <<>> /\ down'[d] = Tail(down[d]) /\ up' = up
        /\ offer'[d] = IF Head(down[d]).kind = "offer" THEN Head(down[d]).job ELSE None
    BY <1>1, <1>11, <2>1 DEF Deliver
  <2>3. /\ Len(down[d]) \in Nat /\ Len(down[d]) >= 1 /\ Head(down[d]) = down[d][1]
        /\ Tail(down[d]) \in Seq(ToPhone) /\ Len(Tail(down[d])) = Len(down[d]) - 1
        /\ \A i \in 1 .. Len(down[d]) - 1 : Tail(down[d])[i] = down[d][i + 1]
    BY <1>1, <2>2, ReadLine
  <2>4. CASE Showing(d, j) /\ Len(down[d]) = 1
    <3>1. Head(down[d]) = Message("offer", j)
      BY <2>2, <2>3, <2>4 DEF Showing
    <3>2. offer'[d] = j
      BY <2>2, <3>1 DEF Message
    <3>3. down'[d] = <<>>
      <4>1. down'[d] \in Seq(ToPhone) /\ Len(down'[d]) = 0
        BY <2>2, <2>3, <2>4
      <4> QED
        BY <4>1
    <3> QED
      BY <3>2, <3>3 DEF Showing
  <2>5. CASE Showing(d, j) /\ Len(down[d]) > 1
    <3>1. down[d][Len(down[d])] = Message("offer", j)
      BY <2>2, <2>5 DEF Showing
    <3>2. Len(down'[d]) = Len(down[d]) - 1 /\ Len(down[d]) - 1 \in 1 .. Len(down[d]) - 1
      BY <2>2, <2>3, <2>5
    <3>3. down'[d][Len(down[d]) - 1] = down[d][Len(down[d]) - 1 + 1]
      BY <2>2, <2>3, <3>2
    <3>4. down'[d] # <<>> /\ Len(down[d]) - 1 + 1 = Len(down[d])
      BY <2>3, <3>2
    <3> QED
      BY <3>1, <3>2, <3>3, <3>4 DEF Showing
  <2>6. Len(down[d]) = 1 \/ Len(down[d]) > 1
    <3>1. Len(down[d]) \in Nat /\ Len(down[d]) >= 1
      BY <2>3
    <3>2. \A n \in Nat : n >= 1 => n = 1 \/ n > 1
      OBVIOUS
    <3> QED
      BY <3>1, <3>2
  <2>7. Answered(up[d], j) => Answered(up'[d], j)
    BY <2>2
  <2> QED
    BY <1>5, <2>4, <2>5, <2>6, <2>7, Zenon
<1>12. ASSUME NEW m \in ToServer, up' = Send(up, d, m), LostBy(d), down' = down,
              \/ offer' = offer
              \/ m.kind \in {"accept", "decline"} /\ m.job = offer[d]
       PROVE  Answered(up'[d], j) \/ Showing(d, j)'
  <2>1. d \in linked
    BY <1>12 DEF LostBy
  <2>. up \in [Drivers -> Seq(ToServer)]
    BY <1>1
  <2>2. up'[d] = Append(up[d], m)
    BY <1>12, <2>1 DEF Send
  <2>3. Answered(up[d], j) => Answered(up'[d], j)
    BY <1>1, <1>12, <2>2, AnsweredSent
  <2>4. m.kind \in {"accept", "decline"} /\ m.job = j => Answered(up'[d], j)
    BY <1>1, <1>12, <2>2, AnsweredSent
  <2> QED
    BY <1>5, <1>12, <2>3, <2>4 DEF Showing
<1>13. CASE Accept(d) \/ Decline(d)
  <2>1. PICK kind \in {"accept", "decline"} : Answer(d, kind)
    BY <1>13 DEF Accept, Decline
  <2> DEFINE m == Message(kind, offer[d])
  <2>2. offer[d] \in Jobs
    BY <2>1 DEF Answer, AppTypeOK
  <2>3. m \in ToServer /\ m.kind \in {"accept", "decline"} /\ m.job = offer[d]
    BY <2>2 DEF Message, ToServer
  <2>4. up' = Send(up, d, m) /\ LostBy(d) /\ down' = down
    BY <1>13, <2>1 DEF Answer, Accept, Decline
  <2> HIDE DEF m
  <2> QED
    BY <1>12, <2>3, <2>4
<1>14. CASE Advance(d)
  <2> DEFINE s == StatusOf[NextPhase[phase[d]]]
             m == Message(s, current[d])
  <2>1. current[d] \in Jobs /\ phase[d] \in DOMAIN NextPhase
    BY <1>14 DEF Advance, AppTypeOK, Phases, NextPhase
  <2>2. s \in Progress
    BY <2>1 DEF NextPhase, StatusOf, Progress
  <2>3. m \in ToServer
    BY <2>1, <2>2 DEF Message, ToServer
  <2>4. up' = Send(up, d, m) /\ LostBy(d) /\ down' = down /\ offer' = offer
    BY <1>14 DEF Advance
  <2> HIDE DEF m
  <2> QED
    BY <1>12, <2>3, <2>4
<1>15. CASE ClearJob(d) \/ Link(d)
  BY <1>6, <1>15 DEF ClearJob, Link, lineVars, screenVars
<1>16. CASE Handle(d)
  <2>1. up[d] # <<>> /\ up'[d] = Tail(up[d]) /\ UNCHANGED <<down, offer>>
    BY <1>1, <1>16 DEF Handle, screenVars
  <2>2. ~ (Head(up[d]).kind \in {"accept", "decline"} /\ Head(up[d]).job = j)
    BY <1>5, <1>16, HandleCloses
  <2>3. Answered(up[d], j) => Answered(up'[d], j)
    BY <1>1, <2>1, <2>2, AnsweredRead
  <2> QED
    BY <1>5, <2>1, <2>3 DEF Showing
<1>17. CASE Drop(d)
  <2>1. up[d] = <<>> /\ down[d] = <<>> /\ offer' = offer
    BY <1>17 DEF Drop, AppTypeOK, screenVars
  <2>2. up'[d] = <<>> /\ down'[d] = <<>>
    BY <1>1, <1>17 DEF Drop
  <2> QED
    BY <1>6, <2>1, <2>2
<1>18. ASSUME NEW u \in updates, WriteJob(u) \/ FreeDriver(u) \/ RejectUpdate(u)
       PROVE  Answered(up'[d], j) \/ Showing(d, j)'
  BY <1>6, <1>18 DEF WriteJob, FreeDriver, RejectUpdate, lineVars, screenVars
<1> QED
  BY <1>3, <1>7, <1>8, <1>9, <1>10, <1>11, <1>13, <1>14, <1>15, <1>16, <1>17, <1>18
  DEF AppNext, Phone
-----------------------------------------------------------------------------
(* The inductive invariant. *)

\* It holds at the start.
LEMMA AppInvInit == AppInit => AppInv
<1> SUFFICES ASSUME AppInit
             PROVE  AppInv
  OBVIOUS
<1>1. EngineInv
  BY InvInit DEF AppInit, IInv, EngineInv
<1>2. AppTypeOK
  <2>1. <<>> \in Seq(ToServer) /\ <<>> \in Seq(ToPhone)
    OBVIOUS
  <2> QED
    BY <1>1, <2>1 DEF AppInit, AppTypeOK, EngineInv, Phases
<1>3. LinesCut
  BY DEF AppInit, LinesCut
<1>4. Earned
  BY NoneAssumption DEF AppInit, Earned, Ahead, Runs
<1>5. TimersApart /\ Shown
  BY DEF AppInit, Init, TimersApart, Shown, Open
<1> QED
  BY <1>1, <1>2, <1>3, <1>4, <1>5 DEF AppInv

\* Every step preserves it.
LEMMA AppInvStep == AppInv /\ [AppNext]_allVars => AppInv'
<1> SUFFICES ASSUME AppInv, [AppNext]_allVars
             PROVE  AppInv'
  OBVIOUS
<1>1. EngineInv /\ AppTypeOK /\ LinesCut /\ Earned /\ TimersApart /\ Shown
  BY DEF AppInv
<1>2. EngineInv' /\ AppTypeOK'
  BY <1>1, EngineKept, AppTypeStep
<1>3. LinesCut' /\ Earned'
  BY <1>1, CutStep, EarnedStep
<1>4. TimersApart' /\ Shown'
  BY <1>1, ApartStep, ShownStep
<1> QED
  BY <1>2, <1>3, <1>4 DEF AppInv

\* It holds of every behaviour of the engine with its phones.
THEOREM AppInvariance == AppSpec => []AppInv
BY AppInvInit, AppInvStep, PTL DEF AppSpec, allVars

\* Every variable of engine, lines and phones keeps its type.
THEOREM AppTypeCorrect == AppSpec => []AppTypeOK
<1>1. AppInv => AppTypeOK
  BY DEF AppInv
<1> QED
  BY <1>1, AppInvariance, PTL

\* What is proved of DispatchEngine alone, with answers in any order, holds when
\* the answers come from phones over lines that break, and JOB_UPDATE and the
\* gateway write the rows as well.
THEOREM EngineStaysSafe ==
  AppSpec => [](/\ EntryArmed /\ SingleThread /\ LastOfferWins /\ CascadeOrder
                /\ HoldsLock /\ DispatchMutex /\ OfferAnswerable)
<1>1. AppInv => /\ EntryArmed /\ SingleThread /\ LastOfferWins /\ CascadeOrder
                /\ HoldsLock /\ DispatchMutex /\ OfferAnswerable
  BY DEF AppInv, EngineInv, Winners, Cascade, HoldsLock, DispatchMutex
<1> QED
  BY <1>1, AppInvariance, PTL

\* A run that has ended stays ended, whatever the phones still send: late and
\* repeated answers, answers after a reconnect, job updates.
THEOREM RunsStayFinished == AppSpec => FinishedStaysFinished
<1>1. ASSUME EngineInv, AppTypeOK, [AppNext]_allVars
      PROVE  [\A r \in Runs : Finished(r) => Finished(r)']_vars
  <2>1. CASE [Next]_vars
    BY <1>1, <2>1, FinishedStep DEF EngineInv
  <2>2. CASE RowsWritten
    BY <2>2 DEF RowsWritten, runVars, offerVars, Finished, Started, InProgress
  <2> QED
    BY <1>1, <2>1, <2>2, EngineSide
<1>2. AppInv /\ [AppNext]_allVars => [\A r \in Runs : Finished(r) => Finished(r)']_vars
  BY <1>1 DEF AppInv
<1> QED
  BY <1>2, AppInvariance, PTL DEF AppSpec, allVars, FinishedStaysFinished

\* Each dispatch run is a run of OfferProtocol with the phones at the other end,
\* too: one driver at a time and none twice, the job to the driver who holds the
\* offer, although answers arrive late or never, phones take jobs before they are
\* told, and JOB_UPDATE writes the rows meanwhile.
THEOREM PhonesKeepProtocol == AppSpec => OneOfferAtATime
<1>1. ASSUME EngineInv, AppTypeOK, [AppNext]_allVars
      PROVE  Refined
  <2>1. CASE [Next]_vars
    BY <1>1, <2>1, RefineStep
  <2>2. CASE RowsWritten
    <3>1. Kept /\ UNCHANGED <<tasks, accepts>>
      BY <2>2 DEF RowsWritten, runVars, offerVars, Kept
    <3>2. \A s \in Runs : InProgress(s)' <=> InProgress(s)
      BY <3>1 DEF InProgress, Kept
    <3> QED
      BY <3>1, <3>2, KeptRun, ToStutter DEF Refined
  <2> QED
    BY <1>1, <2>1, <2>2, EngineSide
<1>2. AppInv /\ [AppNext]_allVars => Refined
  BY <1>1 DEF AppInv
<1>3. AppInit => Protocol!ProtocolInit
  BY RefineInit DEF AppInit
<1> QED
  BY <1>2, <1>3, AppInvariance, PTL
  DEF AppSpec, allVars, Refined, OneOfferAtATime, Protocol!ProtocolSpec

\* A driver moves the row of a job only after winning it, unless the answer was
\* refused or lost (handleAcceptOffer takes the job before the engine decides).
THEOREM UpdatesAreEarned == AppSpec => []UpdatesEarned
<1>1. AppInv => UpdatesEarned
  BY DEF AppInv, Earned, Decided, UpdatesEarned
<1> QED
  BY <1>1, AppInvariance, PTL

\* An offer that waits for a driver's answer is on that driver's screen once the
\* phone has read its messages, unless one was lost or two offers met.
THEOREM OffersAreShown == AppSpec => []OfferShown
<1>1. AppInv => OfferShown
  <2> SUFFICES ASSUME AppInv, NEW j \in Jobs, NEW d \in Drivers, Open(d, j),
                      d \notin lossy \cup crowded, down[d] = <<>>, ~ UnderWay(up[d], j)
               PROVE  offer[d] = j
    BY DEF OfferShown
  <2>1. Answered(up[d], j) \/ Showing(d, j)
    BY DEF AppInv, Shown
  <2> QED
    BY <2>1 DEF Answered, UnderWay, Showing
<1> QED
  BY <1>1, AppInvariance, PTL

-----------------------------------------------------------------------------
(* What is settled about a job. *)

\* Failures are counted, and what disturbs a job is remembered.
LEMMA PastGrows ==
  ASSUME [AppNext]_allVars
  PROVE  /\ piled \subseteq piled' /\ disturbed \subseteq disturbed'
         /\ failures' \in {failures, failures + 1}
<1>1. piled \subseteq piled' /\ disturbed \subseteq disturbed'
  BY DEF AppNext, allVars, appVars, Engine, Publish, Expire, Down, Phone, Deliver, Accept,
     Decline, Advance, ClearJob, Handle, Link, Drop, WriteJob, FreeDriver, RejectUpdate,
     pastVars
<1>2. ASSUME Engine
      PROVE  failures' \in {failures, failures + 1}
  <2>1. ASSUME NEW r \in Runs, NEW j \in Jobs, Enter(r, j)
        PROVE  failures' = failures
    BY <2>1 DEF Enter
  <2>2. ASSUME NEW k \in tasks,
               \/ AcquireLock(k) \/ FindCandidates(k) \/ ReleaseLock(k)
               \/ MarkOffered(k) \/ MarkPending(k) \/ SearchFails(k) \/ UpdateFails(k)
        PROVE  failures' \in {failures, failures + 1}
    BY <2>2 DEF AcquireLock, FindCandidates, ReleaseLock, MarkOffered, MarkPending,
       SearchFails, UpdateFails, Fail
  <2>3. ASSUME NEW a \in accepts, AcceptStep(a) \/ AcceptFails(a)
        PROVE  failures' \in {failures, failures + 1}
    BY <2>3 DEF AcceptStep, Assign, MakeBusy, Unlock, AcceptFails, Fail
  <2>4. ASSUME Tick
        PROVE  failures' = failures
    BY <2>4 DEF Tick
  <2> QED
    BY <1>2, <2>1, <2>2, <2>3, <2>4 DEF Engine, PostJob, Redispatch, Runs
<1>3. ASSUME NEW d \in Drivers, Phone(d) \/ Handle(d) \/ Link(d) \/ Drop(d)
      PROVE  failures' = failures
  <2>1. CASE Phone(d)
    BY <2>1 DEF Phone, Deliver, Accept, Decline, Advance, ClearJob, vars
  <2>2. CASE Handle(d)
    BY <2>2 DEF Handle, AcceptOffer, DeclineOffer, vars
  <2>3. CASE Link(d) \/ Drop(d)
    BY <2>3 DEF Link, Drop, SetStatus
  <2> QED
    BY <1>3, <2>1, <2>2, <2>3
<1>4. ASSUME NEW u \in updates, WriteJob(u) \/ FreeDriver(u) \/ RejectUpdate(u)
      PROVE  failures' \in {failures, failures + 1}
  BY <1>4 DEF WriteJob, FreeDriver, RejectUpdate, Fail
<1>5. ASSUME Down
      PROVE  failures' \in {failures, failures + 1}
  BY <1>5 DEF Down, Crash, UpdateFails, Fail
<1>6. ASSUME \/ \E k \in tasks : Publish(k)
             \/ \E t \in timers : Expire(t)
             \/ UNCHANGED allVars
      PROVE  failures' = failures
  BY <1>6 DEF Publish, PublishOffer, Expire, ExpireOffer, allVars, vars
<1> QED
  BY <1>1, <1>2, <1>3, <1>4, <1>5, <1>6 DEF AppNext

\* A step that fails is the end of it for the properties below.
LEMMA FailsOnce ==
  ASSUME AppTypeOK, Fail
  PROVE  failures' # 0
BY DEF Fail, AppTypeOK, TypeOK

LEMMA UndisturbedBefore ==
  ASSUME EngineInv, AppTypeOK, [AppNext]_allVars, NEW j \in Jobs
  PROVE  /\ Untouched(j)' => Untouched(j)
         /\ Undisturbed(j)' => Undisturbed(j) /\ failures' = 0 /\ j \notin disturbed'
<1>1. Untouched(j)' => Untouched(j)
  BY GoesForward, NoneAssumption DEF Untouched, Forward, Runs
<1>2. failures' = 0 => failures = 0
  BY PastGrows DEF AppTypeOK, TypeOK
<1>3. j \notin disturbed' => j \notin disturbed
  BY PastGrows
<1> QED
  BY <1>1, <1>2, <1>3 DEF Undisturbed

\* A job nobody dispatches by hand is dispatched by the run of that name only.
LEMMA SoleRun ==
  ASSUME EngineInv, NEW j \in Jobs, Untouched(j), NEW r \in Runs, job[r] = j
  PROVE  r = j
<1>1. CASE r \in Jobs
  BY <1>1, NoneAssumption DEF EngineInv, Underway, Runs
<1>2. CASE r \in Redispatches
  BY <1>2 DEF Untouched
<1> QED
  BY <1>1, <1>2 DEF Runs

\* What is in progress belongs to a run.
LEMMA RunsOf ==
  ASSUME EngineInv
  PROVE  /\ \A k \in tasks : k.run \in Runs
         /\ \A t \in timers : t.run \in Runs /\ OfferOf(t).run = t.run
         /\ \A a \in accepts : a.run \in Runs /\ a.driver \in Drivers
         /\ \A w \in won : w.run \in Runs /\ w.driver \in Drivers
         /\ \A o \in offered : o.run \in Runs
BY DEF EngineInv, TypeOK, Task, Timer, Acceptance, Offer, OfferOf

\* Such a job is won once, and then nothing goes on about it but the answer.
LEMMA WonAlone ==
  ASSUME EngineInv, NEW j \in Jobs, Untouched(j), NEW d \in Drivers, Won(d, j)
  PROVE  /\ job[j] = j
         /\ \A k \in tasks : job[k.run] # j
         /\ \A t \in timers : job[t.run] # j
         /\ \A e \in Drivers : Won(e, j) => e = d /\ ~ Open(e, j)
         /\ activeOffers[j] = None
<1>1. PICK w \in won : job[w.run] = j /\ w.driver = d
  BY DEF Won
<1>2. w.run = j /\ j \in Runs
  BY <1>1, SoleRun, RunsOf DEF Runs
<1>3. \A k \in tasks : job[k.run] # j
  <2> SUFFICES ASSUME NEW k \in tasks, job[k.run] = j
               PROVE  FALSE
    OBVIOUS
  <2>1. k.run = j
    BY SoleRun, RunsOf
  <2> QED
    BY <1>2, <2>1 DEF EngineInv, Winners
<1>4. \A t \in timers : job[t.run] # j
  <2> SUFFICES ASSUME NEW t \in timers, job[t.run] = j
               PROVE  FALSE
    OBVIOUS
  <2>1. t.run = j
    BY SoleRun, RunsOf
  <2> QED
    BY <1>2, <2>1 DEF EngineInv, Winners
<1>5. activeOffers[j] = None
  <2> SUFFICES ASSUME activeOffers[j] # None
               PROVE  FALSE
    OBVIOUS
  <2>1. PICK t \in timers : OfferOf(t) = activeOffers[j]
    BY DEF EngineInv, EntryArmed
  <2>2. job[t.run] = j
    BY <2>1, RunsOf DEF EngineInv, EntryArmed
  <2> QED
    BY <1>4, <2>2
<1>6. ASSUME NEW e \in Drivers, Won(e, j)
      PROVE  e = d /\ ~ Open(e, j)
  <2>1. PICK v \in won : job[v.run] = j /\ v.driver = e
    BY <1>6 DEF Won
  <2>2. v.run = j
    BY <2>1, SoleRun, RunsOf
  <2>3. v = w
    BY <1>2, <2>2 DEF EngineInv, Winners, LastOfferWins
  <2> QED
    BY <1>1, <1>5, <2>1, <2>3 DEF Open
<1> QED
  BY <1>1, <1>2, <1>3, <1>4, <1>5, <1>6

\* A job is won when the gateway reads the accept, and stays won.
LEMMA WonWhen ==
  ASSUME EngineInv, AppTypeOK, [AppNext]_allVars, NEW j \in Jobs, NEW d \in Drivers
  PROVE  /\ Won(d, j) => Won(d, j)'
         /\ Won(d, j)' /\ ~ Won(d, j) =>
              /\ Handle(d) /\ Open(d, j) /\ AcceptOffer(activeOffers[j])
              /\ up[d] # <<>> /\ Head(up[d]).kind = "accept" /\ Head(up[d]).job = j
<1>1. Won(d, j) => Won(d, j)'
  <2> SUFFICES ASSUME Won(d, j)
               PROVE  Won(d, j)'
    OBVIOUS
  <2>1. PICK w \in won : job[w.run] = j /\ w.driver = d
    BY DEF Won
  <2>2. w \in won' /\ job'[w.run] = j
    BY <2>1, GoesForward, RunsOf, NoneAssumption DEF Forward, Runs
  <2> QED
    BY <2>1, <2>2 DEF Won
<1>2. ASSUME won' = won
      PROVE  Won(d, j)' => Won(d, j)
  <2> SUFFICES ASSUME NEW w \in won, job'[w.run] = j, w.driver = d
               PROVE  Won(d, j)
    BY <1>2 DEF Won
  <2>1. job[w.run] \in Jobs /\ w.run \in Runs
    BY RunsOf DEF EngineInv, Underway
  <2>2. job'[w.run] = job[w.run]
    BY <2>1, GoesForward, NoneAssumption DEF Forward, Runs
  <2> QED
    BY <2>2 DEF Won
<1>3. ASSUME NEW e \in Drivers, Handle(e), won' # won
      PROVE  Won(d, j)' /\ ~ Won(d, j) =>
               /\ Handle(d) /\ Open(d, j) /\ AcceptOffer(activeOffers[j])
               /\ up[d] # <<>> /\ Head(up[d]).kind = "accept" /\ Head(up[d]).job = j
  <2> DEFINE i == Head(up[e]).job
             o == activeOffers[i]
  <2>1. i \in Jobs /\ up[e] # <<>>
    BY <1>3, HeadRead DEF Handle
  <2>2. Head(up[e]).kind = "accept" /\ Open(e, i) /\ AcceptOffer(o)
    BY <1>3 DEF Handle, DeclineOffer, vars
  <2>3. job[o.run] = i /\ DriverOf(o) = e
    BY <2>1, <2>2, EntryOffered DEF Open
  <2>4. job' = job /\ won' = won \cup {[run |-> o.run, driver |-> e]}
    <3>1. activeOffers[job[o.run]] = o
      BY <2>3
    <3> HIDE DEF o
    <3> QED
      BY <2>2, <2>3, <3>1 DEF AcceptOffer, runVars
  <2> HIDE DEF o, i
  <2>5. Won(d, j)' /\ ~ Won(d, j) => d = e /\ i = j
    BY <2>3, <2>4 DEF Won
  <2> QED
    BY <1>3, <2>1, <2>2, <2>5 DEF o, i
<1>4. (\E e \in Drivers : Handle(e)) \/ won' = won
  <2>1. CASE Engine
    <3>1. ASSUME NEW r \in Runs, NEW i \in Jobs, Enter(r, i)
          PROVE  won' = won
      BY <3>1 DEF Enter
    <3> QED
      BY <2>1, <3>1 DEF Engine, PostJob, Redispatch, Runs, AcquireLock, FindCandidates,
         ReleaseLock, MarkOffered, MarkPending, SearchFails, UpdateFails, AcceptStep, Assign,
         MakeBusy, Unlock, AcceptFails, Tick
  <2> QED
    BY <2>1 DEF AppNext, allVars, vars, Publish, PublishOffer, Expire, ExpireOffer, Down,
       Crash, UpdateFails, Phone, Deliver, Accept, Decline, Advance, ClearJob, Link, Drop,
       SetStatus, WriteJob, FreeDriver, RejectUpdate
<1> QED
  BY <1>1, <1>2, <1>3, <1>4

-----------------------------------------------------------------------------
(* Reports. *)

\* The timer of a delivered job is armed once and cleared with the job.
LEMMA ClearsArmedStep ==
  ASSUME AppTypeOK, ClearsArmed, [AppNext]_allVars
  PROVE  ClearsArmed'
<1> SUFFICES ASSUME NEW d \in Drivers, d \notin piled'
             PROVE  clears'[d] = IF current'[d] # None /\ phase'[d] = "delivered"
                                 THEN 1 ELSE 0
  BY DEF ClearsArmed
<1>1. clears[d] = IF current[d] # None /\ phase[d] = "delivered" THEN 1 ELSE 0
  BY PastGrows DEF ClearsArmed
<1>2. /\ current \in [Drivers -> Jobs \cup {None}] /\ phase \in [Drivers -> Phases]
      /\ clears \in [Drivers -> Nat]
  BY DEF AppTypeOK
<1>3. ASSUME UNCHANGED <<clears[d], current[d], phase[d]>>
      PROVE  clears'[d] = IF current'[d] # None /\ phase'[d] = "delivered" THEN 1 ELSE 0
  BY <1>1, <1>3
<1>4. ASSUME NEW e \in Drivers, e # d, Phone(e) \/ Drop(e)
      PROVE  UNCHANGED <<clears[d], current[d], phase[d]>>
  BY <1>2, <1>4 DEF Phone, Deliver, Accept, Decline, Advance, ClearJob, Drop, screenVars
<1>5. CASE Accept(d)
  <2>1. current[d] = None
    BY <1>5 DEF Accept
  <2> QED
    BY <1>1, <1>2, <1>5, <2>1 DEF Accept
<1>6. CASE Advance(d)
  <2>1. clears[d] = 0 /\ phase[d] \in DOMAIN NextPhase /\ current[d] # None
    BY <1>1, <1>2, <1>6 DEF Advance, Phases, NextPhase
  <2>2. /\ phase'[d] = NextPhase[phase[d]] /\ current'[d] = current[d]
        /\ clears'[d] = IF NextPhase[phase[d]] = "delivered" THEN clears[d] + 1 ELSE clears[d]
    BY <1>2, <1>6 DEF Advance
  <2> QED
    BY <2>1, <2>2
<1>7. CASE ClearJob(d)
  BY <1>1, <1>2, <1>7 DEF ClearJob
<1>8. CASE Drop(d)
  <2>1. \/ UNCHANGED <<clears, current, phase>>
        \/ clears'[d] = 0 /\ current'[d] = None
    BY <1>2, <1>8 DEF Drop, screenVars
  <2> QED
    BY <1>3, <2>1
<1>9. CASE Deliver(d) \/ Decline(d)
  BY <1>3, <1>9 DEF Deliver, Decline
<1>10. ASSUME NEW e \in Drivers, Handle(e) \/ Link(e)
       PROVE  UNCHANGED <<clears[d], current[d], phase[d]>>
  BY <1>10 DEF Handle, Link, screenVars
<1>11. ASSUME NEW u \in updates, WriteJob(u) \/ FreeDriver(u) \/ RejectUpdate(u)
       PROVE  UNCHANGED <<clears[d], current[d], phase[d]>>
  BY <1>11 DEF WriteJob, FreeDriver, RejectUpdate, screenVars
<1>12. ASSUME \/ Engine \/ Down \/ UNCHANGED allVars
              \/ \E k \in tasks : Publish(k)
              \/ \E t \in timers : Expire(t)
       PROVE  UNCHANGED <<clears[d], current[d], phase[d]>>
  BY <1>12 DEF Engine, Down, Publish, Expire, allVars, appVars, screenVars
<1> QED
  BY <1>3, <1>4, <1>5, <1>6, <1>7, <1>8, <1>9, <1>10, <1>11, <1>12 DEF AppNext, Phone

\* What a step does to the line to the gateway and to what the screen says of a
\* job, at a phone that loses nothing and takes one job at a time.
Sends(d, j, m) ==
  /\ UNCHANGED <<vars, updates>>
  /\ up'[d] = Append(up[d], m)
  /\ IF m.job = j /\ m.kind # "decline" THEN Screen(d, j)' = Report(m)
                                        ELSE Screen(d, j)' = Screen(d, j)

Steady(d, j) == up'[d] = up[d] /\ Screen(d, j)' = Screen(d, j)

Reads(d, j) ==
  /\ Handle(d) /\ up[d] # <<>> /\ up'[d] = Tail(up[d])
  /\ Screen(d, j)' = Screen(d, j)

LEMMA LineStep ==
  ASSUME AppTypeOK, LinesCut, ClearsArmed, [AppNext]_allVars,
         NEW d \in Drivers \ (lossy' \cup piled'), NEW j \in Jobs
  PROVE  Steady(d, j) \/ Reads(d, j) \/ \E m \in ToServer : Sends(d, j, m)
<1>0. /\ current \in [Drivers -> Jobs \cup {None}] /\ phase \in [Drivers -> Phases]
      /\ up \in [Drivers -> Seq(ToServer)] /\ offer \in [Drivers -> Jobs \cup {None}]
      /\ j # None
  BY NoneAssumption DEF AppTypeOK, Runs
<1>1. ASSUME UNCHANGED <<up[d], current[d], phase[d]>>
      PROVE  Steady(d, j)
  BY <1>1 DEF Screen, Steady
<1>2. ASSUME NEW e \in Drivers, e # d, Phone(e) \/ Handle(e) \/ Link(e) \/ Drop(e)
      PROVE  UNCHANGED <<up[d], current[d], phase[d]>>
  <2>1. \A m : Send(up, e, m)[d] = up[d]
    BY <1>0, <1>2 DEF Send
  <2>2. up'[d] = up[d]
    BY <1>0, <1>2, <2>1 DEF Phone, Deliver, Accept, Decline, Answer, Advance, ClearJob,
       Handle, Link, Drop, lineVars
  <2>3. UNCHANGED <<current[d], phase[d]>>
    BY <1>0, <1>2 DEF Phone, Deliver, Accept, Decline, Advance, ClearJob, Handle, Link,
       Drop, screenVars
  <2> QED
    BY <2>2, <2>3
<1>3. ASSUME NEW m \in ToServer, up' = Send(up, d, m), LostBy(d), UNCHANGED <<vars, updates>>,
             IF m.job = j /\ m.kind # "decline" THEN Screen(d, j)' = Report(m)
                                                ELSE Screen(d, j)' = Screen(d, j)
      PROVE  Sends(d, j, m)
  <2>1. d \in linked
    BY <1>3 DEF LostBy
  <2>2. up'[d] = Append(up[d], m)
    BY <1>0, <1>3, <2>1 DEF Send
  <2> QED
    BY <1>3, <2>2 DEF Sends
<1>4. CASE Accept(d)
  <2> DEFINE m == Message("accept", offer[d])
  <2>1. offer[d] \in Jobs
    BY <1>0, <1>4 DEF Accept, Answer
  <2>2. m \in ToServer /\ m.job = offer[d] /\ m.kind = "accept"
    BY <2>1 DEF Message, ToServer
  <2>3. up' = Send(up, d, m) /\ LostBy(d) /\ UNCHANGED <<vars, updates>>
    BY <1>4 DEF Accept, Answer
  <2>4. current[d] = None /\ current'[d] = offer[d] /\ phase'[d] = "to_pickup"
    BY <1>0, <1>4 DEF Accept
  <2> HIDE DEF m
  <2>5. IF m.job = j THEN Screen(d, j)' = Report(m) ELSE Screen(d, j)' = Screen(d, j)
    BY <1>0, <2>2, <2>4 DEF Screen, Report, StatusOf
  <2> QED
    BY <1>3, <2>2, <2>3, <2>5
<1>5. CASE Decline(d)
  <2> DEFINE m == Message("decline", offer[d])
  <2>1. offer[d] \in Jobs
    BY <1>0, <1>5 DEF Decline, Answer
  <2>2. m \in ToServer /\ m.kind = "decline"
    BY <2>1 DEF Message, ToServer
  <2>3. /\ up' = Send(up, d, m) /\ LostBy(d) /\ UNCHANGED <<vars, updates>>
        /\ UNCHANGED <<current, phase>>
    BY <1>5 DEF Decline, Answer
  <2> HIDE DEF m
  <2> QED
    BY <1>3, <2>2, <2>3 DEF Screen
<1>6. CASE Advance(d)
  <2> DEFINE s == StatusOf[NextPhase[phase[d]]]
             m == Message(s, current[d])
  <2>1. current[d] \in Jobs /\ phase[d] \in DOMAIN NextPhase
    BY <1>0, <1>6 DEF Advance, Phases, NextPhase
  <2>2. s \in Progress
    BY <2>1 DEF NextPhase, StatusOf, Progress
  <2>3. m \in ToServer /\ m.job = current[d] /\ m.kind = s
    BY <2>1, <2>2 DEF Message, ToServer
  <2>4. up' = Send(up, d, m) /\ LostBy(d) /\ UNCHANGED <<vars, updates>>
    BY <1>6 DEF Advance
  <2>5. current'[d] = current[d] /\ StatusOf[phase'[d]] = s
    BY <1>0, <1>6 DEF Advance
  <2>6. s # "decline" /\ s # "accept"
    BY <2>2 DEF Progress
  <2> HIDE DEF m, s
  <2>7. IF m.job = j THEN Screen(d, j)' = Report(m) ELSE Screen(d, j)' = Screen(d, j)
    BY <2>3, <2>5, <2>6 DEF Screen, Report
  <2> QED
    BY <1>3, <2>3, <2>4, <2>6, <2>7
<1>7. CASE ClearJob(d)
  <2>1. current[d] # None /\ phase[d] = "delivered"
    <3>1. d \notin piled
      BY PastGrows
    <3> QED
      BY <1>7, <3>1 DEF ClearJob, ClearsArmed
  <2>2. Screen(d, j) = "completed"
    BY <2>1 DEF Screen, StatusOf
  <2>3. Screen(d, j)' = "completed" /\ up' = up
    BY <1>0, <1>7 DEF ClearJob, lineVars, Screen
  <2> QED
    BY <2>2, <2>3 DEF Steady
<1>8. CASE Drop(d)
  <2>1. up[d] = <<>> /\ UNCHANGED screenVars
    BY <1>8 DEF Drop
  <2>2. up'[d] = <<>>
    BY <1>0, <1>8 DEF Drop
  <2> QED
    BY <1>1, <2>1, <2>2 DEF screenVars
<1>9. CASE Handle(d)
  <2>1. up[d] # <<>> /\ up'[d] = Tail(up[d]) /\ UNCHANGED <<current, phase>>
    BY <1>0, <1>9 DEF Handle, screenVars
  <2> QED
    BY <1>9, <2>1 DEF Reads, Screen
<1>10. CASE Deliver(d) \/ Link(d)
  BY <1>1, <1>10 DEF Deliver, Link, screenVars
<1>11. CASE Down
  <2>1. d \notin linked
    BY <1>11 DEF Down
  <2>2. up[d] = <<>>
    BY <2>1 DEF LinesCut
  <2> QED
    BY <1>1, <1>11, <2>2 DEF Down, screenVars
<1>12. ASSUME NEW u \in updates, WriteJob(u) \/ FreeDriver(u) \/ RejectUpdate(u)
       PROVE  Steady(d, j)
  BY <1>1, <1>12 DEF WriteJob, FreeDriver, RejectUpdate, screenVars, lineVars
<1>13. ASSUME \/ Engine \/ UNCHANGED allVars
              \/ \E k \in tasks : Publish(k)
              \/ \E t \in timers : Expire(t)
       PROVE  Steady(d, j)
  BY <1>1, <1>13 DEF Engine, Publish, Expire, allVars, appVars, screenVars, lineVars
<1> QED
  BY <1>1, <1>2, <1>3, <1>4, <1>5, <1>6, <1>7, <1>8, <1>9, <1>10, <1>11, <1>12, <1>13
  DEF AppNext, Phone

\* The last report on the line says what the screen shows.
LEMMA ReportedStep ==
  ASSUME AppTypeOK, LinesCut, ClearsArmed, Reported, [AppNext]_allVars,
         lossy \subseteq lossy'
  PROVE  Reported'
<1> SUFFICES ASSUME NEW d \in Drivers \ (lossy' \cup piled'), NEW j \in Jobs,
                    NEW n \in DOMAIN up'[d], LastOf(up'[d], n, j),
                    up'[d][n].kind # "decline"
             PROVE  Report(up'[d][n]) = Screen(d, j)'
  BY DEF Reported
<1>1. \A i \in DOMAIN up[d] : LastOf(up[d], i, j) /\ up[d][i].kind # "decline" =>
        Report(up[d][i]) = Screen(d, j)
  BY PastGrows DEF Reported
<1>2. up[d] \in Seq(ToServer)
  BY DEF AppTypeOK
<1>3. CASE Steady(d, j)
  BY <1>1, <1>3 DEF Steady
<1>4. CASE Reads(d, j)
  <2>1. up'[d] = Tail(up[d]) /\ up[d] # <<>> /\ Screen(d, j)' = Screen(d, j)
    BY <1>4 DEF Reads
  <2>2. /\ Len(up[d]) \in Nat /\ Len(Tail(up[d])) = Len(up[d]) - 1
        /\ Tail(up[d]) \in Seq(ToServer)
        /\ \A i \in 1 .. Len(up[d]) - 1 : Tail(up[d])[i] = up[d][i + 1]
    BY <1>2, <2>1, ReadLine
  <2>3. DOMAIN up'[d] = 1 .. Len(up[d]) - 1 /\ DOMAIN up[d] = 1 .. Len(up[d])
    BY <1>2, <2>1, <2>2
  <2>4. n + 1 \in DOMAIN up[d] /\ up[d][n + 1] = up'[d][n]
    BY <2>1, <2>2, <2>3
  <2>5. LastOf(up[d], n + 1, j)
    <3>1. ASSUME NEW i \in DOMAIN up[d], up[d][i].job = j
          PROVE  i <= n + 1
      <4>1. CASE i = 1
        BY <2>3, <4>1
      <4>2. CASE i # 1
        <5>1. i - 1 \in DOMAIN up'[d] /\ up'[d][i - 1] = up[d][i]
          BY <2>1, <2>2, <2>3, <4>2
        <5>2. i - 1 <= n
          BY <3>1, <5>1 DEF LastOf
        <5> QED
          BY <2>3, <5>2
      <4> QED
        BY <4>1, <4>2
    <3> QED
      BY <2>4, <3>1 DEF LastOf
  <2> QED
    BY <1>1, <2>1, <2>4, <2>5
<1>5. ASSUME NEW m \in ToServer, Sends(d, j, m)
      PROVE  Report(up'[d][n]) = Screen(d, j)'
  <2> DEFINE L == Len(up[d])
  <2>1. up'[d] = Append(up[d], m)
    BY <1>5 DEF Sends
  <2>2. /\ L \in Nat /\ DOMAIN up[d] = 1 .. L /\ DOMAIN up'[d] = 1 .. (L + 1)
        /\ \A i \in 1 .. L : up'[d][i] = up[d][i]
        /\ up'[d][L + 1] = m
    BY <1>2, <2>1, SentOn
  <2> HIDE DEF L
  <2>3. CASE m.job = j
    <3>1. L + 1 <= n
      BY <2>2, <2>3 DEF LastOf
    <3>2. n = L + 1
      BY <2>2, <3>1
    <3> QED
      BY <1>5, <2>2, <2>3, <3>2 DEF Sends
  <2>4. CASE m.job # j
    <3>1. n \in 1 .. L
      BY <2>2, <2>4 DEF LastOf
    <3>2. up'[d][n] = up[d][n]
      BY <2>2, <3>1
    <3>3. LastOf(up[d], n, j)
      BY <2>2, <3>1, <3>2 DEF LastOf
    <3>4. Report(up[d][n]) = Screen(d, j)
      BY <1>1, <2>2, <3>1, <3>2, <3>3
    <3>5. Screen(d, j)' = Screen(d, j)
      BY <1>5, <2>4 DEF Sends
    <3> QED
      BY <3>2, <3>4, <3>5
  <2> QED
    BY <2>3, <2>4
<1> QED
  BY <1>3, <1>4, <1>5, LineStep

-----------------------------------------------------------------------------
(* The one trace of an offer. *)

\* Where the messages about a job are when one more is sent.
LEMMA AboutSent ==
  ASSUME NEW M, NEW line \in Seq(M), NEW m \in M, NEW kinds, NEW j
  PROVE  About(Append(line, m), kinds, j) =
           About(line, kinds, j) \cup
             {n \in {Len(line) + 1} : m.kind \in kinds /\ m.job = j}
<1>1. /\ Len(line) \in Nat /\ DOMAIN line = 1 .. Len(line)
      /\ DOMAIN Append(line, m) = 1 .. (Len(line) + 1)
      /\ \A i \in 1 .. Len(line) : Append(line, m)[i] = line[i]
      /\ Append(line, m)[Len(line) + 1] = m
  BY SentOn
<1>2. 1 .. (Len(line) + 1) = (1 .. Len(line)) \cup {Len(line) + 1}
  BY <1>1
<1> QED
  BY <1>1, <1>2 DEF About

\* And when the first one is read.
LEMMA AboutRead ==
  ASSUME NEW M, NEW line \in Seq(M), line # <<>>, NEW kinds, NEW j
  PROVE  /\ \A n \in About(Tail(line), kinds, j) :
              n \in Nat /\ n # 0 /\ n + 1 \in About(line, kinds, j)
         /\ Head(line).kind \in kinds /\ Head(line).job = j <=>
              1 \in About(line, kinds, j)
<1>1. /\ Len(line) \in Nat /\ Len(line) >= 1 /\ DOMAIN line = 1 .. Len(line)
      /\ Head(line) = line[1] /\ DOMAIN Tail(line) = 1 .. (Len(line) - 1)
      /\ \A i \in 1 .. Len(line) - 1 : Tail(line)[i] = line[i + 1]
  BY ReadLine
<1> QED
  BY <1>1 DEF About

\* The phone reads a message.
LEMMA TraceDelivered ==
  ASSUME NEW D \in Seq(ToPhone), D # <<>>, NEW o, NEW U, NEW j \in Jobs, Single(D, o, U, j),
         NEW p, p = IF Head(D).kind = "offer" THEN Head(D).job ELSE None
  PROVE  /\ Single(Tail(D), p, U, j)
         /\ Seen(Tail(D), p, U, j) => Seen(D, o, U, j)
<1>1. /\ \A n \in OffersIn(Tail(D), j) : n \in Nat /\ n # 0 /\ n + 1 \in OffersIn(D, j)
      /\ Head(D).kind = "offer" /\ Head(D).job = j <=> 1 \in OffersIn(D, j)
  BY AboutRead DEF OffersIn
<1>2. p = j <=> 1 \in OffersIn(D, j)
  BY <1>1, NoneAssumption DEF Runs
<1>3. \A n, m \in OffersIn(Tail(D), j) : n = m
  BY <1>1 DEF Single
<1>4. p = j => OffersIn(Tail(D), j) = {}
  <2> SUFFICES ASSUME p = j, NEW n \in OffersIn(Tail(D), j)
               PROVE  FALSE
    OBVIOUS
  <2>1. n \in Nat /\ n # 0 /\ n + 1 \in OffersIn(D, j) /\ 1 \in OffersIn(D, j)
    BY <1>1, <1>2
  <2>2. n + 1 = 1
    BY <2>1 DEF Single
  <2> QED
    BY <2>1, <2>2
<1>5. OffersIn(Tail(D), j) # {} \/ p = j => OffersIn(D, j) # {}
  BY <1>1, <1>2
<1> QED
  BY <1>3, <1>4, <1>5 DEF Single, Seen

\* It is sent one that is no offer of the job, or the only one.
LEMMA TraceTold ==
  ASSUME NEW D \in Seq(ToPhone), NEW m \in ToPhone, NEW o, NEW U, NEW j, Single(D, o, U, j)
  PROVE  /\ ~ (m.kind = "offer" /\ m.job = j) =>
              /\ Single(Append(D, m), o, U, j)
              /\ Seen(Append(D, m), o, U, j) => Seen(D, o, U, j)
         /\ ~ Seen(D, o, U, j) => Single(Append(D, m), o, U, j)
<1>1. OffersIn(Append(D, m), j) =
        OffersIn(D, j) \cup {n \in {Len(D) + 1} : m.kind = "offer" /\ m.job = j}
  BY AboutSent DEF OffersIn
<1>2. ASSUME ~ (m.kind = "offer" /\ m.job = j)
      PROVE  OffersIn(Append(D, m), j) = OffersIn(D, j)
  BY <1>1, <1>2
<1>3. ASSUME ~ Seen(D, o, U, j)
      PROVE  Single(Append(D, m), o, U, j)
  BY <1>1, <1>3 DEF Single, Seen
<1> QED
  BY <1>2, <1>3 DEF Single, Seen

\* The driver answers, over the line or into the void.
LEMMA TraceAnswered ==
  ASSUME NEW D, NEW U \in Seq(ToServer), NEW o \in Jobs, NEW j \in Jobs, Single(D, o, U, j),
         NEW m \in ToServer, m.job = o, NEW V, V \in {U, Append(U, m)}
  PROVE  /\ Single(D, None, V, j)
         /\ Seen(D, None, V, j) => Seen(D, o, U, j)
<1>1. AnswersIn(Append(U, m), j) =
        AnswersIn(U, j) \cup
          {n \in {Len(U) + 1} : m.kind \in {"accept", "decline"} /\ m.job = j}
  BY AboutSent DEF AnswersIn
<1>2. None # j
  BY NoneAssumption DEF Runs
<1>3. CASE o = j
  <2>1. AnswersIn(U, j) = {} /\ OffersIn(D, j) = {}
    BY <1>3 DEF Single
  <2>2. AnswersIn(V, j) \subseteq {Len(U) + 1}
    BY <1>1, <2>1
  <2> QED
    BY <1>2, <1>3, <2>1, <2>2 DEF Single, Seen
<1>4. CASE o # j
  <2>1. AnswersIn(V, j) = AnswersIn(U, j)
    BY <1>1, <1>4
  <2> QED
    BY <1>2, <1>4, <2>1 DEF Single, Seen
<1> QED
  BY <1>3, <1>4

\* The phone reports on a job.
LEMMA TraceSaid ==
  ASSUME NEW D, NEW U \in Seq(ToServer), NEW o, NEW j, Single(D, o, U, j),
         NEW m \in ToServer, m.kind \in Progress
  PROVE  /\ Single(D, o, Append(U, m), j)
         /\ Seen(D, o, Append(U, m), j) => Seen(D, o, U, j)
<1>1. m.kind \notin {"accept", "decline"}
  BY DEF Progress
<1>2. AnswersIn(Append(U, m), j) =
        AnswersIn(U, j) \cup
          {n \in {Len(U) + 1} : m.kind \in {"accept", "decline"} /\ m.job = j}
  BY AboutSent DEF AnswersIn
<1>3. AnswersIn(Append(U, m), j) = AnswersIn(U, j)
  BY <1>1, <1>2
<1> QED
  BY <1>3 DEF Single, Seen

\* The gateway reads a message: with the answer the trace ends.
LEMMA TraceRead ==
  ASSUME NEW D, NEW U \in Seq(ToServer), U # <<>>, NEW o, NEW j, Single(D, o, U, j)
  PROVE  /\ Single(D, o, Tail(U), j)
         /\ Seen(D, o, Tail(U), j) => Seen(D, o, U, j)
         /\ Head(U).kind \in {"accept", "decline"} /\ Head(U).job = j =>
              ~ Seen(D, o, Tail(U), j)
<1>1. /\ \A n \in AnswersIn(Tail(U), j) : n \in Nat /\ n # 0 /\ n + 1 \in AnswersIn(U, j)
      /\ Head(U).kind \in {"accept", "decline"} /\ Head(U).job = j <=> 1 \in AnswersIn(U, j)
  BY AboutRead DEF AnswersIn
<1>2. \A n, m \in AnswersIn(Tail(U), j) : n = m
  BY <1>1 DEF Single
<1>3. AnswersIn(Tail(U), j) # {} => AnswersIn(U, j) # {}
  BY <1>1
<1>4. ASSUME 1 \in AnswersIn(U, j)
      PROVE  ~ Seen(D, o, Tail(U), j)
  <2>1. OffersIn(D, j) = {} /\ o # j
    BY <1>4 DEF Single
  <2>2. ASSUME NEW n \in AnswersIn(Tail(U), j)
        PROVE  FALSE
    <3>1. n \in Nat /\ n # 0 /\ n + 1 \in AnswersIn(U, j)
      BY <1>1
    <3>2. n + 1 = 1
      BY <1>4, <3>1 DEF Single
    <3> QED
      BY <3>1, <3>2
  <2> QED
    BY <2>1, <2>2 DEF Seen
<1> QED
  BY <1>1, <1>2, <1>3, <1>4 DEF Single, Seen

\* What a driver was asked stays on record.
LEMMA AskedStays ==
  ASSUME EngineInv, AppTypeOK, [AppNext]_allVars, NEW d \in Drivers, NEW j \in Jobs,
         Asked(d, j)
  PROVE  Asked(d, j)'
<1>1. PICK o \in offered : job[o.run] = j /\ DriverOf(o) = d
  BY DEF Asked
<1>2. o.run \in Runs /\ job'[o.run] = j
  BY <1>1, GoesForward, RunsOf, NoneAssumption DEF Forward, Runs
<1>3. CASE [Next]_vars
  <2>1. offered \subseteq offered'
    BY <1>3 DEF Next, TaskStep, AcquireLock, FindCandidates, ReleaseLock, MarkOffered,
       PublishOffer, MarkPending, SearchFails, UpdateFails, ExpireOffer, AcceptOffer,
       DeclineOffer, TakeOff, AcceptStep, Assign, MakeBusy, Unlock, AcceptFails, SetStatus,
       Tick, Crash, PostJob, Redispatch, Enter, vars, offerVars
  <2>2. ASSUME NEW k \in tasks, FindCandidates(k)
        PROVE  cands'[o.run] = cands[o.run]
    <3>1. k.run # o.run /\ k.run \in Runs
      BY <2>2, RunsOf DEF FindCandidates, EngineInv, Cascade, OffersOf
    <3> QED
      BY <1>2, <2>2, <3>1 DEF FindCandidates, EngineInv, TypeOK
  <2>3. ASSUME \A k \in tasks : ~ FindCandidates(k)
        PROVE  cands' = cands
    BY <1>3, <2>3 DEF Next, TaskStep, AcquireLock, ReleaseLock, MarkOffered, PublishOffer,
       MarkPending, SearchFails, UpdateFails, ExpireOffer, AcceptOffer, DeclineOffer,
       AcceptStep, Assign, MakeBusy, Unlock, AcceptFails, SetStatus, Tick, Crash, PostJob,
       Redispatch, Enter, vars, runVars
  <2>4. cands'[o.run] = cands[o.run]
    BY <2>2, <2>3
  <2> QED
    BY <1>1, <1>2, <2>1, <2>4 DEF Asked, DriverOf
<1>4. CASE RowsWritten
  BY <1>1, <1>2, <1>4 DEF RowsWritten, runVars, offerVars, Asked, DriverOf
<1> QED
  BY <1>3, <1>4, EngineSide

\* The cascade asks nobody twice, and nobody after somebody has won.
LEMMA AskedOnce ==
  ASSUME EngineInv, NEW k \in tasks, PublishOffer(k), NEW j \in Jobs, Untouched(j),
         job[k.run] = j
  PROVE  /\ ~ Asked(DriverOf(OfferOf(k)), j)
         /\ \A d \in Drivers : ~ Won(d, j)
<1>1. k.run = j /\ k.at = "publish"
  BY RunsOf, SoleRun DEF PublishOffer
<1>2. /\ OffersOf(k.run) = FirstOffers(k.run, k.index - 1)
      /\ k.index \in DOMAIN cands[k.run]
      /\ cands[k.run] \in Rankings(Drivers)
  BY <1>1, RunsOf DEF EngineInv, Cascade, CascadeOrder, TypeOK
<1>3. ASSUME NEW o \in offered, job[o.run] = j, DriverOf(o) = DriverOf(OfferOf(k))
      PROVE  FALSE
  <2>1. o.run = k.run
    BY <1>1, <1>3, RunsOf, SoleRun
  <2>2. o \in OffersOf(k.run)
    BY <2>1 DEF OffersOf
  <2>3. k.index \in Nat /\ o.index \in 1 .. (k.index - 1)
    BY <1>2, <2>2, RankingsDomain DEF FirstOffers
  <2>4. o.index \in DOMAIN cands[k.run] /\ o.index # k.index
    BY <2>1, <2>3 DEF EngineInv, TypeOK
  <2>5. cands[k.run][o.index] = cands[k.run][k.index]
    BY <1>3, <2>1 DEF DriverOf, OfferOf
  <2> QED
    BY <1>2, <2>4, <2>5 DEF Rankings
<1>4. ASSUME NEW w \in won, job[w.run] = j
      PROVE  FALSE
  BY <1>1, <1>4, RunsOf, SoleRun DEF EngineInv, Winners
<1> QED
  BY <1>3, <1>4 DEF Asked, Won

\* One trace of an offer, step by step.
LEMMA OneTraceStep ==
  ASSUME EngineInv, AppTypeOK, OneTrace, [AppNext]_allVars
  PROVE  OneTrace'
<1> SUFFICES ASSUME NEW d \in Drivers, NEW j \in Jobs, Untouched(j)'
             PROVE  /\ Single(down'[d], offer'[d], up'[d], j)
                    /\ Seen(down'[d], offer'[d], up'[d], j) => Asked(d, j)' /\ ~ Won(d, j)'
  BY DEF OneTrace
<1> DEFINE
      Good   == Single(down'[d], offer'[d], up'[d], j)
      Was    == Seen(down[d], offer[d], up[d], j)
      Is     == Seen(down'[d], offer'[d], up'[d], j)
      Goal   == Good /\ (Is => Asked(d, j)' /\ ~ Won(d, j)')
      Read   == Handle(d) /\ Head(up[d]).kind = "accept" /\ Head(up[d]).job = j
<1>0. /\ up \in [Drivers -> Seq(ToServer)] /\ down \in [Drivers -> Seq(ToPhone)]
      /\ offer \in [Drivers -> Jobs \cup {None}] /\ j # None
  BY NoneAssumption DEF AppTypeOK, Runs
<1>1. Untouched(j)
  BY UndisturbedBefore
<1>2. Single(down[d], offer[d], up[d], j) /\ (Was => Asked(d, j) /\ ~ Won(d, j))
  BY <1>1 DEF OneTrace
<1>3. ASSUME Good, Is => Was, Read => ~ Is
      PROVE  Goal
  BY <1>2, <1>3, AskedStays, WonWhen
<1>4. ASSUME UNCHANGED <<down[d], offer[d], up[d]>>
      PROVE  Good /\ (Is => Was)
  BY <1>2, <1>4
<1>5. Read => up'[d] = Tail(up[d]) /\ up[d] # <<>>
  BY <1>0 DEF Handle
<1>6. CASE Handle(d)
  <2>1. /\ up[d] # <<>> /\ up[d] \in Seq(ToServer) /\ up'[d] = Tail(up[d])
        /\ down' = down /\ offer' = offer
    BY <1>0, <1>6 DEF Handle, screenVars
  <2>2. /\ Single(down[d], offer[d], Tail(up[d]), j)
        /\ Seen(down[d], offer[d], Tail(up[d]), j) => Was
        /\ Head(up[d]).kind \in {"accept", "decline"} /\ Head(up[d]).job = j =>
              ~ Seen(down[d], offer[d], Tail(up[d]), j)
    BY <1>2, <2>1, TraceRead
  <2> QED
    BY <1>3, <2>1, <2>2
<1>7. SUFFICES ASSUME ~ Handle(d)
               PROVE  Goal
  BY <1>6
<1>8. ASSUME Good, Is => Was
      PROVE  Goal
  BY <1>3, <1>7, <1>8
<1>9. ASSUME NEW k \in tasks, Publish(k)
      PROVE  Goal
  <2> DEFINE e == DriverOf(OfferOf(k))
             m == Message("offer", job[k.run])
  <2>1. /\ PublishOffer(k) /\ down' = Send(down, e, m) /\ up' = up /\ offer' = offer
        /\ cands' = cands /\ job' = job /\ won' = won
        /\ offered' = offered \cup {OfferOf(k)}
    BY <1>9 DEF Publish, PublishOffer, runVars, screenVars
  <2>2. m \in ToPhone /\ m.kind = "offer" /\ m.job = job[k.run] /\ OfferOf(k).run = k.run
    BY DEF Message, ToPhone, EngineInv, Underway, OfferOf
  <2>3. down[d] \in Seq(ToPhone)
    BY <1>0
  <2> HIDE DEF m, e
  <2>4. \/ down'[d] = down[d]
        \/ d = e /\ down'[d] = Append(down[d], m)
    BY <1>0, <2>1 DEF Send
  <2>5. CASE down'[d] = down[d]
    BY <1>4, <1>8, <2>1, <2>5
  <2>6. CASE down'[d] = Append(down[d], m) /\ job[k.run] # j
    <3>1. Single(Append(down[d], m), offer[d], up[d], j)
          /\ (Seen(Append(down[d], m), offer[d], up[d], j) => Was)
      BY <1>2, <2>2, <2>3, <2>6, TraceTold
    <3> QED
      BY <1>8, <2>1, <2>6, <3>1
  <2>7. CASE d = e /\ down'[d] = Append(down[d], m) /\ job[k.run] = j
    <3>1. ~ Asked(d, j) /\ ~ Won(d, j)
      BY <1>1, <2>1, <2>7, AskedOnce DEF e
    <3>2. ~ Was
      BY <1>2, <3>1
    <3>3. Single(Append(down[d], m), offer[d], up[d], j)
      BY <1>2, <2>2, <2>3, <3>2, TraceTold
    <3>4. ~ Won(d, j)'
      BY <2>1, <3>1 DEF Won
    <3>5. Asked(d, j)'
      BY <2>1, <2>2, <2>7 DEF Asked, DriverOf, e
    <3> QED
      BY <2>1, <2>7, <3>3, <3>4, <3>5
  <2> QED
    BY <2>4, <2>5, <2>6, <2>7
<1>10. ASSUME NEW t \in timers, Expire(t)
       PROVE  Goal
  <2> DEFINE e == DriverOf(OfferOf(t))
             m == Message("revoked", job[t.run])
  <2>1. down' = Send(down, e, m) /\ up' = up /\ offer' = offer
    BY <1>10 DEF Expire, screenVars
  <2>2. m \in ToPhone /\ m.kind # "offer"
    BY DEF Message, ToPhone, EngineInv, Underway
  <2>3. down[d] \in Seq(ToPhone)
    BY <1>0
  <2>4. down'[d] = down[d] \/ down'[d] = Append(down[d], m)
    BY <1>0, <2>1 DEF Send
  <2> HIDE DEF m
  <2>5. Single(Append(down[d], m), offer[d], up[d], j)
        /\ (Seen(Append(down[d], m), offer[d], up[d], j) => Was)
    BY <1>2, <2>2, <2>3, TraceTold
  <2>6. Good /\ (Is => Was)
    BY <1>2, <2>1, <2>4, <2>5
  <2> QED
    BY <1>8, <2>6
<1>11. CASE Deliver(d)
  <2>1. /\ down[d] # <<>> /\ down[d] \in Seq(ToPhone) /\ down'[d] = Tail(down[d]) /\ up' = up
        /\ offer'[d] = IF Head(down[d]).kind = "offer" THEN Head(down[d]).job ELSE None
    BY <1>0, <1>11 DEF Deliver
  <2>2. Single(Tail(down[d]), offer'[d], up[d], j)
        /\ (Seen(Tail(down[d]), offer'[d], up[d], j) => Was)
    BY <1>2, <2>1, TraceDelivered
  <2> QED
    BY <1>8, <2>1, <2>2
<1>12. CASE Accept(d) \/ Decline(d)
  <2>1. PICK kind \in {"accept", "decline"} : Answer(d, kind) /\ down' = down
    BY <1>12 DEF Accept, Decline
  <2> DEFINE m == Message(kind, offer[d])
  <2>2. offer[d] \in Jobs /\ offer'[d] = None
    BY <1>0, <2>1 DEF Answer
  <2>3. m \in ToServer /\ m.job = offer[d]
    BY <2>2 DEF Message, ToServer
  <2>4. up'[d] \in {up[d], Append(up[d], m)} /\ up[d] \in Seq(ToServer)
    BY <1>0, <2>1 DEF Answer, Send
  <2> HIDE DEF m
  <2>5. Single(down[d], None, up'[d], j) /\ (Seen(down[d], None, up'[d], j) => Was)
    BY <1>2, <2>2, <2>3, <2>4, TraceAnswered
  <2> QED
    BY <1>8, <2>1, <2>2, <2>5
<1>13. CASE Advance(d)
  <2> DEFINE s == StatusOf[NextPhase[phase[d]]]
             m == Message(s, current[d])
  <2>1. current[d] \in Jobs /\ phase[d] \in DOMAIN NextPhase
    BY <1>13 DEF Advance, AppTypeOK, Phases, NextPhase
  <2>2. s \in Progress
    BY <2>1 DEF NextPhase, StatusOf, Progress
  <2>3. m \in ToServer /\ m.kind \in Progress
    BY <2>1, <2>2 DEF Message, ToServer
  <2>4. /\ up'[d] \in {up[d], Append(up[d], m)} /\ up[d] \in Seq(ToServer)
        /\ down' = down /\ offer' = offer
    BY <1>0, <1>13 DEF Advance, Send
  <2> HIDE DEF m
  <2>5. Single(down[d], offer[d], Append(up[d], m), j)
        /\ (Seen(down[d], offer[d], Append(up[d], m), j) => Was)
    BY <1>2, <2>3, <2>4, TraceSaid
  <2>6. Good /\ (Is => Was)
    BY <1>2, <2>4, <2>5
  <2> QED
    BY <1>8, <2>6
<1>14. ASSUME down'[d] = <<>>, up'[d] = <<>>, offer'[d] \in {None, offer[d]}
       PROVE  Goal
  <2>1. OffersIn(<<>>, j) = {} /\ AnswersIn(<<>>, j) = {}
    BY DEF OffersIn, AnswersIn, About
  <2>2. Good /\ (Is => Was)
    BY <1>0, <1>14, <2>1 DEF Single, Seen
  <2> QED
    BY <1>8, <2>2
<1>15. CASE Down
  BY <1>14, <1>15 DEF Down, screenVars
<1>16. CASE Drop(d)
  <2>1. down'[d] = <<>> /\ up'[d] = <<>> /\ offer'[d] \in {None, offer[d]}
    BY <1>0, <1>16 DEF Drop, screenVars
  <2> QED
    BY <1>14, <2>1
<1>17. ASSUME NEW e \in Drivers, e # d, Phone(e) \/ Handle(e) \/ Link(e) \/ Drop(e)
       PROVE  UNCHANGED <<down[d], offer[d], up[d]>>
  <2>1. \A m : Send(up, e, m)[d] = up[d]
    BY <1>0, <1>17 DEF Send
  <2>2. up'[d] = up[d]
    BY <1>0, <1>17, <2>1 DEF Phone, Deliver, Accept, Decline, Answer, Advance, ClearJob,
       Handle, Link, Drop, lineVars
  <2>3. down'[d] = down[d]
    BY <1>0, <1>17 DEF Phone, Deliver, Accept, Decline, Advance, ClearJob,
       Handle, Link, Drop, lineVars
  <2>4. offer'[d] = offer[d]
    BY <1>0, <1>17 DEF Phone, Deliver, Accept, Decline, Answer, Advance, ClearJob,
       Handle, Link, Drop, screenVars
  <2> QED
    BY <2>2, <2>3, <2>4
<1>18. ASSUME ClearJob(d) \/ Link(d)
       PROVE  UNCHANGED <<down[d], offer[d], up[d]>>
  BY <1>18 DEF ClearJob, Link, lineVars, screenVars
<1>19. ASSUME NEW u \in updates, WriteJob(u) \/ FreeDriver(u) \/ RejectUpdate(u)
       PROVE  UNCHANGED <<down[d], offer[d], up[d]>>
  BY <1>19 DEF WriteJob, FreeDriver, RejectUpdate, lineVars, screenVars
<1>20. ASSUME Engine \/ UNCHANGED allVars
       PROVE  UNCHANGED <<down[d], offer[d], up[d]>>
  BY <1>20 DEF Engine, allVars, appVars, lineVars, screenVars
<1>21. ASSUME UNCHANGED <<down[d], offer[d], up[d]>>
       PROVE  Goal
  BY <1>4, <1>8, <1>21
<1> HIDE DEF Goal
<1>22. Goal
  BY <1>7, <1>9, <1>10, <1>11, <1>12, <1>13, <1>15, <1>16, <1>17, <1>18, <1>19, <1>20,
     <1>21 DEF AppNext, Phone
<1> QED
  BY <1>22 DEF Goal

-----------------------------------------------------------------------------
(* Writes of a job's row. *)

\* Whoever is answered has won.
LEMMA AcceptsFrom ==
  ASSUME EngineInv, AppTypeOK, [AppNext]_allVars
  PROVE  \A a \in accepts' :
           \/ \E b \in accepts : b.run = a.run /\ b.driver = a.driver
           \/ \E w \in won' : w.run = a.run /\ w.driver = a.driver
<1> SUFFICES ASSUME NEW a \in accepts', a \notin accepts
             PROVE  \/ \E b \in accepts : b.run = a.run /\ b.driver = a.driver
                    \/ \E w \in won' : w.run = a.run /\ w.driver = a.driver
  OBVIOUS
<1>1. ASSUME NEW b \in accepts, AcceptStep(b) \/ AcceptFails(b)
      PROVE  b.run = a.run /\ b.driver = a.driver
  <2>1. accepts' \subseteq accepts \cup {At(b, "busy"), At(b, "unlock")}
    BY <1>1 DEF AcceptStep, Assign, MakeBusy, Unlock, AcceptFails
  <2> QED
    BY <2>1 DEF At, EngineInv, TypeOK, Acceptance
<1>2. ASSUME NEW d \in Drivers, Handle(d)
      PROVE  \E w \in won' : w.run = a.run /\ w.driver = a.driver
  <2>1. AcceptOffer(activeOffers[Head(up[d]).job])
    BY <1>2 DEF Handle, DeclineOffer, vars
  <2>2. ASSUME NEW o, AcceptOffer(o)
        PROVE  \E w \in won' : w.run = a.run /\ w.driver = a.driver
    <3> DEFINE e == activeOffers[job[o.run]]
               w == [run |-> e.run, driver |-> DriverOf(o)]
    <3>1. a = [run |-> e.run, driver |-> DriverOf(o), at |-> "assign"] /\ w \in won'
      BY <2>2 DEF AcceptOffer
    <3>2. w.run = a.run /\ w.driver = a.driver
      BY <3>1
    <3> QED
      BY <3>1, <3>2
  <2> QED
    BY <2>1, <2>2
<1>3. CASE Engine
  <2>1. ASSUME NEW r \in Runs, NEW j \in Jobs, Enter(r, j)
        PROVE  accepts' = accepts
    BY <2>1 DEF Enter
  <2>2. ASSUME NEW k \in tasks,
               \/ AcquireLock(k) \/ FindCandidates(k) \/ ReleaseLock(k)
               \/ MarkOffered(k) \/ MarkPending(k) \/ SearchFails(k)
               \/ k.by # "timer" /\ UpdateFails(k)
        PROVE  accepts' = accepts
    BY <2>2 DEF AcquireLock, FindCandidates, ReleaseLock, MarkOffered, MarkPending,
       SearchFails, UpdateFails
  <2>3. Tick => accepts' = accepts
    BY DEF Tick
  <2> QED
    BY <1>1, <1>3, <2>1, <2>2, <2>3 DEF Engine, PostJob, Redispatch, Runs
<1>4. CASE Down
  BY <1>4 DEF Down, Crash, UpdateFails, CrashEffect
<1>5. ASSUME \/ \E k \in tasks : Publish(k)
             \/ \E t \in timers : Expire(t)
             \/ UNCHANGED allVars
             \/ \E d \in Drivers : Phone(d) \/ Link(d) \/ Drop(d)
             \/ \E u \in updates : WriteJob(u) \/ FreeDriver(u) \/ RejectUpdate(u)
      PROVE  accepts' = accepts
  BY <1>5 DEF Publish, PublishOffer, Expire, ExpireOffer, allVars, vars, Phone, Deliver,
     Accept, Decline, Advance, ClearJob, Link, Drop, SetStatus, WriteJob, FreeDriver,
     RejectUpdate
<1> QED
  BY <1>2, <1>3, <1>4, <1>5 DEF AppNext

\* Every write is made for a driver who won the job, or has disturbed it.
LEMMA WritesEarnedStep ==
  ASSUME EngineInv, AppTypeOK, WritesEarned, [AppNext]_allVars
  PROVE  WritesEarned'
<1>1. \A d \in Drivers, j \in Jobs : Won(d, j) => Won(d, j)'
  BY WonWhen
<1>2. disturbed \subseteq disturbed'
  BY PastGrows
<1>3. \A u \in updates : u.driver \in Drivers /\ u.job \in Jobs
  BY DEF AppTypeOK, JobUpdate
<1>4. \A u \in updates : u.job \in disturbed' \/ Won(u.driver, u.job)'
  BY <1>1, <1>2, <1>3 DEF WritesEarned
<1>5. ASSUME NEW u \in updates'
      PROVE  u.job \in disturbed' \/ Won(u.driver, u.job)'
  <2>1. CASE updates' \subseteq updates
    BY <1>4, <2>1
  <2>2. ASSUME NEW v \in updates, WriteJob(v) \/ FreeDriver(v) \/ RejectUpdate(v)
        PROVE  \E y \in updates : y.driver = u.driver /\ y.job = u.job
    <3>1. updates' \subseteq updates \cup {At(v, "driver")}
      BY <2>2 DEF WriteJob, FreeDriver, RejectUpdate
    <3>2. At(v, "driver").driver = v.driver /\ At(v, "driver").job = v.job
      BY DEF At, AppTypeOK, JobUpdate
    <3> QED
      BY <3>1, <3>2
  <2>3. ASSUME NEW d \in Drivers, Handle(d), u \notin updates
        PROVE  /\ u.driver = d
               /\ u.job \in disturbed' \/ Won(d, u.job)
    BY <2>3 DEF Handle
  <2>4. ASSUME NEW d \in Drivers, Handle(d), u \notin updates
        PROVE  u.job \in Jobs
    BY <2>4, HeadRead DEF Handle
  <2>5. CASE \E d \in Drivers : Handle(d)
    BY <1>1, <1>4, <2>3, <2>4, <2>5
  <2>6. CASE \E v \in updates : WriteJob(v) \/ FreeDriver(v) \/ RejectUpdate(v)
    BY <1>4, <2>2, <2>6
  <2>7. \/ updates' \subseteq updates
        \/ \E d \in Drivers : Handle(d)
        \/ \E v \in updates : WriteJob(v) \/ FreeDriver(v) \/ RejectUpdate(v)
    BY DEF AppNext, allVars, appVars, Engine, Publish, Expire, Down, Phone, Deliver, Accept,
       Decline, Advance, ClearJob, Link, Drop
  <2> QED
    BY <2>1, <2>5, <2>6, <2>7
<1>6. ASSUME NEW a \in accepts'
      PROVE  Won(a.driver, job[a.run])'
  <2>1. CASE \E w \in won' : w.run = a.run /\ w.driver = a.driver
    BY <2>1 DEF Won
  <2>2. ASSUME NEW b \in accepts, b.run = a.run, b.driver = a.driver
        PROVE  Won(a.driver, job[a.run])'
    <3>1. PICK w \in won : job[w.run] = job[b.run] /\ w.driver = b.driver
      BY DEF WritesEarned, Won
    <3>2. job'[w.run] = job'[a.run] /\ w \in won'
      <4>1. job'[w.run] = job[w.run] /\ job'[b.run] = job[b.run] /\ won \subseteq won'
        BY GoesForward, RunsOf, NoneAssumption DEF Forward, Runs, EngineInv, Underway
      <4> QED
        BY <2>2, <3>1, <4>1
    <3> QED
      BY <2>2, <3>1, <3>2 DEF Won
  <2> QED
    BY <2>1, <2>2, AcceptsFrom
<1> QED
  BY <1>5, <1>6 DEF WritesEarned

\* The kinds of steps that concern the row of a job a driver has won and nobody
\* disturbs: the acceptance goes on, or an update does, or the gateway reads the
\* next one with no other write of the row under way.
RowQuiet(j) ==
  /\ jobStatus'[j] = jobStatus[j]
  /\ UpdatesOf(j)' = UpdatesOf(j) /\ AcceptsOf(j)' = AcceptsOf(j)

RowAccepted(j) ==
  /\ UpdatesOf(j)' = UpdatesOf(j)
  /\ \E a \in AcceptsOf(j) : AcceptStep(a)

RowWritten(j) ==
  /\ AcceptsOf(j)' = AcceptsOf(j)
  /\ \E u \in UpdatesOf(j) : WriteJob(u) \/ FreeDriver(u)

RowRead(d, j) ==
  /\ Handle(d) /\ Head(up[d]).job = j /\ Head(up[d]).kind \in Progress
  /\ jobStatus'[j] = jobStatus[j]
  /\ UpdatesOf(j) = {} /\ AcceptsOf(j) = {} /\ AcceptsOf(j)' = {}
  /\ UpdatesOf(j)' = {[driver |-> d, job |-> j, to |-> Head(up[d]).kind, at |-> "job"]}

\* No other step concerns it.
LEMMA RowStep ==
  ASSUME EngineInv, AppTypeOK, WritesEarned, [AppNext]_allVars,
         NEW j \in Jobs, Undisturbed(j)', NEW d \in Drivers, Won(d, j)
  PROVE  \/ RowQuiet(j) \/ RowAccepted(j) \/ RowWritten(j) \/ RowRead(d, j)
<1>0. /\ Undisturbed(j) /\ failures' = 0 /\ j \notin disturbed' /\ Untouched(j)
      /\ j # None /\ jobStatus \in [Jobs -> JobStatus]
  BY UndisturbedBefore, NoneAssumption DEF Undisturbed, Runs, EngineInv, TypeOK
<1>1. /\ job[j] = j
      /\ \A k \in tasks : job[k.run] # j
      /\ \A e \in Drivers : Won(e, j) => e = d
      /\ activeOffers[j] = None
  BY <1>0, WonAlone
<1>2. ~ Fail
  BY <1>0, FailsOnce
<1>3. ASSUME accepts' = accepts
      PROVE  AcceptsOf(j)' = AcceptsOf(j)
  <2>1. \A a \in accepts : job'[a.run] = job[a.run]
    BY GoesForward, RunsOf, NoneAssumption DEF Forward, EngineInv, Underway, Runs
  <2> QED
    BY <1>3, <2>1 DEF AcceptsOf
<1>4. ASSUME accepts' = accepts, updates' = updates, jobStatus'[j] = jobStatus[j]
      PROVE  RowQuiet(j)
  BY <1>3, <1>4 DEF RowQuiet, UpdatesOf
<1>5. CASE Engine
  <2>0. updates' = updates
    BY <1>5 DEF Engine, appVars
  <2>1. ASSUME NEW i \in Jobs, PostJob(i)
        PROVE  RowQuiet(j)
    <3>1. i # j
      BY <1>0, <1>1, <2>1 DEF PostJob, Enter
    <3> QED
      BY <1>0, <1>4, <2>0, <2>1, <3>1 DEF PostJob, Enter, SetJob
  <2>2. ASSUME NEW r \in Redispatches, NEW i \in Jobs, Redispatch(r, i)
        PROVE  RowQuiet(j)
    BY <1>4, <2>0, <2>2 DEF Redispatch, Enter
  <2>3. ASSUME NEW k \in tasks, \/ AcquireLock(k) \/ FindCandidates(k) \/ ReleaseLock(k)
        PROVE  RowQuiet(j)
    BY <1>4, <2>0, <2>3 DEF AcquireLock, FindCandidates, ReleaseLock, dbVars
  <2>4. ASSUME NEW k \in tasks, MarkOffered(k) \/ MarkPending(k)
        PROVE  RowQuiet(j)
    <3>1. jobStatus'[j] = jobStatus[j]
      BY <1>0, <1>1, <2>4 DEF MarkOffered, MarkPending, SetJob
    <3> QED
      BY <1>4, <2>0, <2>4, <3>1 DEF MarkOffered, MarkPending
  <2>5. ASSUME NEW k \in tasks
        PROVE  ~ SearchFails(k) /\ ~ UpdateFails(k)
    BY <1>2 DEF SearchFails, UpdateFails
  <2>6. ASSUME NEW a \in accepts, AcceptStep(a), job[a.run] = j
        PROVE  RowAccepted(j)
    BY <2>0, <2>6 DEF RowAccepted, AcceptsOf, UpdatesOf
  <2>7. ASSUME NEW a \in accepts, AcceptStep(a), job[a.run] # j
        PROVE  RowQuiet(j)
    <3>1. job' = job /\ jobStatus'[j] = jobStatus[j]
      BY <1>0, <2>7 DEF AcceptStep, Assign, MakeBusy, Unlock, SetJob, runVars, dbVars
    <3>2. \A s \in {"busy", "unlock"} : At(a, s).run = a.run
      BY DEF At, EngineInv, TypeOK, Acceptance
    <3>3. AcceptsOf(j)' = AcceptsOf(j)
      <4>1. \/ accepts' = (accepts \ {a}) \cup {At(a, "busy")}
            \/ accepts' = (accepts \ {a}) \cup {At(a, "unlock")}
            \/ accepts' = accepts \ {a}
        BY <2>7 DEF AcceptStep, Assign, MakeBusy, Unlock
      <4> QED
        BY <2>7, <3>1, <3>2, <4>1 DEF AcceptsOf
    <3> QED
      BY <2>0, <3>1, <3>3 DEF RowQuiet, UpdatesOf
  <2>8. ASSUME NEW a \in accepts
        PROVE  ~ AcceptFails(a)
    BY <1>2 DEF AcceptFails
  <2>9. Tick => RowQuiet(j)
    BY <1>4, <2>0 DEF Tick, dbVars
  <2> QED
    BY <1>5, <2>1, <2>2, <2>3, <2>4, <2>5, <2>6, <2>7, <2>8, <2>9 DEF Engine
<1>6. ASSUME NEW k \in tasks, Publish(k)
      PROVE  RowQuiet(j)
  BY <1>4, <1>6 DEF Publish, PublishOffer, dbVars
<1>7. ASSUME NEW t \in timers, Expire(t)
      PROVE  RowQuiet(j)
  BY <1>4, <1>7 DEF Expire, ExpireOffer, dbVars
<1>8. ~ Down
  BY <1>2 DEF Down, Crash, UpdateFails
<1>9. ASSUME NEW e \in Drivers, Phone(e)
      PROVE  RowQuiet(j)
  BY <1>4, <1>9 DEF Phone, Deliver, Accept, Decline, Advance, ClearJob, vars, dbVars
<1>10. ASSUME NEW e \in Drivers, Link(e) \/ Drop(e)
       PROVE  RowQuiet(j)
  BY <1>4, <1>10 DEF Link, Drop, SetStatus
<1>11. ASSUME NEW e \in Drivers, Handle(e)
       PROVE  RowQuiet(j) \/ RowRead(d, j)
  <2> DEFINE m == Head(up[e])
             v == [driver |-> e, job |-> m.job, to |-> m.kind, at |-> "job"]
  <2>1. m.job \in Jobs
    BY <1>11, HeadRead DEF Handle
  <2>2. CASE m.kind = "accept" /\ Open(e, m.job)
    <3> DEFINE o == activeOffers[m.job]
    <3>1. AcceptOffer(o) /\ updates' = updates
      BY <1>11, <2>2 DEF Handle, Progress
    <3>2. job[o.run] = m.job /\ o # None
      BY <2>1, <2>2, EntryOffered DEF Open
    <3>3. m.job # j
      BY <1>1, <3>2
    <3>4. /\ jobStatus' = jobStatus /\ job' = job
          /\ accepts' = accepts \cup {[run |-> o.run, driver |-> DriverOf(o), at |-> "assign"]}
      <4>1. activeOffers[job[o.run]] = o
        BY <3>2
      <4> HIDE DEF o
      <4> QED
        BY <3>1, <4>1 DEF AcceptOffer, dbVars, runVars
    <3> HIDE DEF o
    <3>5. AcceptsOf(j)' = AcceptsOf(j)
      BY <3>2, <3>3, <3>4 DEF AcceptsOf
    <3> QED
      BY <3>1, <3>4, <3>5 DEF RowQuiet, UpdatesOf
  <2>3. CASE m.kind = "decline" /\ Open(e, m.job)
    <3>1. DeclineOffer(activeOffers[m.job]) /\ updates' = updates
      BY <1>11, <2>3 DEF Handle, Progress
    <3> QED
      BY <1>4, <3>1 DEF DeclineOffer, dbVars
  <2>4. CASE m.kind \in {"accept", "decline"} /\ ~ Open(e, m.job)
    <3>1. UNCHANGED vars /\ updates' = updates
      BY <1>11, <2>4 DEF Handle, Progress
    <3> QED
      BY <1>4, <3>1 DEF vars, dbVars
  <2>5. CASE m.kind \in Progress
    <3>1. /\ UNCHANGED vars /\ updates' = updates \cup {v}
          /\ disturbed' = IF Won(e, m.job) /\ ~ Writing(m.job)
                          THEN disturbed ELSE disturbed \cup {m.job}
      BY <1>11, <2>5 DEF Handle, Progress
    <3>2. accepts' = accepts /\ jobStatus' = jobStatus
      BY <3>1 DEF vars, dbVars
    <3>3. v.job = m.job
      OBVIOUS
    <3>4. CASE m.job # j
      <4> HIDE DEF v
      <4>1. UpdatesOf(j)' = UpdatesOf(j)
        BY <3>1, <3>3, <3>4 DEF UpdatesOf
      <4> QED
        BY <1>3, <3>2, <4>1 DEF RowQuiet
    <3>5. CASE m.job = j
      <4>1. Won(e, j) /\ ~ Writing(j)
        BY <1>0, <3>1, <3>5
      <4>2. e = d
        BY <1>1, <4>1
      <4>3. UpdatesOf(j) = {} /\ AcceptsOf(j) = {}
        BY <4>1 DEF Writing, UpdatesOf, AcceptsOf
      <4>4. UpdatesOf(j)' = {v}
        BY <3>1, <3>5, <4>3 DEF UpdatesOf
      <4> QED
        BY <1>3, <1>11, <2>5, <3>2, <3>5, <4>2, <4>3, <4>4 DEF RowRead
    <3> QED
      BY <3>4, <3>5
  <2>6. m.kind \in {"accept", "decline"} \cup Progress
    BY <1>11, HeadRead DEF Handle
  <2> QED
    BY <2>2, <2>3, <2>4, <2>5, <2>6
<1>12. ASSUME NEW u \in updates, WriteJob(u) \/ FreeDriver(u)
       PROVE  RowQuiet(j) \/ RowWritten(j)
  <2>1. accepts' = accepts
    BY <1>12 DEF WriteJob, FreeDriver
  <2>2. CASE u.job = j
    BY <1>3, <1>12, <2>1, <2>2 DEF RowWritten, UpdatesOf
  <2>3. CASE u.job # j
    <3>1. jobStatus'[j] = jobStatus[j]
      BY <1>0, <1>12, <2>3 DEF WriteJob, FreeDriver, SetJob
    <3>2. updates' \in {updates \ {u}, (updates \ {u}) \cup {At(u, "driver")}}
      BY <1>12 DEF WriteJob, FreeDriver
    <3>3. At(u, "driver").job = u.job
      BY DEF At, AppTypeOK, JobUpdate
    <3>4. UpdatesOf(j)' = UpdatesOf(j)
      BY <2>3, <3>2, <3>3 DEF UpdatesOf
    <3> QED
      BY <1>3, <2>1, <3>1, <3>4 DEF RowQuiet
  <2> QED
    BY <2>2, <2>3
<1>13. ASSUME NEW u \in updates
       PROVE  ~ RejectUpdate(u)
  BY <1>2 DEF RejectUpdate
<1>14. UNCHANGED allVars => RowQuiet(j)
  BY <1>4 DEF allVars, vars, dbVars, appVars
<1> QED
  BY <1>5, <1>6, <1>7, <1>8, <1>9, <1>10, <1>11, <1>12, <1>13, <1>14 DEF AppNext

\* One handler answers the winner.
LEMMA SoleAccept ==
  ASSUME EngineInv, NEW j \in Jobs, Untouched(j)
  PROVE  \A a, b \in AcceptsOf(j) : a = b
<1> SUFFICES ASSUME NEW a \in accepts, NEW b \in accepts, job[a.run] = j, job[b.run] = j
             PROVE  a = b
  BY DEF AcceptsOf
<1>1. a.run = j /\ b.run = j
  BY RunsOf, SoleRun
<1> QED
  BY <1>1 DEF EngineInv, SingleThread, Runs

\* When a job is won nothing else is being written about it.
LEMMA WinStep ==
  ASSUME EngineInv, AppTypeOK, WritesEarned, [AppNext]_allVars,
         NEW j \in Jobs, Undisturbed(j)', NEW d \in Drivers, Won(d, j)', ~ Won(d, j)
  PROVE  /\ Handle(d) /\ up[d] # <<>> /\ Head(up[d]).kind = "accept" /\ Head(up[d]).job = j
         /\ UpdatesOf(j)' = {}
         /\ AcceptsOf(j)' # {} /\ \A a \in AcceptsOf(j)' : a.at = "assign"
<1>1. /\ Handle(d) /\ Open(d, j) /\ AcceptOffer(activeOffers[j])
      /\ up[d] # <<>> /\ Head(up[d]).kind = "accept" /\ Head(up[d]).job = j
  BY WonWhen
<1>2. Untouched(j) /\ j \notin disturbed
  BY UndisturbedBefore DEF Undisturbed
<1>3. \A e \in Drivers : ~ Won(e, j)
  BY <1>1, <1>2, WonAlone DEF Open
<1>4. UpdatesOf(j) = {}
  BY <1>2, <1>3 DEF UpdatesOf, WritesEarned, AppTypeOK, JobUpdate
<1>5. AcceptsOf(j) = {}
  BY <1>3, RunsOf DEF AcceptsOf, WritesEarned
<1> DEFINE o == activeOffers[j]
           n == [run |-> o.run, driver |-> DriverOf(o), at |-> "assign"]
<1>6. job[o.run] = j /\ o # None
  BY <1>1, EntryOffered DEF Open
<1>7. accepts' = accepts \cup {n} /\ job' = job /\ updates' = updates
  <2>1. activeOffers[job[o.run]] = o
    BY <1>6
  <2>2. updates' = updates
    BY <1>1 DEF Handle, Progress
  <2> HIDE DEF o
  <2> QED
    BY <1>1, <2>1, <2>2 DEF AcceptOffer, runVars, o
<1>8. n.run = o.run /\ n.at = "assign"
  OBVIOUS
<1> HIDE DEF o, n
<1>9. AcceptsOf(j)' = {n}
  BY <1>5, <1>6, <1>7, <1>8 DEF AcceptsOf
<1>10. UpdatesOf(j)' = {}
  BY <1>4, <1>7 DEF UpdatesOf
<1> QED
  BY <1>1, <1>8, <1>9, <1>10

\* The writes of a row take turns.
LEMMA WritesInTurnStep ==
  ASSUME EngineInv, AppTypeOK, WritesEarned, WritesInTurn, [AppNext]_allVars
  PROVE  WritesInTurn'
<1> SUFFICES ASSUME NEW d \in Drivers, NEW j \in Jobs, Won(d, j)', Undisturbed(j)'
             PROVE  InTurn(j)'
  BY DEF WritesInTurn
<1>1. CASE ~ Won(d, j)
  BY <1>1, WinStep DEF InTurn
<1>2. CASE Won(d, j)
  <2>1. InTurn(j)
    BY <1>2, UndisturbedBefore DEF WritesInTurn
  <2>2. CASE RowQuiet(j)
    BY <2>1, <2>2 DEF RowQuiet, InTurn
  <2>3. CASE RowAccepted(j)
    <3>1. PICK a \in AcceptsOf(j) : AcceptStep(a)
      BY <2>3 DEF RowAccepted
    <3>2. UpdatesOf(j)' = {}
      BY <2>1, <2>3, <3>1 DEF RowAccepted, InTurn
    <3>3. jobStatus'[j] = "accepted"
      <4>1. job[a.run] = j /\ jobStatus \in [Jobs -> JobStatus]
        BY <3>1 DEF AcceptsOf, EngineInv, TypeOK
      <4>2. a.at # "assign" => jobStatus[j] = "accepted"
        BY <2>1 DEF InTurn
      <4> QED
        BY <3>1, <4>1, <4>2 DEF AcceptStep, Assign, MakeBusy, Unlock, SetJob, dbVars
    <3> QED
      BY <3>2, <3>3 DEF InTurn
  <2>4. CASE RowWritten(j)
    <3>1. PICK u \in UpdatesOf(j) : WriteJob(u) \/ FreeDriver(u)
      BY <2>4 DEF RowWritten
    <3>2. AcceptsOf(j)' = {}
      BY <2>1, <2>4, <3>1 DEF RowWritten, InTurn
    <3>3. UpdatesOf(j)' \subseteq {At(u, "driver")}
      <4>1. updates' \subseteq (updates \ {u}) \cup {At(u, "driver")}
        BY <3>1 DEF WriteJob, FreeDriver
      <4>2. UpdatesOf(j) = {u}
        BY <2>1, <3>1 DEF InTurn
      <4> QED
        BY <4>1, <4>2 DEF UpdatesOf
    <3> QED
      BY <3>2, <3>3 DEF InTurn
  <2>5. CASE RowRead(d, j)
    BY <2>5 DEF RowRead, InTurn
  <2> QED
    BY <1>2, <2>2, <2>3, <2>4, <2>5, RowStep
<1> QED
  BY <1>1, <1>2

\* What is pending, before and after the row is written.
LEMMA PendingOnly ==
  ASSUME EngineInv, NEW j \in Jobs, Untouched(j), InTurn(j)
  PROVE  /\ \A u \in UpdatesOf(j) : Pending(j) = IF u.at = "job" THEN {u.to} ELSE {}
         /\ \A a \in AcceptsOf(j) : Pending(j) = IF a.at = "assign" THEN {"accepted"} ELSE {}
<1>1. ASSUME NEW u \in UpdatesOf(j)
      PROVE  Pending(j) = IF u.at = "job" THEN {u.to} ELSE {}
  <2>1. UpdatesOf(j) = {u} /\ AcceptsOf(j) = {}
    BY DEF InTurn
  <2> QED
    BY <2>1 DEF Pending
<1>2. ASSUME NEW a \in AcceptsOf(j)
      PROVE  Pending(j) = IF a.at = "assign" THEN {"accepted"} ELSE {}
  <2>1. AcceptsOf(j) = {a} /\ UpdatesOf(j) = {}
    BY SoleAccept DEF InTurn
  <2> QED
    BY <2>1 DEF Pending
<1> QED
  BY <1>1, <1>2

\* The first message is the last one about its job if none is left after it.
LEMMA LastRead ==
  ASSUME NEW line \in Seq(ToServer), line # <<>>, NEW j, ~ UnderWay(Tail(line), j)
  PROVE  /\ Head(line).job = j => LastOf(line, 1, j) /\ Head(line) = line[1]
         /\ Head(line).job # j => ~ UnderWay(line, j)
<1>1. /\ Len(line) \in Nat /\ Len(line) >= 1 /\ DOMAIN line = 1 .. Len(line)
      /\ Head(line) = line[1] /\ DOMAIN Tail(line) = 1 .. (Len(line) - 1)
      /\ \A i \in 1 .. Len(line) - 1 : Tail(line)[i] = line[i + 1]
  BY ReadLine
<1>2. \A i \in DOMAIN line : line[i].job = j => i = 1
  <2> SUFFICES ASSUME NEW i \in DOMAIN line, line[i].job = j, i # 1
               PROVE  FALSE
    OBVIOUS
  <2>1. i - 1 \in DOMAIN Tail(line) /\ Tail(line)[i - 1] = line[i]
    BY <1>1
  <2> QED
    BY <2>1 DEF UnderWay
<1>3. 1 \in DOMAIN line /\ 1 <= 1
  BY <1>1
<1> QED
  BY <1>1, <1>2, <1>3 DEF LastOf, UnderWay

\* The status a job's row has, or will have when the write under way is made.
Settles(j, s) == IF Pending(j) = {} THEN jobStatus[j] = s ELSE Pending(j) = {s}

\* A write that is made leaves the row with the status it was to have.
LEMMA SettlesStep ==
  ASSUME EngineInv, AppTypeOK, NEW j \in Jobs, Untouched(j), InTurn(j), InTurn(j)',
         RowQuiet(j) \/ RowAccepted(j) \/ RowWritten(j), NEW s, Settles(j, s)
  PROVE  Settles(j, s)'
<1>0. jobStatus \in [Jobs -> JobStatus]
  BY DEF EngineInv, TypeOK
<1>1. CASE RowQuiet(j)
  <2>1. Pending(j)' = Pending(j)
    BY <1>1 DEF RowQuiet, Pending
  <2> QED
    BY <1>1, <2>1 DEF RowQuiet, Settles
<1>2. CASE RowAccepted(j)
  <2>1. PICK a \in AcceptsOf(j) : AcceptStep(a)
    BY <1>2 DEF RowAccepted
  <2>2. Pending(j) = IF a.at = "assign" THEN {"accepted"} ELSE {}
    BY <2>1, PendingOnly
  <2>3. AcceptsOf(j) = {a} /\ UpdatesOf(j)' = {}
    BY <1>2, <2>1, SoleAccept DEF RowAccepted, InTurn
  <2>4. job[a.run] = j /\ a \in accepts /\ a \in Acceptance
    BY <2>1 DEF AcceptsOf, EngineInv, TypeOK
  <2>5. AcceptsOf(j)' \subseteq {At(a, "busy"), At(a, "unlock")}
    <3>1. /\ accepts' \subseteq (accepts \ {a}) \cup {At(a, "busy"), At(a, "unlock")}
          /\ job' = job
      BY <2>1 DEF AcceptStep, Assign, MakeBusy, Unlock, runVars
    <3> QED
      BY <2>3, <3>1 DEF AcceptsOf
  <2>6. At(a, "busy").at = "busy" /\ At(a, "unlock").at = "unlock"
    BY <2>4 DEF At, Acceptance
  <2>7. Pending(j)' = {}
    BY <2>3, <2>5, <2>6 DEF Pending
  <2>8. jobStatus'[j] = IF a.at = "assign" THEN "accepted" ELSE jobStatus[j]
    BY <1>0, <2>1, <2>4 DEF AcceptStep, Assign, MakeBusy, Unlock, SetJob, dbVars
  <2> QED
    BY <2>2, <2>7, <2>8 DEF Settles
<1>3. CASE RowWritten(j)
  <2>1. PICK u \in UpdatesOf(j) : WriteJob(u) \/ FreeDriver(u)
    BY <1>3 DEF RowWritten
  <2>2. Pending(j) = IF u.at = "job" THEN {u.to} ELSE {}
    BY <2>1, PendingOnly
  <2>3. UpdatesOf(j) = {u} /\ AcceptsOf(j)' = {}
    BY <1>3, <2>1 DEF RowWritten, InTurn
  <2>4. u.job = j /\ u \in JobUpdate
    BY <2>1 DEF UpdatesOf, AppTypeOK
  <2>5. UpdatesOf(j)' \subseteq {At(u, "driver")}
    <3>1. updates' \subseteq (updates \ {u}) \cup {At(u, "driver")}
      BY <2>1 DEF WriteJob, FreeDriver
    <3> QED
      BY <2>3, <3>1 DEF UpdatesOf
  <2>6. At(u, "driver").at = "driver"
    BY <2>4 DEF At, JobUpdate
  <2>7. Pending(j)' = {}
    BY <2>3, <2>5, <2>6 DEF Pending
  <2>8. jobStatus'[j] = IF u.at = "job" THEN u.to ELSE jobStatus[j]
    BY <1>0, <2>1, <2>4 DEF WriteJob, FreeDriver, SetJob
  <2> QED
    BY <2>2, <2>7, <2>8 DEF Settles
<1> QED
  BY <1>1, <1>2, <1>3

\* A driver who has won a job has no answer about it under way.
LEMMA WinnerAnswered ==
  ASSUME AppTypeOK, OneTrace, NEW d \in Drivers, NEW j \in Jobs, Untouched(j), Won(d, j),
         up[d] # <<>>, Head(up[d]).job = j
  PROVE  Head(up[d]).kind \in Progress
<1>1. AnswersIn(up[d], j) = {}
  BY DEF OneTrace, Seen
<1>2. up[d] \in Seq(ToServer)
  BY DEF AppTypeOK
<1>3. Head(up[d]).kind \notin {"accept", "decline"}
  BY <1>1, <1>2, AboutRead DEF AnswersIn
<1> QED
  BY <1>3, HeadRead

\* An update that is read is the row's next write.
LEMMA ReadFollows ==
  ASSUME EngineInv, AppTypeOK, OneTrace, WritesEarned, [AppNext]_allVars,
         NEW d \in Drivers, NEW j \in Jobs, Undisturbed(j)', Won(d, j),
         Reads(d, j), Head(up[d]).job = j
  PROVE  RowRead(d, j)
<1>1. up[d] # <<>> /\ Handle(d) /\ Untouched(j)
  BY UndisturbedBefore DEF Reads, Undisturbed
<1>2. Head(up[d]).kind \in Progress
  BY <1>1, WinnerAnswered
<1> DEFINE u == [driver |-> d, job |-> j, to |-> Head(up[d]).kind, at |-> "job"]
<1>3. u \in UpdatesOf(j)' /\ UNCHANGED vars
  BY <1>1, <1>2 DEF Handle, UpdatesOf, Progress
<1>4. Won(d, j) /\ ~ Writing(j)
  <2>1. disturbed' = IF Won(d, j) /\ ~ Writing(j) THEN disturbed ELSE disturbed \cup {j}
    BY <1>1, <1>2 DEF Handle, Progress
  <2>2. j \notin disturbed'
    BY UndisturbedBefore
  <2> QED
    BY <2>1, <2>2
<1>5. UpdatesOf(j) = {} /\ AcceptsOf(j) = {}
  BY <1>4 DEF Writing, UpdatesOf, AcceptsOf
<1>6. CASE RowQuiet(j)
  BY <1>3, <1>5, <1>6 DEF RowQuiet
<1>7. CASE RowAccepted(j) \/ RowWritten(j)
  BY <1>5, <1>7 DEF RowAccepted, RowWritten
<1> QED
  BY <1>6, <1>7, RowStep

\* The row of a job follows its winner's screen.
LEMMA RowFollowsStep ==
  ASSUME EngineInv, AppTypeOK, LinesCut, ClearsArmed, Reported, OneTrace, WritesEarned,
         WritesInTurn, WritesInTurn', RowFollows, [AppNext]_allVars
  PROVE  RowFollows'
<1> SUFFICES ASSUME NEW d \in Drivers \ (lossy' \cup piled'), NEW j \in Jobs,
                    Won(d, j)', Undisturbed(j)', ~ UnderWay(up'[d], j)
             PROVE  Settles(j, Screen(d, j))'
  BY DEF RowFollows, Settles
<1>0. /\ d \notin lossy /\ d \notin piled /\ up[d] \in Seq(ToServer)
      /\ Undisturbed(j) /\ Untouched(j)
  BY PastGrows, GoesForward, UndisturbedBefore DEF Forward, AppTypeOK, Undisturbed
<1>1. ASSUME Reads(d, j), Head(up[d]).job = j
      PROVE  /\ Screen(d, j)' = Screen(d, j)
             /\ Head(up[d]).kind # "decline" => Screen(d, j) = Report(Head(up[d]))
  <2>1. up[d] # <<>> /\ ~ UnderWay(Tail(up[d]), j) /\ Screen(d, j)' = Screen(d, j)
    BY <1>1 DEF Reads
  <2>2. LastOf(up[d], 1, j) /\ Head(up[d]) = up[d][1]
    BY <1>0, <1>1, <2>1, LastRead
  <2>3. 1 \in DOMAIN up[d]
    BY <2>2 DEF LastOf
  <2> QED
    BY <1>0, <2>1, <2>2, <2>3 DEF Reported
<1>2. ASSUME Handle(d)
      PROVE  Reads(d, j)
  BY <1>0, <1>2 DEF Handle, Reads, Screen, screenVars, AppTypeOK
<1>3. CASE ~ Won(d, j)
  <2>1. /\ Reads(d, j) /\ Head(up[d]).kind = "accept" /\ Head(up[d]).job = j
        /\ UpdatesOf(j)' = {} /\ AcceptsOf(j)' # {}
        /\ \A a \in AcceptsOf(j)' : a.at = "assign"
    BY <1>2, <1>3, WinStep
  <2>2. Screen(d, j)' = "accepted"
    BY <1>1, <2>1 DEF Report
  <2>3. Pending(j)' = {"accepted"}
    BY <2>1 DEF Pending
  <2> QED
    BY <2>2, <2>3 DEF Settles
<1>4. CASE Won(d, j)
  <2>0. InTurn(j) /\ InTurn(j)'
    BY <1>0, <1>4 DEF WritesInTurn
  <2>1. CASE Reads(d, j) /\ Head(up[d]).job = j
    <3>1. RowRead(d, j)
      BY <1>4, <2>1, ReadFollows
    <3>2. Screen(d, j)' = Head(up[d]).kind
      BY <1>1, <2>1, <3>1 DEF RowRead, Report, Progress
    <3> DEFINE u == [driver |-> d, job |-> j, to |-> Head(up[d]).kind, at |-> "job"]
    <3>3. u.at = "job" /\ u.to = Head(up[d]).kind
      OBVIOUS
    <3>4. UpdatesOf(j)' = {u} /\ AcceptsOf(j)' = {}
      BY <3>1 DEF RowRead
    <3> HIDE DEF u
    <3>5. Pending(j)' = {Head(up[d]).kind}
      BY <3>3, <3>4 DEF Pending
    <3> QED
      BY <3>2, <3>5 DEF Settles
  <2>2. ASSUME ~ UnderWay(up[d], j), Screen(d, j)' = Screen(d, j),
               RowQuiet(j) \/ RowAccepted(j) \/ RowWritten(j)
        PROVE  Settles(j, Screen(d, j))'
    <3> DEFINE s == Screen(d, j)
    <3>1. Settles(j, s)
      BY <1>0, <1>4, <2>2 DEF RowFollows, Settles
    <3> HIDE DEF s
    <3>2. \A z : Settles(j, z) => Settles(j, z)'
      BY <1>0, <2>0, <2>2, SettlesStep
    <3>3. IF Pending(j)' = {} THEN jobStatus'[j] = s ELSE Pending(j)' = {s}
      BY <3>1, <3>2 DEF Settles
    <3> QED
      BY <2>2, <3>3 DEF Settles, s
  <2>3. CASE Reads(d, j) /\ Head(up[d]).job # j
    <3>1. ~ UnderWay(up[d], j)
      BY <1>0, <2>3, LastRead DEF Reads
    <3>2. ~ RowRead(d, j)
      BY <2>3 DEF RowRead
    <3> QED
      BY <1>4, <2>2, <2>3, <3>1, <3>2, RowStep DEF Reads
  <2>4. CASE Steady(d, j)
    <3>1. ~ RowRead(d, j)
      <4>1. ASSUME RowRead(d, j)
            PROVE  FALSE
        <5>1. Reads(d, j)
          BY <1>2, <4>1 DEF RowRead
        <5>2. up[d] # <<>> /\ Tail(up[d]) = up[d]
          BY <2>4, <5>1 DEF Reads, Steady
        <5>3. Len(up[d]) \in Nat /\ Len(Tail(up[d])) = Len(up[d]) - 1
          BY <1>0, <5>2, ReadLine
        <5>4. Len(up[d]) = Len(up[d]) - 1
          BY <5>2, <5>3
        <5> QED
          BY <5>3, <5>4
      <4> QED
        BY <4>1
    <3> QED
      BY <1>4, <2>2, <2>4, <3>1, RowStep DEF Steady
  <2>5. ASSUME NEW m \in ToServer, Sends(d, j, m)
        PROVE  Settles(j, Screen(d, j))'
    <3>1. up'[d] = Append(up[d], m) /\ UNCHANGED vars /\ updates' = updates
      BY <2>5 DEF Sends
    <3>2. /\ Len(up[d]) \in Nat /\ DOMAIN up[d] = 1 .. Len(up[d])
          /\ DOMAIN up'[d] = 1 .. (Len(up[d]) + 1)
          /\ \A i \in 1 .. Len(up[d]) : up'[d][i] = up[d][i]
          /\ up'[d][Len(up[d]) + 1] = m
      BY <1>0, <3>1, SentOn
    <3>3. m.job # j /\ ~ UnderWay(up[d], j)
      BY <3>2 DEF UnderWay
    <3>4. RowQuiet(j)
      BY <3>1 DEF RowQuiet, vars, dbVars, runVars, UpdatesOf, AcceptsOf
    <3> QED
      BY <2>2, <2>5, <3>3, <3>4 DEF Sends
  <2> QED
    BY <2>1, <2>3, <2>4, <2>5, LineStep
<1> QED
  BY <1>3, <1>4

\* Only an acceptance sends a driver on the way.
LEMMA BusyWhen ==
  ASSUME EngineInv, AppTypeOK, [AppNext]_allVars, NEW d \in Drivers,
         driverStatus'[d] = "en_route", driverStatus[d] # "en_route"
  PROVE  \E a \in accepts : a.driver = d /\ (MakeBusy(a) \/ AcceptFails(a))
<1>0. driverStatus \in [Drivers -> DriverStatus]
  BY DEF EngineInv, TypeOK
<1>1. CASE Engine
  <2>1. ASSUME NEW r \in Runs, NEW j \in Jobs, Enter(r, j)
        PROVE  driverStatus' = driverStatus
    BY <2>1 DEF Enter
  <2>2. ASSUME NEW k \in tasks,
               \/ AcquireLock(k) \/ FindCandidates(k) \/ ReleaseLock(k)
               \/ MarkOffered(k) \/ MarkPending(k) \/ SearchFails(k)
               \/ k.by # "timer" /\ UpdateFails(k)
        PROVE  driverStatus' = driverStatus
    BY <2>2 DEF AcquireLock, FindCandidates, ReleaseLock, MarkOffered, MarkPending,
       SearchFails, UpdateFails, dbVars
  <2>3. ASSUME NEW a \in accepts, AcceptStep(a) \/ AcceptFails(a)
        PROVE  a.driver = d /\ (MakeBusy(a) \/ AcceptFails(a))
    <3>1. ~ Assign(a) /\ ~ Unlock(a)
      BY DEF Assign, Unlock, dbVars
    <3> QED
      BY <1>0, <2>3, <3>1 DEF AcceptStep, MakeBusy, AcceptFails, dbVars
  <2>4. Tick => driverStatus' = driverStatus
    BY DEF Tick, dbVars
  <2> QED
    BY <1>1, <2>1, <2>2, <2>3, <2>4 DEF Engine, PostJob, Redispatch, Runs
<1>2. ASSUME NEW e \in Drivers, Link(e) \/ Drop(e)
      PROVE  FALSE
  BY <1>0, <1>2 DEF Link, Drop, SetStatus
<1>3. ASSUME NEW u \in updates, WriteJob(u) \/ FreeDriver(u) \/ RejectUpdate(u)
      PROVE  FALSE
  BY <1>0, <1>3 DEF WriteJob, FreeDriver, RejectUpdate
<1>4. ASSUME NEW e \in Drivers, Handle(e)
      PROVE  driverStatus' = driverStatus
  BY <1>4 DEF Handle, AcceptOffer, DeclineOffer, vars, dbVars
<1>5. ASSUME NEW e \in Drivers, Phone(e)
      PROVE  driverStatus' = driverStatus
  BY <1>5 DEF Phone, Deliver, Accept, Decline, Advance, ClearJob, vars, dbVars
<1>6. ASSUME \/ \E k \in tasks : Publish(k)
             \/ \E t \in timers : Expire(t)
             \/ Down \/ UNCHANGED allVars
      PROVE  driverStatus' = driverStatus
  BY <1>6 DEF Publish, PublishOffer, Expire, ExpireOffer, Down, Crash, UpdateFails,
     allVars, vars, dbVars
<1> QED
  BY <1>1, <1>2, <1>3, <1>4, <1>5, <1>6 DEF AppNext

\* A message stays under way until it is read.
LEMMA StaysUnderWay ==
  ASSUME AppTypeOK, NEW d \in Drivers, NEW j \in Jobs, UnderWay(up[d], j),
         Steady(d, j) \/ Reads(d, j) \/ \E m \in ToServer : Sends(d, j, m)
  PROVE  UnderWay(up'[d], j) \/ (Reads(d, j) /\ Head(up[d]).job = j)
<1>0. up[d] \in Seq(ToServer)
  BY DEF AppTypeOK
<1>1. CASE Steady(d, j)
  BY <1>1 DEF Steady
<1>2. CASE Reads(d, j)
  BY <1>0, <1>2, LastRead DEF Reads
<1>3. ASSUME NEW m \in ToServer, Sends(d, j, m)
      PROVE  UnderWay(up'[d], j)
  <2>1. up'[d] = Append(up[d], m)
    BY <1>3 DEF Sends
  <2>2. /\ Len(up[d]) \in Nat /\ DOMAIN up[d] = 1 .. Len(up[d])
        /\ DOMAIN up'[d] = 1 .. (Len(up[d]) + 1)
        /\ \A i \in 1 .. Len(up[d]) : up'[d][i] = up[d][i]
    BY <1>0, <2>1, SentOn
  <2> QED
    BY <2>2 DEF UnderWay
<1> QED
  BY <1>1, <1>2, <1>3

\* A job a driver owes work on is through only when the driver is freed.
LEMMA OwingStep ==
  ASSUME EngineInv, AppTypeOK, LinesCut, ClearsArmed, OneTrace, WritesEarned, WritesInTurn,
         [AppNext]_allVars,
         NEW d \in Drivers \ (lossy' \cup piled'), NEW j \in Jobs, Undisturbed(j)',
         Won(d, j), Owing(d, j)
  PROVE  Owing(d, j)' \/ driverStatus'[d] = "idle"
<1>0. /\ InTurn(j) /\ jobStatus \in [Jobs -> JobStatus]
      /\ driverStatus \in [Drivers -> DriverStatus] /\ Untouched(j) /\ j \notin disturbed
  BY UndisturbedBefore DEF WritesInTurn, EngineInv, TypeOK, Undisturbed
<1>1. Steady(d, j) \/ Reads(d, j) \/ \E m \in ToServer : Sends(d, j, m)
  BY LineStep
<1>2. CASE RowRead(d, j)
  BY <1>2 DEF RowRead, Owing
<1>3. ASSUME UnderWay(up[d], j), ~ RowRead(d, j)
      PROVE  UnderWay(up'[d], j)
  BY <1>1, <1>3, StaysUnderWay, ReadFollows
<1>4. CASE RowQuiet(j) /\ ~ RowRead(d, j)
  BY <1>3, <1>4 DEF RowQuiet, Owing
<1>5. CASE RowAccepted(j)
  <2>1. PICK a \in AcceptsOf(j) : AcceptStep(a)
    BY <1>5 DEF RowAccepted
  <2>2. job[a.run] = j /\ a.run \in Runs /\ a \in Acceptance
    BY <2>1 DEF AcceptsOf, EngineInv, TypeOK, Acceptance
  <2>3. CASE Unlock(a)
    <3>1. jobStatus' = jobStatus /\ a.at = "unlock"
      BY <2>3 DEF Unlock, dbVars
    <3>2. jobStatus[j] = "accepted"
      BY <1>0, <2>1, <3>1 DEF InTurn
    <3> QED
      BY <3>1, <3>2 DEF Owing
  <2>4. CASE Assign(a)
    <3>1. jobStatus'[j] = "accepted"
      BY <1>0, <2>2, <2>4 DEF Assign, SetJob
    <3> QED
      BY <3>1 DEF Owing
  <2>5. CASE MakeBusy(a)
    <3>1. jobStatus' = jobStatus /\ a.at = "busy"
      BY <2>5 DEF MakeBusy
    <3>2. jobStatus[j] = "accepted"
      BY <1>0, <2>1, <3>1 DEF InTurn
    <3> QED
      BY <3>1, <3>2 DEF Owing
  <2> QED
    BY <2>1, <2>3, <2>4, <2>5 DEF AcceptStep
<1>6. CASE RowWritten(j)
  <2>1. PICK u \in UpdatesOf(j) : WriteJob(u) \/ FreeDriver(u)
    BY <1>6 DEF RowWritten
  <2>2. u.job = j /\ u \in JobUpdate /\ u \in updates
    BY <2>1 DEF UpdatesOf, AppTypeOK
  <2>3. CASE WriteJob(u) /\ u.to = "completed"
    <3>1. At(u, "driver") \in updates'
      BY <2>3 DEF WriteJob
    <3>2. At(u, "driver").job = j
      BY <2>2 DEF At, JobUpdate
    <3> QED
      BY <3>1, <3>2 DEF Owing, UpdatesOf
  <2>4. CASE WriteJob(u) /\ u.to # "completed"
    <3>1. jobStatus'[j] = u.to
      BY <1>0, <2>2, <2>4 DEF WriteJob, SetJob
    <3> QED
      BY <2>4, <3>1 DEF Owing
  <2>5. CASE FreeDriver(u)
    <3>1. Won(u.driver, j) /\ u.driver \in Drivers
      BY <1>0, <2>2 DEF WritesEarned, JobUpdate
    <3>2. u.driver = d
      BY <1>0, <3>1, WonAlone
    <3> QED
      BY <1>0, <2>5, <3>2 DEF FreeDriver
  <2> QED
    BY <2>1, <2>3, <2>4, <2>5
<1> QED
  BY <1>2, <1>4, <1>5, <1>6, RowStep

\* A driver is on the way only while a job is not through.
LEMMA BusyForAJobStep ==
  ASSUME EngineInv, AppTypeOK, LinesCut, ClearsArmed, OneTrace, WritesEarned, WritesInTurn,
         BusyForAJob, [AppNext]_allVars
  PROVE  BusyForAJob'
<1> SUFFICES ASSUME NEW d \in Drivers \ (lossy' \cup piled'),
                    driverStatus'[d] = "en_route",
                    \A j \in Jobs : Won(d, j)' => Undisturbed(j)'
             PROVE  \E j \in Jobs : Won(d, j)' /\ Owing(d, j)'
  BY DEF BusyForAJob
<1>1. d \notin lossy /\ d \notin piled
  BY PastGrows, GoesForward DEF Forward
<1>2. CASE driverStatus[d] = "en_route"
  <2>1. \A j \in Jobs : Won(d, j) => Won(d, j)'
    BY WonWhen
  <2>2. \A j \in Jobs : Undisturbed(j)' => Undisturbed(j)
    BY UndisturbedBefore
  <2>3. PICK j \in Jobs : Won(d, j) /\ Owing(d, j)
    BY <1>1, <1>2, <2>1, <2>2 DEF BusyForAJob
  <2>4. Undisturbed(j)'
    BY <2>1, <2>3
  <2>5. Owing(d, j)' \/ driverStatus'[d] = "idle"
    BY <2>3, <2>4, OwingStep
  <2> QED
    BY <2>1, <2>3, <2>5
<1>3. CASE driverStatus[d] # "en_route"
  <2>1. PICK a \in accepts : a.driver = d /\ (MakeBusy(a) \/ AcceptFails(a))
    BY <1>3, BusyWhen
  <2>2. PICK j \in Jobs : job[a.run] = j
    BY DEF EngineInv, Underway
  <2>3. Won(d, j)
    BY <2>1, <2>2 DEF WritesEarned
  <2>4. Won(d, j)' /\ Undisturbed(j)'
    BY <2>3, WonWhen
  <2>5. ~ AcceptFails(a)
    BY <2>4, UndisturbedBefore, FailsOnce DEF AcceptFails
  <2>6. At(a, "unlock") \in accepts' /\ job' = job
    BY <2>1, <2>5 DEF MakeBusy, runVars
  <2>7. At(a, "unlock").run = a.run
    BY DEF At, EngineInv, TypeOK, Acceptance
  <2>8. At(a, "unlock") \in AcceptsOf(j)'
    BY <2>2, <2>6, <2>7 DEF AcceptsOf
  <2> QED
    BY <2>4, <2>8 DEF Owing
<1> QED
  BY <1>2, <1>3
-----------------------------------------------------------------------------
(* Phone and row agree. *)

\* It is so at the start.
LEMMA PhoneInvInit == AppInit => PhoneInv
<1> SUFFICES ASSUME AppInit
             PROVE  PhoneInv
  OBVIOUS
<1>1. /\ up = [d \in Drivers |-> <<>>] /\ down = [d \in Drivers |-> <<>>]
      /\ offer = [d \in Drivers |-> None] /\ current = [d \in Drivers |-> None]
      /\ clears = [d \in Drivers |-> 0] /\ updates = {} /\ accepts = {} /\ won = {}
      /\ driverStatus \in [Drivers -> {"offline", "idle"}]
  BY DEF AppInit, Init
<1>2. \A d, j : ~ Won(d, j)
  BY <1>1 DEF Won
<1>3. \A j \in Jobs : j # None
  BY NoneAssumption DEF Runs
<1>4. Reported /\ ClearsArmed
  BY <1>1 DEF Reported, ClearsArmed
<1>5. OneTrace
  BY <1>1, <1>3 DEF OneTrace, Single, Seen, OffersIn, AnswersIn, About
<1>6. WritesEarned /\ WritesInTurn /\ RowFollows
  BY <1>1, <1>2 DEF WritesEarned, WritesInTurn, RowFollows
<1>7. BusyForAJob
  BY <1>1 DEF BusyForAJob
<1> QED
  BY <1>4, <1>5, <1>6, <1>7 DEF PhoneInv

\* And stays so.
LEMMA PhoneInvStep == AppInv /\ PhoneInv /\ [AppNext]_allVars => PhoneInv'
<1> SUFFICES ASSUME AppInv, PhoneInv, [AppNext]_allVars
             PROVE  PhoneInv'
  OBVIOUS
<1>1. /\ EngineInv /\ AppTypeOK /\ LinesCut
      /\ Reported /\ ClearsArmed /\ OneTrace /\ WritesEarned /\ WritesInTurn
      /\ RowFollows /\ BusyForAJob
  BY DEF AppInv, PhoneInv
<1>2. lossy \subseteq lossy'
  BY <1>1, GoesForward DEF Forward
<1>3. Reported' /\ ClearsArmed' /\ OneTrace'
  BY <1>1, <1>2, ReportedStep, ClearsArmedStep, OneTraceStep
<1>4. WritesEarned' /\ WritesInTurn'
  BY <1>1, WritesEarnedStep, WritesInTurnStep
<1>5. RowFollows' /\ BusyForAJob'
  BY <1>1, <1>4, RowFollowsStep, BusyForAJobStep
<1> QED
  BY <1>3, <1>4, <1>5 DEF PhoneInv

LEMMA PhoneInvariance == AppSpec => []PhoneInv
BY PhoneInvInit, PhoneInvStep, AppInvariance, PTL DEF AppSpec, allVars

\* What is at rest is undisturbed, with nothing left to write.
LEMMA RestsUndisturbed ==
  ASSUME NEW d \in Drivers, NEW j \in Jobs, AtRest(d, j)
  PROVE  /\ Won(d, j) /\ Undisturbed(j) /\ d \notin lossy \cup piled
         /\ UpdatesOf(j) = {} /\ AcceptsOf(j) = {} /\ ~ UnderWay(up[d], j)
BY DEF AtRest, Undisturbed, Writing, UpdatesOf, AcceptsOf

\* Phone and row agree: once nothing about a job is under way, the winner's screen
\* shows it at the phase its status says, or the job is completed, as long as its
\* writes did not overlap and the driver took one job at a time (handleAcceptOffer,
\* advanceJobPhase and its timer, JOB_UPDATE, handleOfferAccepted).
THEOREM PhonesAgree == AppSpec => []PhoneAgrees
<1>1. PhoneInv => PhoneAgrees
  <2> SUFFICES ASSUME PhoneInv, NEW d \in Drivers, NEW j \in Jobs, AtRest(d, j)
               PROVE  jobStatus[j] = Screen(d, j)
    BY DEF PhoneAgrees, Screen
  <2>1. Pending(j) = {}
    BY RestsUndisturbed DEF Pending
  <2> QED
    BY <2>1, RestsUndisturbed DEF PhoneInv, RowFollows
<1> QED
  BY <1>1, PhoneInvariance, PTL

\* A driver whose jobs are all completed is not left busy (the second UPDATE of
\* JOB_UPDATE against those of handleOfferAccepted).
THEOREM DriversFreed == AppSpec => []FreedWhenDone
<1>1. PhoneInv => FreedWhenDone
  <2> SUFFICES ASSUME PhoneInv, NEW d \in Drivers, NEW i \in Jobs, Won(d, i),
                      \A j \in Jobs : Won(d, j) => AtRest(d, j) /\ jobStatus[j] = "completed",
                      driverStatus[d] = "en_route"
               PROVE  FALSE
    BY DEF FreedWhenDone
  <2>1. d \notin lossy \cup piled /\ \A j \in Jobs : Won(d, j) => Undisturbed(j)
    BY RestsUndisturbed
  <2>2. PICK j \in Jobs : Won(d, j) /\ Owing(d, j)
    BY <2>1 DEF PhoneInv, BusyForAJob
  <2> QED
    BY <2>2, RestsUndisturbed DEF Owing
<1> QED
  BY <1>1, PhoneInvariance, PTL
=============================================================================
