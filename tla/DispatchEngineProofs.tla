------------------------ MODULE DispatchEngineProofs ------------------------
(***************************************************************************)
(* Proofs about DispatchEngine, for any number of jobs, drivers and manual *)
(* dispatches, any candidate limit and TTLs, and any number of failures.   *)
(*                                                                         *)
(* IInv is inductive.  The safety invariants of DispatchEngine are not:    *)
(*   - an answer is harmless only because the registry entry it closes has *)
(*     its own timeout, which it takes along (EntryArmed), and because no  *)
(*     other part of that run is alive then (SingleThread);                *)
(*   - who wins depends on how far the cascade of the run has got, which   *)
(*     the index of whatever part of it is alive says (Cascade, Winners);  *)
(*   - a job on offer is owned by a part of a run that still has its       *)
(*     status to write (OfferOwned), and an accepted one by none           *)
(*     (Settled);                                                          *)
(*   - whatever is in progress belongs to a run that was given a job       *)
(*     (Underway).                                                         *)
(* There is one lemma per conjunct, with one step per action.              *)
(***************************************************************************)
EXTENDS DispatchEngine, TLAPS

\* Everything that is in progress or on record belongs to a run that was given
\* a job; the call POST /api/jobs makes is given the job it is named after.
Underway ==
  /\ \A k \in tasks : job[k.run] \in Jobs
  /\ \A t \in timers : job[t.run] \in Jobs
  /\ \A a \in accepts : job[a.run] \in Jobs
  /\ \A o \in offered : job[o.run] \in Jobs
  /\ \A w \in won : job[w.run] \in Jobs
  /\ \A j \in Jobs : job[j] \in {None, j}

\* The offers a run has sent are the first ones of its ranking, up to where the
\* handler or the timeout that carries the run on stands.
Cascade ==
  /\ CascadeOrder
  /\ \A k \in tasks : k.at \in {"lock", "search"} =>
       OffersOf(k.run) = {} /\ k.index = 1
  /\ \A k \in tasks : k.at \in {"mark", "publish"} => k.index \in DOMAIN cands[k.run]
  /\ \A t \in timers : OffersOf(t.run) = FirstOffers(t.run, t.index)

\* A run that was won neither offers the job any more nor waits for an answer.
Winners ==
  /\ LastOfferWins
  /\ \A w \in won : /\ \A k \in tasks : k.run # w.run
                    /\ \A t \in timers : t.run # w.run

\* The run still has to write the status of its job: it cannot leave it on offer.
OwesWrite(r) ==
  \/ \E k \in tasks : k.run = r /\ k.at \in {"mark", "publish", "pend"}
  \/ \E t \in timers : t.run = r
  \/ \E a \in accepts : a.run = r /\ a.at = "assign"

OfferOwned ==
  \A j \in Jobs : jobStatus[j] = "offered" /\ failures = 0 =>
    \E r \in Runs : job[r] = j /\ OwesWrite(r)

\* Nothing that would write the row of an accepted job is left.
Settled ==
  \A j \in Jobs : jobStatus[j] = "accepted" /\ Untouched(j) =>
    /\ \A k \in tasks : job[k.run] # j
    /\ \A t \in timers : job[t.run] # j
    /\ \A a \in accepts : job[a.run] = j => a.at # "assign"

IInv ==
  /\ TypeOK
  /\ Underway
  /\ SingleThread
  /\ Cascade
  /\ EntryArmed
  /\ Winners
  /\ HoldsLock
  /\ OfferAnswerable
  /\ OfferOwned
  /\ Settled
-----------------------------------------------------------------------------
(* Lemmas about the operators of the model. *)

\* A ranking of some drivers is a ranking of drivers.
LEMMA RankingsMono ==
  ASSUME NEW S \in SUBSET Drivers, NEW c \in Rankings(S)
  PROVE  c \in Rankings(Drivers)
BY DEF Rankings

\* A ranking is a sequence of drivers.
LEMMA RankingsDomain ==
  ASSUME NEW c \in Rankings(Drivers)
  PROVE  \E n \in Nat : DOMAIN c = 1 .. n /\ c \in [1 .. n -> Drivers]
BY LimitAssumption DEF Rankings

\* The search may find nobody.
LEMMA EmptyRanking == <<>> \in Rankings(Drivers)
BY LimitAssumption DEF Rankings

Stages == {"lock", "search", "mark", "publish", "pend", "release"}

\* Moving a handler on changes where it is and nothing else.
LEMMA TaskAt ==
  ASSUME NEW k \in Task, NEW s \in Stages
  PROVE  /\ At(k, s) \in Task
         /\ At(k, s).run = k.run
         /\ At(k, s).index = k.index
         /\ At(k, s).at = s
BY DEF Task, At, Stages

\* The same for a handler of an acceptance.
LEMMA AcceptAt ==
  ASSUME NEW a \in Acceptance, NEW s \in {"assign", "busy", "unlock"}
  PROVE  /\ At(a, s) \in Acceptance
         /\ At(a, s).run = a.run
         /\ At(a, s).driver = a.driver
         /\ At(a, s).at = s
BY DEF Acceptance, At

\* sendOfferToCandidate starts a step for the index it was given.
LEMMA SendOfferTask ==
  ASSUME NEW r \in Runs, NEW i \in Nat, NEW b \in {"dispatch", "timer", "decline"}
  PROVE  /\ SendOffer(r, i, b) \in Task
         /\ SendOffer(r, i, b).run = r
         /\ SendOffer(r, i, b).index = i
         /\ SendOffer(r, i, b).at \in {"mark", "pend"}
         /\ SendOffer(r, i, b).at = "mark" <=> i \in DOMAIN cands[r]
<1>1. CASE i \in DOMAIN cands[r]
  BY <1>1 DEF Task, SendOffer
<1>2. CASE i \notin DOMAIN cands[r]
  BY <1>2 DEF Task, SendOffer
<1> QED
  BY <1>1, <1>2

\* The offer of timeout t is taken off the table.
Withdrawn(t) ==
  /\ timers' = timers \ {t}
  /\ activeOffers' = [activeOffers EXCEPT ![job[t.run]] = None]

\* An answer that is heard meets the timeout of the offer it closes.
LEMMA AnswerMeetsTimer ==
  ASSUME TypeOK, Underway, EntryArmed, NEW o \in offered, Answers(o)
  PROVE  \E t \in timers :
           /\ job[o.run] \in Jobs
           /\ activeOffers[job[o.run]] = OfferOf(t)
           /\ job[t.run] = job[o.run]
           /\ DriverOf(o) = DriverOf(OfferOf(t))
<1>1. o.run \in Runs /\ job[o.run] \in Jobs
  BY DEF TypeOK, Underway, Offer
<1>2. PICK t \in timers : OfferOf(t) = activeOffers[job[o.run]]
  BY <1>1 DEF EntryArmed, Answers
<1>3. job[OfferOf(t).run] = job[o.run]
  BY <1>1, <1>2 DEF EntryArmed, Answers
<1> QED
  BY <1>1, <1>2, <1>3 DEF Answers, OfferOf

\* Taking an offer off the table takes its timeout, and no other.
LEMMA TakeOffTimer ==
  ASSUME TypeOK, SingleThread, NEW t \in timers, TakeOff(OfferOf(t))
  PROVE  Withdrawn(t)
<1>1. \A u \in timers : OfferOf(u) = OfferOf(t) <=> u = t
  BY DEF TypeOK, Timer, SingleThread, OfferOf
<1> QED
  BY <1>1 DEF TakeOff, Withdrawn, OfferOf

\* An offer goes to a driver of the ranking.
LEMMA OfferedDriver ==
  ASSUME TypeOK, NEW o \in offered
  PROVE  DriverOf(o) \in Drivers
<1>1. o.run \in Runs /\ o.index \in DOMAIN cands[o.run]
  BY DEF TypeOK, Offer
<1>2. cands[o.run] \in Rankings(Drivers)
  BY <1>1 DEF TypeOK
<1> QED
  BY <1>1, <1>2, RankingsDomain DEF DriverOf

\* What an accept or a decline does, said of the timeout it withdraws.
Accepting(o, t) ==
  /\ job[t.run] \in Jobs
  /\ activeOffers[job[t.run]] = OfferOf(t)
  /\ Withdrawn(t)
  /\ DriverOf(o) = DriverOf(OfferOf(t))
  /\ accepts' = accepts \cup
       {[run |-> t.run, driver |-> DriverOf(o), at |-> "assign"]}
  /\ won' = won \cup {[run |-> t.run, driver |-> DriverOf(o)]}
  /\ UNCHANGED <<dbVars, lockVars, runVars, tasks, offered, failures>>

\* What a decline or a timeout does: the run passes on to its next offer n.
Cascading(t, n) ==
  /\ job[t.run] \in Jobs
  /\ Withdrawn(t)
  /\ tasks' = tasks \cup {n}
  /\ n.run = t.run
  /\ n.index = t.index + 1
  /\ n.at \in {"mark", "pend"}
  /\ n.at = "mark" <=> n.index \in DOMAIN cands[n.run]
  /\ UNCHANGED <<dbVars, lockVars, runVars, accepts, offered, won, failures>>

\* What publishing an offer does: it arms the timeout t.
Publishing(k, t) ==
  /\ t.run = k.run /\ t.index = k.index
  /\ OfferOf(t) \in Offer
  /\ OfferOf(t).run = k.run /\ OfferOf(t).index = k.index
  /\ timers' = timers \cup {t}
  /\ activeOffers' = [activeOffers EXCEPT ![job[k.run]] = OfferOf(t)]
  /\ offered' = offered \cup {OfferOf(t)}
  /\ tasks' = tasks \ {k}
  /\ UNCHANGED <<dbVars, lockVars, runVars, accepts, won, failures>>

\* An acceptance closes the offer of one armed timeout.
LEMMA AcceptEffect ==
  ASSUME TypeOK, Underway, SingleThread, EntryArmed,
         NEW o \in offered, AcceptOffer(o)
  PROVE  \E t \in timers : Accepting(o, t)
<1>1. PICK t \in timers :
        /\ job[o.run] \in Jobs
        /\ activeOffers[job[o.run]] = OfferOf(t)
        /\ job[t.run] = job[o.run]
        /\ DriverOf(o) = DriverOf(OfferOf(t))
  BY AnswerMeetsTimer DEF AcceptOffer
<1>2. Withdrawn(t)
  BY <1>1, TakeOffTimer DEF AcceptOffer
<1>3. OfferOf(t).run = t.run
  BY DEF OfferOf
<1> QED
  BY <1>1, <1>2, <1>3 DEF AcceptOffer, Accepting

\* The step that follows a decline or a timeout is for the next index.
LEMMA NextOffer ==
  ASSUME TypeOK, NEW t \in timers, NEW b \in {"dispatch", "timer", "decline"},
         NEW n, n = SendOffer(t.run, t.index + 1, b)
  PROVE  /\ n \in Task
         /\ n.run = t.run
         /\ n.index = t.index + 1
         /\ n.at \in {"mark", "pend"}
         /\ n.at = "mark" <=> n.index \in DOMAIN cands[n.run]
<1>1. t.run \in Runs /\ t.index + 1 \in Nat
  BY DEF TypeOK, Timer
<1> QED
  BY <1>1, SendOfferTask

\* A decline moves the run of one armed timeout on.
LEMMA DeclineEffect ==
  ASSUME TypeOK, Underway, SingleThread, EntryArmed,
         NEW o \in offered, DeclineOffer(o)
  PROVE  \E t \in timers, n \in Task :
           Cascading(t, n) /\ activeOffers[job[t.run]] = OfferOf(t)
<1>1. PICK t \in timers :
        /\ job[o.run] \in Jobs
        /\ activeOffers[job[o.run]] = OfferOf(t)
        /\ job[t.run] = job[o.run]
  BY AnswerMeetsTimer DEF DeclineOffer
<1>2. Withdrawn(t)
  BY <1>1, TakeOffTimer DEF DeclineOffer
<1>3. OfferOf(t).run = t.run /\ OfferOf(t).index = t.index
  BY DEF OfferOf
<1> DEFINE n == SendOffer(t.run, t.index + 1, "decline")
<1>4. tasks' = tasks \cup {n}
  BY <1>1, <1>3 DEF DeclineOffer
<1>5. /\ n \in Task
      /\ n.run = t.run
      /\ n.index = t.index + 1
      /\ n.at \in {"mark", "pend"}
      /\ n.at = "mark" <=> n.index \in DOMAIN cands[n.run]
  BY NextOffer
<1> HIDE DEF n
<1> QED
  BY <1>1, <1>2, <1>4, <1>5 DEF DeclineOffer, Cascading

\* So does the timeout itself.
LEMMA ExpireEffect ==
  ASSUME TypeOK, Underway, NEW t \in timers, ExpireOffer(t)
  PROVE  \E n \in Task : Cascading(t, n)
<1> DEFINE n == SendOffer(t.run, t.index + 1, "timer")
<1>1. /\ n \in Task
      /\ n.run = t.run
      /\ n.index = t.index + 1
      /\ n.at \in {"mark", "pend"}
      /\ n.at = "mark" <=> n.index \in DOMAIN cands[n.run]
  BY NextOffer
<1>2. tasks' = tasks \cup {n} /\ job[t.run] \in Jobs
  BY DEF ExpireOffer, Underway
<1> HIDE DEF n
<1> QED
  BY <1>1, <1>2 DEF ExpireOffer, Cascading, Withdrawn

\* Publishing an offer arms its timeout.
LEMMA PublishEffect ==
  ASSUME TypeOK, NEW k \in tasks, PublishOffer(k)
  PROVE  \E t \in Timer : Publishing(k, t)
<1> DEFINE t == [run |-> k.run, index |-> k.index, left |-> OfferTtl]
<1>1. t \in Timer /\ t.run = k.run /\ t.index = k.index
  BY TtlAssumption DEF TypeOK, Timer, Task
<1>2. OfferOf(t) = OfferOf(k)
  BY DEF OfferOf
<1>3. timers' = timers \cup {t}
  BY DEF PublishOffer
<1>4. OfferOf(t) \in Offer /\ OfferOf(t).run = k.run /\ OfferOf(t).index = k.index
  BY DEF OfferOf, Offer, TypeOK, Task
<1> HIDE DEF t
<1> QED
  BY <1>1, <1>2, <1>3, <1>4 DEF PublishOffer, Publishing, Leave

\* What a run has offered changes only when an offer is published.
LEMMA OffersFrame ==
  ASSUME UNCHANGED offered
  PROVE  \A r : OffersOf(r)' = OffersOf(r)
BY DEF OffersOf

\* Before the first offer there are none.
LEMMA NoOffers == \A r : FirstOffers(r, 0) = {}
BY DEF FirstOffers

\* The first n offers have indices up to n.
LEMMA FirstOffersIndex ==
  ASSUME NEW r, NEW n \in Nat, NEW p \in FirstOffers(r, n)
  PROVE  p.index \in Nat /\ p.index <= n
BY DEF FirstOffers

\* The first n offers are the first n - 1 and the n-th.
LEMMA OneMoreOffer ==
  ASSUME NEW o, NEW r, NEW n \in Nat \ {0},
         o = [run |-> r, index |-> n]
  PROVE  FirstOffers(r, n) = FirstOffers(r, n - 1) \cup {o}
<1>1. 1 .. n = (1 .. (n - 1)) \cup {n}
  OBVIOUS
<1>2. ASSUME NEW x
      PROVE  x \in FirstOffers(r, n) <=> x \in FirstOffers(r, n - 1) \cup {o}
  BY <1>1 DEF FirstOffers
<1> QED
  BY <1>2

\* Time changes what is left to a timeout and nothing else about it.
LEMMA TickEffect ==
  ASSUME TypeOK, SingleThread, Tick
  PROVE  /\ timers' \subseteq Timer
         /\ \A u \in timers' : \E t \in timers : u.run = t.run /\ u.index = t.index
         /\ \A t \in timers : \E u \in timers' : u.run = t.run /\ u.index = t.index
         /\ \A u, v \in timers' : u.run = v.run => u = v
         /\ \A j \in Jobs \ lapsed' : j \notin lapsed /\ lock'[j].by = lock[j].by
         /\ UNCHANGED <<dbVars, runVars, activeOffers, offered, tasks, accepts,
                        won, failures>>
<1> DEFINE Aged(t) == [t EXCEPT !.left = IF @ > 0 THEN @ - 1 ELSE 0]
<1>1. \A t \in timers : Aged(t) \in Timer /\ Aged(t).run = t.run /\ Aged(t).index = t.index
  BY DEF TypeOK, Timer
<1>2. timers' = {Aged(t) : t \in timers}
  BY DEF Tick
<1>3. \A t, u \in timers : t.run = u.run => t = u
  BY DEF SingleThread, TypeOK, Timer
<1>4. \A j \in Jobs \ lapsed' : j \notin lapsed /\ lock'[j].by = lock[j].by
  BY DEF Tick, RunsOut, TypeOK
<1>5. UNCHANGED <<dbVars, runVars, activeOffers, offered, tasks, accepts, won,
                  failures>>
  BY DEF Tick
<1> HIDE DEF Aged
<1> QED
  BY <1>1, <1>2, <1>3, <1>4, <1>5
-----------------------------------------------------------------------------
(* Each conjunct of IInv is preserved by every step. *)

\* Every step keeps the types and stays within the candidates.
LEMMA TypeStep ==
  ASSUME TypeOK, Underway, SingleThread, Cascade, EntryArmed, [Next]_vars
  PROVE  TypeOK'
<1> USE DEF TypeOK, Stages, Offer, Timer, Task, Acceptance, Runs, JobStatus,
    DriverStatus
<1>1. ASSUME NEW j \in Jobs, PostJob(j)
      PROVE  TypeOK'
  BY <1>1 DEF PostJob, Enter, SetJob, dbVars, lockVars, runVars, offerVars
<1>2. ASSUME NEW r \in Redispatches, NEW j \in Jobs, Redispatch(r, j)
      PROVE  TypeOK'
  BY <1>2 DEF Redispatch, Enter, dbVars, lockVars, runVars, offerVars
<1>3. ASSUME NEW k \in tasks, AcquireLock(k)
      PROVE  TypeOK'
  BY <1>3, TaskAt, TtlAssumption DEF AcquireLock, Move, Leave, dbVars,
     lockVars, runVars, offerVars
<1>4. ASSUME NEW k \in tasks, FindCandidates(k)
      PROVE  TypeOK'
  <2>1. PICK c \in Rankings({d \in Drivers : driverStatus[d] = "idle"}) :
          /\ cands' = [cands EXCEPT ![k.run] = c]
          /\ Move(k, IF 1 \in DOMAIN c THEN "mark" ELSE "release")
    BY <1>4 DEF FindCandidates
  <2>2. c \in Rankings(Drivers)
    BY RankingsMono
  <2>3. \A o \in offered \cup timers : o.run # k.run
    BY <1>4 DEF FindCandidates, Cascade, SingleThread, OffersOf
  <2>4. tasks' \subseteq Task
    BY <2>1, TaskAt DEF Move
  <2> QED
    BY <1>4, <2>1, <2>2, <2>3, <2>4 DEF FindCandidates, dbVars, lockVars, offerVars
<1>5. ASSUME NEW k \in tasks, ReleaseLock(k)
      PROVE  TypeOK'
  BY <1>5 DEF ReleaseLock, Leave, Free, dbVars, lockVars, runVars, offerVars
<1>6. ASSUME NEW k \in tasks, MarkOffered(k)
      PROVE  TypeOK'
  <2>1. tasks' \subseteq Task
    BY <1>6, TaskAt DEF MarkOffered, Move
  <2> QED
    BY <1>6, <2>1 DEF MarkOffered, SetJob, dbVars, lockVars, runVars, offerVars
<1>7. ASSUME NEW k \in tasks, PublishOffer(k)
      PROVE  TypeOK'
  <2>1. PICK t \in Timer : Publishing(k, t)
    BY <1>7, PublishEffect
  <2>2. k.index \in DOMAIN cands[k.run]
    BY <1>7 DEF PublishOffer, Cascade
  <2>3. \A o \in offered' \cup timers' : o.index \in DOMAIN cands'[o.run]
    BY <2>1, <2>2 DEF Publishing, runVars
  <2> QED
    BY <2>1, <2>3 DEF Publishing, dbVars, lockVars, runVars, offerVars
<1>8. ASSUME NEW k \in tasks, MarkPending(k)
      PROVE  TypeOK'
  <2>1. tasks' \subseteq Task
    BY <1>8, TaskAt DEF MarkPending, Move
  <2> QED
    BY <1>8, <2>1 DEF MarkPending, SetJob, dbVars, lockVars, runVars, offerVars
<1>9. ASSUME NEW k \in tasks, SearchFails(k)
      PROVE  TypeOK'
  BY <1>9, TaskAt DEF SearchFails, Fail, Move, dbVars, lockVars, runVars,
     offerVars
<1>10. ASSUME NEW k \in tasks, UpdateFails(k)
      PROVE  TypeOK'
  BY <1>10, TaskAt DEF UpdateFails, Fail, MaybeSetJob, SetJob, Move, Leave,
     CrashEffect, dbVars, lockVars, runVars, offerVars
<1>11. ASSUME NEW t \in timers, ExpireOffer(t)
      PROVE  TypeOK'
  <2>1. PICK n \in Task : Cascading(t, n)
    BY <1>11, ExpireEffect
  <2> QED
    BY <2>1 DEF Cascading, Withdrawn, dbVars, lockVars, runVars, offerVars
<1>12. ASSUME NEW o \in offered, AcceptOffer(o)
      PROVE  TypeOK'
  <2>1. PICK t \in timers : Accepting(o, t)
    BY <1>12, AcceptEffect
  <2>2. accepts' \subseteq Acceptance /\ won' \subseteq [run : Runs, driver : Drivers]
    BY <2>1, OfferedDriver DEF Accepting
  <2>3. activeOffers' \in [Jobs -> Offer \cup {None}] /\ timers' \subseteq timers
    BY <2>1 DEF Accepting, Withdrawn
  <2> QED
    BY <2>1, <2>2, <2>3 DEF Accepting, dbVars, lockVars, runVars, offerVars
<1>13. ASSUME NEW o \in offered, DeclineOffer(o)
      PROVE  TypeOK'
  <2>1. PICK t \in timers, n \in Task : Cascading(t, n)
    BY <1>13, DeclineEffect
  <2> QED
    BY <2>1 DEF Cascading, Withdrawn, dbVars, lockVars, runVars, offerVars
<1>14. ASSUME NEW a \in accepts, Assign(a)
      PROVE  TypeOK'
  <2>1. /\ At(a, "busy") \in Acceptance
        /\ job[a.run] \in Jobs /\ a.driver \in Drivers
    BY AcceptAt DEF Underway
  <2> QED
    BY <1>14, <2>1 DEF Assign, SetJob, dbVars, lockVars, runVars, offerVars
<1>15. ASSUME NEW a \in accepts, MakeBusy(a)
      PROVE  TypeOK'
  BY <1>15, AcceptAt DEF MakeBusy, dbVars, lockVars, runVars, offerVars
<1>16. ASSUME NEW a \in accepts, Unlock(a)
      PROVE  TypeOK'
  BY <1>16 DEF Unlock, Free, dbVars, lockVars, runVars, offerVars
<1>17. ASSUME NEW a \in accepts, AcceptFails(a)
      PROVE  TypeOK'
  BY <1>17 DEF AcceptFails, Fail, SetJob, dbVars, lockVars, runVars, offerVars
<1>18. ASSUME NEW d \in Drivers, NEW s \in Patches, SetStatus(d, s)
      PROVE  TypeOK'
  BY <1>18, PatchAssumption DEF SetStatus, dbVars, lockVars, runVars,
     offerVars
<1>19. CASE Tick
  <2>1. timers' \subseteq Timer /\ \A u \in timers' : u.index \in DOMAIN cands[u.run]
    BY <1>19, TickEffect
  <2>2. lock' \in [Jobs -> [by : Runs \cup {None}, left : Nat]]
    BY <1>19 DEF Tick, Free
  <2> QED
    BY <1>19, <2>1, <2>2 DEF Tick, dbVars, lockVars, runVars, offerVars
<1>20. CASE Crash
  BY <1>20 DEF Crash, Fail, CrashEffect, dbVars, lockVars, runVars, offerVars
<1>21. CASE UNCHANGED vars
  BY <1>21 DEF vars, dbVars, lockVars, runVars, offerVars
<1> QED
  BY <1>1, <1>2, <1>3, <1>4, <1>5, <1>6, <1>7, <1>8, <1>9, <1>10, <1>11,
     <1>12, <1>13, <1>14, <1>15, <1>16, <1>17, <1>18, <1>19, <1>20, <1>21 DEF
     Next, TaskStep, AcceptStep

\* A run is given its job before anything else happens to it, and keeps it.
LEMMA UnderwayStep ==
  ASSUME TypeOK, Underway, SingleThread, EntryArmed, [Next]_vars
  PROVE  Underway'
<1> USE DEF TypeOK, Underway, Stages, Offer, Timer, Task, Acceptance, Runs
<1>1. ASSUME NEW j \in Jobs, PostJob(j)
      PROVE  Underway'
  BY <1>1 DEF PostJob, Enter, SetJob, dbVars, lockVars, runVars, offerVars
<1>2. ASSUME NEW r \in Redispatches, NEW j \in Jobs, Redispatch(r, j)
      PROVE  Underway'
  BY <1>2, RunsAssumption DEF Redispatch, Enter, dbVars, lockVars, runVars,
     offerVars
<1>3. ASSUME NEW k \in tasks, AcquireLock(k)
      PROVE  Underway'
  BY <1>3, TaskAt DEF AcquireLock, Move, Leave, dbVars, lockVars, runVars,
     offerVars
<1>4. ASSUME NEW k \in tasks, FindCandidates(k)
      PROVE  Underway'
  BY <1>4, TaskAt DEF FindCandidates, Move, dbVars, lockVars, runVars,
     offerVars
<1>5. ASSUME NEW k \in tasks, ReleaseLock(k)
      PROVE  Underway'
  BY <1>5 DEF ReleaseLock, Leave, Free, dbVars, lockVars, runVars, offerVars
<1>6. ASSUME NEW k \in tasks, MarkOffered(k)
      PROVE  Underway'
  BY <1>6, TaskAt DEF MarkOffered, SetJob, Move, dbVars, lockVars, runVars,
     offerVars
<1>7. ASSUME NEW k \in tasks, PublishOffer(k)
      PROVE  Underway'
  <2>1. PICK t \in Timer : Publishing(k, t)
    BY <1>7, PublishEffect
  <2> QED
    BY <1>7, <2>1 DEF Publishing, dbVars, lockVars, runVars, offerVars
<1>8. ASSUME NEW k \in tasks, MarkPending(k)
      PROVE  Underway'
  BY <1>8, TaskAt DEF MarkPending, SetJob, Move, dbVars, lockVars, runVars,
     offerVars
<1>9. ASSUME NEW k \in tasks, SearchFails(k)
      PROVE  Underway'
  BY <1>9, TaskAt DEF SearchFails, Fail, Move, dbVars, lockVars, runVars,
     offerVars
<1>10. ASSUME NEW k \in tasks, UpdateFails(k)
      PROVE  Underway'
  BY <1>10, TaskAt DEF UpdateFails, Fail, MaybeSetJob, SetJob, Move, Leave,
     CrashEffect, dbVars, lockVars, runVars, offerVars
<1>11. ASSUME NEW t \in timers, ExpireOffer(t)
      PROVE  Underway'
  <2>1. PICK n \in Task : Cascading(t, n)
    BY <1>11, ExpireEffect
  <2> QED
    BY <2>1 DEF Cascading, Withdrawn, dbVars, lockVars, runVars, offerVars
<1>12. ASSUME NEW o \in offered, AcceptOffer(o)
      PROVE  Underway'
  <2>1. PICK t \in timers : Accepting(o, t)
    BY <1>12, AcceptEffect
  <2> QED
    BY <2>1 DEF Accepting, Withdrawn, dbVars, lockVars, runVars, offerVars
<1>13. ASSUME NEW o \in offered, DeclineOffer(o)
      PROVE  Underway'
  <2>1. PICK t \in timers, n \in Task : Cascading(t, n)
    BY <1>13, DeclineEffect
  <2> QED
    BY <2>1 DEF Cascading, Withdrawn, dbVars, lockVars, runVars, offerVars
<1>14. ASSUME NEW a \in accepts, Assign(a)
      PROVE  Underway'
  BY <1>14, AcceptAt DEF Assign, SetJob, dbVars, lockVars, runVars, offerVars
<1>15. ASSUME NEW a \in accepts, MakeBusy(a)
      PROVE  Underway'
  BY <1>15, AcceptAt DEF MakeBusy, dbVars, lockVars, runVars, offerVars
<1>16. ASSUME NEW a \in accepts, Unlock(a)
      PROVE  Underway'
  BY <1>16 DEF Unlock, Free, dbVars, lockVars, runVars, offerVars
<1>17. ASSUME NEW a \in accepts, AcceptFails(a)
      PROVE  Underway'
  BY <1>17 DEF AcceptFails, Fail, SetJob, dbVars, lockVars, runVars, offerVars
<1>18. ASSUME NEW d \in Drivers, NEW s \in Patches, SetStatus(d, s)
      PROVE  Underway'
  BY <1>18 DEF SetStatus, dbVars, lockVars, runVars, offerVars
<1>19. CASE Tick
  BY <1>19, TickEffect DEF dbVars, lockVars, runVars, offerVars
<1>20. CASE Crash
  BY <1>20 DEF Crash, Fail, CrashEffect, dbVars, lockVars, runVars, offerVars
<1>21. CASE UNCHANGED vars
  BY <1>21 DEF vars, dbVars, lockVars, runVars, offerVars
<1> QED
  BY <1>1, <1>2, <1>3, <1>4, <1>5, <1>6, <1>7, <1>8, <1>9, <1>10, <1>11,
     <1>12, <1>13, <1>14, <1>15, <1>16, <1>17, <1>18, <1>19, <1>20, <1>21 DEF
     Next, TaskStep, AcceptStep

\* The registry lets one of an answer and the timeout go on, never both.
LEMMA SingleThreadStep ==
  ASSUME TypeOK, Underway, SingleThread, EntryArmed, [Next]_vars
  PROVE  SingleThread'
<1> USE DEF TypeOK, Underway, SingleThread, Stages, Offer, Timer, Task,
    Acceptance, Runs
<1>1. ASSUME NEW j \in Jobs, PostJob(j)
      PROVE  SingleThread'
  BY <1>1, NoneAssumption DEF PostJob, Enter, SetJob, dbVars, lockVars,
     runVars, offerVars
<1>2. ASSUME NEW r \in Redispatches, NEW j \in Jobs, Redispatch(r, j)
      PROVE  SingleThread'
  BY <1>2, NoneAssumption DEF Redispatch, Enter, dbVars, lockVars, runVars,
     offerVars
<1>3. ASSUME NEW k \in tasks, AcquireLock(k)
      PROVE  SingleThread'
  BY <1>3, TaskAt DEF AcquireLock, Move, Leave, dbVars, lockVars, runVars,
     offerVars
<1>4. ASSUME NEW k \in tasks, FindCandidates(k)
      PROVE  SingleThread'
  BY <1>4, TaskAt DEF FindCandidates, Move, dbVars, lockVars, runVars,
     offerVars
<1>5. ASSUME NEW k \in tasks, ReleaseLock(k)
      PROVE  SingleThread'
  BY <1>5 DEF ReleaseLock, Leave, Free, dbVars, lockVars, runVars, offerVars
<1>6. ASSUME NEW k \in tasks, MarkOffered(k)
      PROVE  SingleThread'
  BY <1>6, TaskAt DEF MarkOffered, SetJob, Move, dbVars, lockVars, runVars,
     offerVars
<1>7. ASSUME NEW k \in tasks, PublishOffer(k)
      PROVE  SingleThread'
  <2>1. PICK t \in Timer : Publishing(k, t)
    BY <1>7, PublishEffect
  <2> QED
    BY <1>7, <2>1 DEF Publishing, dbVars, lockVars, runVars, offerVars
<1>8. ASSUME NEW k \in tasks, MarkPending(k)
      PROVE  SingleThread'
  BY <1>8, TaskAt DEF MarkPending, SetJob, Move, dbVars, lockVars, runVars,
     offerVars
<1>9. ASSUME NEW k \in tasks, SearchFails(k)
      PROVE  SingleThread'
  BY <1>9, TaskAt DEF SearchFails, Fail, Move, dbVars, lockVars, runVars,
     offerVars
<1>10. ASSUME NEW k \in tasks, UpdateFails(k)
      PROVE  SingleThread'
  BY <1>10, TaskAt DEF UpdateFails, Fail, MaybeSetJob, SetJob, Move, Leave,
     CrashEffect, dbVars, lockVars, runVars, offerVars
<1>11. ASSUME NEW t \in timers, ExpireOffer(t)
      PROVE  SingleThread'
  <2>1. PICK n \in Task : Cascading(t, n)
    BY <1>11, ExpireEffect
  <2> QED
    BY <2>1 DEF Cascading, Withdrawn, dbVars, lockVars, runVars, offerVars
<1>12. ASSUME NEW o \in offered, AcceptOffer(o)
      PROVE  SingleThread'
  <2>1. PICK t \in timers : Accepting(o, t)
    BY <1>12, AcceptEffect
  <2> QED
    BY <2>1 DEF Accepting, Withdrawn, dbVars, lockVars, runVars, offerVars
<1>13. ASSUME NEW o \in offered, DeclineOffer(o)
      PROVE  SingleThread'
  <2>1. PICK t \in timers, n \in Task : Cascading(t, n)
    BY <1>13, DeclineEffect
  <2> QED
    BY <2>1 DEF Cascading, Withdrawn, dbVars, lockVars, runVars, offerVars
<1>14. ASSUME NEW a \in accepts, Assign(a)
      PROVE  SingleThread'
  BY <1>14, AcceptAt DEF Assign, SetJob, dbVars, lockVars, runVars, offerVars
<1>15. ASSUME NEW a \in accepts, MakeBusy(a)
      PROVE  SingleThread'
  BY <1>15, AcceptAt DEF MakeBusy, dbVars, lockVars, runVars, offerVars
<1>16. ASSUME NEW a \in accepts, Unlock(a)
      PROVE  SingleThread'
  BY <1>16 DEF Unlock, Free, dbVars, lockVars, runVars, offerVars
<1>17. ASSUME NEW a \in accepts, AcceptFails(a)
      PROVE  SingleThread'
  BY <1>17 DEF AcceptFails, Fail, SetJob, dbVars, lockVars, runVars, offerVars
<1>18. ASSUME NEW d \in Drivers, NEW s \in Patches, SetStatus(d, s)
      PROVE  SingleThread'
  BY <1>18 DEF SetStatus, dbVars, lockVars, runVars, offerVars
<1>19. CASE Tick
  BY <1>19, TickEffect DEF dbVars, lockVars, runVars, offerVars
<1>20. CASE Crash
  BY <1>20 DEF Crash, Fail, CrashEffect, dbVars, lockVars, runVars, offerVars
<1>21. CASE UNCHANGED vars
  BY <1>21 DEF vars, dbVars, lockVars, runVars, offerVars
<1> QED
  BY <1>1, <1>2, <1>3, <1>4, <1>5, <1>6, <1>7, <1>8, <1>9, <1>10, <1>11,
     <1>12, <1>13, <1>14, <1>15, <1>16, <1>17, <1>18, <1>19, <1>20, <1>21 DEF
     Next, TaskStep, AcceptStep

\* An entry goes when, and only when, its timeout does or another replaces it.
LEMMA EntryArmedStep ==
  ASSUME TypeOK, Underway, SingleThread, EntryArmed, [Next]_vars
  PROVE  EntryArmed'
<1> USE DEF TypeOK, Underway, SingleThread, EntryArmed, Stages, Offer, Timer,
    Task, Acceptance, Runs
<1>1. ASSUME NEW j \in Jobs, PostJob(j)
      PROVE  EntryArmed'
  BY <1>1, NoneAssumption DEF PostJob, Enter, SetJob, dbVars, lockVars,
     runVars, offerVars
<1>2. ASSUME NEW r \in Redispatches, NEW j \in Jobs, Redispatch(r, j)
      PROVE  EntryArmed'
  BY <1>2, NoneAssumption DEF Redispatch, Enter, dbVars, lockVars, runVars,
     offerVars
<1>3. ASSUME NEW k \in tasks, AcquireLock(k)
      PROVE  EntryArmed'
  BY <1>3, TaskAt DEF AcquireLock, Move, Leave, dbVars, lockVars, runVars,
     offerVars
<1>4. ASSUME NEW k \in tasks, FindCandidates(k)
      PROVE  EntryArmed'
  BY <1>4, TaskAt DEF FindCandidates, Move, dbVars, lockVars, runVars,
     offerVars
<1>5. ASSUME NEW k \in tasks, ReleaseLock(k)
      PROVE  EntryArmed'
  BY <1>5 DEF ReleaseLock, Leave, Free, dbVars, lockVars, runVars, offerVars
<1>6. ASSUME NEW k \in tasks, MarkOffered(k)
      PROVE  EntryArmed'
  BY <1>6, TaskAt DEF MarkOffered, SetJob, Move, dbVars, lockVars, runVars,
     offerVars
<1>7. ASSUME NEW k \in tasks, PublishOffer(k)
      PROVE  EntryArmed'
  <2>1. PICK t \in Timer : Publishing(k, t)
    BY <1>7, PublishEffect
  <2> QED
    BY <1>7, <2>1 DEF Publishing, dbVars, lockVars, runVars, offerVars
<1>8. ASSUME NEW k \in tasks, MarkPending(k)
      PROVE  EntryArmed'
  BY <1>8, TaskAt DEF MarkPending, SetJob, Move, dbVars, lockVars, runVars,
     offerVars
<1>9. ASSUME NEW k \in tasks, SearchFails(k)
      PROVE  EntryArmed'
  BY <1>9, TaskAt DEF SearchFails, Fail, Move, dbVars, lockVars, runVars,
     offerVars
<1>10. ASSUME NEW k \in tasks, UpdateFails(k)
      PROVE  EntryArmed'
  BY <1>10, TaskAt DEF UpdateFails, Fail, MaybeSetJob, SetJob, Move, Leave,
     CrashEffect, dbVars, lockVars, runVars, offerVars
<1>11. ASSUME NEW t \in timers, ExpireOffer(t)
      PROVE  EntryArmed'
  <2>1. PICK n \in Task : Cascading(t, n)
    BY <1>11, ExpireEffect
  <2> QED
    BY <2>1 DEF OfferOf, Cascading, Withdrawn, dbVars, lockVars, runVars, offerVars
<1>12. ASSUME NEW o \in offered, AcceptOffer(o)
      PROVE  EntryArmed'
  <2>1. PICK t \in timers : Accepting(o, t)
    BY <1>12, AcceptEffect
  <2> QED
    BY <2>1 DEF OfferOf, Accepting, Withdrawn, dbVars, lockVars, runVars, offerVars
<1>13. ASSUME NEW o \in offered, DeclineOffer(o)
      PROVE  EntryArmed'
  <2>1. PICK t \in timers, n \in Task : Cascading(t, n)
    BY <1>13, DeclineEffect
  <2> QED
    BY <2>1 DEF OfferOf, Cascading, Withdrawn, dbVars, lockVars, runVars, offerVars
<1>14. ASSUME NEW a \in accepts, Assign(a)
      PROVE  EntryArmed'
  BY <1>14, AcceptAt DEF Assign, SetJob, dbVars, lockVars, runVars, offerVars
<1>15. ASSUME NEW a \in accepts, MakeBusy(a)
      PROVE  EntryArmed'
  BY <1>15, AcceptAt DEF MakeBusy, dbVars, lockVars, runVars, offerVars
<1>16. ASSUME NEW a \in accepts, Unlock(a)
      PROVE  EntryArmed'
  BY <1>16 DEF Unlock, Free, dbVars, lockVars, runVars, offerVars
<1>17. ASSUME NEW a \in accepts, AcceptFails(a)
      PROVE  EntryArmed'
  BY <1>17 DEF AcceptFails, Fail, SetJob, dbVars, lockVars, runVars, offerVars
<1>18. ASSUME NEW d \in Drivers, NEW s \in Patches, SetStatus(d, s)
      PROVE  EntryArmed'
  BY <1>18 DEF SetStatus, dbVars, lockVars, runVars, offerVars
<1>19. CASE Tick
  <2>1. \A t \in timers : \E u \in timers' : OfferOf(u) = OfferOf(t)
    BY <1>19, TickEffect DEF OfferOf
  <2> QED
    BY <2>1, <1>19, TickEffect DEF dbVars, lockVars, runVars, offerVars
<1>20. CASE Crash
  BY <1>20 DEF Crash, Fail, CrashEffect, dbVars, lockVars, runVars, offerVars
<1>21. CASE UNCHANGED vars
  BY <1>21 DEF vars, dbVars, lockVars, runVars, offerVars
<1> QED
  BY <1>1, <1>2, <1>3, <1>4, <1>5, <1>6, <1>7, <1>8, <1>9, <1>10, <1>11,
     <1>12, <1>13, <1>14, <1>15, <1>16, <1>17, <1>18, <1>19, <1>20, <1>21 DEF
     Next, TaskStep, AcceptStep

\* A step that leaves the locks alone and engages nobody keeps HoldsLock.
LEMMA HoldsLockFrame ==
  ASSUME HoldsLock, UNCHANGED <<lock, lapsed, job>>,
         \A r \in Runs : Engaged(r)' => Engaged(r)
  PROVE  HoldsLock'
BY DEF HoldsLock

\* A handler that goes on past acquireLock engages no further run.
LEMMA EngagedMove ==
  ASSUME TypeOK, NEW k \in tasks, NEW s \in Stages \ {"lock"}, k.at # "lock",
         \A m \in tasks' : m \in tasks \/ m = At(k, s),
         \A m \in tasks : m \in tasks' \/ m = k,
         timers' \subseteq timers, accepts' \subseteq accepts
  PROVE  \A r \in Runs : Engaged(r)' => Engaged(r)
<1>1. At(k, s).run = k.run /\ At(k, s).at = s
  BY TaskAt DEF TypeOK
<1>2. \A r : InProgress(r)' => InProgress(r)
  BY <1>1 DEF InProgress
<1>3. \A r : Waiting(r) => Waiting(r)'
  BY DEF Waiting
<1> QED
  BY <1>2, <1>3 DEF Engaged

\* Nor does a handler inside handleOfferAccepted.
LEMMA EngagedAnswer ==
  ASSUME NEW a \in accepts, \A b \in accepts' : b \in accepts \/ b.run = a.run,
         UNCHANGED <<tasks, timers>>
  PROVE  \A r \in Runs : Engaged(r)' => Engaged(r)
BY DEF Engaged, InProgress, Waiting

\* Whoever frees a lock was the only run engaged on that job, or the lock had
\* lapsed.
LEMMA HoldsLockFree ==
  ASSUME TypeOK, HoldsLock, NEW r \in Runs, Engaged(r), ~ Engaged(r)',
         lock' = [lock EXCEPT ![job[r]] = Free], UNCHANGED <<lapsed, job>>,
         job[r] \in Jobs, \A q \in Runs : Engaged(q)' => Engaged(q),
         \A q \in Runs : Engaged(q)' => job[q] \in Jobs
  PROVE  HoldsLock'
<1>1. SUFFICES ASSUME NEW q \in Runs, Engaged(q)', job[q] \notin lapsed
               PROVE  lock'[job[q]].by = q
  BY DEF HoldsLock
<1>2. q # r /\ lock[job[q]].by = q /\ (job[r] = job[q] => lock[job[q]].by = r)
  BY <1>1 DEF HoldsLock
<1> QED
  BY <1>1, <1>2 DEF TypeOK

\* A run past its acquireLock goes on owning the lock, until the TTL.
LEMMA HoldsLockStep ==
  ASSUME TypeOK, Underway, SingleThread, EntryArmed, HoldsLock, [Next]_vars
  PROVE  HoldsLock'
<1> USE DEF TypeOK, Underway, SingleThread, EntryArmed, HoldsLock, Engaged,
    Waiting, InProgress, Stages, Offer, Timer, Task, Acceptance, Runs
<1>1. ASSUME NEW j \in Jobs, PostJob(j)
      PROVE  HoldsLock'
  BY <1>1, NoneAssumption DEF PostJob, Enter, SetJob, dbVars,
     lockVars, runVars, offerVars
<1>2. ASSUME NEW r \in Redispatches, NEW j \in Jobs, Redispatch(r, j)
      PROVE  HoldsLock'
  BY <1>2, NoneAssumption DEF Redispatch, Enter, dbVars,
     lockVars, runVars, offerVars
<1>a. \A r \in Runs : Engaged(r) => job[r] \in Jobs
  OBVIOUS
<1>3. ASSUME NEW k \in tasks, AcquireLock(k)
      PROVE  HoldsLock'
  <2>1. UNCHANGED <<timers, accepts, lapsed, job>> /\ job[k.run] \in Jobs
    BY <1>3 DEF AcquireLock, lockVars, runVars, offerVars
  <2>2. CASE tasks' = tasks \ {k} /\ UNCHANGED lock
    <3>1. \A r \in Runs : Engaged(r)' => Engaged(r)
      BY <2>1, <2>2
    <3> HIDE DEF Engaged, HoldsLock
    <3> QED
      BY <2>1, <2>2, <3>1, HoldsLockFrame
  <2>3. CASE /\ Move(k, "search") /\ lock[job[k.run]].by = None
             /\ lock' = [lock EXCEPT ![job[k.run]] =
                           [by |-> k.run, left |-> LockTtl]]
    <3>1. At(k, "search").run = k.run
      BY TaskAt
    <3>2. \A r \in Runs : Engaged(r)' => r = k.run \/ Engaged(r)
      BY <2>1, <2>3, <3>1 DEF Move
    <3>3. \A r \in Runs : Engaged(r) /\ job[r] = job[k.run] => job[r] \in lapsed
      BY <2>3, NoneAssumption
    <3> HIDE DEF Engaged
    <3> QED
      BY <1>a, <2>1, <2>3, <3>2, <3>3
  <2> QED
    BY <1>3, <2>2, <2>3 DEF AcquireLock, Leave
<1>5. ASSUME NEW k \in tasks, ReleaseLock(k)
      PROVE  HoldsLock'
  <2>1. /\ Engaged(k.run) /\ ~ Engaged(k.run)' /\ k.run \in Runs
        /\ \A r \in Runs : Engaged(r)' => Engaged(r)
    BY <1>5 DEF ReleaseLock, Leave, offerVars
  <2>2. /\ lock' = [lock EXCEPT ![job[k.run]] = Free]
        /\ UNCHANGED <<lapsed, job>> /\ job[k.run] \in Jobs
    BY <1>5 DEF ReleaseLock, runVars
  <2> HIDE DEF Engaged, HoldsLock, Runs
  <2> QED
    BY <1>a, <2>1, <2>2, HoldsLockFree
<1>7. ASSUME NEW k \in tasks, PublishOffer(k)
      PROVE  HoldsLock'
  <2>1. PICK t \in Timer : Publishing(k, t)
    BY <1>7, PublishEffect
  <2>2. \A r \in Runs : Engaged(r)' => Engaged(r)
    BY <1>7, <2>1 DEF Publishing, PublishOffer
  <2> QED
    BY <2>1, <2>2, HoldsLockFrame DEF Publishing, lockVars, runVars
<1>8. ASSUME NEW k \in tasks, NEW s \in Stages \ {"lock"}, k.at # "lock",
             \/ Move(k, s) /\ UNCHANGED <<timers, accepts>>
             \/ Leave(k) /\ UNCHANGED <<timers, accepts>>
             \/ CrashEffect,
             UNCHANGED <<lockVars, job>>
      PROVE  HoldsLock'
  <2>1. CASE CrashEffect
    BY <2>1 DEF CrashEffect
  <2>2. CASE (Move(k, s) \/ Leave(k)) /\ UNCHANGED <<timers, accepts>>
    <3>1. /\ \A m \in tasks' : m \in tasks \/ m = At(k, s)
          /\ \A m \in tasks : m \in tasks' \/ m = k
      BY <2>2 DEF Move, Leave
    <3> HIDE DEF Engaged, HoldsLock, TypeOK, Stages
    <3>2. \A r \in Runs : Engaged(r)' => Engaged(r)
      BY <1>8, <2>2, <3>1, EngagedMove
    <3> QED
      BY <1>8, <3>2, HoldsLockFrame DEF lockVars
  <2> QED
    BY <1>8, <2>1, <2>2
<1>9. ASSUME NEW k \in tasks,
             \/ FindCandidates(k) \/ MarkOffered(k) \/ MarkPending(k)
             \/ SearchFails(k) \/ UpdateFails(k)
      PROVE  HoldsLock'
  <2>1. k.at # "lock" /\ UNCHANGED <<lockVars, job>>
    BY <1>9 DEF FindCandidates, MarkOffered, MarkPending, SearchFails,
       UpdateFails, runVars
  <2>2. \/ /\ \E s \in Stages \ {"lock"} : Move(k, s) \/ Leave(k)
           /\ UNCHANGED <<timers, accepts>>
        \/ CrashEffect
    BY <1>9 DEF FindCandidates, MarkOffered, MarkPending, SearchFails,
       UpdateFails, offerVars
  <2> HIDE DEF HoldsLock, Stages
  <2>3. "release" \in Stages \ {"lock"}
    BY DEF Stages
  <2> QED
    BY <1>8, <2>1, <2>2, <2>3
<1>10. ASSUME NEW t \in timers, NEW n \in Task, Cascading(t, n)
      PROVE  HoldsLock'
  <2>1. \A r \in Runs : Engaged(r)' => r = t.run \/ Engaged(r)
    BY <1>10 DEF Cascading, Withdrawn
  <2>2. Engaged(t.run)
    OBVIOUS
  <2>3. UNCHANGED <<lock, lapsed, job>>
    BY <1>10 DEF Cascading, lockVars, runVars
  <2> HIDE DEF Engaged, HoldsLock
  <2>4. \A r \in Runs : Engaged(r)' => Engaged(r)
    BY <2>1, <2>2
  <2> QED
    BY <2>3, <2>4, HoldsLockFrame
<1>11. ASSUME NEW t \in timers, ExpireOffer(t)
      PROVE  HoldsLock'
  <2> HIDE DEF TypeOK, Underway, SingleThread, EntryArmed, HoldsLock
  <2> QED
    BY <1>10, <1>11, ExpireEffect
<1>12. ASSUME NEW o \in offered, AcceptOffer(o)
      PROVE  HoldsLock'
  <2>1. PICK t \in timers : Accepting(o, t)
    BY <1>12, AcceptEffect
  <2>2. Engaged(t.run)
    BY DEF Engaged
  <2>3. \A r \in Runs : Engaged(r)' => r = t.run \/ Engaged(r)
    BY <2>1 DEF Accepting, Withdrawn
  <2>4. \A r \in Runs : Engaged(r)' => Engaged(r)
    <3> HIDE DEF Engaged
    <3> QED
      BY <2>2, <2>3
  <2>5. UNCHANGED <<lock, lapsed, job>>
    BY <2>1 DEF Accepting, lockVars, runVars
  <2> HIDE DEF Engaged, HoldsLock
  <2> QED
    BY <2>4, <2>5, HoldsLockFrame
<1>13. ASSUME NEW o \in offered, DeclineOffer(o)
      PROVE  HoldsLock'
  <2> HIDE DEF TypeOK, Underway, SingleThread, EntryArmed, HoldsLock
  <2> QED
    BY <1>10, <1>13, DeclineEffect
<1>14. ASSUME NEW a \in accepts, Assign(a) \/ MakeBusy(a) \/ AcceptFails(a)
      PROVE  HoldsLock'
  <2>1. UNCHANGED <<tasks, timers, lock, lapsed, job>>
    BY <1>14 DEF Assign, MakeBusy, AcceptFails, lockVars, runVars, offerVars
  <2>2. \A b \in accepts' : b \in accepts \/ b.run = a.run
    BY <1>14, AcceptAt DEF Assign, MakeBusy, AcceptFails
  <2> HIDE DEF Engaged, HoldsLock
  <2>3. \A r \in Runs : Engaged(r)' => Engaged(r)
    BY <2>1, <2>2, EngagedAnswer
  <2> QED
    BY <2>1, <2>3, HoldsLockFrame
<1>16. ASSUME NEW a \in accepts, Unlock(a)
      PROVE  HoldsLock'
  <2>1. /\ Engaged(a.run) /\ ~ Engaged(a.run)' /\ a.run \in Runs
        /\ \A r \in Runs : Engaged(r)' => Engaged(r)
    BY <1>16 DEF Unlock, offerVars
  <2>2. /\ lock' = [lock EXCEPT ![job[a.run]] = Free]
        /\ UNCHANGED <<lapsed, job>> /\ job[a.run] \in Jobs
    BY <1>16 DEF Unlock, runVars
  <2> HIDE DEF Engaged, HoldsLock, Runs
  <2> QED
    BY <1>a, <2>1, <2>2, HoldsLockFree
<1>18. ASSUME NEW d \in Drivers, NEW s \in Patches, SetStatus(d, s)
      PROVE  HoldsLock'
  BY <1>18, NoneAssumption DEF SetStatus, dbVars, lockVars, runVars, offerVars
<1>19. CASE Tick
  BY <1>19, TickEffect DEF dbVars, lockVars, runVars, offerVars
<1>20. CASE Crash
  BY <1>20, NoneAssumption DEF Crash, Fail, CrashEffect, dbVars, lockVars,
     runVars, offerVars
<1>21. CASE UNCHANGED vars
  BY <1>21, NoneAssumption DEF vars, dbVars, lockVars, runVars, offerVars
<1> HIDE DEF HoldsLock
<1> QED
  BY <1>1, <1>2, <1>3, <1>5, <1>7, <1>9, <1>11, <1>12, <1>13, <1>14, <1>16,
     <1>18, <1>19, <1>20, <1>21
  DEF Next, TaskStep, AcceptStep

\* Only a second run, which the lock excludes, could replace the entry.
LEMMA AnswerableStep ==
  ASSUME TypeOK, Underway, SingleThread, EntryArmed, HoldsLock,
     OfferAnswerable, [Next]_vars
  PROVE  OfferAnswerable'
<1> USE DEF TypeOK, Underway, SingleThread, EntryArmed, HoldsLock, Engaged,
    Waiting, InProgress, Stages, Offer, Timer, Task, Acceptance, Runs,
    OfferAnswerable, OfferOf
<1>1. ASSUME NEW j \in Jobs, PostJob(j)
      PROVE  OfferAnswerable'
  BY <1>1, NoneAssumption DEF PostJob, Enter, SetJob, dbVars,
     lockVars, runVars, offerVars
<1>2. ASSUME NEW r \in Redispatches, NEW j \in Jobs, Redispatch(r, j)
      PROVE  OfferAnswerable'
  BY <1>2, NoneAssumption DEF Redispatch, Enter, dbVars,
     lockVars, runVars, offerVars
<1>3. ASSUME NEW k \in tasks, AcquireLock(k)
      PROVE  OfferAnswerable'
  BY <1>3, NoneAssumption, TaskAt DEF AcquireLock, Move, Leave, dbVars,
     lockVars, runVars, offerVars
<1>4. ASSUME NEW k \in tasks, FindCandidates(k)
      PROVE  OfferAnswerable'
  BY <1>4, NoneAssumption, TaskAt DEF FindCandidates, Move, dbVars, lockVars,
     runVars, offerVars
<1>5. ASSUME NEW k \in tasks, ReleaseLock(k)
      PROVE  OfferAnswerable'
  BY <1>5, NoneAssumption DEF ReleaseLock, Leave, Free, dbVars, lockVars,
     runVars, offerVars
<1>6. ASSUME NEW k \in tasks, MarkOffered(k)
      PROVE  OfferAnswerable'
  BY <1>6, NoneAssumption, TaskAt DEF MarkOffered, SetJob, Move, dbVars,
     lockVars, runVars, offerVars
<1>7. ASSUME NEW k \in tasks, PublishOffer(k)
      PROVE  OfferAnswerable'
  <2>1. PICK t \in Timer : Publishing(k, t)
    BY <1>7, PublishEffect
  <2>2. /\ k.run \in Runs /\ Engaged(k.run)
        /\ \A u \in timers : u.run # k.run /\ u.run \in Runs /\ Engaged(u.run)
    BY <1>7 DEF PublishOffer
  <2>3. \A u \in timers : job[u.run] = job[k.run] => job[k.run] \in lapsed
    <3> HIDE DEF Engaged, Runs
    <3> QED
      BY <2>2
  <2>4. /\ \A u \in timers' : u \in timers \/ u = t
        /\ t.run = k.run /\ job[k.run] \in Jobs
        /\ activeOffers' = [activeOffers EXCEPT ![job[k.run]] = OfferOf(t)]
        /\ UNCHANGED <<job, lapsed>>
    BY <2>1 DEF Publishing, lockVars, runVars
  <2>5. \A u \in timers : job[u.run] \in Jobs
    OBVIOUS
  <2>6. activeOffers \in [Jobs -> Offer \cup {None}]
    OBVIOUS
  <2> HIDE DEF TypeOK, Underway, SingleThread, EntryArmed, HoldsLock, Engaged,
               OfferOf, Offer, Task, Timer, Runs, OfferAnswerable
  <2>7. ASSUME NEW u \in timers', job[u.run] \notin lapsed
        PROVE  activeOffers'[job[u.run]] = OfferOf(u)
    <3>1. CASE u = t
      BY <2>4, <2>6, <3>1
    <3>2. CASE u \in timers
      BY <2>3, <2>4, <2>5, <2>6, <2>7, <3>2 DEF OfferAnswerable
    <3> QED
      BY <2>4, <3>1, <3>2
  <2> QED
    BY <2>4, <2>7 DEF OfferAnswerable
<1>8. ASSUME NEW k \in tasks, MarkPending(k)
      PROVE  OfferAnswerable'
  BY <1>8, NoneAssumption, TaskAt DEF MarkPending, SetJob, Move, dbVars,
     lockVars, runVars, offerVars
<1>9. ASSUME NEW k \in tasks, SearchFails(k)
      PROVE  OfferAnswerable'
  BY <1>9, NoneAssumption, TaskAt DEF SearchFails, Fail, Move, dbVars,
     lockVars, runVars, offerVars
<1>10. ASSUME NEW k \in tasks, UpdateFails(k)
      PROVE  OfferAnswerable'
  BY <1>10, NoneAssumption, TaskAt DEF UpdateFails, Fail, MaybeSetJob, SetJob,
     Move, Leave, CrashEffect, dbVars, lockVars, runVars, offerVars
<1>b. ASSUME NEW t \in timers, Withdrawn(t), UNCHANGED <<job, lapsed>>
      PROVE  OfferAnswerable'
  <2>1. \A u \in timers : u # t => u.run # t.run
    OBVIOUS
  <2>2. \A u \in timers : u.run \in Runs /\ Engaged(u.run) /\ job[u.run] \in Jobs
    OBVIOUS
  <2> HIDE DEF Engaged, Runs
  <2>3. \A u \in timers :
          u # t /\ job[u.run] = job[t.run] => job[u.run] \in lapsed
    BY <2>1, <2>2
  <2>4. activeOffers \in [Jobs -> Offer \cup {None}]
    OBVIOUS
  <2> HIDE DEF TypeOK, Underway, SingleThread, EntryArmed, HoldsLock, OfferOf,
               Offer, Timer, Task
  <2> QED
    BY <1>b, <2>2, <2>3, <2>4 DEF Withdrawn
<1>11. ASSUME NEW t \in timers, ExpireOffer(t)
      PROVE  OfferAnswerable'
  <2>1. PICK n \in Task : Cascading(t, n)
    BY <1>11, ExpireEffect
  <2> HIDE DEF OfferAnswerable
  <2> QED
    BY <1>b, <2>1 DEF Cascading, lockVars, runVars
<1>12. ASSUME NEW o \in offered, AcceptOffer(o)
      PROVE  OfferAnswerable'
  <2>1. PICK t \in timers : Accepting(o, t)
    BY <1>12, AcceptEffect
  <2> HIDE DEF OfferAnswerable
  <2> QED
    BY <1>b, <2>1 DEF Accepting, lockVars, runVars
<1>13. ASSUME NEW o \in offered, DeclineOffer(o)
      PROVE  OfferAnswerable'
  <2>1. PICK t \in timers, n \in Task : Cascading(t, n)
    BY <1>13, DeclineEffect
  <2> HIDE DEF OfferAnswerable
  <2> QED
    BY <1>b, <2>1 DEF Cascading, lockVars, runVars
<1>14. ASSUME NEW a \in accepts, Assign(a)
      PROVE  OfferAnswerable'
  BY <1>14, NoneAssumption, AcceptAt DEF Assign, SetJob, dbVars, lockVars,
     runVars, offerVars
<1>15. ASSUME NEW a \in accepts, MakeBusy(a)
      PROVE  OfferAnswerable'
  BY <1>15, NoneAssumption, AcceptAt DEF MakeBusy, dbVars, lockVars, runVars,
     offerVars
<1>16. ASSUME NEW a \in accepts, Unlock(a)
      PROVE  OfferAnswerable'
  BY <1>16, NoneAssumption DEF Unlock, Free, dbVars, lockVars, runVars,
     offerVars
<1>17. ASSUME NEW a \in accepts, AcceptFails(a)
      PROVE  OfferAnswerable'
  BY <1>17, NoneAssumption DEF AcceptFails, Fail, SetJob, dbVars, lockVars,
     runVars, offerVars
<1>18. ASSUME NEW d \in Drivers, NEW s \in Patches, SetStatus(d, s)
      PROVE  OfferAnswerable'
  BY <1>18, NoneAssumption DEF SetStatus, dbVars, lockVars, runVars, offerVars
<1>19. CASE Tick
  BY <1>19, TickEffect DEF dbVars, lockVars, runVars, offerVars
<1>20. CASE Crash
  BY <1>20, NoneAssumption DEF Crash, Fail, CrashEffect, dbVars, lockVars,
     runVars, offerVars
<1>21. CASE UNCHANGED vars
  BY <1>21, NoneAssumption DEF vars, dbVars, lockVars, runVars, offerVars
<1> QED
  BY <1>1, <1>2, <1>3, <1>4, <1>5, <1>6, <1>7, <1>8, <1>9, <1>10, <1>11,
     <1>12, <1>13, <1>14, <1>15, <1>16, <1>17, <1>18, <1>19, <1>20, <1>21 DEF
     Next, TaskStep, AcceptStep

\* A step that takes no duty away keeps OfferOwned.
LEMMA OwnedFrame ==
  ASSUME OfferOwned, UNCHANGED <<jobStatus, job, failures>>,
         \A r \in Runs : OwesWrite(r) => OwesWrite(r)'
  PROVE  OfferOwned'
BY DEF OfferOwned

\* A step that leaves a job on offer hands the duty to settle it on.
LEMMA OwnedStep ==
  ASSUME TypeOK, Underway, SingleThread, EntryArmed, OfferOwned, [Next]_vars
  PROVE  OfferOwned'
<1> USE DEF TypeOK, Underway, OfferOwned, OwesWrite, Stages, Offer, Timer,
    Task, Acceptance, Runs
<1>1. ASSUME NEW j \in Jobs, PostJob(j)
      PROVE  OfferOwned'
  BY <1>1, NoneAssumption DEF PostJob, Enter, SetJob, dbVars, lockVars,
     runVars, offerVars
<1>2. ASSUME NEW r \in Redispatches, NEW j \in Jobs, Redispatch(r, j)
      PROVE  OfferOwned'
  BY <1>2, NoneAssumption DEF Redispatch, Enter, dbVars, lockVars, runVars,
     offerVars
<1>3. ASSUME NEW k \in tasks, AcquireLock(k)
      PROVE  OfferOwned'
  BY <1>3, NoneAssumption, TaskAt DEF AcquireLock, Move, Leave, dbVars,
     lockVars, runVars, offerVars
<1>4. ASSUME NEW k \in tasks, FindCandidates(k)
      PROVE  OfferOwned'
  BY <1>4, NoneAssumption, TaskAt DEF FindCandidates, Move, dbVars, lockVars,
     runVars, offerVars
<1>5. ASSUME NEW k \in tasks, ReleaseLock(k)
      PROVE  OfferOwned'
  BY <1>5, NoneAssumption DEF ReleaseLock, Leave, Free, dbVars, lockVars,
     runVars, offerVars
<1>6. ASSUME NEW k \in tasks, MarkOffered(k)
      PROVE  OfferOwned'
  BY <1>6, NoneAssumption, TaskAt DEF MarkOffered, SetJob, Move, dbVars,
     lockVars, runVars, offerVars
<1>7. ASSUME NEW k \in tasks, PublishOffer(k)
      PROVE  OfferOwned'
  <2>1. PICK t \in Timer : Publishing(k, t)
    BY <1>7, PublishEffect
  <2> QED
    BY <1>7, <2>1 DEF Publishing, dbVars, lockVars, runVars, offerVars
<1>8. ASSUME NEW k \in tasks, MarkPending(k)
      PROVE  OfferOwned'
  BY <1>8, NoneAssumption, TaskAt DEF MarkPending, SetJob, Move, dbVars,
     lockVars, runVars, offerVars
<1>9. ASSUME NEW k \in tasks, SearchFails(k)
      PROVE  OfferOwned'
  BY <1>9, NoneAssumption, TaskAt DEF SearchFails, Fail, Move, dbVars,
     lockVars, runVars, offerVars
<1>10. ASSUME NEW k \in tasks, UpdateFails(k)
      PROVE  OfferOwned'
  BY <1>10, NoneAssumption, TaskAt DEF UpdateFails, Fail, MaybeSetJob, SetJob,
     Move, Leave, CrashEffect, dbVars, lockVars, runVars, offerVars
<1>11. ASSUME NEW t \in timers, ExpireOffer(t)
      PROVE  OfferOwned'
  <2>1. PICK n \in Task : Cascading(t, n)
    BY <1>11, ExpireEffect
  <2> QED
    BY <2>1 DEF Cascading, Withdrawn, dbVars, lockVars, runVars, offerVars
<1>12. ASSUME NEW o \in offered, AcceptOffer(o)
      PROVE  OfferOwned'
  <2>1. PICK t \in timers : Accepting(o, t)
    BY <1>12, AcceptEffect
  <2>2. OwesWrite(t.run)'
    <3> DEFINE a == [run |-> t.run, driver |-> DriverOf(o), at |-> "assign"]
    <3>1. a \in accepts'
      BY <2>1 DEF Accepting
    <3>2. a.run = t.run /\ a.at = "assign"
      OBVIOUS
    <3> QED
      BY <3>1, <3>2 DEF OwesWrite
  <2>3. \A r \in Runs : OwesWrite(r) => r = t.run \/ OwesWrite(r)'
    BY <2>1 DEF Accepting, Withdrawn
  <2> HIDE DEF OwesWrite
  <2> QED
    BY <2>1, <2>2, <2>3, OwnedFrame DEF Accepting, dbVars, runVars
<1>13. ASSUME NEW o \in offered, DeclineOffer(o)
      PROVE  OfferOwned'
  <2>1. PICK t \in timers, n \in Task : Cascading(t, n)
    BY <1>13, DeclineEffect
  <2> QED
    BY <2>1 DEF Cascading, Withdrawn, dbVars, lockVars, runVars, offerVars
<1>14. ASSUME NEW a \in accepts, Assign(a)
      PROVE  OfferOwned'
  BY <1>14, NoneAssumption, AcceptAt DEF Assign, SetJob, dbVars, lockVars,
     runVars, offerVars
<1>15. ASSUME NEW a \in accepts, MakeBusy(a)
      PROVE  OfferOwned'
  BY <1>15, NoneAssumption, AcceptAt DEF MakeBusy, dbVars, lockVars, runVars,
     offerVars
<1>16. ASSUME NEW a \in accepts, Unlock(a)
      PROVE  OfferOwned'
  BY <1>16, NoneAssumption DEF Unlock, Free, dbVars, lockVars, runVars,
     offerVars
<1>17. ASSUME NEW a \in accepts, AcceptFails(a)
      PROVE  OfferOwned'
  BY <1>17, NoneAssumption DEF AcceptFails, Fail, SetJob, dbVars, lockVars,
     runVars, offerVars
<1>18. ASSUME NEW d \in Drivers, NEW s \in Patches, SetStatus(d, s)
      PROVE  OfferOwned'
  BY <1>18, NoneAssumption DEF SetStatus, dbVars, lockVars, runVars, offerVars
<1>19. CASE Tick
  BY <1>19, TickEffect DEF dbVars, lockVars, runVars, offerVars
<1>20. CASE Crash
  BY <1>20, NoneAssumption DEF Crash, Fail, CrashEffect, dbVars, lockVars,
     runVars, offerVars
<1>21. CASE UNCHANGED vars
  BY <1>21, NoneAssumption DEF vars, dbVars, lockVars, runVars, offerVars
<1> QED
  BY <1>1, <1>2, <1>3, <1>4, <1>5, <1>6, <1>7, <1>8, <1>9, <1>10, <1>11,
     <1>12, <1>13, <1>14, <1>15, <1>16, <1>17, <1>18, <1>19, <1>20, <1>21 DEF
     Next, TaskStep, AcceptStep

\* The run that was won is past its last write once the job is accepted.
LEMMA SettledStep ==
  ASSUME TypeOK, Underway, SingleThread, EntryArmed, Settled, [Next]_vars
  PROVE  Settled'
<1> USE DEF TypeOK, Underway, SingleThread, Settled, Untouched, Stages, Offer,
    Timer, Task, Acceptance, Runs
<1>1. ASSUME NEW j \in Jobs, PostJob(j)
      PROVE  Settled'
  BY <1>1, NoneAssumption, RunsAssumption DEF PostJob, Enter, SetJob, dbVars,
     lockVars, runVars, offerVars
<1>2. ASSUME NEW r \in Redispatches, NEW j \in Jobs, Redispatch(r, j)
      PROVE  Settled'
  BY <1>2, NoneAssumption, RunsAssumption DEF Redispatch, Enter, dbVars,
     lockVars, runVars, offerVars
<1>3. ASSUME NEW k \in tasks, AcquireLock(k)
      PROVE  Settled'
  BY <1>3, NoneAssumption, RunsAssumption, TaskAt DEF AcquireLock, Move,
     Leave, dbVars, lockVars, runVars, offerVars
<1>4. ASSUME NEW k \in tasks, FindCandidates(k)
      PROVE  Settled'
  BY <1>4, NoneAssumption, RunsAssumption, TaskAt DEF FindCandidates, Move,
     dbVars, lockVars, runVars, offerVars
<1>5. ASSUME NEW k \in tasks, ReleaseLock(k)
      PROVE  Settled'
  BY <1>5, NoneAssumption, RunsAssumption DEF ReleaseLock, Leave, Free,
     dbVars, lockVars, runVars, offerVars
<1>6. ASSUME NEW k \in tasks, MarkOffered(k)
      PROVE  Settled'
  BY <1>6, NoneAssumption, RunsAssumption, TaskAt DEF MarkOffered, SetJob,
     Move, dbVars, lockVars, runVars, offerVars
<1>7. ASSUME NEW k \in tasks, PublishOffer(k)
      PROVE  Settled'
  <2>1. PICK t \in Timer : Publishing(k, t)
    BY <1>7, PublishEffect
  <2> QED
    BY <1>7, <2>1 DEF Publishing, dbVars, lockVars, runVars, offerVars
<1>8. ASSUME NEW k \in tasks, MarkPending(k)
      PROVE  Settled'
  BY <1>8, NoneAssumption, RunsAssumption, TaskAt DEF MarkPending, SetJob,
     Move, dbVars, lockVars, runVars, offerVars
<1>9. ASSUME NEW k \in tasks, SearchFails(k)
      PROVE  Settled'
  BY <1>9, NoneAssumption, RunsAssumption, TaskAt DEF SearchFails, Fail, Move,
     dbVars, lockVars, runVars, offerVars
<1>10. ASSUME NEW k \in tasks, UpdateFails(k)
      PROVE  Settled'
  BY <1>10, NoneAssumption, RunsAssumption, TaskAt DEF UpdateFails, Fail,
     MaybeSetJob, SetJob, Move, Leave, CrashEffect, dbVars, lockVars, runVars,
     offerVars
<1>11. ASSUME NEW t \in timers, ExpireOffer(t)
      PROVE  Settled'
  <2>1. PICK n \in Task : Cascading(t, n)
    BY <1>11, ExpireEffect
  <2> QED
    BY <2>1 DEF Cascading, Withdrawn, dbVars, lockVars, runVars, offerVars
<1>12. ASSUME NEW o \in offered, AcceptOffer(o)
      PROVE  Settled'
  <2>1. PICK t \in timers : Accepting(o, t)
    BY <1>12, AcceptEffect
  <2> QED
    BY <2>1 DEF Accepting, Withdrawn, dbVars, lockVars, runVars, offerVars
<1>13. ASSUME NEW o \in offered, DeclineOffer(o)
      PROVE  Settled'
  <2>1. PICK t \in timers, n \in Task : Cascading(t, n)
    BY <1>13, DeclineEffect
  <2> QED
    BY <2>1 DEF Cascading, Withdrawn, dbVars, lockVars, runVars, offerVars
<1>14. ASSUME NEW a \in accepts, Assign(a)
      PROVE  Settled'
  BY <1>14, NoneAssumption, RunsAssumption, AcceptAt DEF Assign, SetJob,
     dbVars, lockVars, runVars, offerVars
<1>15. ASSUME NEW a \in accepts, MakeBusy(a)
      PROVE  Settled'
  BY <1>15, NoneAssumption, RunsAssumption, AcceptAt DEF MakeBusy, dbVars,
     lockVars, runVars, offerVars
<1>16. ASSUME NEW a \in accepts, Unlock(a)
      PROVE  Settled'
  BY <1>16, NoneAssumption, RunsAssumption DEF Unlock, Free, dbVars, lockVars,
     runVars, offerVars
<1>17. ASSUME NEW a \in accepts, AcceptFails(a)
      PROVE  Settled'
  BY <1>17, NoneAssumption, RunsAssumption DEF AcceptFails, Fail, SetJob,
     dbVars, lockVars, runVars, offerVars
<1>18. ASSUME NEW d \in Drivers, NEW s \in Patches, SetStatus(d, s)
      PROVE  Settled'
  BY <1>18, NoneAssumption, RunsAssumption DEF SetStatus, dbVars, lockVars,
     runVars, offerVars
<1>19. CASE Tick
  BY <1>19, TickEffect DEF dbVars, lockVars, runVars, offerVars
<1>20. CASE Crash
  BY <1>20, NoneAssumption, RunsAssumption DEF Crash, Fail, CrashEffect,
     dbVars, lockVars, runVars, offerVars
<1>21. CASE UNCHANGED vars
  BY <1>21, NoneAssumption, RunsAssumption DEF vars, dbVars, lockVars,
     runVars, offerVars
<1> QED
  BY <1>1, <1>2, <1>3, <1>4, <1>5, <1>6, <1>7, <1>8, <1>9, <1>10, <1>11,
     <1>12, <1>13, <1>14, <1>15, <1>16, <1>17, <1>18, <1>19, <1>20, <1>21 DEF
     Next, TaskStep, AcceptStep

\* The ways a step may move the handlers of a run without an offer being made.
Stays(m) ==
  \/ m \in tasks \/ m.at = "release"
  \/ \E k \in tasks : /\ m.run = k.run /\ m.index = k.index
                      /\ <<k.at, m.at>> \in {<<"lock", "search">>, <<"mark", "publish">>}

\* A step that publishes nothing keeps Cascade.
LEMMA CascadeFrame ==
  ASSUME Cascade, UNCHANGED <<cands, offered>>,
         \A m \in tasks' : Stays(m),
         \A u \in timers' : \E t \in timers : u.run = t.run /\ u.index = t.index
  PROVE  Cascade'
<1>1. \A r : OffersOf(r)' = OffersOf(r)
  BY OffersFrame
<1> QED
  BY <1>1 DEF Cascade, CascadeOrder, Stays

\* The cascade makes one offer at a time, in the order of the ranking.
LEMMA CascadeStep ==
  ASSUME TypeOK, Underway, SingleThread, Cascade, EntryArmed, [Next]_vars
  PROVE  Cascade'
<1> USE DEF TypeOK, Timer, Task, Stages, Stays
<1>1. ASSUME NEW j \in Jobs, PostJob(j)
      PROVE  Cascade'
  <2>1. OffersOf(j) = {}
    BY <1>1, NoneAssumption DEF PostJob, Enter, OffersOf, Underway, Runs
  <2>2. \A r : OffersOf(r)' = OffersOf(r)
    BY <1>1, OffersFrame DEF PostJob, Enter, offerVars
  <2>3. \A m \in tasks' :
          m \in tasks \/ (m.run = j /\ m.index = 1 /\ m.at = "lock")
    BY <1>1 DEF PostJob, Enter
  <2>4. UNCHANGED <<cands, timers>>
    BY <1>1 DEF PostJob, Enter, offerVars
  <2> QED
    BY <2>1, <2>2, <2>3, <2>4 DEF Cascade, CascadeOrder
<1>2. ASSUME NEW r \in Redispatches, NEW j \in Jobs, Redispatch(r, j)
      PROVE  Cascade'
  <2>1. OffersOf(r) = {}
    BY <1>2, NoneAssumption DEF Redispatch, Enter, OffersOf, Underway, Runs
  <2>2. \A q : OffersOf(q)' = OffersOf(q)
    BY <1>2, OffersFrame DEF Redispatch, Enter, offerVars
  <2>3. \A m \in tasks' :
          m \in tasks \/ (m.run = r /\ m.index = 1 /\ m.at = "lock")
    BY <1>2 DEF Redispatch, Enter
  <2>4. UNCHANGED <<cands, timers>>
    BY <1>2 DEF Redispatch, Enter, offerVars
  <2> QED
    BY <2>1, <2>2, <2>3, <2>4 DEF Cascade, CascadeOrder
<1>3. ASSUME NEW k \in tasks, AcquireLock(k)
      PROVE  Cascade'
  BY <1>3, CascadeFrame, TaskAt DEF AcquireLock, Move, Leave,
     runVars, offerVars
<1>4. ASSUME NEW k \in tasks, FindCandidates(k)
      PROVE  Cascade'
  <2>1. \A r : OffersOf(r)' = OffersOf(r)
    BY <1>4, OffersFrame DEF FindCandidates, offerVars
  <2>2. OffersOf(k.run) = FirstOffers(k.run, k.index - 1) /\ k.index = 1
    <3>1. OffersOf(k.run) = {} /\ k.index = 1
      BY <1>4 DEF FindCandidates, Cascade
    <3> QED
      BY <3>1, NoOffers
  <2>3. \A r \in Runs : r # k.run => cands'[r] = cands[r]
    BY <1>4 DEF FindCandidates
  <2>4. PICK m \in Task :
          /\ tasks' = (tasks \ {k}) \cup {m}
          /\ m.run = k.run /\ m.index = k.index
          /\ m.at \in {"mark", "release"}
          /\ m.at = "mark" => 1 \in DOMAIN cands'[k.run]
    BY <1>4, TaskAt DEF FindCandidates, Move
  <2>5. \A q \in tasks \ {k} : q.run # k.run /\ q.run \in Runs
    BY DEF SingleThread
  <2>6. timers' = timers
    BY <1>4 DEF FindCandidates, offerVars
  <2> QED
    BY <2>1, <2>2, <2>3, <2>4, <2>5, <2>6 DEF Cascade, CascadeOrder
<1>5. ASSUME NEW k \in tasks, ReleaseLock(k)
      PROVE  Cascade'
  BY <1>5, CascadeFrame DEF ReleaseLock, Leave,
     runVars, offerVars
<1>6. ASSUME NEW k \in tasks, MarkOffered(k)
      PROVE  Cascade'
  BY <1>6, CascadeFrame, TaskAt DEF MarkOffered, Move,
     runVars, offerVars
<1>7. ASSUME NEW k \in tasks, PublishOffer(k)
      PROVE  Cascade'
  <2>1. PICK t \in Timer : Publishing(k, t)
    BY <1>7, PublishEffect
  <2>2. k.index \in Nat \ {0} /\ k.run \in Runs
    BY <1>7, RankingsDomain DEF PublishOffer, Cascade
  <2>3. OffersOf(k.run)' = OffersOf(k.run) \cup {OfferOf(t)}
    BY <2>1 DEF Publishing, OffersOf
  <2>4. OfferOf(t) = [run |-> k.run, index |-> k.index]
    BY <2>1 DEF Publishing, OfferOf
  <2>5. OffersOf(k.run) = FirstOffers(k.run, k.index - 1)
    BY <1>7 DEF PublishOffer, Cascade, CascadeOrder
  <2>6. OffersOf(k.run)' = FirstOffers(k.run, k.index)
    BY <2>2, <2>3, <2>4, <2>5, OneMoreOffer
  <2>7. \A r \in Runs : r # k.run => OffersOf(r)' = OffersOf(r)
    BY <2>1 DEF Publishing, OffersOf
  <2>8. /\ \A q \in tasks \ {k} : q.run # k.run /\ q.run \in Runs
        /\ \A u \in timers : u.run # k.run /\ u.run \in Runs
    BY DEF SingleThread
  <2> QED
    BY <2>1, <2>6, <2>7, <2>8 DEF Publishing, Cascade, CascadeOrder, runVars
<1>8. ASSUME NEW k \in tasks, MarkPending(k)
      PROVE  Cascade'
  BY <1>8, CascadeFrame, TaskAt DEF MarkPending, Move,
     runVars, offerVars
<1>9. ASSUME NEW k \in tasks, SearchFails(k)
      PROVE  Cascade'
  BY <1>9, CascadeFrame, TaskAt DEF SearchFails, Move,
     runVars, offerVars
<1>10. ASSUME NEW k \in tasks, UpdateFails(k)
      PROVE  Cascade'
  BY <1>10, CascadeFrame, TaskAt DEF UpdateFails, Move, Leave, CrashEffect,
     runVars, offerVars
<1>11. ASSUME NEW t \in timers, NEW n \in Task, Cascading(t, n)
       PROVE  Cascade'
  <2>1. t.index \in DOMAIN cands[t.run] /\ t.index \in Nat /\ t.run \in Runs
    OBVIOUS
  <2>2. n.at = "pend" => DOMAIN cands[t.run] = 1 .. t.index
    BY <1>11, <2>1, RankingsDomain DEF Cascading
  <2>3. \A r : OffersOf(r)' = OffersOf(r)
    BY <1>11, OffersFrame DEF Cascading
  <2>4. n.index - 1 = t.index
    BY <1>11, <2>1 DEF Cascading
  <2>5. OffersOf(n.run) = FirstOffers(n.run, n.index - 1)
    BY <1>11, <2>4 DEF Cascading, Cascade
  <2> QED
    BY <1>11, <2>2, <2>3, <2>4, <2>5
    DEF Cascading, Withdrawn, Cascade, CascadeOrder, runVars
<1>12. ASSUME NEW t \in timers, ExpireOffer(t)
       PROVE  Cascade'
  BY <1>11, <1>12, ExpireEffect
<1>13. ASSUME NEW o \in offered, DeclineOffer(o)
       PROVE  Cascade'
  BY <1>11, <1>13, DeclineEffect
<1>14. ASSUME NEW o \in offered, AcceptOffer(o)
       PROVE  Cascade'
  <2>1. PICK t \in timers : Accepting(o, t)
    BY <1>14, AcceptEffect
  <2> QED
    BY <2>1, CascadeFrame DEF Accepting, Withdrawn, runVars
<1>15. ASSUME NEW a \in accepts, Assign(a)
      PROVE  Cascade'
  BY <1>15, CascadeFrame DEF Assign,
     runVars, offerVars
<1>16. ASSUME NEW a \in accepts, MakeBusy(a)
      PROVE  Cascade'
  BY <1>16, CascadeFrame DEF MakeBusy,
     runVars, offerVars
<1>17. ASSUME NEW a \in accepts, Unlock(a)
      PROVE  Cascade'
  BY <1>17, CascadeFrame DEF Unlock,
     runVars, offerVars
<1>18. ASSUME NEW a \in accepts, AcceptFails(a)
      PROVE  Cascade'
  BY <1>18, CascadeFrame DEF AcceptFails,
     runVars, offerVars
<1>19. ASSUME NEW d \in Drivers, NEW s \in Patches, SetStatus(d, s)
      PROVE  Cascade'
  BY <1>19, CascadeFrame DEF SetStatus,
     runVars, offerVars
<1>20. CASE Tick
  BY <1>20, TickEffect, CascadeFrame DEF runVars
<1>21. CASE Crash
  BY <1>21, CascadeFrame DEF Crash, CrashEffect, runVars, offerVars
<1>22. CASE UNCHANGED vars
  BY <1>22, CascadeFrame DEF vars, runVars, offerVars
<1> QED
  BY <1>1, <1>2, <1>3, <1>4, <1>5, <1>6, <1>7, <1>8, <1>9, <1>10, <1>12, <1>13,
     <1>14, <1>15, <1>16, <1>17, <1>18, <1>19, <1>20, <1>21, <1>22
  DEF Next, TaskStep, AcceptStep

\* A step that publishes nothing and is no answer keeps Winners.
LEMMA WinnersFrame ==
  ASSUME Winners, UNCHANGED <<cands, offered, won>>,
         \A m \in tasks' : \/ \E k \in tasks : m.run = k.run
                           \/ \E t \in timers : m.run = t.run,
         \A u \in timers' : \E t \in timers : u.run = t.run
  PROVE  Winners'
<1>1. /\ \A r : OffersOf(r)' = OffersOf(r)
      /\ \A o : DriverOf(o)' = DriverOf(o)
  BY OffersFrame DEF DriverOf
<1> QED
  BY <1>1 DEF Winners, LastOfferWins

\* An answer that is heard belongs to the last offer of its run.
LEMMA WinnersStep ==
  ASSUME TypeOK, Underway, SingleThread, Cascade, EntryArmed, Winners,
         [Next]_vars
  PROVE  Winners'
<1> USE DEF TypeOK, Timer, Task, Stages
<1>1. ASSUME NEW r \in Runs, job[r] = None, UNCHANGED <<cands, offered, won, timers>>,
             \A m \in tasks' : m \in tasks \/ m.run = r
      PROVE  Winners'
  <2>1. /\ \A q : OffersOf(q)' = OffersOf(q)
        /\ \A o : DriverOf(o)' = DriverOf(o)
    BY <1>1, OffersFrame DEF DriverOf
  <2>2. \A w \in won : w.run # r
    BY <1>1, NoneAssumption DEF Underway, Runs
  <2> QED
    BY <1>1, <2>1, <2>2 DEF Winners, LastOfferWins
<1>2. ASSUME NEW j \in Jobs, PostJob(j)
      PROVE  Winners'
  BY <1>1, <1>2 DEF PostJob, Enter, offerVars, Runs
<1>3. ASSUME NEW r \in Redispatches, NEW j \in Jobs, Redispatch(r, j)
      PROVE  Winners'
  BY <1>1, <1>3 DEF Redispatch, Enter, offerVars, Runs
<1>4. ASSUME NEW k \in tasks, AcquireLock(k)
      PROVE  Winners'
  BY <1>4, WinnersFrame, TaskAt DEF AcquireLock, Move, Leave,
     runVars, offerVars
<1>5. ASSUME NEW k \in tasks, FindCandidates(k)
      PROVE  Winners'
  <2>1. \A r : OffersOf(r)' = OffersOf(r)
    BY <1>5, OffersFrame DEF FindCandidates, offerVars
  <2>2. \A w \in won : w.run # k.run
    BY DEF Winners
  <2>3. \A w \in won : \A o \in OffersOf(w.run) : DriverOf(o)' = DriverOf(o)
    BY <1>5, <2>2 DEF FindCandidates, DriverOf, OffersOf, Offer
  <2>4. \A m \in tasks' : \E q \in tasks : m.run = q.run
    BY <1>5, TaskAt DEF FindCandidates, Move
  <2>5. UNCHANGED <<won, timers>>
    BY <1>5 DEF FindCandidates, offerVars
  <2> QED
    BY <2>1, <2>3, <2>4, <2>5 DEF Winners, LastOfferWins
<1>6. ASSUME NEW k \in tasks, ReleaseLock(k)
      PROVE  Winners'
  BY <1>6, WinnersFrame DEF ReleaseLock, Leave,
     runVars, offerVars
<1>7. ASSUME NEW k \in tasks, MarkOffered(k)
      PROVE  Winners'
  BY <1>7, WinnersFrame, TaskAt DEF MarkOffered, Move,
     runVars, offerVars
<1>8. ASSUME NEW k \in tasks, PublishOffer(k)
      PROVE  Winners'
  <2>1. PICK t \in Timer : Publishing(k, t)
    BY <1>8, PublishEffect
  <2>2. \A w \in won : w.run # k.run
    BY DEF Winners
  <2>3. \A w \in won : OffersOf(w.run)' = OffersOf(w.run)
    BY <2>1, <2>2 DEF Publishing, OffersOf
  <2>4. \A o : DriverOf(o)' = DriverOf(o)
    BY <2>1 DEF Publishing, DriverOf, runVars
  <2> QED
    BY <2>1, <2>2, <2>3, <2>4 DEF Publishing, Winners, LastOfferWins
<1>9. ASSUME NEW k \in tasks, MarkPending(k)
      PROVE  Winners'
  BY <1>9, WinnersFrame, TaskAt DEF MarkPending, Move,
     runVars, offerVars
<1>10. ASSUME NEW k \in tasks, SearchFails(k)
      PROVE  Winners'
  BY <1>10, WinnersFrame, TaskAt DEF SearchFails, Move,
     runVars, offerVars
<1>11. ASSUME NEW k \in tasks, UpdateFails(k)
      PROVE  Winners'
  BY <1>11, WinnersFrame, TaskAt DEF UpdateFails, Move, Leave, CrashEffect,
     runVars, offerVars
<1>12. ASSUME NEW t \in timers, ExpireOffer(t)
       PROVE  Winners'
  <2>1. PICK n \in Task : Cascading(t, n)
    BY <1>12, ExpireEffect
  <2> QED
    BY <2>1, WinnersFrame DEF Cascading, Withdrawn, runVars
<1>13. ASSUME NEW o \in offered, DeclineOffer(o)
       PROVE  Winners'
  <2>1. PICK t \in timers, n \in Task : Cascading(t, n)
    BY <1>13, DeclineEffect
  <2> QED
    BY <2>1, WinnersFrame DEF Cascading, Withdrawn, runVars
<1>14. ASSUME NEW o \in offered, AcceptOffer(o)
       PROVE  Winners'
  <2>1. PICK t \in timers : Accepting(o, t)
    BY <1>14, AcceptEffect
  <2>2. /\ \A r : OffersOf(r)' = OffersOf(r)
        /\ \A p : DriverOf(p)' = DriverOf(p)
    BY <2>1, OffersFrame DEF Accepting, DriverOf, runVars
  <2>3. \A w \in won : w.run # t.run
    BY DEF Winners
  <2>4. OffersOf(t.run) = FirstOffers(t.run, t.index) /\ t.index \in Nat
    <3>1. OffersOf(t.run) = FirstOffers(t.run, t.index)
      BY DEF Cascade
    <3>2. t.index \in Nat
      OBVIOUS
    <3> QED
      BY <3>1, <3>2
  <2>5. t.index \in 1 .. t.index /\ OfferOf(t) = [run |-> t.run, index |-> t.index]
    <3>1. t.run \in Runs /\ t.index \in DOMAIN cands[t.run]
      OBVIOUS
    <3> QED
      BY <3>1, RankingsDomain DEF OfferOf
  <2>6. /\ OfferOf(t) \in OffersOf(t.run)
        /\ \A p \in OffersOf(t.run) : p.index <= OfferOf(t).index
    <3>1. OfferOf(t) \in FirstOffers(t.run, t.index)
      BY <2>4, <2>5 DEF FirstOffers
    <3>2. \A p \in FirstOffers(t.run, t.index) : p.index <= t.index
      BY <2>4, FirstOffersIndex
    <3> QED
      BY <2>4, <2>5, <3>1, <3>2
  <2>7. LastOfferWins'
    BY <2>1, <2>2, <2>3, <2>6 DEF Accepting, Winners, LastOfferWins
  <2>8. \A u \in timers : u.run = t.run => u = t
    BY DEF SingleThread
  <2>9. \A k \in tasks : k.run # t.run
    BY DEF SingleThread
  <2> QED
    BY <2>1, <2>7, <2>8, <2>9 DEF Accepting, Withdrawn, Winners
<1>15. ASSUME NEW a \in accepts, Assign(a)
      PROVE  Winners'
  BY <1>15, WinnersFrame DEF Assign,
     runVars, offerVars
<1>16. ASSUME NEW a \in accepts, MakeBusy(a)
      PROVE  Winners'
  BY <1>16, WinnersFrame DEF MakeBusy,
     runVars, offerVars
<1>17. ASSUME NEW a \in accepts, Unlock(a)
      PROVE  Winners'
  BY <1>17, WinnersFrame DEF Unlock,
     runVars, offerVars
<1>18. ASSUME NEW a \in accepts, AcceptFails(a)
      PROVE  Winners'
  BY <1>18, WinnersFrame DEF AcceptFails,
     runVars, offerVars
<1>19. ASSUME NEW d \in Drivers, NEW s \in Patches, SetStatus(d, s)
      PROVE  Winners'
  BY <1>19, WinnersFrame DEF SetStatus,
     runVars, offerVars
<1>20. CASE Tick
  BY <1>20, TickEffect, WinnersFrame DEF runVars
<1>21. CASE Crash
  BY <1>21, WinnersFrame DEF Crash, CrashEffect, runVars, offerVars
<1>22. CASE UNCHANGED vars
  BY <1>22, WinnersFrame DEF vars, runVars, offerVars
<1> QED
  BY <1>2, <1>3, <1>4, <1>5, <1>6, <1>7, <1>8, <1>9, <1>10, <1>11, <1>12, <1>13,
     <1>14, <1>15, <1>16, <1>17, <1>18, <1>19, <1>20, <1>21, <1>22
  DEF Next, TaskStep, AcceptStep

-----------------------------------------------------------------------------
(* The inductive invariant. *)

\* The invariant holds at the start.
LEMMA InvInit == Init => IInv
<1> SUFFICES ASSUME Init
             PROVE  IInv
  OBVIOUS
<1> USE DEF Init
<1>1. TypeOK
  <2>1. lock \in [Jobs -> [by : Runs \cup {None}, left : Nat]]
    BY DEF Free
  <2>2. cands \in [Runs -> Rankings(Drivers)]
    BY EmptyRanking
  <2> QED
    BY <2>1, <2>2 DEF TypeOK, JobStatus, DriverStatus
<1>2. Underway
  BY DEF Underway, Runs
<1>3. SingleThread /\ EntryArmed
  BY DEF SingleThread, EntryArmed
<1>4. Cascade /\ Winners
  BY DEF Cascade, CascadeOrder, Winners, LastOfferWins
<1>5. HoldsLock /\ OfferAnswerable
  BY DEF HoldsLock, OfferAnswerable, Engaged, InProgress
<1>6. OfferOwned /\ Settled
  BY DEF OfferOwned, Settled
<1> QED
  BY <1>1, <1>2, <1>3, <1>4, <1>5, <1>6 DEF IInv

\* Every step preserves the invariant.
LEMMA InvStep == IInv /\ [Next]_vars => IInv'
<1> SUFFICES ASSUME IInv, [Next]_vars
             PROVE  IInv'
  OBVIOUS
<1>1. /\ TypeOK /\ Underway /\ SingleThread /\ Cascade /\ EntryArmed
      /\ Winners /\ HoldsLock /\ OfferAnswerable /\ OfferOwned /\ Settled
  BY DEF IInv
<1>2. TypeOK' /\ Underway'
  BY <1>1, TypeStep, UnderwayStep
<1>3. SingleThread' /\ EntryArmed'
  BY <1>1, SingleThreadStep, EntryArmedStep
<1>4. Cascade' /\ Winners'
  BY <1>1, CascadeStep, WinnersStep
<1>5. HoldsLock' /\ OfferAnswerable'
  BY <1>1, HoldsLockStep, AnswerableStep
<1>6. OfferOwned' /\ Settled'
  BY <1>1, OwnedStep, SettledStep
<1> QED
  BY <1>2, <1>3, <1>4, <1>5, <1>6 DEF IInv

\* The invariant holds in every reachable state, for every number of jobs,
\* drivers and redispatches, every TTL and any number of failures.
THEOREM Invariance == Spec => []IInv
BY InvInit, InvStep, PTL DEF Spec

\* sendOfferToCandidate never reads past the end of the candidates array, and
\* every variable keeps its type.
THEOREM TypeCorrect == Spec => []TypeOK
<1>1. IInv => TypeOK
  BY DEF IInv
<1> QED
  BY <1>1, Invariance, PTL

\* Every offer in the registry has its own timeout armed.
THEOREM EntriesArmed == Spec => []EntryArmed
<1>1. IInv => EntryArmed
  BY DEF IInv
<1> QED
  BY <1>1, Invariance, PTL

\* An answer racing the timeout never leaves both of them alive.
THEOREM OneThread == Spec => []SingleThread
<1>1. IInv => SingleThread
  BY DEF IInv
<1> QED
  BY <1>1, Invariance, PTL

\* A run is won at most once, and by the driver of its last offer.
THEOREM Winner == Spec => []LastOfferWins
<1>1. IInv => LastOfferWins
  BY DEF IInv, Winners
<1> QED
  BY <1>1, Invariance, PTL

\* The cascade offers the job to every candidate in turn before it gives up.
THEOREM InOrder == Spec => []CascadeOrder
<1>1. IInv => CascadeOrder
  BY DEF IInv, Cascade
<1> QED
  BY <1>1, Invariance, PTL

\* A run under way owns the lock of its job until the TTL takes it away.
THEOREM OwnsLock == Spec => []HoldsLock
<1>1. IInv => HoldsLock
  BY DEF IInv
<1> QED
  BY <1>1, Invariance, PTL

\* Two dispatches of a job are never under way at once before the TTL runs out.
THEOREM Mutex == Spec => []DispatchMutex
<1>1. IInv => DispatchMutex
  BY DEF IInv, HoldsLock, DispatchMutex
<1> QED
  BY <1>1, Invariance, PTL

\* An armed offer is the one in the registry until the TTL runs out.
THEOREM Answerable == Spec => []OfferAnswerable
<1>1. IInv => OfferAnswerable
  BY DEF IInv
<1> QED
  BY <1>1, Invariance, PTL

\* Without a rejected query or a crash, no job is on offer with nobody at work.
THEOREM NoOrphan == Spec => []NoOrphanedOffer
<1>1. IInv => NoOrphanedOffer
  BY DEF IInv, OfferOwned, OwesWrite, NoOrphanedOffer, InProgress
<1> QED
  BY <1>1, Invariance, PTL
-----------------------------------------------------------------------------
(* What a step may never do. *)

\* A step takes up only a run that is in progress, or one not yet started.
LEMMA FinishedStep ==
  ASSUME TypeOK, Underway, SingleThread, EntryArmed, [Next]_vars,
         NEW r \in Runs, Finished(r)
  PROVE  Finished(r)'
<1> USE DEF TypeOK, Finished, Started, InProgress, Stages, Timer, Task,
    Acceptance
<1>1. ASSUME NEW j \in Jobs, NEW s \in Runs, Enter(s, j)
      PROVE  Finished(r)'
  BY <1>1, NoneAssumption DEF Enter, offerVars, Runs
<1>2. ASSUME NEW k \in tasks, TaskStep(k)
      PROVE  Finished(r)'
  <2>1. k.run # r /\ UNCHANGED <<job, accepts>>
    BY <1>2 DEF TaskStep, AcquireLock, FindCandidates, ReleaseLock,
       MarkOffered, PublishOffer, MarkPending, runVars
  <2>2. \A m \in tasks' : m \in tasks \/ m.run = k.run
    <3>1. \A s \in Stages : At(k, s).run = k.run
      BY TaskAt
    <3>2. \E s \in Stages : tasks' \subseteq tasks \cup {At(k, s)}
      BY <1>2 DEF TaskStep, AcquireLock, FindCandidates, ReleaseLock,
         MarkOffered, PublishOffer, MarkPending, Move, Leave
    <3> QED
      BY <3>1, <3>2
  <2>3. \A t \in timers' : t \in timers \/ t.run = k.run
    BY <1>2 DEF TaskStep, AcquireLock, FindCandidates, ReleaseLock,
       MarkOffered, PublishOffer, MarkPending, offerVars
  <2> QED
    BY <2>1, <2>2, <2>3
<1>3. ASSUME NEW k \in tasks, SearchFails(k) \/ UpdateFails(k)
      PROVE  Finished(r)'
  <2>1. k.run # r /\ UNCHANGED job
    BY <1>3 DEF SearchFails, UpdateFails, runVars
  <2>2. \A m \in tasks' : m \in tasks \/ m.run = k.run
    <3>1. At(k, "release").run = k.run
      BY TaskAt
    <3>2. tasks' \subseteq tasks \cup {At(k, "release")}
      BY <1>3 DEF SearchFails, UpdateFails, Move, Leave, CrashEffect
    <3> QED
      BY <3>1, <3>2
  <2>3. timers' \subseteq timers /\ accepts' \subseteq accepts
    BY <1>3 DEF SearchFails, UpdateFails, CrashEffect, offerVars
  <2> QED
    BY <2>1, <2>2, <2>3
<1>4. ASSUME NEW t \in timers, NEW n \in Task, Cascading(t, n)
      PROVE  Finished(r)'
  BY <1>4 DEF Cascading, Withdrawn, runVars
<1>5. ASSUME NEW o \in offered, NEW t \in timers, Accepting(o, t)
      PROVE  Finished(r)'
  BY <1>5 DEF Accepting, Withdrawn, runVars
<1>6. ASSUME NEW a \in accepts, AcceptStep(a) \/ AcceptFails(a)
      PROVE  Finished(r)'
  <2>1. a.run # r /\ UNCHANGED <<job, tasks, timers>>
    BY <1>6 DEF AcceptStep, AcceptFails, Assign, MakeBusy, Unlock, runVars,
       offerVars
  <2>2. \A b \in accepts' : b \in accepts \/ b.run = a.run
    BY <1>6, AcceptAt DEF AcceptStep, AcceptFails, Assign, MakeBusy, Unlock
  <2> QED
    BY <2>1, <2>2
<1>7. ASSUME NEW d \in Drivers, NEW s \in Patches, SetStatus(d, s)
      PROVE  Finished(r)'
  BY <1>7 DEF SetStatus, runVars, offerVars
<1>8. CASE Tick
  <2>1. UNCHANGED <<job, tasks, accepts>>
    BY <1>8 DEF Tick, runVars
  <2>2. \A t \in timers' : \E u \in timers : t.run = u.run
    BY <1>8, TickEffect
  <2> QED
    BY <2>1, <2>2
<1>9. CASE Crash
  BY <1>9 DEF Crash, CrashEffect, runVars
<1>10. CASE UNCHANGED vars
  BY <1>10 DEF vars, runVars, offerVars
<1>11. Runs = Jobs \cup Redispatches
  BY DEF Runs
<1> HIDE DEF TypeOK, Finished
<1> QED
  BY <1>1, <1>2, <1>3, <1>4, <1>5, <1>6, <1>7, <1>8, <1>9, <1>10, <1>11,
     ExpireEffect, AcceptEffect, DeclineEffect DEF Next, PostJob, Redispatch

\* Neither a late or repeated answer nor a stale timer revives a run that ended.
THEOREM StaysFinished == Spec => FinishedStaysFinished
<1>1. IInv /\ [Next]_vars
        => [\A r \in Runs : Finished(r) => Finished(r)']_vars
  BY FinishedStep DEF IInv
<1> QED
  BY <1>1, Invariance, PTL DEF Spec, FinishedStaysFinished

\* The fields of a job's row that an acceptance settles.
RowKept(j) == jobStatus'[j] = jobStatus[j] /\ assignee'[j] = assignee[j]

\* Only a run that still has the job to write changes the row.
LEMMA AcceptedStep ==
  ASSUME TypeOK, Underway, Settled, [Next]_vars, NEW j \in Jobs,
         jobStatus[j] = "accepted", Untouched(j)'
  PROVE  RowKept(j)
<1> USE DEF TypeOK, RowKept, SetJob, dbVars
<1>1. CASE UNCHANGED dbVars
  BY <1>1
<1>2. ASSUME NEW i \in Jobs, PostJob(i)
      PROVE  RowKept(j)
  BY <1>2 DEF PostJob, Enter
<1>3. ASSUME NEW r \in Redispatches, NEW i \in Jobs, Redispatch(r, i)
      PROVE  RowKept(j)
  BY <1>3 DEF Redispatch, Enter
<1>4. ASSUME UNCHANGED job
      PROVE  Untouched(j)
  BY <1>4 DEF Untouched
<1>5. ASSUME NEW k \in tasks, MarkOffered(k) \/ MarkPending(k)
      PROVE  RowKept(j)
  <2>1. job[k.run] # j
    BY <1>4, <1>5 DEF MarkOffered, MarkPending, runVars, Settled
  <2> QED
    BY <1>5, <2>1 DEF MarkOffered, MarkPending
<1>6. ASSUME NEW k \in tasks, UpdateFails(k)
      PROVE  RowKept(j)
  <2>1. job[k.run] # j
    BY <1>4, <1>6 DEF UpdateFails, runVars, Settled
  <2> QED
    BY <1>6, <2>1 DEF UpdateFails, MaybeSetJob
<1>7. ASSUME NEW a \in accepts, Assign(a) \/ AcceptFails(a)
      PROVE  RowKept(j)
  <2>1. job[a.run] = j => a.at # "assign"
    BY <1>4, <1>7 DEF Assign, AcceptFails, runVars, Settled
  <2> QED
    BY <1>7, <2>1 DEF Assign, AcceptFails
<1>8. ASSUME NEW a \in accepts, MakeBusy(a)
      PROVE  RowKept(j)
  BY <1>8 DEF MakeBusy
<1>9. ASSUME NEW d \in Drivers, NEW s \in Patches, SetStatus(d, s)
      PROVE  RowKept(j)
  BY <1>9 DEF SetStatus
<1> HIDE DEF RowKept, TypeOK, SetJob
<1>10. CASE UNCHANGED vars
  BY <1>1, <1>10 DEF vars
<1>11. CASE Next
  BY <1>1, <1>2, <1>3, <1>5, <1>6, <1>7, <1>8, <1>9, <1>11
  DEF Next, TaskStep, AcceptStep, AcquireLock, FindCandidates, ReleaseLock,
      SearchFails, PublishOffer, ExpireOffer, AcceptOffer, DeclineOffer, Unlock,
      Tick, Crash
<1> QED
  BY <1>10, <1>11

\* Without a manual dispatch, an accepted job keeps its status and its driver.
THEOREM AcceptedFinal == Spec => AcceptedIsFinal
<1>1. IInv /\ [Next]_vars
        => [\A j \in Jobs : jobStatus[j] = "accepted" /\ Untouched(j)' =>
              jobStatus'[j] = "accepted" /\ assignee'[j] = assignee[j]]_vars
  BY AcceptedStep DEF IInv, RowKept
<1> QED
  BY <1>1, Invariance, PTL DEF Spec, AcceptedIsFinal
-----------------------------------------------------------------------------
(* The driver of an accepted job. *)

\* Between the two UPDATEs of handleOfferAccepted the driver may still be idle.
BusyOrSoon(j) ==
  /\ assignee[j] \in Drivers
  /\ \/ driverStatus[assignee[j]] # "idle"
     \/ \E a \in accepts : /\ a.at = "busy" /\ a.driver = assignee[j]
                          /\ job[a.run] = j

AssigneeMarked ==
  \A j \in Jobs :
    jobStatus[j] = "accepted" /\ failures = 0 /\ "idle" \notin Patches => BusyOrSoon(j)

\* Steps that leave the rows of drivers and the acceptances alone.
LEMMA MarkedFrame ==
  ASSUME TypeOK, AssigneeMarked, UNCHANGED <<assignee, driverStatus>>,
         \A j \in Jobs : jobStatus'[j] = "accepted" => jobStatus[j] = "accepted",
         failures' = failures, accepts \subseteq accepts',
         \A a \in accepts : job'[a.run] = job[a.run]
  PROVE  AssigneeMarked'
BY DEF AssigneeMarked, BusyOrSoon

\* The second UPDATE frees nobody, and follows the first unless one is rejected.
LEMMA MarkedStep ==
  ASSUME TypeOK, Underway, SingleThread, EntryArmed, AssigneeMarked, [Next]_vars
  PROVE  AssigneeMarked'
<1>1. ASSUME NEW r \in Runs, NEW j \in Jobs, (PostJob(j) /\ r = j) \/ Redispatch(r, j)
      PROVE  AssigneeMarked'
  <2>1. UNCHANGED <<assignee, driverStatus, accepts, failures>>
    BY <1>1 DEF PostJob, Redispatch, Enter
  <2>2. \A i \in Jobs : jobStatus'[i] = "accepted" => jobStatus[i] = "accepted"
    BY <1>1 DEF PostJob, Redispatch, SetJob, TypeOK
  <2>3. \A a \in accepts : job'[a.run] = job[a.run]
    BY <1>1, NoneAssumption DEF PostJob, Redispatch, Enter, Underway, TypeOK,
       Acceptance, Runs
  <2> QED
    BY <2>1, <2>2, <2>3, MarkedFrame
<1>2. ASSUME NEW k \in tasks, TaskStep(k)
      PROVE  AssigneeMarked'
  <2>1. UNCHANGED <<assignee, driverStatus, accepts, job, failures>>
    BY <1>2 DEF TaskStep, AcquireLock, FindCandidates, ReleaseLock, MarkOffered,
       PublishOffer, MarkPending, dbVars, runVars
  <2>2. \A i \in Jobs : jobStatus'[i] = "accepted" => jobStatus[i] = "accepted"
    BY <1>2 DEF TaskStep, AcquireLock, FindCandidates, ReleaseLock, MarkOffered,
       PublishOffer, MarkPending, dbVars, SetJob, TypeOK
  <2> QED
    BY <2>1, <2>2, MarkedFrame
<1>3. ASSUME Fail
      PROVE  AssigneeMarked'
  BY <1>3 DEF Fail, TypeOK, AssigneeMarked
<1>4. ASSUME NEW t \in timers, NEW n \in Task, Cascading(t, n)
      PROVE  AssigneeMarked'
  BY <1>4, MarkedFrame DEF Cascading, dbVars, runVars
<1>5. ASSUME NEW o \in offered, NEW t \in timers, Accepting(o, t)
      PROVE  AssigneeMarked'
  BY <1>5, MarkedFrame DEF Accepting, dbVars, runVars
<1>6. ASSUME NEW a \in accepts, Assign(a)
      PROVE  AssigneeMarked'
  <2>1. /\ At(a, "busy").run = a.run /\ At(a, "busy").driver = a.driver
        /\ At(a, "busy").at = "busy" /\ a.driver \in Drivers
    BY AcceptAt DEF TypeOK, Acceptance
  <2>2. /\ accepts' = (accepts \ {a}) \cup {At(a, "busy")} /\ a.at = "assign"
        /\ UNCHANGED <<job, driverStatus, failures>>
        /\ assignee' = [assignee EXCEPT ![job[a.run]] = a.driver]
        /\ jobStatus' = [jobStatus EXCEPT ![job[a.run]] = "accepted"]
    BY <1>6 DEF Assign, runVars, SetJob
  <2> QED
    BY <2>1, <2>2 DEF AssigneeMarked, BusyOrSoon, TypeOK
<1>7. ASSUME NEW a \in accepts, MakeBusy(a)
      PROVE  AssigneeMarked'
  <2>1. /\ accepts' = (accepts \ {a}) \cup {At(a, "unlock")}
        /\ UNCHANGED <<job, jobStatus, assignee, failures>>
        /\ driverStatus' = [driverStatus EXCEPT ![a.driver] = "en_route"]
    BY <1>7 DEF MakeBusy, runVars
  <2> QED
    BY <2>1 DEF AssigneeMarked, BusyOrSoon, TypeOK
<1>8. ASSUME NEW a \in accepts, Unlock(a)
      PROVE  AssigneeMarked'
  BY <1>8 DEF Unlock, AssigneeMarked, BusyOrSoon, dbVars, runVars
<1>9. ASSUME NEW d \in Drivers, NEW s \in Patches, SetStatus(d, s)
      PROVE  AssigneeMarked'
  <2>1. UNCHANGED <<accepts, job, jobStatus, assignee, failures>>
    BY <1>9 DEF SetStatus, runVars
  <2>2. driverStatus' = [driverStatus EXCEPT ![d] = s]
    BY <1>9 DEF SetStatus
  <2> QED
    BY <1>9, <2>1, <2>2 DEF AssigneeMarked, BusyOrSoon, TypeOK
<1>10. CASE Tick \/ UNCHANGED vars
  BY <1>10, MarkedFrame DEF Tick, vars, dbVars, runVars
<1> QED
  BY <1>1, <1>2, <1>3, <1>4, <1>5, <1>6, <1>7, <1>8, <1>9, <1>10, ExpireEffect,
     AcceptEffect, DeclineEffect
  DEF Next, Runs, AcceptStep, SearchFails, UpdateFails, AcceptFails, Crash

\* If no query is rejected and nobody else makes drivers idle, the driver of an
\* accepted job is not idle once its handler is through, though others take drivers
\* offline or off duty meanwhile.
THEOREM AssigneeLeavesPool == Spec => []AssigneeBusy
<1>1. Init => AssigneeMarked
  BY DEF Init, AssigneeMarked
<1>2. IInv /\ AssigneeMarked /\ [Next]_vars => AssigneeMarked'
  BY MarkedStep DEF IInv
<1>3. AssigneeMarked => AssigneeBusy
  BY DEF AssigneeMarked, AssigneeBusy, BusyOrSoon
<1> QED
  BY <1>1, <1>2, <1>3, Invariance, PTL DEF Spec
=============================================================================
