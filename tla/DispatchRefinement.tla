------------------------- MODULE DispatchRefinement -------------------------
(***************************************************************************)
(* Every run of DispatchEngine is a run of OfferProtocol.                  *)
(*                                                                         *)
(* The first lemmas say which change of a run's stage, drivers asked,      *)
(* holder and winner is which step of OfferProtocol, as long as the other  *)
(* runs keep theirs; then each action of the engine is shown to make that  *)
(* change, from the parts of IInv that say where the run stands, whatever  *)
(* the rows say (EngineInv).                                               *)
(***************************************************************************)
EXTENDS DispatchEngineProofs

\* The engine's invariants that do not depend on the rows.
EngineInv ==
  /\ TypeOK /\ Underway /\ SingleThread /\ Cascade /\ EntryArmed
  /\ Winners /\ HoldsLock /\ OfferAnswerable

\* OfferProtocol sees no change of run s.
Same(s) ==
  /\ RunStage'[s] = RunStage[s]
  /\ RunAsked'[s] = RunAsked[s]
  /\ RunHolder'[s] = RunHolder[s]
  /\ RunWinner'[s] = RunWinner[s]

OthersSame(r) == \A s \in Runs \ {r} : Same(s)

Functions ==
  /\ RunStage = [r \in Runs |-> RunStage[r]]
  /\ RunAsked = [r \in Runs |-> RunAsked[r]]
  /\ RunHolder = [r \in Runs |-> RunHolder[r]]
  /\ RunWinner = [r \in Runs |-> RunWinner[r]]

\* The four are functions of the run, before a step and after it.
LEMMA AreFunctions == Functions /\ Functions'
BY DEF Functions, RunStage, RunAsked, RunHolder, RunWinner

\* A step that changes no run stutters.
LEMMA ToStutter ==
  ASSUME \A s \in Runs : Same(s)
  PROVE  UNCHANGED Protocol!protocolVars
BY AreFunctions DEF Functions, Same, Protocol!protocolVars

\* A run that starts, and nothing else, is Begin.
LEMMA ToBegin ==
  ASSUME NEW r \in Runs, OthersSame(r),
         RunStage[r] = "new", RunStage'[r] = "going",
         RunAsked'[r] = RunAsked[r], RunHolder'[r] = RunHolder[r],
         RunWinner'[r] = RunWinner[r]
  PROVE  Protocol!ProtocolNext
<1>1. Protocol!Begin(r)
  BY AreFunctions DEF Functions, OthersSame, Same, Protocol!Begin
<1> QED
  BY <1>1 DEF Protocol!ProtocolNext

\* A driver added to the ones asked, who holds the offer then, is Ask.
LEMMA ToAsk ==
  ASSUME NEW r \in Runs, NEW d \in Drivers, OthersSame(r),
         RunStage[r] = "going", RunHolder[r] = None, RunWinner[r] = None,
         d \notin RunAsked[r],
         RunStage'[r] = "going", RunAsked'[r] = RunAsked[r] \cup {d},
         RunHolder'[r] = d, RunWinner'[r] = None
  PROVE  Protocol!ProtocolNext
<1>1. Protocol!Ask(r, d)
  BY AreFunctions DEF Functions, OthersSame, Same, Protocol!Ask
<1> QED
  BY <1>1 DEF Protocol!ProtocolNext

\* A run that goes on without its holder is Withdraw.
LEMMA ToWithdraw ==
  ASSUME NEW r \in Runs, OthersSame(r),
         RunStage[r] = "going", RunHolder[r] # None,
         RunStage'[r] = "going", RunAsked'[r] = RunAsked[r],
         RunHolder'[r] = None, RunWinner'[r] = RunWinner[r]
  PROVE  Protocol!ProtocolNext
<1>1. Protocol!Withdraw(r)
  BY AreFunctions DEF Functions, OthersSame, Same, Protocol!Withdraw
<1> QED
  BY <1>1 DEF Protocol!ProtocolNext

\* A holder who becomes the winner is Win.
LEMMA ToWin ==
  ASSUME NEW r \in Runs, OthersSame(r),
         RunStage[r] = "going", RunHolder[r] # None, RunWinner[r] = None,
         RunStage'[r] = "going", RunAsked'[r] = RunAsked[r],
         RunHolder'[r] = None, RunWinner'[r] = RunHolder[r]
  PROVE  Protocol!ProtocolNext
<1>1. Protocol!Win(r)
  BY AreFunctions DEF Functions, OthersSame, Same, Protocol!Win
<1> QED
  BY <1>1 DEF Protocol!ProtocolNext

\* Runs of S that come to their end, and nothing else, are End.
LEMMA ToEnd ==
  ASSUME NEW S \in SUBSET Runs,
         \A s \in Runs \ S : Same(s),
         \A r \in S : /\ RunStage[r] = "going" /\ RunStage'[r] = "over"
                      /\ RunAsked'[r] = RunAsked[r] /\ RunWinner'[r] = RunWinner[r]
                      /\ RunHolder'[r] = None
  PROVE  Protocol!ProtocolNext
<1>1. Protocol!End(S)
  BY AreFunctions DEF Functions, Same, Protocol!End
<1> QED
  BY <1>1 DEF Protocol!ProtocolNext
-----------------------------------------------------------------------------
(* What the four functions say of a run. *)

\* One driver is the only one.
LEMMA OnlyOne == \A d : Only({d}) = d
BY DEF Only

\* A run whose job, parts, offers and wins are the same is the same.
LEMMA SameRun ==
  ASSUME NEW s \in Runs, job'[s] = job[s], InProgress(s)' <=> InProgress(s),
         RunAsked'[s] = RunAsked[s], Holding(s)' = Holding(s),
         Winning(s)' = Winning(s)
  PROVE  Same(s)
BY DEF Same, RunStage, RunHolder, RunWinner, Started, Only

\* The drivers asked change with the offers sent and the ranking only,
LEMMA SameAsked ==
  ASSUME UNCHANGED offered, NEW s \in Runs,
         cands'[s] = cands[s] \/ OffersOf(s) = {}
  PROVE  RunAsked'[s] = RunAsked[s]
BY DEF RunAsked, OffersOf, DriverOf

\* the holder with the armed timeouts and the ranking,
LEMMA SameHolding ==
  ASSUME UNCHANGED timers, NEW s \in Runs,
         cands'[s] = cands[s] \/ \A t \in timers : t.run # s
  PROVE  Holding(s)' = Holding(s)
BY DEF Holding, DriverOf, OfferOf

\* and the winner with the wins.
LEMMA SameWinning ==
  ASSUME UNCHANGED won, NEW s \in Runs
  PROVE  Winning(s)' = Winning(s)
BY DEF Winning

\* What no step of the run itself touches.
Kept == UNCHANGED <<job, cands, offered, won, timers>>

\* Then only the handlers at work can make a difference.
LEMMA KeptRun ==
  ASSUME Kept, NEW s \in Runs
  PROVE  /\ RunAsked'[s] = RunAsked[s]
         /\ RunHolder'[s] = RunHolder[s]
         /\ RunWinner'[s] = RunWinner[s]
         /\ (InProgress(s)' <=> InProgress(s)) => Same(s)
<1>1. RunAsked'[s] = RunAsked[s] /\ Holding(s)' = Holding(s) /\ Winning(s)' = Winning(s)
  BY SameAsked, SameHolding, SameWinning DEF Kept
<1>2. RunHolder'[s] = RunHolder[s] /\ RunWinner'[s] = RunWinner[s]
  BY <1>1 DEF RunHolder, RunWinner, Only
<1> QED
  BY <1>1, <1>2, SameRun DEF Kept

\* A handler that goes on to its next await changes nothing OfferProtocol sees,
LEMMA MoveStutters ==
  ASSUME Kept, UNCHANGED accepts, NEW k \in tasks, NEW m, m.run = k.run,
         tasks' = (tasks \ {k}) \cup {m}
  PROVE  UNCHANGED Protocol!protocolVars
<1>1. \A s \in Runs : InProgress(s)' <=> InProgress(s)
  BY DEF InProgress, Kept
<1> QED
  BY <1>1, KeptRun, ToStutter

\* nor does a handler of an acceptance.
LEMMA AcceptStutters ==
  ASSUME Kept, UNCHANGED tasks, NEW a \in accepts, NEW b, b.run = a.run,
         accepts' = (accepts \ {a}) \cup {b}
  PROVE  UNCHANGED Protocol!protocolVars
<1>1. \A s \in Runs : InProgress(s)' <=> InProgress(s)
  BY DEF InProgress, Kept
<1> QED
  BY <1>1, KeptRun, ToStutter

\* A run without an armed timeout waits for nobody.
LEMMA NobodyHolds ==
  ASSUME NEW s \in Runs, \A t \in timers : t.run # s
  PROVE  RunHolder[s] = None
BY DEF RunHolder, Holding, Only

\* A run ends with the handler that leaves it,
LEMMA LeaveEnds ==
  ASSUME TypeOK, Underway, SingleThread, Kept, UNCHANGED accepts,
         NEW k \in tasks, tasks' = tasks \ {k}
  PROVE  Protocol!ProtocolNext
<1>1. k.run \in Runs /\ job[k.run] # None
  BY NoneAssumption DEF TypeOK, Task, Underway, Runs
<1>2. InProgress(k.run) /\ ~ InProgress(k.run)'
  BY <1>1 DEF InProgress, SingleThread, Kept
<1>3. RunStage[k.run] = "going" /\ RunStage'[k.run] = "over"
  BY <1>1, <1>2 DEF RunStage, Started, Kept
<1>4. \A s \in Runs \ {k.run} : InProgress(s)' <=> InProgress(s)
  BY DEF InProgress, Kept
<1>5. RunHolder[k.run] = None
  BY <1>1, NobodyHolds DEF SingleThread
<1> QED
  BY <1>1, <1>3, <1>4, <1>5, KeptRun, ToEnd, {k.run} \in SUBSET Runs

\* or with the handler of its acceptance,
LEMMA AcceptEnds ==
  ASSUME TypeOK, Underway, SingleThread, Kept, UNCHANGED tasks,
         NEW a \in accepts, accepts' = accepts \ {a}
  PROVE  Protocol!ProtocolNext
<1>1. a.run \in Runs /\ job[a.run] # None
  BY NoneAssumption DEF TypeOK, Acceptance, Underway, Runs
<1>2. InProgress(a.run) /\ ~ InProgress(a.run)'
  BY <1>1 DEF InProgress, SingleThread, Kept
<1>3. RunStage[a.run] = "going" /\ RunStage'[a.run] = "over"
  BY <1>1, <1>2 DEF RunStage, Started, Kept
<1>4. \A s \in Runs \ {a.run} : InProgress(s)' <=> InProgress(s)
  BY DEF InProgress, Kept
<1>5. RunHolder[a.run] = None
  BY <1>1, NobodyHolds DEF SingleThread
<1> QED
  BY <1>1, <1>3, <1>4, <1>5, KeptRun, ToEnd, {a.run} \in SUBSET Runs

\* and all of them with the process.
LEMMA CrashEnds ==
  ASSUME TypeOK, Underway, CrashEffect, UNCHANGED <<job, cands, offered, won>>
  PROVE  Protocol!ProtocolNext
<1> DEFINE S == {r \in Runs : InProgress(r)}
<1>1. \A r \in Runs : InProgress(r) => job[r] # None
  BY NoneAssumption DEF InProgress, TypeOK, Underway, Runs
<1>2. \A r \in Runs : ~ InProgress(r)'
  BY DEF InProgress, CrashEffect
<1>3. \A r \in Runs : RunHolder'[r] = None
  BY DEF CrashEffect, RunHolder, Holding, Only
<1>4. \A r \in Runs : RunAsked'[r] = RunAsked[r] /\ RunWinner'[r] = RunWinner[r]
  <2> TAKE r \in Runs
  <2>1. RunAsked'[r] = RunAsked[r] /\ Winning(r)' = Winning(r)
    BY SameAsked, SameWinning
  <2> QED
    BY <2>1 DEF RunWinner, Only
<1>5. \A r \in S : RunStage[r] = "going" /\ RunStage'[r] = "over"
  BY <1>1, <1>2 DEF RunStage, Started
<1>6. \A r \in Runs \ S : /\ RunStage'[r] = RunStage[r]
                          /\ RunHolder[r] = None
  <2>1. ASSUME NEW r \in Runs \ S
        PROVE  RunHolder[r] = None
    BY <2>1, NobodyHolds DEF InProgress
  <2> QED
    BY <1>2, <2>1 DEF RunStage, Started
<1>7. S \in SUBSET Runs
  OBVIOUS
<1>8. \A s \in Runs \ S : Same(s)
  <2> SUFFICES ASSUME NEW s \in Runs \ S
               PROVE  Same(s)
    OBVIOUS
  <2>1. RunStage'[s] = RunStage[s] /\ RunHolder'[s] = RunHolder[s]
    BY <1>3, <1>6
  <2>2. RunAsked'[s] = RunAsked[s] /\ RunWinner'[s] = RunWinner[s]
    BY <1>4
  <2> QED
    BY <2>1, <2>2 DEF Same
<1>9. \A r \in S : /\ RunStage[r] = "going" /\ RunStage'[r] = "over"
                   /\ RunAsked'[r] = RunAsked[r] /\ RunWinner'[r] = RunWinner[r]
                   /\ RunHolder'[r] = None
  BY <1>3, <1>4, <1>5, <1>7
<1> HIDE DEF S
<1> QED
  BY <1>7, <1>8, <1>9, ToEnd
-----------------------------------------------------------------------------
(* The actions. *)

\* A dispatch that starts is Begin.
LEMMA EnterBegins ==
  ASSUME TypeOK, Underway, NEW r \in Runs, NEW j \in Jobs, Enter(r, j)
  PROVE  Protocol!ProtocolNext
<1> DEFINE k == [run |-> r, index |-> 1, at |-> "lock", by |-> "dispatch"]
<1>1. job[r] = None /\ job' = [job EXCEPT ![r] = j] /\ tasks' = tasks \cup {k}
  BY DEF Enter
<1>2. k.run = r
  OBVIOUS
<1>3. UNCHANGED <<cands, offered, won, timers, accepts>>
  BY DEF Enter, offerVars
<1> HIDE DEF k
<1>4. job'[r] = j /\ j # None /\ \A s \in Runs \ {r} : job'[s] = job[s]
  BY <1>1, NoneAssumption DEF TypeOK, Runs
<1>5. \A s \in Runs \ {r} : InProgress(s)' <=> InProgress(s)
  BY <1>1, <1>2, <1>3 DEF InProgress
<1>6. InProgress(r)'
  BY <1>1, <1>2 DEF InProgress
<1>7. RunStage[r] = "new" /\ RunStage'[r] = "going"
  BY <1>1, <1>4, <1>6 DEF RunStage, Started
<1>8. ASSUME NEW s \in Runs
      PROVE  /\ RunAsked'[s] = RunAsked[s]
             /\ Holding(s)' = Holding(s)
             /\ Winning(s)' = Winning(s)
  BY <1>3, SameAsked, SameHolding, SameWinning
<1>9. \A s \in Runs \ {r} : Same(s)
  <2> TAKE s \in Runs \ {r}
  <2> QED
    BY <1>4, <1>5, <1>8, SameRun
<1>10. RunHolder'[r] = RunHolder[r] /\ RunWinner'[r] = RunWinner[r]
  <2>1. Holding(r)' = Holding(r) /\ Winning(r)' = Winning(r)
    BY <1>3, SameHolding, SameWinning
  <2> QED
    BY <2>1 DEF RunHolder, RunWinner, Only
<1> QED
  BY <1>7, <1>8, <1>9, <1>10, ToBegin DEF OthersSame

\* The ranking comes before the first offer, so nobody sees it change.
LEMMA FindStutters ==
  ASSUME TypeOK, SingleThread, Cascade, NEW k \in tasks, FindCandidates(k)
  PROVE  UNCHANGED Protocol!protocolVars
<1>1. PICK c, m : /\ cands' = [cands EXCEPT ![k.run] = c]
                  /\ tasks' = (tasks \ {k}) \cup {m}
                  /\ m.run = k.run
  <2>1. PICK c : /\ cands' = [cands EXCEPT ![k.run] = c]
                 /\ Move(k, IF 1 \in DOMAIN c THEN "mark" ELSE "release")
    BY DEF FindCandidates
  <2>2. k \in Task
    BY DEF TypeOK
  <2>3. \A s \in Stages : At(k, s).run = k.run
    BY <2>2, TaskAt
  <2> QED
    BY <2>1, <2>3 DEF Move, Stages
<1>2. UNCHANGED <<job, offered, won, timers, accepts>>
  BY DEF FindCandidates, offerVars
<1>3. OffersOf(k.run) = {} /\ \A t \in timers : t.run # k.run
  BY DEF FindCandidates, Cascade, SingleThread, TypeOK, Task
<1>4. \A s \in Runs \ {k.run} : cands'[s] = cands[s]
  BY <1>1 DEF TypeOK
<1>5. \A s \in Runs : InProgress(s)' <=> InProgress(s)
  BY <1>1, <1>2 DEF InProgress
<1>6. ASSUME NEW s \in Runs
      PROVE  Same(s)
  <2>0. \/ cands'[s] = cands[s]
        \/ OffersOf(s) = {} /\ \A t \in timers : t.run # s
    BY <1>3, <1>4
  <2>1. RunAsked'[s] = RunAsked[s]
    BY <1>2, <2>0, SameAsked
  <2>2. Holding(s)' = Holding(s)
    BY <1>2, <2>0, SameHolding
  <2>3. Winning(s)' = Winning(s)
    BY <1>2, SameWinning
  <2> QED
    BY <1>2, <1>5, <2>1, <2>2, <2>3, SameRun
<1> QED
  BY <1>6, ToStutter

\* The one armed timeout of a run says who holds its offer.
LEMMA TimerHolds ==
  ASSUME TypeOK, SingleThread, NEW t \in timers
  PROVE  RunHolder[t.run] = DriverOf(OfferOf(t)) /\ t.run \in Runs
<1>1. t.run \in Runs
  BY DEF TypeOK, Timer
<1>2. Holding(t.run) = {DriverOf(OfferOf(t))}
  BY <1>1 DEF Holding, SingleThread
<1> QED
  BY <1>1, <1>2, OnlyOne DEF RunHolder

\* A ranking names no driver twice.
LEMMA RankingInjective ==
  ASSUME NEW c \in Rankings(Drivers), NEW i \in DOMAIN c, NEW n \in DOMAIN c, c[i] = c[n]
  PROVE  i = n
BY DEF Rankings

\* An offer that is published goes to a driver not asked before.
LEMMA PublishAsks ==
  ASSUME TypeOK, Underway, SingleThread, Cascade, Winners,
         NEW k \in tasks, k.at = "publish", NEW t \in Timer, Publishing(k, t)
  PROVE  Protocol!ProtocolNext
<1> DEFINE r == k.run
           o == OfferOf(t)
           d == DriverOf(o)
<1>1. /\ r \in Runs /\ job[r] \in Jobs /\ t.run = r
      /\ o.run = r /\ o.index = k.index /\ k.index \in Nat
      /\ k.index \in DOMAIN cands[r] /\ cands[r] \in Rankings(Drivers)
  BY DEF TypeOK, Task, Underway, Publishing, Cascade
<1>2. /\ UNCHANGED <<job, cands, won, accepts>>
      /\ timers' = timers \cup {t} /\ offered' = offered \cup {o}
      /\ tasks' = tasks \ {k}
  BY DEF Publishing, runVars
<1>3. d \in Drivers /\ d = cands[r][k.index]
  BY <1>1, RankingsDomain DEF DriverOf
<1>4. d \notin RunAsked[r]
  <2>1. SUFFICES ASSUME NEW p \in OffersOf(r), DriverOf(p) = d
                 PROVE  FALSE
    BY <1>1 DEF RunAsked
  <2>2. p.run = r /\ p \in FirstOffers(r, k.index - 1)
    BY <2>1 DEF Cascade, CascadeOrder, OffersOf
  <2>3. p.index \in 1 .. (k.index - 1)
    BY <2>2 DEF FirstOffers
  <2>4. p.index \in DOMAIN cands[r]
    BY <2>1, <2>2 DEF TypeOK, OffersOf
  <2> QED
    BY <1>1, <1>3, <2>1, <2>2, <2>3, <2>4, RankingInjective DEF DriverOf
<1> HIDE DEF r, o, d
<1>5. RunHolder[r] = None
  BY <1>1, NobodyHolds DEF SingleThread, r
<1>6. RunWinner[r] = None /\ RunWinner'[r] = None
  BY <1>1, <1>2 DEF RunWinner, Winning, Winners, Only, r
<1>7. RunStage[r] = "going" /\ RunStage'[r] = "going"
  BY <1>1, <1>2, NoneAssumption DEF RunStage, Started, InProgress, r, Runs, TypeOK
<1>8. RunHolder'[r] = d
  <2>1. Holding(r)' = {d}
    BY <1>1, <1>2 DEF Holding, SingleThread, DriverOf, r, o, d, OfferOf
  <2> QED
    BY <1>1, <2>1, OnlyOne DEF RunHolder
<1>9. RunAsked'[r] = RunAsked[r] \cup {d}
  BY <1>1, <1>2 DEF RunAsked, OffersOf, DriverOf, d
<1>10. ASSUME NEW s \in Runs \ {r}
       PROVE  Same(s)
  <2>1. RunAsked'[s] = RunAsked[s]
    BY <1>1, <1>2 DEF RunAsked, OffersOf, DriverOf
  <2>2. Holding(s)' = Holding(s)
    BY <1>1, <1>2 DEF Holding, DriverOf, OfferOf
  <2>3. Winning(s)' = Winning(s)
    BY <1>2, SameWinning
  <2>4. InProgress(s)' <=> InProgress(s)
    BY <1>1, <1>2 DEF InProgress, r
  <2> QED
    BY <1>2, <2>1, <2>2, <2>3, <2>4, SameRun
<1> QED
  BY <1>1, <1>3, <1>4, <1>5, <1>6, <1>7, <1>8, <1>9, <1>10, ToAsk DEF OthersSame, r

\* A run whose only armed timeout is disarmed had a holder and has none.
LEMMA WithdrawnRun ==
  ASSUME TypeOK, Underway, SingleThread, NEW t \in timers, Withdrawn(t),
         UNCHANGED <<job, cands, offered>>
  PROVE  /\ RunStage[t.run] = "going"
         /\ RunHolder[t.run] \in Drivers /\ RunHolder'[t.run] = None
         /\ RunAsked'[t.run] = RunAsked[t.run]
<1>1. /\ t.run \in Runs /\ t.index \in DOMAIN cands[t.run]
      /\ cands[t.run] \in Rankings(Drivers) /\ timers' = timers \ {t}
      /\ job[t.run] \in Jobs
  BY DEF TypeOK, Timer, Withdrawn, Underway
<1>2. RunStage[t.run] = "going"
  BY <1>1, NoneAssumption DEF RunStage, Started, InProgress, Runs, TypeOK
<1>3. RunHolder[t.run] = cands[t.run][t.index]
  BY TimerHolds DEF DriverOf, OfferOf
<1>4. RunHolder[t.run] \in Drivers
  BY <1>1, <1>3, RankingsDomain
<1>5. \A u \in timers' : u.run # t.run
  BY <1>1 DEF SingleThread
<1>6. RunHolder'[t.run] = None
  BY <1>1, <1>5 DEF RunHolder, Holding, Only
<1>7. RunAsked'[t.run] = RunAsked[t.run]
  BY <1>1, SameAsked
<1> QED
  BY <1>2, <1>4, <1>6, <1>7

\* A decline or a timeout is Withdraw.
LEMMA CascadeWithdraws ==
  ASSUME TypeOK, Underway, SingleThread, NEW t \in timers, NEW n, Cascading(t, n)
  PROVE  Protocol!ProtocolNext
<1>1. UNCHANGED <<job, cands, offered, won, accepts>>
  BY DEF Cascading, runVars
<1>2. /\ t.run \in Runs /\ job[t.run] # None
      /\ timers' = timers \ {t} /\ tasks' = tasks \cup {n} /\ n.run = t.run
  BY NoneAssumption DEF Cascading, Withdrawn, TypeOK, Timer, Runs
<1>3. /\ RunStage[t.run] = "going" /\ RunHolder[t.run] # None
      /\ RunHolder'[t.run] = None /\ RunAsked'[t.run] = RunAsked[t.run]
  BY <1>1, <1>2, WithdrawnRun, NoneAssumption DEF Cascading
<1>4. RunWinner'[t.run] = RunWinner[t.run]
  BY <1>1, <1>2 DEF RunWinner, Winning
<1>5. RunStage'[t.run] = "going"
  BY <1>1, <1>2 DEF RunStage, Started, InProgress
<1>6. ASSUME NEW s \in Runs \ {t.run}
      PROVE  Same(s)
  <2>1. RunAsked'[s] = RunAsked[s] /\ Winning(s)' = Winning(s)
    BY <1>1, SameAsked, SameWinning
  <2>2. Holding(s)' = Holding(s)
    BY <1>1, <1>2 DEF Holding, DriverOf, OfferOf
  <2>3. InProgress(s)' <=> InProgress(s)
    BY <1>1, <1>2 DEF InProgress
  <2> QED
    BY <1>1, <2>1, <2>2, <2>3, SameRun
<1> QED
  BY <1>2, <1>3, <1>4, <1>5, <1>6, ToWithdraw DEF OthersSame

\* An acceptance that is taken is Win.
LEMMA AcceptWins ==
  ASSUME TypeOK, Underway, SingleThread, Winners, NEW o, NEW t \in timers, Accepting(o, t)
  PROVE  Protocol!ProtocolNext
<1> DEFINE d == DriverOf(o)
           w == [run |-> t.run, driver |-> d]
           b == [run |-> t.run, driver |-> d, at |-> "assign"]
<1>1. UNCHANGED <<job, cands, offered, tasks>>
  BY DEF Accepting, runVars
<1>2. /\ t.run \in Runs /\ job[t.run] # None /\ timers' = timers \ {t}
      /\ won' = won \cup {w} /\ accepts' = accepts \cup {b}
      /\ w.run = t.run /\ w.driver = d /\ b.run = t.run
  BY NoneAssumption DEF Accepting, Withdrawn, TypeOK, Timer, Runs
<1>3. RunHolder[t.run] = d
  BY TimerHolds DEF Accepting
<1> HIDE DEF d, w, b
<1>4. /\ RunStage[t.run] = "going" /\ RunHolder[t.run] # None
      /\ RunHolder'[t.run] = None /\ RunAsked'[t.run] = RunAsked[t.run]
  BY <1>1, <1>2, WithdrawnRun, NoneAssumption DEF Accepting
<1>5. RunWinner[t.run] = None
  BY <1>2 DEF RunWinner, Winning, Winners, Only
<1>6. RunWinner'[t.run] = d
  <2>1. Winning(t.run)' = {d}
    BY <1>2 DEF Winning, Winners
  <2> QED
    BY <1>2, <2>1, OnlyOne DEF RunWinner
<1>7. RunStage'[t.run] = "going"
  BY <1>1, <1>2 DEF RunStage, Started, InProgress
<1>8. ASSUME NEW s \in Runs \ {t.run}
      PROVE  Same(s)
  <2>1. RunAsked'[s] = RunAsked[s]
    BY <1>1, SameAsked
  <2>2. Holding(s)' = Holding(s)
    BY <1>1, <1>2 DEF Holding, DriverOf, OfferOf
  <2>3. Winning(s)' = Winning(s)
    BY <1>2 DEF Winning
  <2>4. InProgress(s)' <=> InProgress(s)
    BY <1>1, <1>2 DEF InProgress
  <2> QED
    BY <1>1, <2>1, <2>2, <2>3, <2>4, SameRun
<1> QED
  BY <1>2, <1>3, <1>4, <1>5, <1>6, <1>7, <1>8, ToWin DEF OthersSame

\* Time passes unseen.
LEMMA TickStutters ==
  ASSUME TypeOK, SingleThread, Tick
  PROVE  UNCHANGED Protocol!protocolVars
<1>1. /\ \A u \in timers' : \E t \in timers : u.run = t.run /\ u.index = t.index
      /\ \A t \in timers : \E u \in timers' : u.run = t.run /\ u.index = t.index
      /\ UNCHANGED <<job, cands, offered, won, tasks, accepts>>
  BY TickEffect DEF runVars
<1>2. ASSUME NEW s \in Runs
      PROVE  Same(s)
  <2>1. RunAsked'[s] = RunAsked[s] /\ Winning(s)' = Winning(s)
    BY <1>1, SameAsked, SameWinning
  <2>2. Holding(s)' = Holding(s)
    BY <1>1 DEF Holding, DriverOf, OfferOf
  <2>3. InProgress(s)' <=> InProgress(s)
    BY <1>1 DEF InProgress
  <2> QED
    BY <1>1, <2>1, <2>2, <2>3, SameRun
<1> QED
  BY <1>2, ToStutter
-----------------------------------------------------------------------------
(* The refinement. *)

LEMMA RefineInit == Init => Protocol!ProtocolInit
<1> SUFFICES ASSUME Init
             PROVE  Protocol!ProtocolInit
  OBVIOUS
<1>1. \A r \in Runs : RunStage[r] = "new"
  BY DEF Init, RunStage, Started
<1>2. \A r \in Runs : RunAsked[r] = {}
  BY DEF Init, RunAsked, OffersOf
<1>3. \A r \in Runs : RunHolder[r] = None /\ RunWinner[r] = None
  BY DEF Init, RunHolder, RunWinner, Holding, Winning, Only
<1> QED
  BY <1>1, <1>2, <1>3, AreFunctions DEF Functions, Protocol!ProtocolInit

\* Handlers at work on a dispatch or a cascade.
LEMMA TaskRefines ==
  ASSUME EngineInv, NEW k \in tasks, TaskStep(k) \/ SearchFails(k) \/ UpdateFails(k)
  PROVE  [Protocol!ProtocolNext]_(Protocol!protocolVars)
<1> USE DEF EngineInv
<1>1. k \in Task /\ \A s \in Stages : At(k, s).run = k.run
  BY TaskAt DEF TypeOK
<1>2. ASSUME NEW s \in Stages, Move(k, s), Kept, UNCHANGED accepts
      PROVE  UNCHANGED Protocol!protocolVars
  BY <1>1, <1>2, MoveStutters DEF Move
<1>3. CASE AcquireLock(k)
  <2>1. Kept /\ UNCHANGED accepts
    BY <1>3 DEF AcquireLock, Kept, runVars, offerVars
  <2>2. Move(k, "search") \/ Leave(k)
    BY <1>3 DEF AcquireLock
  <2> QED
    BY <1>2, <2>1, <2>2, LeaveEnds DEF Leave, Stages
<1>4. CASE FindCandidates(k)
  BY <1>4, FindStutters
<1>5. CASE ReleaseLock(k)
  <2>1. Kept /\ UNCHANGED accepts /\ tasks' = tasks \ {k}
    BY <1>5 DEF ReleaseLock, Kept, runVars, offerVars, Leave
  <2> QED
    BY <2>1, LeaveEnds
<1>6. CASE MarkOffered(k) \/ MarkPending(k) \/ SearchFails(k)
  <2>1. Kept /\ UNCHANGED accepts
    BY <1>6 DEF MarkOffered, MarkPending, SearchFails, Kept, runVars, offerVars
  <2>2. Move(k, "publish") \/ Move(k, "release")
    BY <1>6 DEF MarkOffered, MarkPending, SearchFails
  <2> QED
    BY <1>2, <2>1, <2>2 DEF Stages
<1>7. CASE PublishOffer(k)
  <2>1. k.at = "publish"
    BY <1>7 DEF PublishOffer
  <2> QED
    BY <1>7, <2>1, PublishEffect, PublishAsks
<1>8. CASE UpdateFails(k)
  <2>1. UNCHANGED <<job, cands, offered, won>>
    BY <1>8 DEF UpdateFails, runVars
  <2>2. CASE CrashEffect
    BY <2>1, <2>2, CrashEnds
  <2>3. CASE ~ CrashEffect
    <3>1. UNCHANGED <<timers, accepts>> /\ (Move(k, "release") \/ Leave(k))
      BY <1>8, <2>3 DEF UpdateFails
    <3> QED
      BY <1>2, <2>1, <3>1, LeaveEnds DEF Kept, Leave, Stages
  <2> QED
    BY <2>2, <2>3
<1> QED
  BY <1>3, <1>4, <1>5, <1>6, <1>7, <1>8 DEF TaskStep

\* Handlers at work on an acceptance.
LEMMA AcceptRefines ==
  ASSUME EngineInv, NEW a \in accepts, AcceptStep(a) \/ AcceptFails(a)
  PROVE  [Protocol!ProtocolNext]_(Protocol!protocolVars)
<1> USE DEF EngineInv
<1>1. a \in Acceptance
  BY DEF TypeOK
<1>2. Kept /\ UNCHANGED tasks
  BY DEF AcceptStep, Assign, MakeBusy, Unlock, AcceptFails, Kept, runVars, offerVars
<1>3. CASE Assign(a) \/ MakeBusy(a)
  <2>1. \/ accepts' = (accepts \ {a}) \cup {At(a, "busy")}
        \/ accepts' = (accepts \ {a}) \cup {At(a, "unlock")}
    BY <1>3 DEF Assign, MakeBusy
  <2>2. At(a, "busy").run = a.run /\ At(a, "unlock").run = a.run
    BY <1>1, AcceptAt
  <2> QED
    BY <1>2, <2>1, <2>2, AcceptStutters
<1>4. CASE Unlock(a) \/ AcceptFails(a)
  <2>1. accepts' = accepts \ {a}
    BY <1>4 DEF Unlock, AcceptFails
  <2> QED
    BY <1>2, <2>1, AcceptEnds
<1> QED
  BY <1>3, <1>4 DEF AcceptStep

Refined == [Protocol!ProtocolNext]_(Protocol!protocolVars)

LEMMA RefineStep == EngineInv /\ [Next]_vars => Refined
<1> SUFFICES ASSUME EngineInv, [Next]_vars
             PROVE  Refined
  OBVIOUS
<1>1. ASSUME NEW j \in Jobs, PostJob(j)
      PROVE  Refined
  BY <1>1, EnterBegins DEF PostJob, Runs, EngineInv, Refined
<1>2. ASSUME NEW r \in Redispatches, NEW j \in Jobs, Redispatch(r, j)
      PROVE  Refined
  BY <1>2, EnterBegins DEF Redispatch, Runs, EngineInv, Refined
<1>3. ASSUME NEW k \in tasks, TaskStep(k) \/ SearchFails(k) \/ UpdateFails(k)
      PROVE  Refined
  BY <1>3, TaskRefines DEF Refined
<1>4. ASSUME NEW t \in timers, ExpireOffer(t)
      PROVE  Refined
  BY <1>4, ExpireEffect, CascadeWithdraws DEF EngineInv, Refined
<1>5. ASSUME NEW o \in offered, AcceptOffer(o)
      PROVE  Refined
  BY <1>5, AcceptEffect, AcceptWins DEF EngineInv, Refined
<1>6. ASSUME NEW o \in offered, DeclineOffer(o)
      PROVE  Refined
  BY <1>6, DeclineEffect, CascadeWithdraws DEF EngineInv, Refined
<1>7. ASSUME NEW a \in accepts, AcceptStep(a) \/ AcceptFails(a)
      PROVE  Refined
  BY <1>7, AcceptRefines DEF Refined
<1>8. CASE \/ \E d \in Drivers, s \in Patches : SetStatus(d, s)
           \/ UNCHANGED vars
  <2>1. Kept /\ UNCHANGED <<tasks, accepts>>
    BY <1>8 DEF SetStatus, vars, Kept, runVars, offerVars
  <2>2. \A s \in Runs : InProgress(s)' <=> InProgress(s)
    BY <2>1 DEF InProgress, Kept
  <2> QED
    BY <2>1, <2>2, KeptRun, ToStutter DEF Refined
<1>9. CASE Tick
  BY <1>9, TickStutters DEF EngineInv, Refined
<1>10. CASE Crash
  BY <1>10, CrashEnds DEF Crash, runVars, EngineInv, Refined
<1> QED
  BY <1>1, <1>2, <1>3, <1>4, <1>5, <1>6, <1>7, <1>8, <1>9, <1>10 DEF Next

\* Each dispatch run is a run of OfferProtocol, for every number of jobs, drivers
\* and overlapping dispatches, with every failure the engine meets: it makes one
\* offer at a time and none twice, only the driver who holds the offer wins the
\* job, and a run that was won or is over makes no more offers.
THEOREM Refines == Spec => OneOfferAtATime
<1>1. IInv => EngineInv
  BY DEF IInv, EngineInv
<1> QED
  BY <1>1, Invariance, RefineInit, RefineStep, PTL DEF Spec, Refined, OneOfferAtATime, Protocol!ProtocolSpec
=============================================================================
