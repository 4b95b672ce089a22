--------------------------- MODULE OfferProtocol ---------------------------
(***************************************************************************)
(* What a dispatch run promises, without registry, timers, lock or rows: a *)
(* run offers its job to one driver at a time and to no driver twice, the  *)
(* driver who holds the offer, and no other, may win the job, a run that   *)
(* was won makes no more offers, and a run that is over stays over.        *)
(***************************************************************************)
CONSTANTS Runs, Drivers, None

VARIABLES
  stage,    \* run -> "new", "going" or "over"
  asked,    \* run -> the drivers it made an offer
  holder,   \* run -> the driver whose answer it waits for, or None
  winner    \* run -> the driver who won its job, or None

protocolVars == <<stage, asked, holder, winner>>

ProtocolInit ==
  /\ stage  = [r \in Runs |-> "new"]
  /\ asked  = [r \in Runs |-> {}]
  /\ holder = [r \in Runs |-> None]
  /\ winner = [r \in Runs |-> None]

Begin(r) ==
  /\ stage[r] = "new"
  /\ stage' = [stage EXCEPT ![r] = "going"]
  /\ UNCHANGED <<asked, holder, winner>>

Ask(r, d) ==
  /\ stage[r] = "going" /\ holder[r] = None /\ winner[r] = None
  /\ d \notin asked[r]
  /\ asked'  = [asked EXCEPT ![r] = @ \cup {d}]
  /\ holder' = [holder EXCEPT ![r] = d]
  /\ UNCHANGED <<stage, winner>>

Withdraw(r) ==                             \* declined or timed out
  /\ stage[r] = "going" /\ holder[r] # None
  /\ holder' = [holder EXCEPT ![r] = None]
  /\ UNCHANGED <<stage, asked, winner>>

Win(r) ==
  /\ stage[r] = "going" /\ holder[r] # None /\ winner[r] = None
  /\ winner' = [winner EXCEPT ![r] = holder[r]]
  /\ holder' = [holder EXCEPT ![r] = None]
  /\ UNCHANGED <<stage, asked>>

\* Runs come to their end: one by itself, all at once in a crash.
End(S) ==
  /\ \A r \in S : stage[r] = "going"
  /\ stage'  = [r \in Runs |-> IF r \in S THEN "over" ELSE stage[r]]
  /\ holder' = [r \in Runs |-> IF r \in S THEN None ELSE holder[r]]
  /\ UNCHANGED <<asked, winner>>

ProtocolNext ==
  \/ \E r \in Runs : Begin(r) \/ Withdraw(r) \/ Win(r)
  \/ \E r \in Runs, d \in Drivers : Ask(r, d)
  \/ \E S \in SUBSET Runs : End(S)

ProtocolSpec == ProtocolInit /\ [][ProtocolNext]_protocolVars
=============================================================================
