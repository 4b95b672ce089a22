----------------------- MODULE LocationTrackingProofs -----------------------
(***************************************************************************)
(* Proofs about LocationTracking, for any number of uses of the switch and *)
(* of failures.                                                            *)
(*                                                                         *)
(* QuietOffline looks at states in which nothing is on its way.  Settling  *)
(* says what the one call that may be on its way, as long as none has been *)
(* overtaken, is going to leave behind.                                    *)
(***************************************************************************)
EXTENDS LocationTracking, TLAPS

Stages == {"ready", "start", "stop"}

\* What holds even when calls overtake each other.
Always ==
  /\ isTracking <=> screen = "online"
  /\ \A c \in calls : c.at \in Stages
  /\ ~ linked => calls = {} /\ ~ running
  /\ screen = "killed" => calls = {} /\ intervals = {}

Settling ==
  /\ \A c, d \in calls : c = d
  /\ intervals \subseteq {mockInterval}
  /\ calls # {} => intervals = {}
  /\ \A c \in calls : c.at = "stop" <=> screen # "online"
  /\ calls = {} /\ screen \in {"offline", "away"} => ~ running /\ intervals = {}
  /\ screen \in {"online", "offline", "away", "killed"}

IInv == Always /\ (~ overlapped => Settling)

LEMMA InvInit == Init => IInv
<1> SUFFICES ASSUME Init
             PROVE  IInv
  OBVIOUS
<1>1. calls = {} /\ intervals = {} /\ screen = "away" /\ ~ isTracking /\ ~ running
  BY Zenon DEF Init
<1> QED
  BY <1>1 DEF IInv, Always, Settling

\* What the handlers of the screen do, apart from the counting.
Starting(n) == StartTracking(n) /\ screen' = "online" /\ screen # "online"
Stopping(n) == StopTracking(n) /\ screen' \in {"away", "offline"}

LEMMA ScreenSteps ==
  ASSUME Always, Mount \/ ToggleOnline \/ Unmount
  PROVE  /\ UNCHANGED <<linked, running>>
         /\ \E n : Starting(n) \/ Stopping(n)
BY Zenon DEF Mount, ToggleOnline, Unmount, Show, Starting, Stopping

\* A call that starts one way ends that way.
LEMMA CallAt ==
  ASSUME NEW n, NEW s \in Stages
  PROVE  [by |-> n, at |-> s].at = s
OBVIOUS

\* startTracking and stopTracking keep the two in step with the screen,
LEMMA StartStep ==
  ASSUME IInv, UNCHANGED <<linked, running>>, NEW n, Starting(n)
  PROVE  IInv'
<1>1. /\ ~ isTracking /\ isTracking' /\ screen' = "online" /\ screen # "online"
      /\ \/ linked /\ Ask(n, "ready") /\ UNCHANGED simVars
         \/ ~ linked /\ StartSimulated(n) /\ UNCHANGED <<calls, overlapped>>
  BY Zenon DEF Starting, StartTracking, IInv, Always
<1>2. CASE linked
  <2>1. /\ calls' = calls \cup {[by |-> n, at |-> "ready"]}
        /\ overlapped' <=> overlapped \/ calls # {}
        /\ UNCHANGED <<mockInterval, intervals>>
    BY <1>1, <1>2 DEF Ask, simVars
  <2> QED
    BY <1>1, <1>2, <2>1, CallAt DEF IInv, Always, Settling, Stages
<1>3. CASE ~ linked
  <2>1. /\ mockInterval' = n /\ intervals' = intervals \cup {n}
        /\ UNCHANGED <<calls, overlapped>>
    BY <1>1, <1>3 DEF StartSimulated
  <2> QED
    BY <1>1, <1>3, <2>1 DEF IInv, Always, Settling
<1> QED
  BY <1>2, <1>3

LEMMA StopStep ==
  ASSUME IInv, UNCHANGED <<linked, running>>, NEW n, Stopping(n)
  PROVE  IInv'
<1>1. /\ ~ isTracking' /\ screen' \in {"away", "offline"}
      /\ intervals' = intervals \ {mockInterval}
      /\ IF linked THEN Ask(n, "stop") ELSE UNCHANGED <<calls, overlapped>>
  BY Zenon DEF Stopping, StopTracking
<1>2. CASE linked
  <2>1. /\ calls' = calls \cup {[by |-> n, at |-> "stop"]}
        /\ overlapped' <=> overlapped \/ calls # {}
    BY <1>1, <1>2 DEF Ask
  <2> QED
    BY <1>1, <1>2, <2>1, CallAt DEF IInv, Always, Settling, Stages
<1>3. CASE ~ linked
  BY <1>1, <1>3 DEF IInv, Always, Settling
<1> QED
  BY <1>2, <1>3

\* an answer moves the one call on or ends it,
LEMMA NativeKeeps ==
  ASSUME IInv, NEW c \in calls, Ready(c) \/ Resolves(c)
  PROVE  IInv'
<1>1. UNCHANGED <<linked, screen, isTracking, mockInterval, intervals, overlapped>>
  BY Zenon DEF Ready, Resolves, simVars
<1>2. CASE Ready(c)
  <2>1. [c EXCEPT !.at = "start"].at = "start"
    BY DEF IInv, Always
  <2>2. /\ c.at = "ready" /\ UNCHANGED running
        /\ calls' = (calls \ {c}) \cup {[c EXCEPT !.at = "start"]}
    BY <1>2, Zenon DEF Ready
  <2> QED
    BY <1>1, <2>1, <2>2 DEF IInv, Always, Settling, Stages
<1>3. CASE Resolves(c)
  <2>1. /\ c.at \in {"start", "stop"} /\ calls' = calls \ {c}
        /\ running' <=> c.at = "start"
    BY <1>3 DEF Resolves, Effect
  <2> QED
    BY <1>1, <2>1 DEF IInv, Always, Settling, Stages
<1> QED
  BY <1>2, <1>3

\* and a rejection leaves the simulation or the mark that it was ignored.
LEMMA RejectsKeeps ==
  ASSUME IInv, NEW c \in calls, Rejects(c)
  PROVE  IInv'
<1>1. /\ UNCHANGED <<linked, screen, isTracking, running>> /\ calls' = calls \ {c}
      /\ \/ c.at # "stop" /\ StartSimulated(c.by) /\ UNCHANGED overlapped
         \/ overlapped' = TRUE /\ UNCHANGED simVars
  BY Zenon DEF Rejects
<1> QED
  BY <1>1 DEF IInv, Always, Settling, StartSimulated, simVars

LEMMA InvStep == IInv /\ [Next]_vars => IInv'
<1> SUFFICES ASSUME IInv, [Next]_vars
             PROVE  IInv'
  OBVIOUS
<1>1. CASE Mount \/ ToggleOnline \/ Unmount
  BY <1>1, ScreenSteps, StartStep, StopStep DEF IInv
<1>2. CASE Kill
  <2>1. /\ screen' = "killed" /\ ~ isTracking' /\ calls' = {} /\ intervals' = {}
        /\ UNCHANGED <<linked, overlapped>>
    BY <1>2, Zenon DEF Kill
  <2>2. ~ linked => ~ running'
    BY <1>2 DEF Kill, IInv, Always
  <2> QED
    BY <2>1, <2>2 DEF IInv, Always, Settling
<1>3. CASE UNCHANGED vars
  BY <1>3 DEF vars, simVars, IInv, Always, Settling
<1> QED
  BY <1>1, <1>2, <1>3, NativeKeeps, RejectsKeeps DEF Next, NativeStep

THEOREM Invariance == Spec => []IInv
BY InvInit, InvStep, PTL DEF Spec

\* Once the native module has answered, a driver who went offline is not tracked,
\* however often the app was killed and tracking failed before.
THEOREM OfflineIsQuiet == Spec => []QuietOffline
<1>1. IInv => QuietOffline
  BY DEF IInv, Settling, QuietOffline
<1> QED
  BY <1>1, Invariance, PTL
=============================================================================
