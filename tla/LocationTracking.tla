-------------------------- MODULE LocationTracking --------------------------
(***************************************************************************)
(* The driver app's LocationService and the screen that starts and stops   *)
(* it: background tracking by the native module, where it is compiled in   *)
(* and starts, and by a simulated interval where not.                      *)
(*                                                                         *)
(* startTracking and stopTracking await the native calls ready, start and  *)
(* stop, and the screen awaits neither: the driver may flip the switch,    *)
(* and the screen go away, while a call is on its way.  The system may     *)
(* kill the app, which the native service outlives (stopOnTerminate).      *)
(* What the same handlers ask of the socket, and what becomes of a ping, is*)
(* in DriverConnection.                                                    *)
(***************************************************************************)
EXTENDS Naturals

CONSTANTS
  MaxToggles,  \* bound: uses of the switch, mounts and ends of the screen
  MaxFailures  \* bound: rejected native calls and kills

ASSUME BoundAssumption == MaxToggles \in Nat /\ MaxFailures \in Nat

VARIABLES
  linked,        \* the native module is compiled in
  screen,        \* "away", "online", "offline", or "killed" with the app
  isTracking,
  mockInterval,  \* the handle the service holds, 0 for null
  intervals,     \* the intervals that are set
  running,       \* the native service reports locations
  subs,          \* onLocation subscriptions, never removed
  calls,         \* native calls in progress: by which start or stop, and which
  toggles, failures,
  rejected,      \* history: ready or start was rejected since tracking began
  overlapped     \* history: a call was made before the last was answered, or a
                 \* stop was rejected

simVars == <<mockInterval, intervals>>
vars == <<linked, screen, isTracking, simVars, running, subs, calls, toggles, failures,
          rejected, overlapped>>

Fail == failures < MaxFailures /\ failures' = failures + 1

Init ==
  /\ linked \in BOOLEAN
  /\ screen = "away"
  /\ isTracking = FALSE /\ mockInterval = 0 /\ intervals = {}
  /\ running = FALSE /\ subs = 0 /\ calls = {}
  /\ toggles = 0 /\ failures = 0 /\ rejected = FALSE /\ overlapped = FALSE
-----------------------------------------------------------------------------
(* The service *)

SlipSimulate(n) == UNCHANGED simVars           \* the catch only logs

StartSimulated(n) ==                           \* startSimulatedTracking
  /\ mockInterval' = n
  /\ intervals' = intervals \cup {n}

Ask(n, stage) ==
  /\ calls' = calls \cup {[by |-> n, at |-> stage]}
  /\ overlapped' = (overlapped \/ calls # {})

\* require throws when the module is not compiled in.
StartTracking(n) ==
  IF isTracking THEN UNCHANGED <<isTracking, simVars, calls, rejected, overlapped>>
  ELSE /\ isTracking' = TRUE /\ rejected' = FALSE
       /\ \/ linked /\ Ask(n, "ready") /\ UNCHANGED simVars
          \/ ~ linked /\ StartSimulated(n) /\ UNCHANGED <<calls, overlapped>>

SlipStopTracking(n) ==                         \* no clearInterval
  /\ isTracking' = FALSE
  /\ UNCHANGED <<simVars, rejected>>
  /\ IF linked THEN Ask(n, "stop") ELSE UNCHANGED <<calls, overlapped>>

StopTracking(n) ==
  /\ isTracking' = FALSE
  /\ intervals' = intervals \ {mockInterval}
  /\ mockInterval' = 0
  /\ UNCHANGED rejected
  /\ IF linked THEN Ask(n, "stop") ELSE UNCHANGED <<calls, overlapped>>

\* ready resolves: onLocation subscribes once more, start is called.
Ready(c) ==
  /\ c.at = "ready"
  /\ subs' = subs + 1
  /\ calls' = (calls \ {c}) \cup {[c EXCEPT !.at = "start"]}
  /\ UNCHANGED <<linked, screen, isTracking, simVars, running, toggles, failures,
                 rejected, overlapped>>

\* What start and stop leave behind in the native module.
Effect(c) == CASE c.at = "ready" -> running
               [] c.at = "start" -> TRUE
               [] c.at = "stop"  -> FALSE

Resolves(c) ==
  /\ c.at \in {"start", "stop"}
  /\ running' = Effect(c)
  /\ calls' = calls \ {c}
  /\ UNCHANGED <<linked, screen, isTracking, simVars, subs, toggles, failures, rejected,
                 overlapped>>

\* The catch of startTracking simulates the driver, whatever was called since;
\* that of stopTracking ignores the error.
Rejects(c) ==
  /\ Fail
  /\ calls' = calls \ {c}
  /\ \/ c.at # "stop" /\ StartSimulated(c.by) /\ rejected' = TRUE /\ UNCHANGED overlapped
     \/ c.at = "stop" /\ overlapped' = TRUE /\ UNCHANGED <<simVars, rejected>>
  /\ UNCHANGED <<linked, screen, isTracking, running, subs, toggles>>
-----------------------------------------------------------------------------
(* DriverHomeScreen *)

Show(s) ==
  /\ toggles < MaxToggles
  /\ toggles' = toggles + 1
  /\ screen' = s
  /\ UNCHANGED <<linked, running, subs, failures>>

Mount ==                                       \* isOnline is TRUE at first
  /\ screen \in {"away", "killed"}
  /\ Show("online")
  /\ StartTracking(toggles')

Unmount ==                                     \* the effect's cleanup
  /\ screen \in {"online", "offline"}
  /\ Show("away")
  /\ StopTracking(toggles')

ToggleOnline ==
  \/ screen = "offline" /\ Show("online") /\ StartTracking(toggles')
  \/ screen = "online" /\ Show("offline") /\ StopTracking(toggles')

\* The system ends the app: JavaScript loses everything, the native service goes
\* on, and what it was asked last may still take effect.
Kill ==
  /\ Fail
  /\ screen # "killed" /\ screen' = "killed"
  /\ isTracking' = FALSE /\ mockInterval' = 0 /\ intervals' = {}
  /\ subs' = 0 /\ calls' = {}
  /\ running' \in {running} \cup {Effect(c) : c \in calls}
  /\ UNCHANGED <<linked, toggles, rejected, overlapped>>

NativeStep == \E c \in calls : Ready(c) \/ Resolves(c)

Next ==
  \/ NativeStep \/ \E c \in calls : Rejects(c)
  \/ Mount \/ Unmount \/ ToggleOnline
  \/ Kill

Spec == Init /\ [][Next]_vars

\* The native module answers; drivers and the system owe nothing.
FairSpec == Spec /\ WF_vars(NativeStep)
-----------------------------------------------------------------------------
\* A driver who went offline, or whose screen is gone, is not tracked any more
\* once the native module has answered, whatever failed and restarted before,
\* unless the driver was faster than the native calls or the stop was rejected.
QuietOffline ==
  screen \in {"offline", "away"} /\ calls = {} /\ ~ overlapped =>
    ~ running /\ intervals = {}

\* A driver who is online is tracked in the end, by the native module where it is
\* compiled in and by the simulation where not, unless the driver was faster than the
\* native calls, or ready or start was rejected: what is reported then is made up.
Tracked == IF linked THEN running /\ subs > 0 ELSE intervals # {}

TracksOnline ==
  (isTracking /\ ~ overlapped) ~> (Tracked \/ ~ isTracking \/ rejected \/ overlapped)

\* Positions are simulated only where the native module is not compiled in
\* (LocationService.ts:111-112, src/apps/mobile/README.md:62).  The code breaks it.
SimulatesUnlinked == intervals # {} => ~ linked
=============================================================================
