-------------------------- MODULE MCDispatchEngine --------------------------
(* Small instances of DispatchEngine for TLC. *)
EXTENDS DispatchEngine, TLC

\* Jobs, drivers and manual dispatches are interchangeable.
Symmetry ==
  Permutations(Jobs) \cup Permutations(Drivers) \cup Permutations(Redispatches)

\* One driver of two is taken offline by hand, before the manual dispatch (the search
\* alone reads statuses) and while no handler is at work.
Patching  == \E d \in Drivers, s \in Patches : SetStatus(d, s)
Patchable ==
  /\ tasks = {} /\ accepts = {}
  /\ \A d \in Drivers : driverStatus[d] # "offline"
  /\ \A r \in Redispatches : job[r] = None

PatchSpec == Init /\ [][Next /\ (Patching => Patchable)]_vars /\ Fairness

\* Queries and due timeouts take no time next to the TTLs: the lock then runs
\* out through the length of the cascade alone.
PromptSpec ==
  Init /\ [][Next /\ (Tick => /\ tasks = {} /\ accepts = {}
                              /\ \A t \in timers : t.left > 0)]_vars
=============================================================================
