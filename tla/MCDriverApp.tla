---------------------------- MODULE MCDriverApp ----------------------------
(* A small instance of DriverApp for TLC. *)
EXTENDS DriverApp, TLC

Symmetry == Permutations(Jobs) \cup Permutations(Drivers)

\* Beyond the first dispatch one thing more may happen: the dispatch of another
\* job, a manual dispatch, a failure, or a lost connection.
Budget == Cardinality({r \in Runs : Started(r)}) + failures + drops <= 2

\* With a second job about, the queries of a JOB_UPDATE are not interleaved with
\* other steps; one job has these interleavings already.
TwoJobs == \A j \in Jobs : jobStatus[j] # "absent"

\* Dispatching takes no time next to what drivers do, and queries none next to
\* the TTLs: the awaits of the engine's cascade come first, and time passes when
\* nothing is at an await.
Prompt ==
  /\ AppNext /\ Budget'
  /\ tasks # {} => tasks' # tasks
  /\ Tick => accepts = {} /\ updates = {}
  /\ TwoJobs /\ tasks = {} /\ updates # {} => updates' # updates

PromptSpec == AppInit /\ [][Prompt]_<<vars, appVars>>
=============================================================================
