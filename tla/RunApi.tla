-------------------------------- MODULE RunApi --------------------------------
(***************************************************************************)
(* One API over two back ends (web/routes_runs.py): with DATABASE_URL,     *)
(* POST /api/run queues a job, the worker reports through run_events and   *)
(* GET /api/state folds them (GraphEvents); without it, the run executes   *)
(* in the web process and its state and stream live in the registry        *)
(* (LocalRun).  The setting is fixed when the process starts.              *)
(***************************************************************************)
EXTENDS GraphEvents, LocalRun

VARIABLES
  database,  \* DATABASE_URL is set
  started    \* the run was created

apiVars == <<graphVars, localVars, database, started>>

ApiInit ==
  /\ GraphInit
  /\ LocalInit
  /\ database \in BOOLEAN
  /\ started = FALSE
  /\ ~database => reviewed   \* LocalRun chooses as it goes whether there is a review

\* start_run, start_run_v2: enqueue_run, or REGISTRY.create and a background task.
StartRun ==
  /\ ~started
  /\ started' = TRUE
  /\ UNCHANGED <<graphVars, localVars, database>>

Durable ==
  /\ started /\ database
  /\ GraphNext
  /\ UNCHANGED <<localVars, database, started>>

Local ==
  /\ started /\ ~database
  /\ LocalNext
  /\ UNCHANGED <<graphVars, database, started>>

\* retry_run: the failed run stays as it is, and the dashboard goes to a new one with the
\* payload of its first job.
RetryRun ==
  /\ started /\ database
  /\ runPhase = "error"
  /\ runPhase' = "running" /\ had' = {"running"}
  /\ job' = "execute_run" /\ attempt' = 0 /\ held' = "none"
  /\ at' = [node |-> "concepts", is |-> "queued", n |-> 0]
  /\ it' = [i \in Items |-> NewItem] /\ results' = << >>
  /\ fold' = Fresh /\ memo' = {} /\ passed' = {}
  /\ turns' = 0
  /\ UNCHANGED <<reviewed, localVars, database, started>>

ApiNext == StartRun \/ Durable \/ Local \/ RetryRun

ApiSpec == ApiInit /\ [][ApiNext]_apiVars

===============================================================================
