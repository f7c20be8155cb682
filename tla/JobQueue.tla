------------------------------ MODULE JobQueue ------------------------------
(***************************************************************************)
(* The durable execution core: the PostgreSQL job queue with leases        *)
(* (db/jobs.py), the human review gates, the public run row (db/runs.py)   *)
(* and the workers that claim, heartbeat, execute, complete and fail jobs  *)
(* (worker.py).  Every method of PostgresJobRepository is one database     *)
(* transaction and so one action; a worker is a sequence of such actions   *)
(* that other workers, the clock, the reviewers and crashes interleave.    *)
(*                                                                         *)
(* Time is relative.  Every timestamp the code stores is "now + constant"  *)
(* and every test compares it with "now", so lease_expires_at is kept as   *)
(* the number of ticks left (0: expired or NULL) and available_at as       *)
(* whether the back-off of a retry is still running.                       *)
(***************************************************************************)
EXTENDS Integers, FiniteSets

CONSTANTS
  Runs,         \* run ids
  ReviewRuns,   \* the runs submitted with review_plan = true
  Procs,        \* concurrent calls of run_worker_once
  WorkerIds,    \* the worker_id strings in use
  WorkerIdOf,   \* the worker_id each call passes to the repository
  None,         \* SQL NULL
  LeaseTicks,   \* LEASE_SECONDS, in heartbeat intervals
  MaxAttempts,  \* jobs.max_attempts
  Stalls,       \* may a live worker miss its heartbeats until the lease ends?
  MaxGates,     \* bound: gate versions of a run
  MaxPlans,     \* bound: creative plans drafted for a run
  MaxRegens,    \* bound: regenerate decisions of the reviewers
  MaxReclaims,  \* bound: claims of an expired lease, per job
  MaxCrashes    \* bound: process deaths and heartbeat errors

(***************************************************************************)
(* uuid5 makes every id a function of its content: the execute_run job of  *)
(* a run, gate version v of a run, and the resume_run job of that gate.    *)
(***************************************************************************)
GateIds == Runs \X (1..MaxGates)
ExecuteJob(r) == <<r, 0>>
JobIds == Runs \X (0..MaxGates)

\* Small numbers only by type; None is no worker and no job.
ASSUME ConstantsAssumption ==
  /\ ReviewRuns \subseteq Runs
  /\ WorkerIdOf \in [Procs -> WorkerIds]
  /\ None \notin WorkerIds \cup JobIds
  /\ LeaseTicks \in Nat \ {0}
  /\ MaxAttempts \in Nat \ {0}
  /\ Stalls \in BOOLEAN
  /\ MaxGates \in Nat
  /\ MaxPlans \in Nat
  /\ MaxRegens \in Nat
  /\ MaxReclaims \in Nat
  /\ MaxCrashes \in Nat

JobStatus == {"none", "queued", "running", "retry", "succeeded", "failed", "cancelled"}
TerminalJob == {"succeeded", "failed", "cancelled"}
Phases == {"absent", "running", "review", "done", "error", "cancelled"}
GateStatus == {"none", "pending", "resolved", "cancelled"}
\* "unselected": a resolution without the creators' voice selections.
Decisions == {"approve", "regenerate", "unselected"}

VARIABLES
  (* jobs: one row per job id *)
  jstatus, attempt, lease, owner, backoff,
  (* runs, run_gates, outbox, run_events *)
  phase, gate, gplan, decision, outbox, log,
  (* the LangGraph checkpoint of the run's thread (external) *)
  ckpt, nplans,
  (* the calls of run_worker_once, and the review requests in flight *)
  pc, cur, att, thread, seen, checked,
  (* history: expired leases re-claimed, plans a decision was applied to *)
  reclaims, applied, crashes

jobVars == <<jstatus, attempt, lease, owner, backoff, reclaims>>
runVars == <<phase, log>>
gateVars == <<gate, gplan, decision, checked>>
graphVars == <<ckpt, nplans, applied>>
procVars == <<pc, cur, att, thread, seen>>
vars == <<jobVars, runVars, gateVars, graphVars, procVars, outbox, crashes>>

-----------------------------------------------------------------------------
(* Where a run's graph stands: nothing executed, drafting the creative     *)
(* plan, interrupted in node_review, producing the items, at END.          *)
Points == {"empty", "drafting", "review", "producing", "ended"}
Thread == [at : Points, plan : 0..MaxPlans]
Idle == [at |-> "empty", plan |-> 0]

Init ==
  /\ jstatus = [j \in JobIds |-> "none"]
  /\ attempt = [j \in JobIds |-> 0]
  /\ lease = [j \in JobIds |-> 0]
  /\ owner = [j \in JobIds |-> None]
  /\ backoff = [j \in JobIds |-> FALSE]
  /\ reclaims = [j \in JobIds |-> 0]
  /\ phase = [r \in Runs |-> "absent"]
  /\ log = [r \in Runs |-> {}]
  /\ gate = [g \in GateIds |-> "none"]
  /\ gplan = [g \in GateIds |-> 0]
  /\ decision = [g \in GateIds |-> None]
  /\ checked = {}
  /\ ckpt = [r \in Runs |-> Idle]
  /\ nplans = [r \in Runs |-> 0]
  /\ applied = {}
  /\ pc = [p \in Procs |-> "idle"]
  /\ cur = [p \in Procs |-> None]
  /\ att = [p \in Procs |-> 0]
  /\ thread = [p \in Procs |-> Idle]
  /\ seen = [p \in Procs |-> 0]
  /\ outbox = {}
  /\ crashes = 0

-----------------------------------------------------------------------------
(* PostgresJobRepository                                                   *)

\* Insert a job row in status queued, with the outbox row that announces it.
InsertJob(j) ==
  /\ jstatus' = [jstatus EXCEPT ![j] = "queued"]
  /\ outbox' = outbox \cup {j}

\* enqueue_run: the run row and its execute_run job, both ON CONFLICT DO NOTHING.
EnqueueRun(r) ==
  /\ phase[r] = "absent"
  /\ phase' = [phase EXCEPT ![r] = "running"]
  /\ InsertJob(ExecuteJob(r))
  /\ UNCHANGED <<attempt, lease, owner, backoff, reclaims, log, gateVars,
                 graphVars, procVars, crashes>>

\* Faulty variants: finished jobs, running jobs, or no expired lease selected.
ClaimableUnlessLeased(j) == jstatus[j] # "none" /\ lease[j] = 0 /\ reclaims[j] < MaxReclaims

ClaimableWhileRunning(j) == jstatus[j] \in {"queued", "running", "retry"} /\ ~backoff[j]

\* The rows the candidates CTE of claim selects.
Claimable(j) ==
  \/ jstatus[j] \in {"queued", "retry"} /\ ~backoff[j]
  \/ jstatus[j] = "running" /\ lease[j] = 0 /\ reclaims[j] < MaxReclaims

\* claim: attempt is incremented whatever max_attempts says.
Claim(p, j) ==
  /\ pc[p] = "idle"
  /\ Claimable(j)
  /\ jstatus' = [jstatus EXCEPT ![j] = "running"]
  /\ attempt' = [attempt EXCEPT ![j] = @ + 1]
  /\ owner' = [owner EXCEPT ![j] = WorkerIdOf[p]]
  /\ lease' = [lease EXCEPT ![j] = LeaseTicks]
  /\ reclaims' = [reclaims EXCEPT ![j] = IF jstatus[j] = "running" THEN @ + 1 ELSE @]
  /\ pc' = [pc EXCEPT ![p] = "claimed"]
  /\ cur' = [cur EXCEPT ![p] = j]
  /\ att' = [att EXCEPT ![p] = attempt[j] + 1]
  /\ UNCHANGED <<backoff, runVars, gateVars, graphVars, thread, seen, outbox, crashes>>

\* Faulty variant: a lease guard that does not compare worker_id.
HeldByAnyone(p) == pc[p] # "idle" /\ jstatus[cur[p]] = "running" /\ lease[cur[p]] > 0

\* The WHERE clause complete, renew and fail share.
Held(p) ==
  /\ pc[p] # "idle"
  /\ jstatus[cur[p]] = "running"
  /\ owner[cur[p]] = WorkerIdOf[p]
  /\ lease[cur[p]] > 0

\* run_worker_once returns or raises: the process keeps nothing.
Leave(p) ==
  /\ pc' = [pc EXCEPT ![p] = "idle"]
  /\ cur' = [cur EXCEPT ![p] = None]
  /\ att' = [att EXCEPT ![p] = 0]
  /\ thread' = [thread EXCEPT ![p] = Idle]
  /\ seen' = [seen EXCEPT ![p] = 0]

\* renew, from the heartbeat task that runs beside every step of the execution.
Renew(p) ==
  /\ Held(p)
  /\ lease' = [lease EXCEPT ![cur[p]] = LeaseTicks]
  /\ UNCHANGED <<jstatus, attempt, owner, backoff, reclaims, runVars, gateVars,
                 graphVars, procVars, outbox, crashes>>

\* LeaseLostError from renew, complete or fail: the execution task is
\* cancelled and the error is raised without another write.
LoseLease(p) ==
  /\ pc[p] # "idle"
  /\ ~Held(p)
  /\ Leave(p)
  /\ UNCHANGED <<jobVars, runVars, gateVars, graphVars, outbox, crashes>>

\* complete: worker_id is kept on the row, the lease is cleared.
Complete(p) ==
  /\ pc[p] = "finish"
  /\ Held(p)
  /\ jstatus' = [jstatus EXCEPT ![cur[p]] = "succeeded"]
  /\ lease' = [lease EXCEPT ![cur[p]] = 0]
  /\ Leave(p)
  /\ UNCHANGED <<attempt, owner, backoff, reclaims, runVars, gateVars, graphVars,
                 outbox, crashes>>

\* A job is retried while attempt < max_attempts.
RetriesLeft(j) == attempt[j] < MaxAttempts

\* fail: a retry with back-off, or a definitive failure that also moves the
\* run to phase error.
RecordFailure(p, retryable) ==
  LET j == cur[p]
      willRetry == retryable /\ RetriesLeft(j)
  IN /\ Held(p)
     /\ jstatus' = [jstatus EXCEPT ![j] = IF willRetry THEN "retry" ELSE "failed"]
     /\ backoff' = [backoff EXCEPT ![j] = willRetry]
     /\ lease' = [lease EXCEPT ![j] = 0]
     /\ owner' = [owner EXCEPT ![j] = None]
     /\ IF willRetry
        THEN UNCHANGED runVars
        ELSE /\ phase' = [phase EXCEPT ![j[1]] = "error"]
             /\ log' = [log EXCEPT ![j[1]] = @ \cup {"error"}]
     /\ Leave(p)
     /\ UNCHANGED <<attempt, reclaims, gateVars, graphVars, outbox>>

\* Any step of the execution may raise, retryably or not.
Fail(p, retryable) ==
  /\ pc[p] \notin {"idle", "finish"}
  /\ RecordFailure(p, retryable)
  /\ UNCHANGED crashes

\* The heartbeat may die of a database error after the execution's last write
\* has committed: the job is then failed, as retryable, although it is done.
HeartbeatError(p) ==
  /\ pc[p] = "finish"
  /\ crashes < MaxCrashes
  /\ crashes' = crashes + 1
  /\ RecordFailure(p, TRUE)

\* The versions a run's gates have used.
Versions(r) == {v \in 1..MaxGates : gate[<<r, v>>] # "none"}

\* Faulty variant: the highest version itself.
IsLastVersion(r, v) ==
  /\ v = 1 \/ v \in Versions(r)
  /\ \A w \in Versions(r) : w <= v

\* coalesce(max(version), 0) + 1
IsNextVersion(r, v) ==
  /\ \A w \in Versions(r) : w < v
  /\ v = 1 \/ v - 1 \in Versions(r)

\* open_gate: not conditional on the lease of the job that opens it.
OpenGate(p) ==
  LET r == cur[p][1] IN
  /\ pc[p] = "open_gate"
  /\ \E v \in 1..MaxGates :
       /\ IsNextVersion(r, v)
       /\ gate' = [gate EXCEPT ![<<r, v>>] = "pending"]
       /\ gplan' = [gplan EXCEPT ![<<r, v>>] = seen[p]]
  /\ phase' = [phase EXCEPT ![r] = "review"]
  /\ pc' = [pc EXCEPT ![p] = "finish"]
  /\ UNCHANGED <<jobVars, log, decision, checked, graphVars, cur, att, thread,
                 seen, outbox, crashes>>

\* get_pending_gate: the pending gate with the highest version.
IsPendingGate(g) ==
  /\ gate[g] = "pending"
  /\ \A w \in 1..MaxGates : gate[<<g[1], w>>] = "pending" => w <= g[2]

\* Faulty variant: no test that the gate is still pending.
ResolveAnyGate(g, d) ==
  /\ gate[g] # "none"
  /\ gate' = [gate EXCEPT ![g] = "resolved"]
  /\ decision' = [decision EXCEPT ![g] = d]
  /\ InsertJob(g)
  /\ phase' = [phase EXCEPT ![g[1]] = "running"]
  /\ UNCHANGED <<attempt, lease, owner, backoff, reclaims, log, gplan, graphVars,
                 procVars, crashes>>

\* resolve_gate: the gate, the resume_run job with its outbox row, the phase.
ResolveGate(g, d) ==
  /\ gate[g] = "pending"
  /\ gate' = [gate EXCEPT ![g] = "resolved"]
  /\ decision' = [decision EXCEPT ![g] = d]
  /\ InsertJob(g)
  /\ phase' = [phase EXCEPT ![g[1]] = "running"]
  /\ UNCHANGED <<attempt, lease, owner, backoff, reclaims, log, gplan, graphVars,
                 procVars, crashes>>

\* cancel_pending_test_runs: every pending gate, and the runs and jobs behind them.
CancelPending ==
  LET hit == {g[1] : g \in {h \in GateIds : gate[h] = "pending"}}
      victim(j) == j[1] \in hit /\ jstatus[j] \in {"queued", "running", "retry"}
  IN /\ hit # {}
     /\ gate' = [g \in GateIds |-> IF gate[g] = "pending" THEN "cancelled" ELSE gate[g]]
     /\ phase' = [r \in Runs |-> IF r \in hit /\ phase[r] \in {"running", "review"}
                                 THEN "cancelled" ELSE phase[r]]
     /\ jstatus' = [j \in JobIds |-> IF victim(j) THEN "cancelled" ELSE jstatus[j]]
     /\ lease' = [j \in JobIds |-> IF victim(j) THEN 0 ELSE lease[j]]
     /\ owner' = [j \in JobIds |-> IF victim(j) THEN None ELSE owner[j]]
     /\ log' = [r \in Runs |-> IF r \in hit THEN log[r] \cup {"run_cancelled"} ELSE log[r]]
     /\ UNCHANGED <<attempt, backoff, reclaims, gplan, decision, checked, graphVars,
                    procVars, outbox, crashes>>

-----------------------------------------------------------------------------
(* worker._execute_pipeline_job and the LangGraph thread it drives.  Each  *)
(* superstep is checkpointed; a process works on the thread it loaded and  *)
(* its next checkpoint becomes the latest one.                             *)

Checkpoint(p, t) ==
  /\ thread' = [thread EXCEPT ![p] = t]
  /\ ckpt' = [ckpt EXCEPT ![cur[p][1]] = t]

\* runner.run_pipeline: a fresh input restarts the graph at START.
BeginExecute(p) ==
  LET r == cur[p][1] IN
  /\ pc[p] = "claimed"
  /\ cur[p] = ExecuteJob(r)
  /\ Checkpoint(p, [ckpt[r] EXCEPT !.at = "drafting"])
  /\ pc' = [pc EXCEPT ![p] = "exec"]
  /\ UNCHANGED <<jobVars, runVars, gateVars, nplans, applied, cur, att, seen,
                 outbox, crashes>>

\* node_review cannot take a resolution that selects no voices.
Refused(g) == ckpt[g[1]].at = "review" /\ decision[g] = "unselected"

\* validate_voice_selections raises in the resumed node_review: the job fails, retryably,
\* although its gate is gone.
RefuseResume(p) ==
  /\ pc[p] = "claimed"
  /\ cur[p] \in GateIds
  /\ Refused(cur[p])
  /\ RecordFailure(p, TRUE)
  /\ UNCHANGED crashes

\* runner.resume_pipeline: Command(resume=resolution) answers the interrupt the
\* checkpoint is waiting at, if any; otherwise the thread just continues.
BeginResume(p) ==
  LET g == cur[p]
      c == ckpt[g[1]]
      answered == [c EXCEPT !.at = IF decision[g] = "approve" THEN "producing" ELSE "drafting"]
  IN /\ pc[p] = "claimed"
     /\ g \in GateIds
     /\ ~Refused(g)
     /\ IF c.at = "review"
        THEN /\ Checkpoint(p, answered)
             /\ applied' = applied \cup {<<g, c.plan>>}
        ELSE /\ thread' = [thread EXCEPT ![p] = c]
             /\ UNCHANGED <<ckpt, applied>>
     /\ pc' = [pc EXCEPT ![p] = "exec"]
     /\ UNCHANGED <<jobVars, runVars, gateVars, nplans, cur, att, seen, outbox, crashes>>

\* The drafting stages (concepts .. voice_candidates) produce a new plan; then
\* node_review interrupts, or returns at once when review_plan is off.
Draft(p) ==
  LET r == cur[p][1] IN
  /\ pc[p] = "exec" /\ thread[p].at = "drafting"
  /\ nplans[r] < MaxPlans
  /\ nplans' = [nplans EXCEPT ![r] = @ + 1]
  /\ Checkpoint(p, [at |-> IF r \in ReviewRuns THEN "review" ELSE "producing",
                    plan |-> nplans[r] + 1])
  /\ pc' = [pc EXCEPT ![p] = IF r \in ReviewRuns THEN "ran" ELSE "exec"]
  /\ UNCHANGED <<jobVars, runVars, gateVars, applied, cur, att, seen, outbox, crashes>>

\* finalize_voices, the fan-out and feedback run to END.
Produce(p) ==
  /\ pc[p] = "exec" /\ thread[p].at = "producing"
  /\ Checkpoint(p, [thread[p] EXCEPT !.at = "ended"])
  /\ pc' = [pc EXCEPT ![p] = "ran"]
  /\ UNCHANGED <<jobVars, runVars, gateVars, nplans, applied, cur, att, seen,
                 outbox, crashes>>

\* A resumed thread that is already at END has nothing to run.
AlreadyEnded(p) ==
  /\ pc[p] = "exec" /\ thread[p].at = "ended"
  /\ pc' = [pc EXCEPT ![p] = "ran"]
  /\ UNCHANGED <<jobVars, runVars, gateVars, graphVars, cur, att, thread, seen,
                 outbox, crashes>>

\* get_status and get_interrupt read the latest checkpoint, whoever wrote it.
Inspect(p) ==
  LET c == ckpt[cur[p][1]] IN
  /\ pc[p] = "ran"
  /\ pc' = [pc EXCEPT ![p] = IF c.at = "review" THEN "save_running" ELSE "save_done"]
  /\ seen' = [seen EXCEPT ![p] = c.plan]
  /\ UNCHANGED <<jobVars, runVars, gateVars, graphVars, cur, att, thread, outbox, crashes>>

\* PostgresRunRepository.save: an unconditional upsert of the phase.
Save(p, ph, next) ==
  /\ phase' = [phase EXCEPT ![cur[p][1]] = ph]
  /\ pc' = [pc EXCEPT ![p] = next]
  /\ UNCHANGED <<jobVars, log, gateVars, graphVars, cur, att, thread, seen, outbox, crashes>>

\* Faulty variant: the finished run keeps phase running.
SaveDoneAsRunning(p) == pc[p] = "save_done" /\ Save(p, "running", "run_end")

SaveRunning(p) == pc[p] = "save_running" /\ Save(p, "running", "open_gate")
SaveDone(p) == pc[p] = "save_done" /\ Save(p, "done", "run_end")

\* append_event(run_end): a transaction of its own after the save.
RunEnd(p) ==
  /\ pc[p] = "run_end"
  /\ log' = [log EXCEPT ![cur[p][1]] = @ \cup {"run_end"}]
  /\ pc' = [pc EXCEPT ![p] = "finish"]
  /\ UNCHANGED <<jobVars, phase, gateVars, graphVars, cur, att, thread, seen, outbox, crashes>>

-----------------------------------------------------------------------------
(* The environment: the clock, process deaths and the reviewers.           *)

\* Without stalls a live worker renews before its lease can run out.
Timely == \A p \in Procs : Held(p) => lease[cur[p]] > 1

\* The remaining time of a lease, one tick later; 0 is an expired lease or NULL.
Left(n) == IF n > 0 THEN n - 1 ELSE 0

Tick ==
  /\ \E j \in JobIds : lease[j] > 0 \/ backoff[j]
  /\ Stalls \/ Timely
  /\ lease' = [j \in JobIds |-> Left(lease[j])]
  /\ backoff' = [j \in JobIds |-> FALSE]
  /\ UNCHANGED <<jstatus, attempt, owner, reclaims, runVars, gateVars, graphVars,
                 procVars, outbox, crashes>>

\* The process dies, is cancelled at shutdown, or the database refuses the
\* final complete: nothing more is written for this claim.
Crash(p) ==
  /\ pc[p] # "idle"
  /\ crashes < MaxCrashes
  /\ crashes' = crashes + 1
  /\ Leave(p)
  /\ UNCHANGED <<jobVars, runVars, gateVars, graphVars, outbox>>

\* POST /api/v2/runs/{run}/review reads the pending gate and compares ...
ReviewCheck(g) ==
  /\ IsPendingGate(g)
  /\ g \notin checked
  /\ checked' = checked \cup {g}
  /\ UNCHANGED <<jobVars, runVars, gate, gplan, decision, graphVars, procVars, outbox, crashes>>

\* ... and resolves it in another transaction (409 or 410 when it is too late).
ReviewResolve(g, d) ==
  /\ g \in checked
  /\ d = "regenerate" =>
       Cardinality({h \in GateIds : decision[h] = "regenerate"}) < MaxRegens
  /\ checked' = checked \ {g}
  /\ ResolveGate(g, d)

ReviewRejected(g) ==
  /\ g \in checked
  /\ gate[g] # "pending"
  /\ checked' = checked \ {g}
  /\ UNCHANGED <<jobVars, runVars, gate, gplan, decision, graphVars, procVars, outbox, crashes>>

\* POST /api/approve/{run} and .../concepts resolve the gate they are given, with
\* neither that check nor any voice selection in the resolution.
Approve(g) ==
  /\ ResolveGate(g, "unselected")
  /\ UNCHANGED checked

-----------------------------------------------------------------------------
Step(p) ==
  \/ \E j \in JobIds : Claim(p, j)
  \/ BeginExecute(p) \/ BeginResume(p) \/ RefuseResume(p)
  \/ Draft(p) \/ Produce(p) \/ AlreadyEnded(p)
  \/ Inspect(p) \/ SaveRunning(p) \/ OpenGate(p) \/ SaveDone(p) \/ RunEnd(p)
  \/ Complete(p)

Next ==
  \/ \E r \in Runs : EnqueueRun(r)
  \/ \E p \in Procs : Step(p) \/ Renew(p) \/ LoseLease(p) \/ Crash(p) \/ HeartbeatError(p)
  \/ \E p \in Procs, retryable \in BOOLEAN : Fail(p, retryable)
  \/ \E g \in GateIds : ReviewCheck(g) \/ ReviewRejected(g) \/ Approve(g)
  \/ \E g \in GateIds, d \in {"approve", "regenerate"} : ReviewResolve(g, d)
  \/ CancelPending
  \/ Tick

Spec == Init /\ [][Next]_vars

-----------------------------------------------------------------------------
PcStates == {"idle", "claimed", "exec", "ran", "save_running", "open_gate",
             "save_done", "run_end", "finish"}

\* The columns and the workers' local variables have their types.
TypeOK ==
  /\ jstatus \in [JobIds -> JobStatus]
  /\ attempt \in [JobIds -> Nat]
  /\ lease \in [JobIds -> 0..LeaseTicks]
  /\ owner \in [JobIds -> WorkerIds \cup {None}]
  /\ backoff \in [JobIds -> BOOLEAN]
  /\ reclaims \in [JobIds -> Nat]
  /\ phase \in [Runs -> Phases]
  /\ log \in [Runs -> SUBSET {"run_end", "error", "run_cancelled"}]
  /\ gate \in [GateIds -> GateStatus]
  /\ gplan \in [GateIds -> 0..MaxPlans]
  /\ decision \in [GateIds -> Decisions \cup {None}]
  /\ checked \subseteq GateIds
  /\ ckpt \in [Runs -> Thread]
  /\ nplans \in [Runs -> 0..MaxPlans]
  /\ applied \subseteq GateIds \X (0..MaxPlans)
  /\ pc \in [Procs -> PcStates]
  /\ cur \in [Procs -> JobIds \cup {None}]
  /\ \A p \in Procs : cur[p] = None <=> pc[p] = "idle"
  /\ att \in [Procs -> Nat]
  /\ thread \in [Procs -> Thread]
  /\ seen \in [Procs -> 0..MaxPlans]
  /\ outbox \subseteq JobIds
  /\ crashes \in Nat

(* Properties that hold whatever crashes, stalls and interleavings occur.  *)

\* No other process passes the worker_id of p (the default is one per kind of process).
IdIsOwn(p) == \A q \in Procs : WorkerIdOf[q] = WorkerIdOf[p] => q = p

\* A worker that passes the lease guard of renew, complete and fail acts for the
\* latest claim of its job, or shares its worker_id with another: a stale claim can
\* finish a job that was re-claimed only where the ids do not tell the workers apart.
LeaseIdentifiesClaim ==
  \A p \in Procs : Held(p) => att[p] = attempt[cur[p]] \/ ~IdIsOwn(p)

\* Only the expiry of a lease buys a job an attempt beyond max_attempts: fail
\* schedules no retry past it, and claim has no other way back.
AttemptBudget == \A j \in JobIds : attempt[j] <= MaxAttempts + reclaims[j]

\* resolve_gate enqueues exactly one resume job per resolved gate, and a gate
\* that is pending or was cancelled never has one.
ResumeIffResolved == \A g \in GateIds : jstatus[g] # "none" <=> gate[g] = "resolved"

\* A finished job is never claimed, completed, failed or cancelled again, however
\* late a worker or a cancellation comes.
FinishedJobsStay ==
  [][\A j \in JobIds : jstatus[j] \in TerminalJob => jstatus'[j] = jstatus[j]]_vars

(* The inductive invariant behind the four properties above.               *)

\* A job that was never claimed has no attempts; one waiting for a retry has some left.
AttemptsFollowStatus ==
  \A j \in JobIds : /\ jstatus[j] \in {"none", "queued"} => attempt[j] = 0
                    /\ jstatus[j] = "retry" => attempt[j] < MaxAttempts

\* The execute_run job is inserted together with the run row.
NoJobBeforeItsRun == \A r \in Runs : phase[r] = "absent" => jstatus[ExecuteJob(r)] = "none"

QueueInv == AttemptsFollowStatus /\ NoJobBeforeItsRun /\ AttemptBudget /\ ResumeIffResolved

\* Every concurrent call of run_worker_once passes a worker_id of its own.
OwnIds == \A p, q \in Procs : WorkerIdOf[p] = WorkerIdOf[q] => p = q

\* The worker whose own id is on a running row knows the row's attempt, lease or no lease.
OwnerKnowsAttempt ==
  \A p \in Procs :
    /\ IdIsOwn(p)
    /\ pc[p] # "idle"
    /\ jstatus[cur[p]] = "running"
    /\ owner[cur[p]] = WorkerIdOf[p]
    => att[p] = attempt[cur[p]]

(* Properties of runs whose workers neither crash nor lose their heartbeat. *)

\* An approval is only ever applied to the plan its gate showed to the reviewer:
\* what goes into paid production is what was approved.  (A regenerate decision
\* may meet a later plan: the retry of a regenerate job answers the interrupt its
\* first attempt ran into.  That costs a draft, and the new gate shows the result.)
ApprovalMeetsItsPlan ==
  \A a \in applied : decision[a[1]] = "approve" => a[2] = gplan[a[1]]

\* A run has at most one review open.
OneReviewOpen ==
  \A r \in Runs : Cardinality({v \in 1..MaxGates : gate[<<r, v>>] = "pending"}) <= 1

\* No worker is on the run and no job of it is left to run.
Quiet(r) ==
  /\ phase[r] # "absent"
  /\ \A p \in Procs : pc[p] = "idle" \/ cur[p][1] # r
  /\ \A v \in 0..MaxGates : jstatus[<<r, v>>] \in TerminalJob \cup {"none"}

\* A run nobody works on is finished, or waits for a review that can be given.
QuietRunIsSettled ==
  \A r \in Runs : Quiet(r) =>
    \/ phase[r] \in {"done", "error", "cancelled"}
    \/ phase[r] = "review" /\ \E v \in 1..MaxGates : gate[<<r, v>>] = "pending"

(* The inductive invariant behind these three.  It is one of calm runs:    *)
(* when nobody crashes or stalls, a job a worker is on is that worker's    *)
(* until it is finished, and at most one job of a run can still move it.   *)

Calm == MaxCrashes = 0 /\ ~Stalls /\ OwnIds

\* The jobs that may still write to their run: a worker at "finish" only has to complete.
Busy(j) ==
  \/ jstatus[j] \in {"queued", "retry"}
  \/ \E p \in Procs : cur[p] = j /\ pc[p] \notin {"idle", "finish"}

BusyJobs == {j \in JobIds : Busy(j)}

\* Only a cancellation takes a job from a worker, and only from one that was done.
WorkersHold ==
  \A p \in Procs : pc[p] # "idle" =>
    Held(p) \/ (pc[p] = "finish" /\ jstatus[cur[p]] = "cancelled")

\* A running job has its worker, and no job has two.
OneWorkerPerJob ==
  /\ \A j \in JobIds : jstatus[j] = "running" => \E p \in Procs : cur[p] = j
  /\ \A p, q \in Procs : cur[p] = cur[q] /\ pc[p] # "idle" => p = q

LeaseInv == crashes = 0 /\ WorkersHold /\ OneWorkerPerJob

OneBusyJob == \A j, k \in BusyJobs : j[1] = k[1] => j = k

\* While a review is open nothing moves its run, and the checkpoint waits at the plan shown.
PendingWaits ==
  \A g \in GateIds : gate[g] = "pending" =>
    /\ \A j \in BusyJobs : j[1] # g[1]
    /\ \A h \in GateIds : gate[h] = "pending" /\ h[1] = g[1] => h = g
    /\ ckpt[g[1]] = [at |-> "review", plan |-> gplan[g]]

\* What a worker holds of its run is still so.
WorkerIsCurrent ==
  \A p \in Procs :
    /\ pc[p] = "exec" => thread[p] = ckpt[cur[p][1]]
    /\ pc[p] \in {"save_running", "open_gate"}
         => ckpt[cur[p][1]] = [at |-> "review", plan |-> seen[p]]
    /\ pc[p] = "run_end" => phase[cur[p][1]] = "done"

\* Until an approval is applied, the checkpoint waits at the plan it approved.
ApprovedPlanStands ==
  \A g \in GateIds : g \in BusyJobs /\ decision[g] = "approve" =>
    /\ ckpt[g[1]].at \in {"review", "producing", "ended"}
    /\ ckpt[g[1]].at = "review" => ckpt[g[1]].plan = gplan[g]

AppliedWasResolved == \A a \in applied : gate[a[1]] = "resolved"

\* The public phase says what the run waits for.
PhaseIsTrue ==
  \A r \in Runs :
    /\ phase[r] = "absent" => \A g \in GateIds : g[1] = r => gate[g] = "none"
    /\ phase[r] = "running" => \E j \in BusyJobs : j[1] = r
    /\ phase[r] = "review" <=> \E g \in GateIds : g[1] = r /\ gate[g] = "pending"

ReviewInv ==
  /\ OneBusyJob
  /\ PendingWaits
  /\ WorkerIsCurrent
  /\ ApprovedPlanStands
  /\ AppliedWasResolved
  /\ ApprovalMeetsItsPlan
  /\ PhaseIsTrue

CalmInv == LeaseInv /\ ReviewInv

=============================================================================
