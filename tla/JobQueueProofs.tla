--------------------------- MODULE JobQueueProofs ---------------------------
(* Theorems about JobQueue for every number of runs, workers, attempts,    *)
(* gates, crashes and stalls.                                              *)
EXTENDS JobQueue, FiniteSetTheorems, TLAPS

\* Moving a thread to another point of the graph keeps it a thread.
LEMMA ThreadMoves ==
  ASSUME NEW t \in Thread, NEW a \in Points
  PROVE  [t EXCEPT !.at = a] \in Thread /\ t.plan \in 0..MaxPlans
BY DEF Thread

\* fail writes well-typed columns whether the job is retried or failed for good.
LEMMA RecordFailureType ==
  ASSUME NEW p \in Procs, NEW retryable \in BOOLEAN, TypeOK, pc[p] # "idle",
         RecordFailure(p, retryable), crashes' \in Nat
  PROVE  TypeOK'
<1> USE ConstantsAssumption DEF TypeOK, JobStatus, Phases, GateStatus, PcStates, Points,
        runVars, gateVars, graphVars
<1>1. PICK willRetry \in BOOLEAN :
        willRetry = (retryable /\ RetriesLeft(cur[p]))
  OBVIOUS
<1>2. cur[p] \in JobIds /\ cur[p][1] \in Runs
  BY DEF JobIds
<1>3. /\ jstatus' \in [JobIds -> JobStatus]
      /\ lease' \in [JobIds -> 0..LeaseTicks]
      /\ owner' \in [JobIds -> WorkerIds \cup {None}]
      /\ phase' \in [Runs -> Phases]
      /\ log' \in [Runs -> SUBSET {"run_end", "error", "run_cancelled"}]
  BY <1>2 DEF RecordFailure
<1>4. backoff' \in [JobIds -> BOOLEAN]
  BY <1>1, <1>2 DEF RecordFailure
<1>5. /\ pc' \in [Procs -> PcStates]
      /\ cur' \in [Procs -> JobIds \cup {None}]
      /\ \A q \in Procs : cur'[q] = None <=> pc'[q] = "idle"
      /\ att' \in [Procs -> Nat]
      /\ thread' \in [Procs -> Thread]
      /\ seen' \in [Procs -> 0..MaxPlans]
  BY DEF RecordFailure, Leave, Idle, Thread
<1>6. UNCHANGED <<attempt, reclaims, gateVars, graphVars, outbox>>
  BY DEF RecordFailure
<1> QED
  BY <1>3, <1>4, <1>5, <1>6

\* Every column and local variable keeps its type through every action.
THEOREM TypeCorrect == Spec => []TypeOK
<1>1. Init => TypeOK
  BY ConstantsAssumption DEF Init, TypeOK, JobStatus, Phases, GateStatus, PcStates, Thread,
     Points, Idle, JobIds, GateIds
<1>2. TypeOK /\ [Next]_vars => TypeOK'
  <2> SUFFICES ASSUME TypeOK, [Next]_vars PROVE TypeOK'
    OBVIOUS
  <2> USE ConstantsAssumption DEF TypeOK, JobStatus, Phases, GateStatus, PcStates, Points,
          jobVars, runVars, gateVars, graphVars, procVars
  <2>1. CASE UNCHANGED vars
    BY <2>1 DEF vars
  <2>2. ASSUME NEW r \in Runs, EnqueueRun(r) PROVE TypeOK'
    BY <2>2 DEF EnqueueRun, InsertJob, ExecuteJob, JobIds
  <2>3. ASSUME NEW p \in Procs, NEW j \in JobIds, Claim(p, j) PROVE TypeOK'
    BY <2>3 DEF Claim
  <2>4. ASSUME NEW p \in Procs, BeginExecute(p) PROVE TypeOK'
    <3>1. cur[p] \in JobIds /\ cur[p][1] \in Runs
      BY <2>4 DEF BeginExecute, JobIds
    <3>2. [ckpt[cur[p][1]] EXCEPT !.at = "drafting"] \in Thread
      BY <3>1, ThreadMoves
    <3> QED
      BY <2>4, <3>1, <3>2 DEF BeginExecute, Checkpoint
  <2>5. ASSUME NEW p \in Procs, BeginResume(p) PROVE TypeOK'
    <3> DEFINE c == ckpt[cur[p][1]]
               next == IF decision[cur[p]] = "approve" THEN "producing" ELSE "drafting"
    <3>1. cur[p] \in GateIds /\ cur[p][1] \in Runs
      BY <2>5 DEF BeginResume, GateIds
    <3>2. c \in Thread /\ c.plan \in 0..MaxPlans /\ [c EXCEPT !.at = next] \in Thread
      BY <3>1, ThreadMoves
    <3>3. UNCHANGED <<jobVars, runVars, gateVars, nplans, cur, att, seen, outbox, crashes>>
          /\ pc' = [pc EXCEPT ![p] = "exec"] /\ pc[p] = "claimed"
      BY <2>5 DEF BeginResume
    <3>4. CASE c.at = "review"
      <4>1. /\ thread' = [thread EXCEPT ![p] = [c EXCEPT !.at = next]]
            /\ ckpt' = [ckpt EXCEPT ![cur[p][1]] = [c EXCEPT !.at = next]]
            /\ applied' = applied \cup {<<cur[p], c.plan>>}
        BY <2>5, <3>4 DEF BeginResume, Checkpoint
      <4>2. /\ thread' \in [Procs -> Thread]
            /\ ckpt' \in [Runs -> Thread]
            /\ applied' \subseteq GateIds \X (0..MaxPlans)
        BY <4>1, <3>1, <3>2
      <4> QED
        BY <4>2, <3>3
    <3>5. CASE c.at # "review"
      BY <2>5, <3>1, <3>2, <3>3, <3>5 DEF BeginResume
    <3> QED
      BY <3>4, <3>5
  <2>6. ASSUME NEW p \in Procs, Draft(p) PROVE TypeOK'
    BY <2>6 DEF Draft, Checkpoint, JobIds, Thread
  <2>7. ASSUME NEW p \in Procs, Produce(p) PROVE TypeOK'
    <3>1. cur[p] \in JobIds /\ cur[p][1] \in Runs
      BY <2>7 DEF Produce, JobIds
    <3>2. [thread[p] EXCEPT !.at = "ended"] \in Thread
      BY ThreadMoves
    <3> QED
      BY <2>7, <3>1, <3>2 DEF Produce, Checkpoint
  <2>8. ASSUME NEW p \in Procs, AlreadyEnded(p) PROVE TypeOK'
    BY <2>8 DEF AlreadyEnded
  <2>9. ASSUME NEW p \in Procs, Inspect(p) PROVE TypeOK'
    BY <2>9 DEF Inspect, JobIds, Thread
  <2>10. ASSUME NEW p \in Procs, SaveRunning(p) PROVE TypeOK'
    BY <2>10 DEF SaveRunning, Save, JobIds
  <2>11. ASSUME NEW p \in Procs, OpenGate(p) PROVE TypeOK'
    BY <2>11 DEF OpenGate, JobIds, GateIds
  <2>12. ASSUME NEW p \in Procs, SaveDone(p) PROVE TypeOK'
    BY <2>12 DEF SaveDone, Save, JobIds
  <2>13. ASSUME NEW p \in Procs, RunEnd(p) PROVE TypeOK'
    BY <2>13 DEF RunEnd, JobIds
  <2>14. ASSUME NEW p \in Procs, Complete(p) PROVE TypeOK'
    BY <2>14 DEF Complete, Held, Leave, Idle, Thread
  <2>15. ASSUME NEW p \in Procs, Renew(p) PROVE TypeOK'
    BY <2>15 DEF Renew, Held
  <2>16. ASSUME NEW p \in Procs, LoseLease(p) PROVE TypeOK'
    BY <2>16 DEF LoseLease, Leave, Idle, Thread
  <2>17. ASSUME NEW p \in Procs, Crash(p) PROVE TypeOK'
    BY <2>17 DEF Crash, Leave, Idle, Thread
  <2>18. ASSUME NEW p \in Procs, HeartbeatError(p) PROVE TypeOK'
    <3>1. RecordFailure(p, TRUE) /\ pc[p] = "finish" /\ crashes' = crashes + 1
      BY <2>18, Zenon DEF HeartbeatError
    <3>2. pc[p] # "idle" /\ crashes' \in Nat
      BY <3>1
    <3> QED
      BY <3>1, <3>2, RecordFailureType
  <2>19. ASSUME NEW p \in Procs, NEW retryable \in BOOLEAN, Fail(p, retryable) PROVE TypeOK'
    BY <2>19, RecordFailureType DEF Fail
  <2>27. ASSUME NEW p \in Procs, RefuseResume(p) PROVE TypeOK'
    <3>1. RecordFailure(p, TRUE) /\ pc[p] = "claimed" /\ crashes' = crashes
      BY <2>27, Zenon DEF RefuseResume
    <3>2. pc[p] # "idle" /\ crashes' \in Nat
      BY <3>1
    <3> QED
      BY <3>1, <3>2, RecordFailureType
  <2>20. ASSUME NEW g \in GateIds, ReviewCheck(g) PROVE TypeOK'
    BY <2>20 DEF ReviewCheck
  <2>21. ASSUME NEW g \in GateIds, ReviewRejected(g) PROVE TypeOK'
    BY <2>21 DEF ReviewRejected
  <2>22. ASSUME NEW g \in GateIds, Approve(g) PROVE TypeOK'
    BY <2>22 DEF Approve, ResolveGate, InsertJob, GateIds, JobIds, Decisions
  <2>23. ASSUME NEW g \in GateIds, NEW d \in {"approve", "regenerate"}, ReviewResolve(g, d)
         PROVE  TypeOK'
    BY <2>23 DEF ReviewResolve, ResolveGate, InsertJob, GateIds, JobIds, Decisions
  <2>24. CASE CancelPending
    BY <2>24 DEF CancelPending
  <2>25. CASE Tick
    BY <2>25 DEF Tick, Left
  <2> HIDE DEF TypeOK, JobStatus, Phases, GateStatus, PcStates, Points, jobVars, runVars,
               gateVars, graphVars, procVars
  <2>26. CASE \E p \in Procs : Step(p)
    BY <2>26, <2>3, <2>4, <2>5, <2>6, <2>7, <2>8, <2>9, <2>10, <2>11, <2>12, <2>13, <2>14,
       <2>27 DEF Step
  <2> QED
    BY <2>1, <2>2, <2>15, <2>16, <2>17, <2>18, <2>19, <2>20, <2>21, <2>22, <2>23, <2>24,
       <2>25, <2>26 DEF Next
<1> QED
  BY <1>1, <1>2, PTL DEF Spec

-----------------------------------------------------------------------------
(* The queue: attempts, gates and the finality of finished jobs.           *)

\* Steps that leave the job rows and the gates alone and create no run.
QuietStep ==
  /\ UNCHANGED <<jstatus, attempt, reclaims, gate>>
  /\ \A r \in Runs : phase'[r] = "absent" => phase[r] = "absent"

\* The actions of a worker that are not a claim, an ending or an open_gate only
\* touch the checkpoint, the public run row and the worker itself.
LEMMA WorkerStepsAreQuiet ==
  ASSUME TypeOK, NEW p \in Procs,
         \/ BeginExecute(p) \/ BeginResume(p) \/ Draft(p) \/ Produce(p) \/ AlreadyEnded(p)
         \/ Inspect(p) \/ SaveRunning(p) \/ SaveDone(p) \/ RunEnd(p)
         \/ Renew(p) \/ LoseLease(p) \/ Crash(p)
  PROVE  QuietStep
<1> USE DEF QuietStep, TypeOK, jobVars, runVars, gateVars, graphVars, procVars
<1>1. CASE BeginExecute(p)
  BY <1>1 DEF BeginExecute
<1>2. CASE BeginResume(p)
  BY <1>2 DEF BeginResume
<1>3. CASE Draft(p) \/ Produce(p) \/ AlreadyEnded(p) \/ Inspect(p)
  BY <1>3 DEF Draft, Produce, AlreadyEnded, Inspect
<1>4. CASE SaveRunning(p) \/ SaveDone(p)
  BY <1>4 DEF SaveRunning, SaveDone, Save
<1>5. CASE RunEnd(p) \/ Renew(p) \/ LoseLease(p) \/ Crash(p)
  BY <1>5 DEF RunEnd, Renew, LoseLease, Crash
<1> QED
  BY <1>1, <1>2, <1>3, <1>4, <1>5

\* resolve_gate inserts the resume job of a gate that had none.
LEMMA ResolveGateKeepsQueue ==
  ASSUME TypeOK, QueueInv, NEW g \in GateIds, NEW d \in Decisions, ResolveGate(g, d)
  PROVE  QueueInv' /\ jstatus[g] = "none" /\ g \in JobIds
<1> USE ConstantsAssumption DEF TypeOK, jobVars
<1>1. g \in JobIds /\ g[1] \in Runs /\ \A r \in Runs : g # ExecuteJob(r)
  BY DEF GateIds, JobIds, ExecuteJob
<1>2. jstatus[g] = "none"
  BY DEF QueueInv, ResumeIffResolved, ResolveGate
<1>3. attempt[g] = 0
  BY <1>1, <1>2 DEF QueueInv, AttemptsFollowStatus
<1>4. /\ jstatus' = [jstatus EXCEPT ![g] = "queued"]
      /\ gate' = [gate EXCEPT ![g] = "resolved"]
      /\ phase' = [phase EXCEPT ![g[1]] = "running"]
      /\ UNCHANGED <<attempt, reclaims>>
  BY DEF ResolveGate, InsertJob
<1>5. AttemptsFollowStatus' /\ AttemptBudget'
  BY <1>1, <1>3, <1>4 DEF QueueInv, AttemptsFollowStatus, AttemptBudget
<1>6. \A r \in Runs : ExecuteJob(r) \in JobIds
  BY DEF ExecuteJob, JobIds
<1>7. NoJobBeforeItsRun'
  BY <1>1, <1>4, <1>6 DEF QueueInv, NoJobBeforeItsRun
<1>8. ResumeIffResolved'
  BY <1>1, <1>4 DEF QueueInv, ResumeIffResolved, GateIds, JobIds
<1> QED
  BY <1>1, <1>2, <1>5, <1>7, <1>8 DEF QueueInv

\* fail ends a running job, as a retry only while it has attempts left.
LEMMA RecordFailureKeepsQueue ==
  ASSUME TypeOK, QueueInv, NEW p \in Procs, NEW retryable \in BOOLEAN,
         RecordFailure(p, retryable)
  PROVE  QueueInv' /\ jstatus[cur[p]] = "running"
<1> USE ConstantsAssumption DEF TypeOK, jobVars
<1>1. cur[p] \in JobIds /\ cur[p][1] \in Runs /\ jstatus[cur[p]] = "running"
  BY DEF RecordFailure, Held, JobIds
<1>2. PICK st \in {"retry", "failed"} :
        /\ jstatus' = [jstatus EXCEPT ![cur[p]] = st]
        /\ st = "retry" => attempt[cur[p]] < MaxAttempts
  BY DEF RecordFailure, RetriesLeft
<1>3. UNCHANGED <<attempt, reclaims, gate>>
  BY DEF RecordFailure, gateVars
<1>4. \A r \in Runs : phase'[r] = "absent" => phase[r] = "absent"
  BY <1>1 DEF RecordFailure, runVars
<1>5. AttemptsFollowStatus' /\ AttemptBudget'
  BY <1>1, <1>2, <1>3 DEF QueueInv, AttemptsFollowStatus, AttemptBudget
<1>6. \A r \in Runs : ExecuteJob(r) \in JobIds
  BY DEF ExecuteJob, JobIds
<1>7. NoJobBeforeItsRun'
  BY <1>1, <1>2, <1>4, <1>6 DEF QueueInv, NoJobBeforeItsRun
<1>8. \A g \in GateIds : g \in JobIds
  BY DEF GateIds, JobIds
<1>9. ResumeIffResolved'
  BY <1>1, <1>2, <1>3, <1>8 DEF QueueInv, ResumeIffResolved
<1> QED
  BY <1>1, <1>5, <1>7, <1>9 DEF QueueInv

\* Every step keeps the queue's invariant, and changes no finished job.
LEMMA QueueStep ==
  ASSUME TypeOK, QueueInv, [Next]_vars
  PROVE  /\ QueueInv'
         /\ \A j \in JobIds : jstatus[j] \in TerminalJob => jstatus'[j] = jstatus[j]
<1> DEFINE Stay == \A j \in JobIds : jstatus[j] \in TerminalJob => jstatus'[j] = jstatus[j]
           Goal == QueueInv' /\ Stay
<1> SUFFICES Goal
  OBVIOUS
<1> HIDE DEF Goal
<1> USE ConstantsAssumption
<1>a. \A r \in Runs : ExecuteJob(r) \in JobIds
  BY DEF ExecuteJob, JobIds
<1>b. \A g \in GateIds : g \in JobIds
  BY DEF GateIds, JobIds
<1>c. \A r \in Runs, g \in GateIds : g # ExecuteJob(r)
  BY DEF ExecuteJob, GateIds
<1>1. QuietStep => Goal
  BY <1>a, <1>b DEF Goal, QuietStep, QueueInv, AttemptsFollowStatus, AttemptBudget,
     NoJobBeforeItsRun, ResumeIffResolved
<1>2. CASE UNCHANGED vars
  BY <1>1, <1>2 DEF QuietStep, vars, jobVars, runVars, gateVars
<1>3. ASSUME NEW r \in Runs, EnqueueRun(r) PROVE Goal
  <2>1. jstatus[ExecuteJob(r)] = "none" /\ attempt[ExecuteJob(r)] = 0
    BY <1>3, <1>a DEF EnqueueRun, QueueInv, NoJobBeforeItsRun, AttemptsFollowStatus
  <2>2. /\ jstatus' = [jstatus EXCEPT ![ExecuteJob(r)] = "queued"]
        /\ phase' = [phase EXCEPT ![r] = "running"]
        /\ UNCHANGED <<attempt, reclaims, gate>>
    BY <1>3 DEF EnqueueRun, InsertJob, gateVars
  <2>3. AttemptsFollowStatus' /\ AttemptBudget' /\ Stay
    BY <2>1, <2>2, <1>a DEF QueueInv, AttemptsFollowStatus, AttemptBudget, TypeOK, TerminalJob
  <2>4. \A q \in Runs : q # r => ExecuteJob(q) # ExecuteJob(r)
    BY DEF ExecuteJob
  <2>5. NoJobBeforeItsRun'
    BY <2>2, <2>4, <1>a DEF QueueInv, NoJobBeforeItsRun, TypeOK
  <2>6. ResumeIffResolved'
    BY <2>2, <1>a, <1>b, <1>c DEF QueueInv, ResumeIffResolved, TypeOK
  <2> QED
    BY <2>3, <2>5, <2>6 DEF Goal, QueueInv
<1>4. ASSUME NEW p \in Procs, NEW j \in JobIds, Claim(p, j) PROVE Goal
  <2>1. /\ jstatus' = [jstatus EXCEPT ![j] = "running"]
        /\ attempt' = [attempt EXCEPT ![j] = @ + 1]
        /\ reclaims' = [reclaims EXCEPT ![j] = IF jstatus[j] = "running" THEN @ + 1 ELSE @]
        /\ UNCHANGED <<phase, gate>>
    BY <1>4 DEF Claim, runVars, gateVars
  <2>2. jstatus[j] \in {"queued", "retry", "running"}
    BY <1>4 DEF Claim, Claimable
  <2>3. AttemptsFollowStatus' /\ Stay
    BY <2>1, <2>2 DEF QueueInv, AttemptsFollowStatus, TypeOK, TerminalJob
  <2>4. AttemptBudget'
    BY <2>1, <2>2 DEF QueueInv, AttemptBudget, AttemptsFollowStatus, TypeOK
  <2>5. NoJobBeforeItsRun' /\ ResumeIffResolved'
    BY <2>1, <2>2, <1>a, <1>b DEF QueueInv, NoJobBeforeItsRun, ResumeIffResolved, TypeOK
  <2> QED
    BY <2>3, <2>4, <2>5 DEF Goal, QueueInv
<1>5. ASSUME NEW p \in Procs, OpenGate(p) PROVE Goal
  <2>1. cur[p] \in JobIds /\ cur[p][1] \in Runs
    BY <1>5 DEF OpenGate, TypeOK, JobIds
  <2>2. PICK v \in 1..MaxGates :
          /\ IsNextVersion(cur[p][1], v)
          /\ gate' = [gate EXCEPT ![<<cur[p][1], v>>] = "pending"]
    BY <1>5 DEF OpenGate
  <2>3. <<cur[p][1], v>> \in GateIds /\ gate[<<cur[p][1], v>>] = "none"
    BY <2>1, <2>2 DEF IsNextVersion, Versions, GateIds
  <2>4. UNCHANGED <<jstatus, attempt, reclaims>>
        /\ phase' = [phase EXCEPT ![cur[p][1]] = "review"]
    BY <1>5 DEF OpenGate, jobVars
  <2>5. AttemptsFollowStatus' /\ AttemptBudget' /\ Stay
    BY <2>4 DEF QueueInv, AttemptsFollowStatus, AttemptBudget
  <2>6. NoJobBeforeItsRun'
    BY <2>1, <2>4 DEF QueueInv, NoJobBeforeItsRun, TypeOK
  <2>7. ResumeIffResolved'
    BY <2>2, <2>3, <2>4 DEF QueueInv, ResumeIffResolved, TypeOK
  <2> QED
    BY <2>5, <2>6, <2>7 DEF Goal, QueueInv
<1>6. ASSUME NEW p \in Procs, Complete(p) PROVE Goal
  <2>1. cur[p] \in JobIds /\ jstatus[cur[p]] = "running"
    BY <1>6 DEF Complete, Held, TypeOK
  <2>2. /\ jstatus' = [jstatus EXCEPT ![cur[p]] = "succeeded"]
        /\ UNCHANGED <<attempt, reclaims, gate, phase>>
    BY <1>6 DEF Complete, runVars, gateVars
  <2>3. AttemptsFollowStatus' /\ AttemptBudget' /\ Stay
    BY <2>1, <2>2 DEF QueueInv, AttemptsFollowStatus, AttemptBudget, TypeOK, TerminalJob
  <2>4. NoJobBeforeItsRun' /\ ResumeIffResolved'
    BY <2>1, <2>2, <1>a, <1>b DEF QueueInv, NoJobBeforeItsRun, ResumeIffResolved, TypeOK
  <2> QED
    BY <2>3, <2>4 DEF Goal, QueueInv
<1>7. ASSUME NEW p \in Procs, NEW retryable \in BOOLEAN, RecordFailure(p, retryable)
      PROVE  Goal
  <2>1. QueueInv' /\ jstatus[cur[p]] = "running"
    BY <1>7, RecordFailureKeepsQueue
  <2>2. \A j \in JobIds : j # cur[p] => jstatus'[j] = jstatus[j]
    BY <1>7 DEF RecordFailure, TypeOK
  <2> QED
    BY <2>1, <2>2 DEF Goal, TerminalJob
<1>8. ASSUME NEW g \in GateIds, NEW d \in Decisions, ResolveGate(g, d) PROVE Goal
  <2>1. QueueInv' /\ jstatus[g] = "none"
    BY <1>8, ResolveGateKeepsQueue
  <2>2. \A j \in JobIds : j # g => jstatus'[j] = jstatus[j]
    BY <1>8 DEF ResolveGate, InsertJob, TypeOK
  <2> QED
    BY <2>1, <2>2 DEF Goal, TerminalJob
<1>9. CASE CancelPending
  <2>1. /\ \A j \in JobIds : \/ jstatus'[j] = jstatus[j]
                            \/ /\ jstatus[j] \in {"queued", "running", "retry"}
                               /\ jstatus'[j] = "cancelled"
        /\ UNCHANGED <<attempt, reclaims>>
    BY <1>9 DEF CancelPending
  <2>2. \A r \in Runs : phase'[r] = "absent" => phase[r] = "absent"
    BY <1>9 DEF CancelPending
  <2>3. \A g \in GateIds : gate'[g] = "resolved" <=> gate[g] = "resolved"
    BY <1>9 DEF CancelPending
  <2>4. AttemptsFollowStatus' /\ AttemptBudget' /\ Stay
    BY <2>1 DEF QueueInv, AttemptsFollowStatus, AttemptBudget, TerminalJob
  <2>5. NoJobBeforeItsRun' /\ ResumeIffResolved'
    BY <2>1, <2>2, <2>3, <1>a, <1>b DEF QueueInv, NoJobBeforeItsRun, ResumeIffResolved
  <2> QED
    BY <2>4, <2>5 DEF Goal, QueueInv
<1>10. CASE Tick
  BY <1>1, <1>10 DEF Tick, QuietStep, runVars, gateVars
<1>18. ASSUME NEW p \in Procs, RefuseResume(p) PROVE Goal
  <2>1. RecordFailure(p, TRUE)
    BY <1>18, Zenon DEF RefuseResume
  <2> QED
    BY <2>1, <1>7
<1>11. ASSUME NEW p \in Procs, Step(p) PROVE Goal
  BY <1>1, <1>4, <1>5, <1>6, <1>11, <1>18, WorkerStepsAreQuiet DEF Step
<1>12. ASSUME NEW p \in Procs, Renew(p) \/ LoseLease(p) \/ Crash(p) PROVE Goal
  BY <1>1, <1>12, WorkerStepsAreQuiet
<1>13. ASSUME NEW p \in Procs, HeartbeatError(p) PROVE Goal
  <2>1. RecordFailure(p, TRUE)
    BY <1>13, Zenon DEF HeartbeatError
  <2> QED
    BY <2>1, <1>7
<1>14. ASSUME NEW p \in Procs, NEW retryable \in BOOLEAN, Fail(p, retryable) PROVE Goal
  BY <1>14, <1>7 DEF Fail
<1>15. ASSUME NEW g \in GateIds, ReviewCheck(g) \/ ReviewRejected(g) PROVE Goal
  BY <1>1, <1>15 DEF ReviewCheck, ReviewRejected, QuietStep, jobVars, runVars
<1>16. ASSUME NEW g \in GateIds, Approve(g) PROVE Goal
  BY <1>8, <1>16 DEF Approve, Decisions
<1>17. ASSUME NEW g \in GateIds, NEW d \in {"approve", "regenerate"}, ReviewResolve(g, d)
       PROVE  Goal
  BY <1>8, <1>17 DEF ReviewResolve, Decisions
<1> QED
  BY <1>2, <1>3, <1>9, <1>10, <1>11, <1>12, <1>13, <1>14, <1>15, <1>16, <1>17 DEF Next

\* Everything at the initial state.
LEMMA QueueInit == Init => QueueInv
BY ConstantsAssumption DEF Init, QueueInv, AttemptsFollowStatus, NoJobBeforeItsRun,
   AttemptBudget, ResumeIffResolved, ExecuteJob, JobIds, GateIds

\* The inductive invariant of the queue holds in every reachable state.
THEOREM QueueInvariant == Spec => []QueueInv
<1>1. QueueInv /\ TypeOK /\ [Next]_vars => QueueInv'
  BY QueueStep
<1> QED
  BY <1>1, QueueInit, TypeCorrect, PTL DEF Spec

\* However many workers claim, fail, stall and crash, a job is attempted at most
\* max_attempts times plus once per expired lease.
THEOREM AttemptBudgetHolds == Spec => []AttemptBudget
BY QueueInvariant, PTL DEF QueueInv

\* A gate has a resume job exactly when it was resolved: no approval is lost by
\* resolve_gate and none is doubled.
THEOREM ResumeIffResolvedHolds == Spec => []ResumeIffResolved
BY QueueInvariant, PTL DEF QueueInv

\* No action changes the status of a succeeded, failed or cancelled job.
THEOREM FinishedJobsStayHolds == Spec => FinishedJobsStay
<1>1. QueueInv /\ TypeOK /\ [Next]_vars
      => [\A j \in JobIds : jstatus[j] \in TerminalJob => jstatus'[j] = jstatus[j]]_vars
  BY QueueStep
<1> QED
  BY <1>1, QueueInvariant, TypeCorrect, PTL DEF Spec, FinishedJobsStay

-----------------------------------------------------------------------------
(* Leases: the guard of renew, complete and fail identifies the claim.     *)

\* What a step must respect for the owner of a running row to know its attempt:
\* the row's attempt and owner do not change while it stays running, and a worker
\* that is not idle keeps its claim.
KeepsClaims ==
  /\ \A j \in JobIds :
       jstatus'[j] = "running" => /\ jstatus[j] = "running"
                                 /\ attempt'[j] = attempt[j]
                                 /\ owner'[j] = owner[j]
  /\ \A p \in Procs :
       pc'[p] # "idle" => pc[p] # "idle" /\ cur'[p] = cur[p] /\ att'[p] = att[p]

\* Such a step keeps the invariant.
LEMMA KeepsClaimsSuffices ==
  ASSUME TypeOK, OwnerKnowsAttempt, KeepsClaims
  PROVE  OwnerKnowsAttempt'
BY DEF KeepsClaims, OwnerKnowsAttempt, TypeOK

\* A claim writes its own attempt, and a worker_id that is no other worker's own.
LEMMA ClaimKeepsOwners ==
  ASSUME TypeOK, OwnerKnowsAttempt, NEW p \in Procs, NEW j \in JobIds, Claim(p, j)
  PROVE  OwnerKnowsAttempt'
<1> USE ConstantsAssumption
<1>1. /\ jstatus' = [jstatus EXCEPT ![j] = "running"]
      /\ attempt' = [attempt EXCEPT ![j] = @ + 1]
      /\ owner' = [owner EXCEPT ![j] = WorkerIdOf[p]]
      /\ pc' = [pc EXCEPT ![p] = "claimed"]
      /\ cur' = [cur EXCEPT ![p] = j]
      /\ att' = [att EXCEPT ![p] = attempt[j] + 1]
  BY DEF Claim
<1>2. SUFFICES ASSUME NEW q \in Procs, IdIsOwn(q), pc'[q] # "idle", jstatus'[cur'[q]] = "running",
                      owner'[cur'[q]] = WorkerIdOf[q]
               PROVE  att'[q] = attempt'[cur'[q]]
  BY DEF OwnerKnowsAttempt
<1>3. CASE q = p
  BY <1>1, <1>3 DEF TypeOK
<1>4. CASE q # p
  <2>1. cur'[q] = cur[q] /\ att'[q] = att[q] /\ pc[q] # "idle" /\ cur[q] \in JobIds
    BY <1>1, <1>2, <1>4 DEF TypeOK
  <2>2. cur[q] # j
    BY <1>1, <1>2, <1>4, <2>1 DEF IdIsOwn, TypeOK
  <2> QED
    BY <1>1, <1>2, <2>1, <2>2 DEF OwnerKnowsAttempt, TypeOK
<1> QED
  BY <1>3, <1>4

\* Only a claim makes a row running: every other step keeps the claims there are.
LEMMA OtherStepsKeepClaims ==
  ASSUME TypeOK, [Next]_vars, ~(\E p \in Procs, j \in JobIds : Claim(p, j))
  PROVE  KeepsClaims
<1> USE ConstantsAssumption DEF TypeOK, KeepsClaims, jobVars, procVars
<1>1. CASE UNCHANGED vars
  BY <1>1 DEF vars
<1>2. ASSUME NEW r \in Runs, EnqueueRun(r) PROVE KeepsClaims
  BY <1>2 DEF EnqueueRun, InsertJob
<1>3. ASSUME NEW p \in Procs, BeginExecute(p) \/ BeginResume(p) PROVE KeepsClaims
  BY <1>3 DEF BeginExecute, BeginResume
<1>4. ASSUME NEW p \in Procs, Draft(p) \/ Produce(p) \/ AlreadyEnded(p) \/ Inspect(p)
      PROVE  KeepsClaims
  BY <1>4 DEF Draft, Produce, AlreadyEnded, Inspect
<1>5. ASSUME NEW p \in Procs, SaveRunning(p) \/ SaveDone(p) \/ RunEnd(p) \/ OpenGate(p)
      PROVE  KeepsClaims
  BY <1>5 DEF SaveRunning, SaveDone, Save, RunEnd, OpenGate
<1>6. ASSUME NEW p \in Procs, Complete(p) PROVE KeepsClaims
  BY <1>6 DEF Complete, Held, Leave
<1>7. ASSUME NEW p \in Procs, Renew(p) PROVE KeepsClaims
  BY <1>7 DEF Renew
<1>8. ASSUME NEW p \in Procs, LoseLease(p) \/ Crash(p) PROVE KeepsClaims
  BY <1>8 DEF LoseLease, Crash, Leave
<1>9. ASSUME NEW p \in Procs, NEW retryable \in BOOLEAN, RecordFailure(p, retryable)
      PROVE  KeepsClaims
  BY <1>9 DEF RecordFailure, Held, Leave
<1>10. ASSUME NEW g \in GateIds, NEW d \in Decisions, ResolveGate(g, d) PROVE KeepsClaims
  BY <1>10 DEF ResolveGate, InsertJob
<1>11. ASSUME NEW g \in GateIds, ReviewCheck(g) \/ ReviewRejected(g) PROVE KeepsClaims
  BY <1>11 DEF ReviewCheck, ReviewRejected
<1>12. CASE CancelPending
  BY <1>12 DEF CancelPending
<1>13. CASE Tick
  BY <1>13 DEF Tick
<1> HIDE DEF TypeOK, KeepsClaims, jobVars, procVars
<1>14. ASSUME NEW p \in Procs, HeartbeatError(p) PROVE KeepsClaims
  <2>1. RecordFailure(p, TRUE)
    BY <1>14, Zenon DEF HeartbeatError
  <2> QED
    BY <2>1, <1>9
<1>15. ASSUME NEW p \in Procs, NEW retryable \in BOOLEAN, Fail(p, retryable)
       PROVE  KeepsClaims
  BY <1>9, <1>15 DEF Fail
<1>19. ASSUME NEW p \in Procs, RefuseResume(p) PROVE KeepsClaims
  <2>1. RecordFailure(p, TRUE)
    BY <1>19, Zenon DEF RefuseResume
  <2> QED
    BY <2>1, <1>9
<1>16. ASSUME NEW p \in Procs, Step(p) PROVE KeepsClaims
  BY <1>3, <1>4, <1>5, <1>6, <1>16, <1>19 DEF Step
<1>17. ASSUME NEW g \in GateIds, NEW d \in {"approve", "regenerate"}, ReviewResolve(g, d)
       PROVE  KeepsClaims
  BY <1>10, <1>17 DEF ReviewResolve, Decisions
<1>18. ASSUME NEW g \in GateIds, Approve(g) PROVE KeepsClaims
  BY <1>10, <1>18 DEF Approve, Decisions
<1> QED
  BY <1>1, <1>2, <1>7, <1>8, <1>11, <1>12, <1>13, <1>14, <1>15, <1>16, <1>17, <1>18 DEF Next

\* A worker that passes the lease guard of renew, complete or fail acts for the latest
\* claim of its job, unless another process uses the same worker_id: whatever ids the
\* other workers have, one whose id is its own never acts on a stale claim.
THEOREM LeaseIdentifiesClaimHolds == Spec => []LeaseIdentifiesClaim
<1>1. Init => OwnerKnowsAttempt
  BY DEF Init, OwnerKnowsAttempt
<1>2. TypeOK /\ OwnerKnowsAttempt /\ [Next]_vars => OwnerKnowsAttempt'
  BY ClaimKeepsOwners, OtherStepsKeepClaims, KeepsClaimsSuffices
<1>3. OwnerKnowsAttempt => LeaseIdentifiesClaim
  BY DEF OwnerKnowsAttempt, LeaseIdentifiesClaim, Held
<1> QED
  BY <1>1, <1>2, <1>3, TypeCorrect, PTL DEF Spec

-----------------------------------------------------------------------------
(* Calm runs: without crashes and stalls a job is its worker's until the   *)
(* worker is done with it.                                                 *)

\* A step of a worker that goes on with its job, or is done with it.
GoesOn(p) ==
  /\ pc[p] \notin {"idle", "finish"}
  /\ \E s \in PcStates \ {"idle"} : pc' = [pc EXCEPT ![p] = s]
  /\ UNCHANGED <<jobVars, cur, crashes>>

\* The steps of an execution between the claim and complete.
LEMMA WorkerStepsGoOn ==
  ASSUME NEW p \in Procs,
         \/ BeginExecute(p) \/ BeginResume(p) \/ Draft(p) \/ Produce(p) \/ AlreadyEnded(p)
         \/ Inspect(p) \/ SaveRunning(p) \/ SaveDone(p) \/ RunEnd(p) \/ OpenGate(p)
  PROVE  GoesOn(p)
<1> USE DEF GoesOn, PcStates
<1>1. CASE BeginExecute(p)
  BY <1>1 DEF BeginExecute
<1>2. CASE BeginResume(p)
  BY <1>2 DEF BeginResume
<1>3. CASE Draft(p) \/ Produce(p) \/ AlreadyEnded(p)
  BY <1>3 DEF Draft, Produce, AlreadyEnded
<1>4. CASE Inspect(p)
  BY <1>4 DEF Inspect
<1>5. CASE SaveRunning(p) \/ SaveDone(p)
  BY <1>5 DEF SaveRunning, SaveDone, Save
<1>6. CASE RunEnd(p) \/ OpenGate(p)
  BY <1>6 DEF RunEnd, OpenGate
<1> QED
  BY <1>1, <1>2, <1>3, <1>4, <1>5, <1>6

\* A worker that is not done holds its job; its job is the run's busy one.
LEMMA WorkersAreBusy ==
  ASSUME TypeOK, LeaseInv, NEW p \in Procs, pc[p] \notin {"idle", "finish"}
  PROVE  /\ cur[p] \in JobIds /\ cur[p][1] \in Runs /\ cur[p] \in BusyJobs
         /\ Held(p)
BY DEF TypeOK, LeaseInv, WorkersHold, BusyJobs, Busy, JobIds

\* A worker's job was inserted and is neither queued nor waiting for a retry.
LEMMA WorkersJobs ==
  ASSUME TypeOK, LeaseInv, NEW p \in Procs, pc[p] # "idle"
  PROVE  cur[p] \in JobIds /\ jstatus[cur[p]] \in {"running", "cancelled"}
BY DEF TypeOK, LeaseInv, WorkersHold, Held

\* Without crashes the lease of a running job has not expired: claim finds only jobs
\* that are queued or waiting for a retry.
LEMMA CalmClaims ==
  ASSUME TypeOK, LeaseInv, NEW j \in JobIds, Claimable(j)
  PROVE  jstatus[j] \in {"queued", "retry"}
<1>1. ASSUME jstatus[j] = "running" PROVE lease[j] > 0
  <2>1. PICK p \in Procs : cur[p] = j
    BY <1>1 DEF LeaseInv, OneWorkerPerJob
  <2>2. pc[p] # "idle"
    BY <2>1, ConstantsAssumption DEF TypeOK
  <2>3. Held(p)
    BY <1>1, <2>1, <2>2 DEF LeaseInv, WorkersHold
  <2> QED
    BY <2>1, <2>3 DEF Held
<1> QED
  BY <1>1 DEF Claimable, TypeOK

\* A worker that leaves a job which is no longer running.
LEMMA LeavingKeepsLeases ==
  ASSUME TypeOK, LeaseInv, crashes' = crashes, NEW p \in Procs, pc[p] # "idle", Leave(p),
         jstatus'[cur[p]] # "running",
         \A j \in JobIds : j # cur[p] =>
           jstatus'[j] = jstatus[j] /\ owner'[j] = owner[j] /\ lease'[j] = lease[j]
  PROVE  LeaseInv'
<1>1. /\ pc' = [pc EXCEPT ![p] = "idle"] /\ cur' = [cur EXCEPT ![p] = None]
  BY DEF Leave
<1>2. \A q \in Procs : q # p /\ pc[q] # "idle" => cur[q] # cur[p] /\ cur[q] \in JobIds
  BY DEF LeaseInv, OneWorkerPerJob, TypeOK
<1>3. WorkersHold'
  BY <1>1, <1>2 DEF TypeOK, LeaseInv, WorkersHold, Held
<1>4. OneWorkerPerJob'
  BY <1>1, <1>2, ConstantsAssumption DEF TypeOK, LeaseInv, OneWorkerPerJob
<1> QED
  BY <1>3, <1>4 DEF LeaseInv

\* Without crashes and stalls every step keeps the workers and their jobs together.
LEMMA LeaseStep ==
  ASSUME Calm, TypeOK, QueueInv, LeaseInv, PendingWaits, [Next]_vars
  PROVE  LeaseInv'
<1> USE ConstantsAssumption
<1>1. ASSUME NEW p \in Procs, GoesOn(p) PROVE LeaseInv'
  <2>1. Held(p) /\ \A q \in Procs : pc'[q] # "idle" <=> pc[q] # "idle"
    BY <1>1, WorkersAreBusy DEF GoesOn, TypeOK
  <2>2. UNCHANGED <<jstatus, owner, lease, cur, crashes>>
        /\ \A q \in Procs : q # p => pc'[q] = pc[q]
    BY <1>1 DEF GoesOn, jobVars, TypeOK
  <2>3. WorkersHold'
    BY <2>1, <2>2 DEF LeaseInv, WorkersHold, Held
  <2>4. OneWorkerPerJob'
    BY <2>1, <2>2 DEF LeaseInv, OneWorkerPerJob
  <2> QED
    BY <2>2, <2>3, <2>4 DEF LeaseInv
<1>2. ASSUME NEW p \in Procs, NEW j \in JobIds, Claim(p, j) PROVE LeaseInv'
  <2>1. jstatus[j] \in {"queued", "retry"}
    BY <1>2, CalmClaims DEF Claim
  <2>2. \A q \in Procs : pc[q] # "idle" => cur[q] # j /\ cur[q] \in JobIds
    BY <2>1, WorkersJobs
  <2>3. /\ jstatus' = [jstatus EXCEPT ![j] = "running"]
        /\ owner' = [owner EXCEPT ![j] = WorkerIdOf[p]]
        /\ lease' = [lease EXCEPT ![j] = LeaseTicks]
        /\ pc' = [pc EXCEPT ![p] = "claimed"]
        /\ cur' = [cur EXCEPT ![p] = j]
        /\ pc[p] = "idle" /\ crashes' = crashes
    BY <1>2 DEF Claim
  <2>4. WorkersHold'
    BY <2>2, <2>3 DEF TypeOK, LeaseInv, WorkersHold, Held
  <2>5. OneWorkerPerJob'
    BY <2>2, <2>3 DEF TypeOK, LeaseInv, OneWorkerPerJob
  <2> QED
    BY <2>3, <2>4, <2>5 DEF LeaseInv
<1>3. ASSUME NEW p \in Procs, Complete(p) PROVE LeaseInv'
  <2>1. /\ pc[p] # "idle" /\ Leave(p) /\ crashes' = crashes /\ cur[p] \in JobIds
        /\ jstatus' = [jstatus EXCEPT ![cur[p]] = "succeeded"]
        /\ lease' = [lease EXCEPT ![cur[p]] = 0] /\ owner' = owner
    BY <1>3 DEF Complete, TypeOK
  <2> QED
    BY <2>1, LeavingKeepsLeases DEF TypeOK
<1>4. ASSUME NEW p \in Procs, NEW retryable \in BOOLEAN, RecordFailure(p, retryable),
             crashes' = crashes
      PROVE  LeaseInv'
  <2>1. /\ pc[p] # "idle" /\ Leave(p) /\ cur[p] \in JobIds
        /\ \E s \in {"retry", "failed"} : jstatus' = [jstatus EXCEPT ![cur[p]] = s]
        /\ lease' = [lease EXCEPT ![cur[p]] = 0]
        /\ owner' = [owner EXCEPT ![cur[p]] = None]
    BY <1>4 DEF RecordFailure, Held, TypeOK
  <2> QED
    BY <1>4, <2>1, LeavingKeepsLeases DEF TypeOK
<1>5. ASSUME NEW p \in Procs, LoseLease(p) PROVE LeaseInv'
  <2>1. pc[p] = "finish" /\ jstatus[cur[p]] = "cancelled"
    BY <1>5 DEF LoseLease, LeaseInv, WorkersHold
  <2> QED
    BY <1>5, <2>1, LeavingKeepsLeases DEF LoseLease, jobVars
<1>6. ASSUME NEW p \in Procs, Renew(p) PROVE LeaseInv'
  <2>1. /\ UNCHANGED <<jstatus, owner, pc, cur, crashes>> /\ cur[p] \in JobIds
        /\ lease' = [lease EXCEPT ![cur[p]] = LeaseTicks]
    BY <1>6 DEF Renew, Held, procVars, TypeOK
  <2>2. \A j \in JobIds : lease[j] > 0 => lease'[j] > 0
    BY <2>1 DEF TypeOK
  <2>3. WorkersHold'
    BY <2>1, <2>2 DEF TypeOK, LeaseInv, WorkersHold, Held
  <2> QED
    BY <2>1, <2>3 DEF LeaseInv, OneWorkerPerJob
<1>7. ASSUME NEW j \in JobIds, jstatus[j] = "none",
             jstatus' = [jstatus EXCEPT ![j] = "queued"],
             UNCHANGED <<owner, lease, pc, cur, crashes>>
      PROVE  LeaseInv'
  <2>1. \A q \in Procs : pc[q] # "idle" => cur[q] # j /\ cur[q] \in JobIds
    BY <1>7, WorkersJobs
  <2>2. WorkersHold'
    BY <1>7, <2>1 DEF TypeOK, LeaseInv, WorkersHold, Held
  <2> QED
    BY <1>7, <2>2 DEF TypeOK, LeaseInv, OneWorkerPerJob
<1>8. CASE CancelPending
  <2> DEFINE hit == {g[1] : g \in {h \in GateIds : gate[h] = "pending"}}
             victim(j) == j[1] \in hit /\ jstatus[j] \in {"queued", "running", "retry"}
  <2>1. /\ UNCHANGED <<pc, cur, crashes>>
        /\ \A j \in JobIds : IF victim(j) THEN jstatus'[j] = "cancelled"
                               ELSE /\ jstatus'[j] = jstatus[j] /\ owner'[j] = owner[j]
                                    /\ lease'[j] = lease[j]
    BY <1>8 DEF CancelPending, procVars
  <2>2. ASSUME NEW p \in Procs, pc[p] # "idle", cur[p][1] \in hit PROVE pc[p] = "finish"
    <3>1. PICK g \in GateIds : gate[g] = "pending" /\ cur[p][1] = g[1]
      BY <2>2
    <3>2. cur[p] \notin BusyJobs
      BY <3>1 DEF PendingWaits
    <3> QED
      BY <2>2, <3>2, WorkersAreBusy
  <2>3. WorkersHold'
    <3> SUFFICES ASSUME NEW p \in Procs, pc[p] # "idle"
                 PROVE  Held(p)' \/ (pc[p] = "finish" /\ jstatus'[cur[p]] = "cancelled")
      BY <2>1 DEF WorkersHold
    <3>1. cur[p] \in JobIds
      BY WorkersJobs
    <3>2. CASE victim(cur[p])
      BY <2>1, <2>2, <3>1, <3>2
    <3>3. CASE ~victim(cur[p])
      BY <2>1, <3>1, <3>3 DEF LeaseInv, WorkersHold, Held
    <3> QED
      BY <3>2, <3>3
  <2>4. \A j \in JobIds : jstatus'[j] = "running" => jstatus[j] = "running"
    BY <2>1
  <2> HIDE DEF hit, victim
  <2> QED
    BY <2>1, <2>3, <2>4 DEF LeaseInv, OneWorkerPerJob
<1>9. CASE Tick
  <2>1. /\ UNCHANGED <<jstatus, owner, pc, cur, crashes>> /\ Timely
        /\ lease' = [j \in JobIds |-> Left(lease[j])]
    BY <1>9 DEF Tick, Calm, procVars
  <2>2. \A p \in Procs : Held(p) => Held(p)'
    <3> SUFFICES ASSUME NEW p \in Procs, Held(p) PROVE Held(p)'
      OBVIOUS
    <3>1. cur[p] \in JobIds /\ lease[cur[p]] > 1 /\ lease[cur[p]] \in 0..LeaseTicks
      BY <2>1 DEF Timely, Held, TypeOK
    <3>2. lease'[cur[p]] > 0
      BY <2>1, <3>1 DEF Left
    <3> QED
      BY <2>1, <3>2 DEF Held
  <2>3. WorkersHold'
    BY <2>1, <2>2 DEF LeaseInv, WorkersHold
  <2> QED
    BY <2>1, <2>3 DEF LeaseInv, OneWorkerPerJob
<1>10. CASE UNCHANGED <<jstatus, owner, lease, pc, cur, crashes>>
  BY <1>10 DEF LeaseInv, WorkersHold, Held, OneWorkerPerJob
<1>11. ASSUME NEW r \in Runs, EnqueueRun(r) PROVE LeaseInv'
  <2>1. ExecuteJob(r) \in JobIds /\ jstatus[ExecuteJob(r)] = "none"
    BY <1>11 DEF EnqueueRun, QueueInv, NoJobBeforeItsRun, ExecuteJob, JobIds
  <2> QED
    BY <1>7, <1>11, <2>1 DEF EnqueueRun, InsertJob, procVars
<1>12. ASSUME NEW g \in GateIds, NEW d \in Decisions, ResolveGate(g, d) PROVE LeaseInv'
  <2>1. jstatus[g] = "none" /\ g \in JobIds
    BY <1>12, ResolveGateKeepsQueue
  <2> QED
    BY <1>7, <1>12, <2>1 DEF ResolveGate, InsertJob, procVars
<1>13. ASSUME NEW p \in Procs PROVE ~Crash(p) /\ ~HeartbeatError(p)
  BY DEF Calm, LeaseInv, Crash, HeartbeatError
<1>14. ASSUME NEW p \in Procs, RefuseResume(p) PROVE LeaseInv'
  <2>1. RecordFailure(p, TRUE) /\ crashes' = crashes
    BY <1>14, Zenon DEF RefuseResume
  <2> QED
    BY <2>1, <1>4
<1>15. ASSUME NEW p \in Procs, NEW retryable \in BOOLEAN, Fail(p, retryable) PROVE LeaseInv'
  BY <1>4, <1>15 DEF Fail
<1>16. ASSUME NEW p \in Procs, Step(p) PROVE LeaseInv'
  BY <1>1, <1>2, <1>3, <1>14, <1>16, WorkerStepsGoOn DEF Step
<1>17. ASSUME NEW g \in GateIds, ReviewCheck(g) \/ ReviewRejected(g) \/ Approve(g)
       PROVE  LeaseInv'
  BY <1>10, <1>12, <1>17 DEF ReviewCheck, ReviewRejected, Approve, Decisions, jobVars, procVars
<1>18. ASSUME NEW g \in GateIds, NEW d \in {"approve", "regenerate"}, ReviewResolve(g, d)
       PROVE  LeaseInv'
  BY <1>12, <1>18 DEF ReviewResolve, Decisions
<1>19. CASE UNCHANGED vars
  BY <1>10, <1>19 DEF vars, jobVars, procVars
<1> QED
  BY <1>5, <1>6, <1>8, <1>9, <1>11, <1>13, <1>15, <1>16, <1>17, <1>18, <1>19 DEF Next

-----------------------------------------------------------------------------
(* Which jobs may still write to their run                                 *)

\* A busy job is in the queue, or running with its worker at it.
LEMMA BusyStatus ==
  ASSUME TypeOK, LeaseInv, NEW j \in BusyJobs
  PROVE  j \in JobIds /\ jstatus[j] \in {"queued", "retry", "running"}
<1>1. CASE jstatus[j] \in {"queued", "retry"}
  BY <1>1 DEF BusyJobs
<1>2. ASSUME NEW p \in Procs, cur[p] = j, pc[p] \notin {"idle", "finish"}
      PROVE  jstatus[j] = "running"
  BY <1>2, WorkersAreBusy DEF Held
<1> QED
  BY <1>1, <1>2 DEF BusyJobs, Busy

\* At most one worker is at a run, those that only have to complete aside.
LEMMA OnlyWorker ==
  ASSUME TypeOK, LeaseInv, OneBusyJob, NEW p \in Procs, NEW q \in Procs,
         pc[p] \notin {"idle", "finish"}, pc[q] \notin {"idle", "finish"},
         cur[p][1] = cur[q][1]
  PROVE  p = q
<1>1. cur[p] = cur[q]
  BY WorkersAreBusy DEF OneBusyJob
<1> QED
  BY <1>1 DEF LeaseInv, OneWorkerPerJob

\* A worker that goes on keeps its job busy until it is done.
LEMMA BusyGoesOn ==
  ASSUME TypeOK, LeaseInv, NEW p \in Procs, GoesOn(p)
  PROVE  BusyJobs' = IF pc'[p] = "finish" THEN BusyJobs \ {cur[p]} ELSE BusyJobs
<1>1. cur[p] \in BusyJobs /\ Held(p) /\ UNCHANGED <<jstatus, cur>>
  BY WorkersAreBusy DEF GoesOn, jobVars
<1>2. \A q \in Procs : q # p => pc'[q] = pc[q] /\ cur[q] # cur[p]
  BY DEF GoesOn, TypeOK, LeaseInv, OneWorkerPerJob
<1>3. pc'[p] # "idle"
  BY DEF GoesOn, TypeOK
<1>4. CASE pc'[p] = "finish"
  <2>1. \A j \in JobIds : Busy(j)' <=> Busy(j) /\ j # cur[p]
    BY <1>1, <1>2, <1>4 DEF Busy, Held, GoesOn
  <2> QED
    BY <1>4, <2>1 DEF BusyJobs
<1>5. CASE pc'[p] # "finish"
  <2>1. \A j \in JobIds : Busy(j)' <=> Busy(j)
    BY <1>1, <1>2, <1>3, <1>5 DEF Busy, GoesOn
  <2> QED
    BY <1>5, <2>1 DEF BusyJobs
<1> QED
  BY <1>4, <1>5

\* A claimed job was busy in the queue and is now busy with its worker.
LEMMA BusyClaim ==
  ASSUME TypeOK, LeaseInv, NEW p \in Procs, NEW j \in JobIds, Claim(p, j)
  PROVE  BusyJobs' = BusyJobs
<1>1. jstatus[j] \in {"queued", "retry"}
  BY CalmClaims DEF Claim
<1>2. /\ jstatus' = [jstatus EXCEPT ![j] = "running"]
      /\ pc' = [pc EXCEPT ![p] = "claimed"] /\ cur' = [cur EXCEPT ![p] = j] /\ pc[p] = "idle"
  BY DEF Claim
<1>3. \A k \in JobIds : Busy(k)' <=> Busy(k)
  BY <1>1, <1>2 DEF Busy, TypeOK
<1> QED
  BY <1>3 DEF BusyJobs

\* A worker that leaves stops its job from being busy unless the job goes back to the queue.
LEMMA BusyLeave ==
  ASSUME TypeOK, LeaseInv, NEW p \in Procs, pc[p] # "idle", Leave(p),
         \A j \in JobIds : j # cur[p] => jstatus'[j] = jstatus[j],
         jstatus'[cur[p]] # "queued"
  PROVE  BusyJobs' = IF jstatus'[cur[p]] = "retry" THEN BusyJobs \cup {cur[p]}
                     ELSE BusyJobs \ {cur[p]}
<1>1. pc' = [pc EXCEPT ![p] = "idle"] /\ cur' = [cur EXCEPT ![p] = None] /\ cur[p] \in JobIds
  BY DEF Leave, TypeOK
<1>2. \A q \in Procs : q # p => cur[q] # cur[p]
  BY DEF LeaseInv, OneWorkerPerJob
<1>3. PICK j \in JobIds : j = cur[p]
  BY <1>1
<1>4. \A k \in JobIds : k # j => (Busy(k)' <=> Busy(k))
  BY <1>1, <1>2, <1>3 DEF Busy, TypeOK
<1>5. Busy(j)' <=> jstatus'[j] = "retry"
  <2>1. \A q \in Procs : cur'[q] = j => pc'[q] = "idle"
    BY <1>1, <1>2, <1>3 DEF TypeOK
  <2> QED
    BY <1>3, <2>1 DEF Busy
<1>6. BusyJobs' = IF jstatus'[j] = "retry" THEN BusyJobs \cup {j} ELSE BusyJobs \ {j}
  BY <1>4, <1>5 DEF BusyJobs
<1> QED
  BY <1>3, <1>6

\* A job inserted in the queue is busy.
LEMMA BusyInsert ==
  ASSUME TypeOK, NEW j \in JobIds, InsertJob(j), UNCHANGED <<pc, cur>>
  PROVE  BusyJobs' = BusyJobs \cup {j}
<1>1. jstatus' = [jstatus EXCEPT ![j] = "queued"]
  BY DEF InsertJob
<1>2. \A k \in JobIds : Busy(k)' <=> Busy(k) \/ k = j
  BY <1>1 DEF Busy, TypeOK
<1> QED
  BY <1>2 DEF BusyJobs

\* A cancellation hits no busy job: the runs it hits wait for their review.
LEMMA BusyCancel ==
  ASSUME TypeOK, PendingWaits, CancelPending
  PROVE  BusyJobs' = BusyJobs
<1>1. \A j \in JobIds : \/ jstatus'[j] = jstatus[j]
                        \/ j \notin BusyJobs /\ jstatus'[j] = "cancelled"
  <2> DEFINE hit == {g[1] : g \in {h \in GateIds : gate[h] = "pending"}}
             victim(j) == j[1] \in hit /\ jstatus[j] \in {"queued", "running", "retry"}
  <2>1. \A j \in BusyJobs : j[1] \notin hit
    BY DEF PendingWaits
  <2>2. \A j \in JobIds : IF victim(j) THEN jstatus'[j] = "cancelled"
                         ELSE jstatus'[j] = jstatus[j]
    BY DEF CancelPending
  <2> QED
    BY <2>1, <2>2
<1>2. UNCHANGED <<pc, cur>>
  BY DEF CancelPending, procVars
<1>3. \A j \in JobIds : Busy(j)' <=> Busy(j)
  BY <1>1, <1>2 DEF Busy, BusyJobs
<1> QED
  BY <1>3 DEF BusyJobs

-----------------------------------------------------------------------------
(* Reviews and plans in calm runs                                          *)

\* Ids of gates are ids of jobs of the same run.
LEMMA GateJobs ==
  /\ GateIds \subseteq JobIds
  /\ \A g \in GateIds : g[1] \in Runs /\ g[2] \in 1..MaxGates /\ g = <<g[1], g[2]>>
  /\ \A r \in Runs, v \in 1..MaxGates : <<r, v>> \in GateIds
BY DEF GateIds, JobIds

\* The points of a worker at which it holds nothing of its run that could be stale.
Unbound == {"idle", "claimed", "ran", "save_done", "finish"}

\* A step that leaves the run, its reviews and its checkpoint alone.
LEMMA RunsUntouched ==
  ASSUME TypeOK, ReviewInv, BusyJobs' = BusyJobs,
         UNCHANGED <<phase, gate, gplan, decision, ckpt, applied>>,
         \A p \in Procs : \/ pc'[p] \in Unbound
                         \/ /\ pc'[p] = pc[p] /\ cur'[p] = cur[p]
                            /\ thread'[p] = thread[p] /\ seen'[p] = seen[p]
  PROVE  ReviewInv'
<1> USE DEF ReviewInv
<1>1. OneBusyJob' /\ PendingWaits' /\ ApprovedPlanStands' /\ AppliedWasResolved'
      /\ ApprovalMeetsItsPlan' /\ PhaseIsTrue'
  BY DEF OneBusyJob, PendingWaits, ApprovedPlanStands, AppliedWasResolved,
         ApprovalMeetsItsPlan, PhaseIsTrue
<1>2. WorkerIsCurrent'
  BY DEF WorkerIsCurrent, Unbound
<1> QED
  BY <1>1, <1>2

\* A step of the graph: worker p moves the thread of its run, and nothing else of the run.
LEMMA ThreadStep ==
  ASSUME TypeOK, LeaseInv, ReviewInv, NEW p \in Procs, GoesOn(p),
         UNCHANGED <<phase, gate, gplan, decision>>,
         NEW t \in Thread,
         ckpt' = [ckpt EXCEPT ![cur[p][1]] = t],
         thread' = [thread EXCEPT ![p] = t], UNCHANGED seen,
         pc'[p] \in {"exec", "ran"},
         cur[p] \in GateIds /\ decision[cur[p]] = "approve" => t.at \in {"producing", "ended"},
         \/ applied' = applied
         \/ /\ cur[p] \in GateIds /\ ckpt[cur[p][1]].at = "review"
            /\ applied' = applied \cup {<<cur[p], ckpt[cur[p][1]].plan>>},
         \A g \in GateIds : g \in BusyJobs => gate[g] = "resolved"
  PROVE  ReviewInv'
<1> USE DEF ReviewInv
<1>1. cur[p] \in BusyJobs /\ cur[p] \in JobIds /\ cur[p][1] \in Runs
  BY WorkersAreBusy DEF GoesOn
<1>2. BusyJobs' = BusyJobs
  BY BusyGoesOn
<1>3. \A j \in BusyJobs : j[1] = cur[p][1] => j = cur[p]
  BY <1>1 DEF OneBusyJob
<1>4. \A g \in GateIds : gate[g] = "pending" => ckpt'[g[1]] = ckpt[g[1]]
  BY <1>1, GateJobs DEF PendingWaits, TypeOK
<1>5. OneBusyJob' /\ PendingWaits' /\ PhaseIsTrue'
  BY <1>2, <1>4 DEF OneBusyJob, PendingWaits, PhaseIsTrue
<1>6. ApprovedPlanStands'
  <2> SUFFICES ASSUME NEW g \in GateIds, g \in BusyJobs, decision[g] = "approve"
               PROVE  /\ ckpt'[g[1]].at \in {"review", "producing", "ended"}
                      /\ ckpt'[g[1]].at = "review" => ckpt'[g[1]].plan = gplan[g]
    BY <1>2 DEF ApprovedPlanStands
  <2>1. CASE g[1] = cur[p][1]
    BY <1>1, <1>3, <2>1 DEF TypeOK
  <2>2. CASE g[1] # cur[p][1]
    BY <2>2, GateJobs DEF ApprovedPlanStands, TypeOK
  <2> QED
    BY <2>1, <2>2
<1>7. AppliedWasResolved'
  BY <1>1 DEF AppliedWasResolved
<1>8. ApprovalMeetsItsPlan'
  BY <1>1 DEF ApprovalMeetsItsPlan, ApprovedPlanStands
<1>9. WorkerIsCurrent'
  <2> SUFFICES ASSUME NEW q \in Procs
               PROVE  /\ pc'[q] = "exec" => thread'[q] = ckpt'[cur[q][1]]
                      /\ pc'[q] \in {"save_running", "open_gate"}
                           => ckpt'[cur[q][1]] = [at |-> "review", plan |-> seen[q]]
                      /\ pc'[q] = "run_end" => phase[cur[q][1]] = "done"
    BY DEF WorkerIsCurrent, GoesOn
  <2>1. CASE q = p
    BY <1>1, <2>1 DEF TypeOK
  <2>2. CASE q # p
    <3>1. pc'[q] = pc[q] /\ thread'[q] = thread[q]
      BY <2>2 DEF GoesOn, TypeOK
    <3>2. CASE pc[q] \in {"idle", "finish"}
      BY <3>1, <3>2
    <3>3. CASE pc[q] \notin {"idle", "finish"}
      <4>1. cur[q][1] # cur[p][1] /\ cur[q][1] \in Runs
        BY <2>2, <3>3, OnlyWorker, WorkersAreBusy DEF GoesOn
      <4> QED
        BY <3>1, <4>1 DEF WorkerIsCurrent, TypeOK
    <3> QED
      BY <3>2, <3>3
  <2> QED
    BY <2>1, <2>2
<1> QED
  BY <1>5, <1>6, <1>7, <1>8, <1>9

\* The job of a gate that is still busy is of a gate that was resolved.
LEMMA BusyWasResolved ==
  ASSUME TypeOK, QueueInv, LeaseInv, NEW g \in GateIds, g \in BusyJobs
  PROVE  gate[g] = "resolved"
BY BusyStatus DEF QueueInv, ResumeIffResolved

\* The steps of the graph: the input or the resolution it is given, and its supersteps.
LEMMA GraphSteps ==
  ASSUME TypeOK, QueueInv, LeaseInv, ReviewInv, NEW p \in Procs,
         BeginExecute(p) \/ BeginResume(p) \/ Draft(p) \/ Produce(p) \/ AlreadyEnded(p)
  PROVE  ReviewInv'
<1>1. GoesOn(p)
  BY WorkerStepsGoOn
<1>2. /\ cur[p] \in BusyJobs /\ cur[p] \in JobIds /\ cur[p][1] \in Runs
      /\ ckpt[cur[p][1]] \in Thread /\ thread[p] \in Thread
  BY <1>1, WorkersAreBusy DEF GoesOn, TypeOK
<1>3. \A g \in GateIds : g \in BusyJobs => gate[g] = "resolved"
  BY BusyWasResolved
<1>4. UNCHANGED <<phase, gate, gplan, decision, seen>>
  BY DEF BeginExecute, BeginResume, Draft, Produce, AlreadyEnded, runVars, gateVars
<1>5. CASE BeginExecute(p)
  <2> DEFINE t == [ckpt[cur[p][1]] EXCEPT !.at = "drafting"]
  <2>1. t \in Thread
    BY <1>2, ThreadMoves DEF Points
  <2>2. /\ ckpt' = [ckpt EXCEPT ![cur[p][1]] = t] /\ thread' = [thread EXCEPT ![p] = t]
        /\ pc'[p] = "exec" /\ applied' = applied /\ cur[p] \notin GateIds
    BY <1>2, <1>5 DEF BeginExecute, Checkpoint, TypeOK, ExecuteJob, GateIds
  <2> HIDE DEF t
  <2> QED
    BY <1>1, <1>3, <1>4, <2>1, <2>2, ThreadStep
<1>6. CASE BeginResume(p)
  <2> DEFINE c == ckpt[cur[p][1]]
             t == [c EXCEPT !.at = IF decision[cur[p]] = "approve" THEN "producing"
                                   ELSE "drafting"]
  <2>1. cur[p] \in GateIds /\ pc'[p] = "exec" /\ pc' = [pc EXCEPT ![p] = "exec"]
    BY <1>6 DEF BeginResume, TypeOK
  <2>2. CASE c.at = "review"
    <3>1. /\ ckpt' = [ckpt EXCEPT ![cur[p][1]] = t] /\ thread' = [thread EXCEPT ![p] = t]
          /\ applied' = applied \cup {<<cur[p], c.plan>>}
      BY <1>6, <2>2 DEF BeginResume, Checkpoint
    <3>2. t \in Thread /\ (decision[cur[p]] = "approve" => t.at = "producing")
      BY <1>2, ThreadMoves DEF Points, Thread
    <3> HIDE DEF t
    <3> QED
      BY <1>1, <1>3, <1>4, <2>1, <2>2, <3>1, <3>2, ThreadStep
  <2>3. CASE c.at # "review"
    <3>1. thread' = [thread EXCEPT ![p] = c] /\ UNCHANGED <<ckpt, applied>>
      BY <1>6, <2>3 DEF BeginResume
    <3>2. ckpt' = [ckpt EXCEPT ![cur[p][1]] = c]
      BY <1>2, <3>1 DEF TypeOK
    <3>3. decision[cur[p]] = "approve" => c.at \in {"producing", "ended"}
      BY <1>2, <2>1, <2>3 DEF ReviewInv, ApprovedPlanStands
    <3>4. c \in Thread
      BY <1>2
    <3> HIDE DEF c
    <3> QED
      BY <1>1, <1>3, <1>4, <2>1, <3>1, <3>2, <3>3, <3>4, ThreadStep DEF c
  <2> QED
    BY <2>2, <2>3
<1>7. CASE Draft(p)
  <2> DEFINE t == [at |-> IF cur[p][1] \in ReviewRuns THEN "review" ELSE "producing",
                   plan |-> nplans[cur[p][1]] + 1]
  <2>1. /\ ckpt' = [ckpt EXCEPT ![cur[p][1]] = t] /\ thread' = [thread EXCEPT ![p] = t]
        /\ t \in Thread
    <3>1. nplans[cur[p][1]] + 1 \in 0..MaxPlans
      BY <1>2, <1>7, ConstantsAssumption DEF Draft, TypeOK
    <3> QED
      BY <1>7, <3>1 DEF Draft, Checkpoint, Thread, Points
  <2>2. pc'[p] \in {"exec", "ran"} /\ applied' = applied
    BY <1>7 DEF Draft, TypeOK
  <2>3. ~(cur[p] \in GateIds /\ decision[cur[p]] = "approve")
    BY <1>2, <1>7 DEF Draft, ReviewInv, WorkerIsCurrent, ApprovedPlanStands
  <2> HIDE DEF t
  <2> QED
    BY <1>1, <1>3, <1>4, <2>1, <2>2, <2>3, ThreadStep
<1>8. CASE Produce(p)
  <2> DEFINE t == [thread[p] EXCEPT !.at = "ended"]
  <2>1. t \in Thread /\ t.at = "ended"
    BY <1>2, ThreadMoves DEF Points, Thread
  <2>2. /\ ckpt' = [ckpt EXCEPT ![cur[p][1]] = t] /\ thread' = [thread EXCEPT ![p] = t]
        /\ pc'[p] = "ran" /\ applied' = applied
    BY <1>8 DEF Produce, Checkpoint, TypeOK
  <2> HIDE DEF t
  <2> QED
    BY <1>1, <1>3, <1>4, <2>1, <2>2, ThreadStep
<1>9. CASE AlreadyEnded(p)
  <2>1. /\ UNCHANGED <<ckpt, applied, thread, cur>> /\ pc' = [pc EXCEPT ![p] = "ran"]
    BY <1>9 DEF AlreadyEnded, graphVars
  <2>2. BusyJobs' = BusyJobs
    BY <1>1, <2>1, BusyGoesOn DEF TypeOK
  <2> QED
    BY <1>4, <2>1, <2>2, RunsUntouched DEF TypeOK, Unbound
<1> QED
  BY <1>5, <1>6, <1>7, <1>8, <1>9

\* A step that ends or begins jobs, or moves a worker, of run r only: what it keeps of the
\* other workers.
LEMMA OtherWorkersStay ==
  ASSUME TypeOK, LeaseInv, ReviewInv, NEW p \in Procs, pc[p] \notin {"idle", "finish"},
         UNCHANGED <<ckpt, cur, thread, seen>>,
         \A q \in Procs : q # p => pc'[q] = pc[q],
         \A r \in Runs : r # cur[p][1] => phase'[r] = phase[r],
         NEW q \in Procs, q # p
  PROVE  /\ pc'[q] = "exec" => thread'[q] = ckpt'[cur'[q][1]]
         /\ pc'[q] \in {"save_running", "open_gate"}
              => ckpt'[cur'[q][1]] = [at |-> "review", plan |-> seen'[q]]
         /\ pc'[q] = "run_end" => phase'[cur'[q][1]] = "done"
<1>1. CASE pc[q] \in {"idle", "finish"}
  BY <1>1
<1>2. CASE pc[q] \notin {"idle", "finish"}
  <2>1. cur[q][1] # cur[p][1] /\ cur[q][1] \in Runs
    BY <1>2, OnlyWorker, WorkersAreBusy DEF ReviewInv
  <2> QED
    BY <2>1 DEF ReviewInv, WorkerIsCurrent
<1> QED
  BY <1>1, <1>2

\* A busy job's run has no review open.
LEMMA BusyHasNoReview ==
  ASSUME ReviewInv, NEW j \in BusyJobs, NEW g \in GateIds, g[1] = j[1]
  PROVE  gate[g] # "pending"
BY DEF ReviewInv, PendingWaits

\* Reading the checkpoint, saving the run and announcing its end.
LEMMA ReportSteps ==
  ASSUME TypeOK, LeaseInv, ReviewInv, NEW p \in Procs,
         Inspect(p) \/ SaveRunning(p) \/ SaveDone(p) \/ RunEnd(p)
  PROVE  ReviewInv'
<1> DEFINE r == cur[p][1]
<1>1. GoesOn(p)
  BY WorkerStepsGoOn
<1>2. cur[p] \in BusyJobs /\ cur[p] \in JobIds /\ r \in Runs /\ ckpt[r] \in Thread
  BY <1>1, WorkersAreBusy DEF GoesOn, TypeOK
<1>3. UNCHANGED <<gate, gplan, decision, ckpt, applied, cur, thread>>
  BY DEF Inspect, SaveRunning, SaveDone, Save, RunEnd, gateVars, graphVars
<1>4. pc[p] \notin {"idle", "finish"} /\ \A q \in Procs : q # p => pc'[q] = pc[q]
  BY <1>1 DEF GoesOn, TypeOK
<1>5. \A g \in GateIds : g[1] = r => gate[g] # "pending"
  BY <1>2, BusyHasNoReview
<1>6. ASSUME BusyJobs' \in {BusyJobs, BusyJobs \ {cur[p]}}
      PROVE  OneBusyJob' /\ PendingWaits' /\ ApprovedPlanStands' /\ AppliedWasResolved'
             /\ ApprovalMeetsItsPlan'
  BY <1>3, <1>6 DEF ReviewInv, OneBusyJob, PendingWaits, ApprovedPlanStands,
     AppliedWasResolved, ApprovalMeetsItsPlan
<1>7. CASE Inspect(p)
  <2>1. /\ pc' = [pc EXCEPT ![p] = IF ckpt[r].at = "review" THEN "save_running" ELSE "save_done"]
        /\ seen' = [seen EXCEPT ![p] = ckpt[r].plan] /\ phase' = phase
    BY <1>7 DEF Inspect, runVars
  <2>2. BusyJobs' = BusyJobs
    BY <1>1, <2>1, BusyGoesOn DEF TypeOK
  <2>3. WorkerIsCurrent'
    <3> SUFFICES ASSUME NEW q \in Procs
                 PROVE  /\ pc'[q] = "exec" => thread[q] = ckpt[cur[q][1]]
                        /\ pc'[q] \in {"save_running", "open_gate"}
                             => ckpt[cur[q][1]] = [at |-> "review", plan |-> seen'[q]]
                        /\ pc'[q] = "run_end" => phase[cur[q][1]] = "done"
      BY <1>3, <2>1 DEF WorkerIsCurrent
    <3>1. CASE q = p
      BY <1>2, <2>1, <3>1 DEF TypeOK, Thread
    <3>2. CASE q # p
      BY <2>1, <3>2 DEF ReviewInv, WorkerIsCurrent, TypeOK
    <3> QED
      BY <3>1, <3>2
  <2>4. PhaseIsTrue'
    BY <1>3, <2>1, <2>2 DEF ReviewInv, PhaseIsTrue
  <2> QED
    BY <1>6, <2>2, <2>3, <2>4 DEF ReviewInv
<1>8. ASSUME NEW ph \in {"running", "done"}, NEW s \in PcStates, Save(p, ph, s),
             ph = "running" => s = "open_gate" /\ pc[p] = "save_running",
             ph = "done" => s = "run_end"
      PROVE  ReviewInv'
  <2>1. /\ pc' = [pc EXCEPT ![p] = s] /\ phase' = [phase EXCEPT ![r] = ph] /\ seen' = seen
    BY <1>8 DEF Save
  <2>2. BusyJobs' = BusyJobs
    BY <1>1, <1>8, <2>1, BusyGoesOn DEF TypeOK
  <2>3. /\ pc'[p] = "exec" => thread'[p] = ckpt'[cur'[p][1]]
        /\ pc'[p] \in {"save_running", "open_gate"}
             => ckpt'[cur'[p][1]] = [at |-> "review", plan |-> seen'[p]]
        /\ pc'[p] = "run_end" => phase'[cur'[p][1]] = "done"
    BY <1>2, <1>3, <1>8, <2>1 DEF ReviewInv, WorkerIsCurrent, TypeOK
  <2>4. \A x \in Runs : x # cur[p][1] => phase'[x] = phase[x]
    BY <2>1 DEF TypeOK
  <2>5. WorkerIsCurrent'
    BY <1>3, <1>4, <2>1, <2>3, <2>4, OtherWorkersStay DEF WorkerIsCurrent
  <2>6. PhaseIsTrue'
    BY <1>2, <1>3, <1>5, <2>1, <2>2 DEF ReviewInv, PhaseIsTrue, TypeOK
  <2> QED
    BY <1>6, <2>2, <2>5, <2>6 DEF ReviewInv
<1>9. CASE SaveRunning(p)
  BY <1>8, <1>9 DEF SaveRunning, PcStates
<1>10. CASE SaveDone(p)
  BY <1>8, <1>10 DEF SaveDone, PcStates
<1>11. CASE RunEnd(p)
  <2>1. /\ pc' = [pc EXCEPT ![p] = "finish"] /\ phase' = phase /\ seen' = seen
        /\ phase[r] = "done"
    BY <1>11 DEF RunEnd, ReviewInv, WorkerIsCurrent
  <2>2. BusyJobs' = BusyJobs \ {cur[p]}
    BY <1>1, <2>1, BusyGoesOn DEF TypeOK
  <2>3. WorkerIsCurrent'
    BY <1>3, <2>1 DEF ReviewInv, WorkerIsCurrent, TypeOK
  <2>4. PhaseIsTrue'
    BY <1>3, <2>1, <2>2 DEF ReviewInv, PhaseIsTrue
  <2> QED
    BY <1>6, <2>2, <2>3, <2>4 DEF ReviewInv
<1> QED
  BY <1>7, <1>9, <1>10, <1>11

\* open_gate: the run's only busy worker shows the plan the checkpoint waits at, and is done.
LEMMA OpenGateKeepsReviews ==
  ASSUME TypeOK, LeaseInv, ReviewInv, NEW p \in Procs, OpenGate(p)
  PROVE  ReviewInv'
<1> DEFINE r == cur[p][1]
<1>1. GoesOn(p)
  BY WorkerStepsGoOn
<1>2. cur[p] \in BusyJobs /\ cur[p] \in JobIds /\ r \in Runs
  BY <1>1, WorkersAreBusy DEF GoesOn
<1>3. PICK v \in 1..MaxGates :
        /\ IsNextVersion(r, v)
        /\ gate' = [gate EXCEPT ![<<r, v>>] = "pending"]
        /\ gplan' = [gplan EXCEPT ![<<r, v>>] = seen[p]]
  BY DEF OpenGate
<1>4. PICK g \in GateIds : g = <<r, v>>
  BY <1>2, GateJobs
<1>5. g[1] = r /\ gate[g] = "none"
  BY <1>2, <1>3, <1>4 DEF IsNextVersion, Versions
<1>6. /\ gate' = [gate EXCEPT ![g] = "pending"] /\ gplan' = [gplan EXCEPT ![g] = seen[p]]
      /\ phase' = [phase EXCEPT ![r] = "review"] /\ pc' = [pc EXCEPT ![p] = "finish"]
      /\ UNCHANGED <<decision, ckpt, applied, cur, thread, seen>>
  BY <1>3, <1>4 DEF OpenGate, graphVars
<1>7. ckpt[r] = [at |-> "review", plan |-> seen[p]]
  BY DEF OpenGate, ReviewInv, WorkerIsCurrent
<1>8. BusyJobs' = BusyJobs \ {cur[p]}
  BY <1>1, <1>6, BusyGoesOn DEF TypeOK
<1>9. \A j \in BusyJobs' : j \in BusyJobs /\ j[1] # r
  BY <1>2, <1>8 DEF ReviewInv, OneBusyJob
<1>10. \A h \in GateIds : h[1] = r => gate[h] # "pending"
  BY <1>2, BusyHasNoReview
<1>11. OneBusyJob'
  BY <1>9 DEF ReviewInv, OneBusyJob
<1>12. PendingWaits'
  <2> SUFFICES ASSUME NEW h \in GateIds, gate'[h] = "pending"
               PROVE  /\ \A j \in BusyJobs' : j[1] # h[1]
                      /\ \A k \in GateIds : gate'[k] = "pending" /\ k[1] = h[1] => k = h
                      /\ ckpt'[h[1]] = [at |-> "review", plan |-> gplan'[h]]
    BY DEF PendingWaits
  <2>1. CASE h = g
    BY <1>5, <1>6, <1>7, <1>9, <1>10, <2>1 DEF TypeOK
  <2>2. CASE h # g
    BY <1>5, <1>6, <1>9, <1>10, <2>2 DEF ReviewInv, PendingWaits, TypeOK
  <2> QED
    BY <2>1, <2>2
<1>13. WorkerIsCurrent'
  <2>1. \A q \in Procs : q # p => pc'[q] = pc[q]
    BY <1>6 DEF TypeOK
  <2>2. \A x \in Runs : x # cur[p][1] => phase'[x] = phase[x]
    BY <1>6 DEF TypeOK
  <2>3. pc'[p] = "finish" /\ pc[p] \notin {"idle", "finish"}
    BY <1>6 DEF OpenGate, TypeOK
  <2> QED
    BY <1>6, <2>1, <2>2, <2>3, OtherWorkersStay DEF WorkerIsCurrent
<1>14. ApprovedPlanStands'
  <2>1. \A h \in GateIds : h # g => gplan'[h] = gplan[h]
    BY <1>6 DEF TypeOK
  <2> QED
    BY <1>5, <1>6, <1>9, <2>1 DEF ReviewInv, ApprovedPlanStands
<1>15. AppliedWasResolved'
  BY <1>5, <1>6 DEF ReviewInv, AppliedWasResolved, TypeOK
<1>16. ApprovalMeetsItsPlan'
  BY <1>5, <1>6 DEF ReviewInv, AppliedWasResolved, ApprovalMeetsItsPlan, TypeOK
<1>17. PhaseIsTrue'
  <2> SUFFICES ASSUME NEW x \in Runs
               PROVE  /\ phase'[x] = "absent" => \A h \in GateIds : h[1] = x => gate'[h] = "none"
                      /\ phase'[x] = "running" => \E j \in BusyJobs' : j[1] = x
                      /\ phase'[x] = "review"
                           <=> \E h \in GateIds : h[1] = x /\ gate'[h] = "pending"
    BY DEF PhaseIsTrue
  <2>1. CASE x = r
    BY <1>2, <1>5, <1>6, <2>1 DEF TypeOK
  <2>2. CASE x # r
    <3>1. \A h \in GateIds : h[1] = x => gate'[h] = gate[h]
      BY <1>5, <1>6, <2>2 DEF TypeOK
    <3>2. \A j \in BusyJobs : j[1] = x => j \in BusyJobs'
      BY <1>8, <2>2
    <3> QED
      BY <1>6, <2>2, <3>1, <3>2 DEF ReviewInv, PhaseIsTrue, TypeOK
  <2> QED
    BY <2>1, <2>2
<1> QED
  BY <1>11, <1>12, <1>13, <1>14, <1>15, <1>16, <1>17 DEF ReviewInv

\* fail, from a worker that was not done: the job goes back to the queue, or the run is in
\* error and no job of it is busy any more.
LEMMA FailureKeepsReviews ==
  ASSUME TypeOK, LeaseInv, ReviewInv, NEW p \in Procs, NEW retryable \in BOOLEAN,
         pc[p] \notin {"idle", "finish"}, RecordFailure(p, retryable)
  PROVE  ReviewInv'
<1> DEFINE r == cur[p][1]
<1>1. cur[p] \in BusyJobs /\ cur[p] \in JobIds /\ r \in Runs
  BY WorkersAreBusy
<1>2. /\ Leave(p)
      /\ UNCHANGED <<gate, gplan, decision, ckpt, applied>>
  BY DEF RecordFailure, gateVars, graphVars
<1>3. /\ pc' = [pc EXCEPT ![p] = "idle"]
      /\ \A q \in Procs : q # p => /\ pc'[q] = pc[q] /\ cur'[q] = cur[q]
                                   /\ thread'[q] = thread[q] /\ seen'[q] = seen[q]
  BY <1>2 DEF Leave, TypeOK
<1>4. \/ jstatus' = [jstatus EXCEPT ![cur[p]] = "retry"] /\ phase' = phase
      \/ /\ jstatus' = [jstatus EXCEPT ![cur[p]] = "failed"]
         /\ phase' = [phase EXCEPT ![r] = "error"]
  BY DEF RecordFailure, runVars
<1>5. CASE jstatus' = [jstatus EXCEPT ![cur[p]] = "retry"] /\ phase' = phase
  <2>1. BusyJobs' = BusyJobs \cup {cur[p]}
    BY <1>1, <1>2, <1>5, BusyLeave DEF TypeOK
  <2>2. BusyJobs' = BusyJobs
    BY <1>1, <2>1
  <2> QED
    BY <1>2, <1>3, <1>5, <2>2, RunsUntouched DEF TypeOK, Unbound
<1>6. CASE jstatus' = [jstatus EXCEPT ![cur[p]] = "failed"] /\ phase' = [phase EXCEPT ![r] = "error"]
  <2>1. BusyJobs' = BusyJobs \ {cur[p]}
    BY <1>1, <1>2, <1>6, BusyLeave DEF TypeOK
  <2>2. /\ OneBusyJob' /\ PendingWaits' /\ ApprovedPlanStands' /\ AppliedWasResolved'
        /\ ApprovalMeetsItsPlan'
    BY <1>2, <2>1 DEF ReviewInv, OneBusyJob, PendingWaits, ApprovedPlanStands,
       AppliedWasResolved, ApprovalMeetsItsPlan
  <2>3. WorkerIsCurrent'
    <3> SUFFICES ASSUME NEW q \in Procs, pc'[q] \notin {"idle", "finish"}
                 PROVE  /\ pc'[q] = "exec" => thread'[q] = ckpt[cur'[q][1]]
                        /\ pc'[q] \in {"save_running", "open_gate"}
                             => ckpt[cur'[q][1]] = [at |-> "review", plan |-> seen'[q]]
                        /\ pc'[q] = "run_end" => phase'[cur'[q][1]] = "done"
      BY <1>2 DEF WorkerIsCurrent
    <3>1. q # p /\ pc[q] \notin {"idle", "finish"}
      BY <1>3 DEF TypeOK
    <3>2. cur[q][1] # r /\ cur[q][1] \in Runs
      BY <3>1, OnlyWorker, WorkersAreBusy DEF ReviewInv
    <3> QED
      BY <1>3, <1>6, <3>1, <3>2 DEF ReviewInv, WorkerIsCurrent, TypeOK
  <2>4. \A g \in GateIds : g[1] = r => gate[g] # "pending"
    BY <1>1, BusyHasNoReview
  <2>5. PhaseIsTrue'
    BY <1>1, <1>2, <1>6, <2>1, <2>4 DEF ReviewInv, PhaseIsTrue, TypeOK
  <2> QED
    BY <2>2, <2>3, <2>5 DEF ReviewInv
<1> QED
  BY <1>4, <1>5, <1>6

\* The queue's own steps: a claim, the end of a job, a heartbeat, the clock.
LEMMA QueueKeepsReviews ==
  ASSUME TypeOK, LeaseInv, ReviewInv,
         \/ \E p \in Procs, j \in JobIds : Claim(p, j)
         \/ \E p \in Procs : Complete(p) \/ LoseLease(p) \/ Renew(p)
         \/ \E g \in GateIds : ReviewCheck(g) \/ ReviewRejected(g)
         \/ Tick \/ UNCHANGED vars
  PROVE  ReviewInv'
<1> USE DEF runVars, gateVars, graphVars, procVars, jobVars
<1>1. ASSUME NEW p \in Procs, NEW j \in JobIds, Claim(p, j) PROVE ReviewInv'
  <2>1. /\ UNCHANGED <<phase, gate, gplan, decision, ckpt, applied, thread, seen>>
        /\ pc' = [pc EXCEPT ![p] = "claimed"] /\ cur' = [cur EXCEPT ![p] = j]
    BY <1>1 DEF Claim
  <2> QED
    BY <1>1, <2>1, BusyClaim, RunsUntouched DEF TypeOK, Unbound
<1>2. ASSUME NEW p \in Procs, Complete(p) \/ LoseLease(p) PROVE ReviewInv'
  <2>1. /\ UNCHANGED <<phase, gate, gplan, decision, ckpt, applied>> /\ Leave(p)
        /\ pc[p] = "finish" /\ cur[p] \in JobIds
        /\ \A j \in JobIds : j # cur[p] => jstatus'[j] = jstatus[j]
        /\ jstatus'[cur[p]] \in {"succeeded", "cancelled"}
    BY <1>2 DEF Complete, LoseLease, LeaseInv, WorkersHold, TypeOK
  <2>2. cur[p] \notin BusyJobs
    <3>1. jstatus[cur[p]] \in {"running", "cancelled"}
      BY <2>1, WorkersJobs
    <3>2. \A q \in Procs : cur[q] = cur[p] => q = p
      BY <2>1 DEF LeaseInv, OneWorkerPerJob
    <3> QED
      BY <2>1, <3>1, <3>2 DEF BusyJobs, Busy
  <2>3. BusyJobs' = BusyJobs
    BY <2>1, <2>2, BusyLeave
  <2> QED
    BY <2>1, <2>3, RunsUntouched DEF Leave, TypeOK, Unbound
<1>3. CASE \/ \E p \in Procs : Renew(p)
           \/ \E g \in GateIds : ReviewCheck(g) \/ ReviewRejected(g)
           \/ Tick \/ UNCHANGED vars
  <2>1. UNCHANGED <<phase, gate, gplan, decision, ckpt, applied, pc, cur, thread, seen, jstatus>>
    BY <1>3 DEF Renew, ReviewCheck, ReviewRejected, Tick, vars
  <2>2. BusyJobs' = BusyJobs
    BY <2>1 DEF BusyJobs, Busy
  <2> QED
    BY <2>1, <2>2, RunsUntouched
<1> QED
  BY <1>1, <1>2, <1>3

\* enqueue_run: a run that was not there has neither a job nor a gate.
LEMMA EnqueueKeepsReviews ==
  ASSUME TypeOK, QueueInv, LeaseInv, ReviewInv, NEW r \in Runs, EnqueueRun(r)
  PROVE  ReviewInv'
<1>1. ExecuteJob(r) \in JobIds /\ ExecuteJob(r)[1] = r /\ ExecuteJob(r) \notin GateIds
  BY ConstantsAssumption DEF ExecuteJob, JobIds, GateIds
<1>2. /\ phase[r] = "absent" /\ phase' = [phase EXCEPT ![r] = "running"]
      /\ InsertJob(ExecuteJob(r))
      /\ UNCHANGED <<gate, gplan, decision, ckpt, applied, pc, cur, thread, seen>>
  BY DEF EnqueueRun, gateVars, graphVars, procVars
<1>3. BusyJobs' = BusyJobs \cup {ExecuteJob(r)}
  BY <1>1, <1>2, BusyInsert
<1>4. \A g \in GateIds : g[1] = r => gate[g] = "none"
  BY <1>2 DEF ReviewInv, PhaseIsTrue
<1>5. ASSUME NEW j \in BusyJobs PROVE j[1] # r
  <2>1. j \in JobIds /\ jstatus[j] # "none"
    BY BusyStatus
  <2>2. CASE j \in GateIds
    BY <1>4, <2>1, <2>2 DEF QueueInv, ResumeIffResolved
  <2>3. CASE j \notin GateIds
    <3>1. j = ExecuteJob(j[1]) /\ j[1] \in Runs
      BY <2>1, <2>3, ConstantsAssumption DEF JobIds, GateIds, ExecuteJob
    <3> QED
      BY <1>2, <2>1, <3>1 DEF QueueInv, NoJobBeforeItsRun
  <2> QED
    BY <2>2, <2>3
<1>6. OneBusyJob' /\ PendingWaits'
  BY <1>1, <1>2, <1>3, <1>4, <1>5 DEF ReviewInv, OneBusyJob, PendingWaits
<1>7. ApprovedPlanStands' /\ AppliedWasResolved' /\ ApprovalMeetsItsPlan'
  BY <1>1, <1>2, <1>3 DEF ReviewInv, ApprovedPlanStands, AppliedWasResolved,
     ApprovalMeetsItsPlan
<1>8. WorkerIsCurrent'
  <2>1. \A q \in Procs : pc[q] = "run_end" => cur[q][1] \in Runs /\ cur[q][1] # r
    BY <1>5, WorkersAreBusy
  <2> QED
    BY <1>2, <2>1 DEF ReviewInv, WorkerIsCurrent, TypeOK
<1>9. PhaseIsTrue'
  BY <1>1, <1>2, <1>3, <1>4 DEF ReviewInv, PhaseIsTrue, TypeOK
<1> QED
  BY <1>6, <1>7, <1>8, <1>9 DEF ReviewInv

\* resolve_gate: the only review of the run gives way to its only busy job, and the
\* checkpoint still waits at the plan the gate showed.
LEMMA ResolveKeepsReviews ==
  ASSUME TypeOK, QueueInv, LeaseInv, ReviewInv, NEW g \in GateIds, NEW d \in Decisions,
         ResolveGate(g, d)
  PROVE  ReviewInv'
<1>1. g \in JobIds /\ g[1] \in Runs
  BY GateJobs
<1>2. /\ gate[g] = "pending" /\ gate' = [gate EXCEPT ![g] = "resolved"]
      /\ decision' = [decision EXCEPT ![g] = d]
      /\ phase' = [phase EXCEPT ![g[1]] = "running"]
      /\ InsertJob(g)
      /\ UNCHANGED <<gplan, ckpt, applied, pc, cur, thread, seen>>
  BY DEF ResolveGate, graphVars, procVars
<1>3. BusyJobs' = BusyJobs \cup {g}
  BY <1>1, <1>2, BusyInsert
<1>4. /\ \A j \in BusyJobs : j[1] # g[1]
      /\ \A h \in GateIds : gate[h] = "pending" /\ h[1] = g[1] => h = g
      /\ ckpt[g[1]] = [at |-> "review", plan |-> gplan[g]]
  BY <1>2 DEF ReviewInv, PendingWaits
<1>5. \A h \in GateIds : h # g => gate'[h] = gate[h] /\ decision'[h] = decision[h]
  BY <1>2 DEF TypeOK
<1>6. gate'[g] = "resolved" /\ decision'[g] = d
  BY <1>2 DEF TypeOK
<1>7. OneBusyJob'
  BY <1>3, <1>4 DEF ReviewInv, OneBusyJob
<1>8. PendingWaits'
  <2> SUFFICES ASSUME NEW h \in GateIds, gate'[h] = "pending"
               PROVE  /\ \A j \in BusyJobs' : j[1] # h[1]
                      /\ \A k \in GateIds : gate'[k] = "pending" /\ k[1] = h[1] => k = h
                      /\ ckpt'[h[1]] = [at |-> "review", plan |-> gplan'[h]]
    BY DEF PendingWaits
  <2>1. h # g /\ gate[h] = "pending" /\ h[1] # g[1]
    BY <1>4, <1>5, <1>6
  <2>2. \A k \in GateIds : gate'[k] = "pending" => gate[k] = "pending"
    BY <1>5, <1>6
  <2> QED
    BY <1>2, <1>3, <2>1, <2>2 DEF ReviewInv, PendingWaits
<1>9. WorkerIsCurrent'
  <2>1. \A q \in Procs : pc[q] = "run_end" => cur[q][1] \in Runs /\ cur[q][1] # g[1]
    BY <1>4, WorkersAreBusy
  <2> QED
    BY <1>2, <2>1 DEF ReviewInv, WorkerIsCurrent, TypeOK
<1>10. ApprovedPlanStands'
  BY <1>2, <1>3, <1>4, <1>5 DEF ReviewInv, ApprovedPlanStands
<1>11. \A a \in applied : a[1] \in GateIds /\ gate[a[1]] = "resolved" /\ a[1] # g
  BY <1>2 DEF ReviewInv, AppliedWasResolved, TypeOK
<1>12. AppliedWasResolved' /\ ApprovalMeetsItsPlan'
  BY <1>2, <1>5, <1>11 DEF ReviewInv, AppliedWasResolved, ApprovalMeetsItsPlan
<1>13. PhaseIsTrue'
  <2> SUFFICES ASSUME NEW x \in Runs
               PROVE  /\ phase'[x] = "absent" => \A h \in GateIds : h[1] = x => gate'[h] = "none"
                      /\ phase'[x] = "running" => \E j \in BusyJobs' : j[1] = x
                      /\ phase'[x] = "review"
                           <=> \E h \in GateIds : h[1] = x /\ gate'[h] = "pending"
    BY DEF PhaseIsTrue
  <2>1. CASE x = g[1]
    BY <1>1, <1>2, <1>3, <1>4, <1>5, <1>6, <2>1 DEF TypeOK
  <2>2. CASE x # g[1]
    BY <1>2, <1>3, <1>5, <2>2 DEF ReviewInv, PhaseIsTrue, TypeOK
  <2> QED
    BY <2>1, <2>2
<1> QED
  BY <1>7, <1>8, <1>9, <1>10, <1>12, <1>13 DEF ReviewInv

\* cancel_pending_test_runs: the runs it hits wait for a review and for nothing else.
LEMMA CancelKeepsReviews ==
  ASSUME TypeOK, LeaseInv, ReviewInv, CancelPending
  PROVE  ReviewInv'
<1> DEFINE hit == {g[1] : g \in {h \in GateIds : gate[h] = "pending"}}
<1>1. BusyJobs' = BusyJobs
  BY BusyCancel DEF ReviewInv
<1>2. /\ gate' = [g \in GateIds |-> IF gate[g] = "pending" THEN "cancelled" ELSE gate[g]]
      /\ phase' = [r \in Runs |-> IF r \in hit /\ phase[r] \in {"running", "review"}
                                  THEN "cancelled" ELSE phase[r]]
      /\ UNCHANGED <<gplan, decision, ckpt, applied, pc, cur, thread, seen>>
  BY DEF CancelPending, graphVars, procVars
<1>3. \A r \in Runs : r \in hit <=> phase[r] = "review"
  BY DEF ReviewInv, PhaseIsTrue
<1>4. OneBusyJob' /\ PendingWaits'
  BY <1>1, <1>2 DEF ReviewInv, OneBusyJob, PendingWaits
<1>5. ApprovedPlanStands' /\ AppliedWasResolved' /\ ApprovalMeetsItsPlan'
  BY <1>1, <1>2 DEF ReviewInv, ApprovedPlanStands, AppliedWasResolved, ApprovalMeetsItsPlan,
     TypeOK
<1>6. \A r \in Runs : phase'[r] = IF phase[r] = "review" THEN "cancelled" ELSE phase[r]
  BY <1>2, <1>3
<1>7. WorkerIsCurrent'
  <2>1. \A q \in Procs : pc[q] = "run_end" => cur[q][1] \in Runs
    BY WorkersAreBusy
  <2> QED
    BY <1>2, <1>6, <2>1 DEF ReviewInv, WorkerIsCurrent
<1>8. PhaseIsTrue'
  BY <1>1, <1>2, <1>6 DEF ReviewInv, PhaseIsTrue
<1> QED
  BY <1>4, <1>5, <1>7, <1>8 DEF ReviewInv

\* Every step of a calm run keeps its reviews, plans and phases in order.
LEMMA ReviewStep ==
  ASSUME Calm, TypeOK, QueueInv, LeaseInv, ReviewInv, [Next]_vars
  PROVE  ReviewInv'
<1>1. ASSUME NEW p \in Procs PROVE ~Crash(p) /\ ~HeartbeatError(p)
  BY ConstantsAssumption DEF Calm, LeaseInv, Crash, HeartbeatError
<1>2. ASSUME NEW p \in Procs, RefuseResume(p) PROVE ReviewInv'
  <2>1. RecordFailure(p, TRUE) /\ pc[p] = "claimed"
    BY <1>2, Zenon DEF RefuseResume
  <2>2. pc[p] \notin {"idle", "finish"}
    BY <2>1
  <2> QED
    BY <2>1, <2>2, FailureKeepsReviews
<1>3. ASSUME NEW p \in Procs, NEW retryable \in BOOLEAN, Fail(p, retryable) PROVE ReviewInv'
  BY <1>3, FailureKeepsReviews DEF Fail
<1>4. ASSUME NEW p \in Procs, Step(p) PROVE ReviewInv'
  <2>1. CASE BeginExecute(p) \/ BeginResume(p) \/ Draft(p) \/ Produce(p) \/ AlreadyEnded(p)
    BY <2>1, GraphSteps
  <2>2. CASE Inspect(p) \/ SaveRunning(p) \/ SaveDone(p) \/ RunEnd(p)
    BY <2>2, ReportSteps
  <2>3. CASE OpenGate(p)
    BY <2>3, OpenGateKeepsReviews
  <2>4. CASE (\E j \in JobIds : Claim(p, j)) \/ Complete(p)
    BY <2>4, QueueKeepsReviews
  <2> QED
    BY <1>2, <1>4, <2>1, <2>2, <2>3, <2>4 DEF Step
<1>5. ASSUME NEW p \in Procs, LoseLease(p) \/ Renew(p) PROVE ReviewInv'
  BY <1>5, QueueKeepsReviews
<1>6. ASSUME NEW g \in GateIds, ReviewCheck(g) \/ ReviewRejected(g) PROVE ReviewInv'
  BY <1>6, QueueKeepsReviews
<1>7. CASE Tick \/ UNCHANGED vars
  BY <1>7, QueueKeepsReviews
<1>8. ASSUME NEW g \in GateIds, Approve(g) PROVE ReviewInv'
  BY <1>8, ResolveKeepsReviews DEF Approve, Decisions
<1>9. ASSUME NEW g \in GateIds, NEW d \in {"approve", "regenerate"}, ReviewResolve(g, d)
      PROVE  ReviewInv'
  BY <1>9, ResolveKeepsReviews DEF ReviewResolve, Decisions
<1> QED
  BY <1>1, <1>3, <1>4, <1>5, <1>6, <1>7, <1>8, <1>9, EnqueueKeepsReviews, CancelKeepsReviews
  DEF Next

\* Everything at the initial state.
LEMMA CalmInit == Init => CalmInv
<1> SUFFICES ASSUME Init PROVE CalmInv
  OBVIOUS
<1> USE DEF Init
<1>1. BusyJobs = {}
  BY DEF BusyJobs, Busy
<1>2. LeaseInv
  BY DEF LeaseInv, WorkersHold, OneWorkerPerJob
<1>3. OneBusyJob /\ ApprovedPlanStands /\ AppliedWasResolved /\ ApprovalMeetsItsPlan
  BY <1>1 DEF OneBusyJob, ApprovedPlanStands, AppliedWasResolved, ApprovalMeetsItsPlan
<1>4. PendingWaits /\ WorkerIsCurrent /\ PhaseIsTrue
  BY <1>1 DEF PendingWaits, WorkerIsCurrent, PhaseIsTrue
<1> QED
  BY <1>2, <1>3, <1>4 DEF CalmInv, ReviewInv

\* In a run whose workers neither crash nor lose their heartbeat, a job is its worker's until
\* it is finished, one job at most can still move the run, and none while a review is open.
THEOREM CalmInvariant ==
  ASSUME Calm
  PROVE  Spec => []CalmInv
<1>1. TypeOK /\ QueueInv /\ CalmInv /\ [Next]_vars => CalmInv'
  BY Calm, LeaseStep, ReviewStep DEF CalmInv, ReviewInv
<1> QED
  BY <1>1, CalmInit, TypeCorrect, QueueInvariant, PTL DEF Spec

\* What goes into paid production is the plan the gate showed to whoever approved it.
THEOREM ApprovalMeetsItsPlanHolds ==
  ASSUME Calm
  PROVE  Spec => []ApprovalMeetsItsPlan
<1>1. CalmInv => ApprovalMeetsItsPlan
  BY DEF CalmInv, ReviewInv
<1> QED
  BY <1>1, CalmInvariant, PTL

\* A run never has two reviews open.
THEOREM OneReviewOpenHolds ==
  ASSUME Calm
  PROVE  Spec => []OneReviewOpen
<1>1. CalmInv => OneReviewOpen
  <2> SUFFICES ASSUME CalmInv, NEW r \in Runs
               PROVE  Cardinality({v \in 1..MaxGates : gate[<<r, v>>] = "pending"}) <= 1
    BY DEF OneReviewOpen
  <2> DEFINE open == {v \in 1..MaxGates : gate[<<r, v>>] = "pending"}
  <2>1. ASSUME NEW v \in open, NEW w \in open PROVE v = w
    <3>1. <<r, v>> \in GateIds /\ <<r, w>> \in GateIds
      BY GateJobs
    <3>2. <<r, v>> = <<r, w>>
      BY <3>1 DEF CalmInv, ReviewInv, PendingWaits
    <3> QED
      BY <3>2
  <2>2. open = {} \/ \E v : open = {v}
    BY <2>1
  <2> HIDE DEF open
  <2>3. ASSUME open = {} PROVE Cardinality(open) = 0
    BY <2>3, FS_EmptySet
  <2>4. ASSUME NEW v, open = {v} PROVE Cardinality(open) = 1
    BY <2>4, FS_Singleton
  <2>5. Cardinality(open) <= 1
    BY <2>2, <2>3, <2>4
  <2> QED
    BY <2>5 DEF open
<1> QED
  BY <1>1, CalmInvariant, PTL

\* A run that no worker is on and no job will move again is over, or waits for a review
\* that can be given: it is never left running for nobody.
THEOREM QuietRunIsSettledHolds ==
  ASSUME Calm
  PROVE  Spec => []QuietRunIsSettled
<1>1. TypeOK /\ CalmInv => QuietRunIsSettled
  <2> SUFFICES ASSUME TypeOK, CalmInv, NEW r \in Runs, Quiet(r)
               PROVE  \/ phase[r] \in {"done", "error", "cancelled"}
                      \/ phase[r] = "review" /\ \E v \in 1..MaxGates : gate[<<r, v>>] = "pending"
    BY DEF QuietRunIsSettled
  <2>1. \A j \in JobIds : j[1] = r => jstatus[j] \in TerminalJob \cup {"none"}
    <3>1. \A j \in JobIds : j[2] \in 0..MaxGates /\ j = <<j[1], j[2]>>
      BY DEF JobIds
    <3> QED
      BY <3>1 DEF Quiet
  <2>2. \A j \in BusyJobs : j[1] # r
    <3>1. \A j \in BusyJobs : j \in JobIds /\ jstatus[j] \in {"queued", "retry", "running"}
      BY BusyStatus DEF CalmInv
    <3> QED
      BY <2>1, <3>1 DEF TerminalJob
  <2>3. phase[r] \in Phases \ {"absent", "running"}
    BY <2>2 DEF CalmInv, ReviewInv, PhaseIsTrue, Quiet, TypeOK
  <2>4. ASSUME phase[r] = "review" PROVE \E v \in 1..MaxGates : gate[<<r, v>>] = "pending"
    <3>1. PICK g \in GateIds : g[1] = r /\ gate[g] = "pending"
      BY <2>4 DEF CalmInv, ReviewInv, PhaseIsTrue
    <3> QED
      BY <3>1, GateJobs
  <2> QED
    BY <2>3, <2>4 DEF Phases
<1> QED
  BY <1>1, CalmInvariant, TypeCorrect, PTL

=============================================================================
