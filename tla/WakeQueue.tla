------------------------------- MODULE WakeQueue -------------------------------
(***************************************************************************)
(* The transactional outbox (db/jobs.py) and the runners that drain it:    *)
(* sqs_runner.run_sqs_cycle and runner_service.runner_tick.  A cycle first *)
(* publishes one wake-up signal, and raises if that fails; that of SQS     *)
(* then asks the broker for a signal, and raises if that fails; only then  *)
(* does it look for a job.  Whether there was a signal changes nothing     *)
(* (the job table is read either way), so signals are counted where they   *)
(* are sent and not followed further.  Inside a claimed job, JobQueue has  *)
(* the detail; here it ends, is put back, or is orphaned by a crash.       *)
(***************************************************************************)
EXTENDS Naturals

CONSTANTS
  Jobs,               \* jobs; each has one outbox entry, in the same transaction
  Runners,            \* processes running cycles
  SqsRunners,         \* those that are run_sqs_runner; the others are runner_tick
  WorkerIdOf,         \* the outbox worker id of each: a default they may share
  OutboxMaxAttempts,  \* OUTBOX_MAX_ATTEMPTS
  JobMaxAttempts,     \* max_attempts of a job
  MaxFaults,          \* bound: crashes and publications outliving their lease
  Nothing             \* no entry, job or worker

ASSUME WakeAssumption ==
  /\ OutboxMaxAttempts \in Nat \ {0}
  /\ JobMaxAttempts \in Nat \ {0}
  /\ MaxFaults \in Nat
  /\ Nothing \notin Jobs

VARIABLES
  jstatus, tries, jdue,  \* job status, claims counted, and whether it is available
  entry, attempts,    \* outbox status; attempts, counted up to the maximum
  owner, fresh,       \* outbox worker_id; is its timestamp still in the future
  sent,               \* entries whose signal has reached the broker
  pc, cur,            \* each runner's place in its cycle, and its entry or job
  faults

outboxVars == <<entry, attempts, owner, fresh>>
jobVars == <<jstatus, tries, jdue>>
vars == <<jobVars, outboxVars, sent, pc, cur, faults>>

Init ==
  /\ jstatus = [j \in Jobs |-> "none"]
  /\ tries = [j \in Jobs |-> 0]
  /\ jdue = [j \in Jobs |-> FALSE]
  /\ entry = [j \in Jobs |-> "none"]
  /\ attempts = [j \in Jobs |-> 0]
  /\ owner = [j \in Jobs |-> Nothing]
  /\ fresh = [j \in Jobs |-> FALSE]
  /\ sent = {}
  /\ pc = [p \in Runners |-> "idle"]
  /\ cur = [p \in Runners |-> Nothing]
  /\ faults = 0

Go(p, place, e) == pc' = [pc EXCEPT ![p] = place] /\ cur' = [cur EXCEPT ![p] = e]

\* enqueue_run and resolve_gate insert the job and its signal together.
Enqueue(j) ==
  /\ jstatus[j] = "none"
  /\ jstatus' = [jstatus EXCEPT ![j] = "queued"]
  /\ jdue' = [jdue EXCEPT ![j] = TRUE]
  /\ entry' = [entry EXCEPT ![j] = "pending"]
  /\ UNCHANGED <<tries, attempts, owner, fresh, sent, pc, cur, faults>>

-----------------------------------------------------------------------------
(* Publishing one entry.                                                   *)

ClaimableEntry(e) == entry[e] \in {"pending", "publishing"} /\ ~fresh[e]

CountedAttempt(n) == IF n < OutboxMaxAttempts THEN n + 1 ELSE n

\* What follows the publication.
Then(p) == IF p \in SqsRunners THEN "receive" ELSE "work"

ClaimOutbox(p) ==
  /\ pc[p] = "idle"
  /\ \/ \E e \in Jobs :
          /\ ClaimableEntry(e)
          /\ entry' = [entry EXCEPT ![e] = "publishing"]
          /\ attempts' = [attempts EXCEPT ![e] = CountedAttempt(@)]
          /\ owner' = [owner EXCEPT ![e] = WorkerIdOf[p]]
          /\ fresh' = [fresh EXCEPT ![e] = TRUE]
          /\ Go(p, "publish", e)
     \/ /\ \A e \in Jobs : ~ClaimableEntry(e)
        /\ Go(p, Then(p), Nothing)
        /\ UNCHANGED outboxVars
  /\ UNCHANGED <<jobVars, sent, faults>>

\* A failed call taken for a success.
PublishUnchecked(p) ==
  /\ pc[p] = "publish"
  /\ sent' \in {sent, sent \cup {cur[p]}}
  /\ Go(p, "mark", cur[p])
  /\ UNCHANGED <<jobVars, outboxVars, faults>>

\* The broker accepts the signal; or the call raises, the signal being there
\* or not (a timeout after acceptance).
Publish(p) ==
  /\ pc[p] = "publish"
  /\ \/ sent' = sent \cup {cur[p]} /\ Go(p, "mark", cur[p])
     \/ sent' \in {sent, sent \cup {cur[p]}} /\ Go(p, "fail", cur[p])
  /\ UNCHANGED <<jobVars, outboxVars, faults>>

HoldsEntry(p, e) == entry[e] = "publishing" /\ owner[e] = WorkerIdOf[p] /\ fresh[e]

Released(e, status, delayed) ==
  /\ entry' = [entry EXCEPT ![e] = status]
  /\ owner' = [owner EXCEPT ![e] = Nothing]
  /\ fresh' = [fresh EXCEPT ![e] = delayed]

MarkPublished(p) ==
  /\ pc[p] = "mark"
  /\ \/ /\ HoldsEntry(p, cur[p])
        /\ Released(cur[p], "published", FALSE)
        /\ Go(p, Then(p), Nothing)
     \/ /\ ~HoldsEntry(p, cur[p])      \* LeaseLostError ends the cycle
        /\ Go(p, "idle", Nothing)
        /\ UNCHANGED <<entry, owner, fresh>>
  /\ UNCHANGED <<jobVars, attempts, sent, faults>>

\* The budget is never used up.
FailOutboxAlwaysRetrying(p) ==
  /\ pc[p] = "fail"
  /\ \/ HoldsEntry(p, cur[p]) /\ Released(cur[p], "pending", TRUE)
     \/ ~HoldsEntry(p, cur[p]) /\ UNCHANGED <<entry, owner, fresh>>
  /\ Go(p, "idle", Nothing)
  /\ UNCHANGED <<jobVars, attempts, sent, faults>>

\* Either way the exception is raised again and the cycle looks for no job.
FailOutbox(p) ==
  /\ pc[p] = "fail"
  /\ \/ /\ HoldsEntry(p, cur[p])
        /\ IF attempts[cur[p]] < OutboxMaxAttempts
           THEN Released(cur[p], "pending", TRUE)
           ELSE Released(cur[p], "failed", FALSE)
     \/ ~HoldsEntry(p, cur[p]) /\ UNCHANGED <<entry, owner, fresh>>
  /\ Go(p, "idle", Nothing)
  /\ UNCHANGED <<jobVars, attempts, sent, faults>>

-----------------------------------------------------------------------------
(* One job.                                                                *)

\* consumer.receive: the broker answers, with a signal or without one.
Answered(p) ==
  /\ pc[p] = "receive"
  /\ Go(p, "work", Nothing)
  /\ UNCHANGED <<jobVars, outboxVars, sent, faults>>

\* The call raises, in every cycle if the broker stays down: it ends run_sqs_runner,
\* which the platform starts again.
ReceiveFails(p) ==
  /\ pc[p] = "receive"
  /\ Go(p, "idle", Nothing)
  /\ UNCHANGED <<jobVars, outboxVars, sent, faults>>

Orphaned(j) == jstatus[j] = "running" /\ \A p \in Runners : pc[p] = "run" => cur[p] # j

ClaimableJob(j) == (jstatus[j] = "queued" /\ jdue[j]) \/ Orphaned(j)

ClaimJob(p) ==
  /\ pc[p] = "work"
  /\ \/ \E j \in Jobs :
          /\ ClaimableJob(j)
          /\ jstatus' = [jstatus EXCEPT ![j] = "running"]
          /\ tries' = [tries EXCEPT ![j] = IF @ < JobMaxAttempts THEN @ + 1 ELSE @]
          /\ Go(p, "run", j)
     \/ /\ \A j \in Jobs : ~ClaimableJob(j)
        /\ Go(p, "idle", Nothing)
        /\ UNCHANGED <<jstatus, tries>>
  /\ UNCHANGED <<jdue, outboxVars, sent, faults>>

\* complete, or fail for good, or fail with a retry after a delay.
EndJob(p) ==
  /\ pc[p] = "run"
  /\ \/ jstatus' = [jstatus EXCEPT ![cur[p]] = "ended"] /\ UNCHANGED jdue
     \/ /\ tries[cur[p]] < JobMaxAttempts
        /\ jstatus' = [jstatus EXCEPT ![cur[p]] = "queued"]
        /\ jdue' = [jdue EXCEPT ![cur[p]] = FALSE]
  /\ Go(p, "idle", Nothing)
  /\ UNCHANGED <<tries, outboxVars, sent, faults>>

-----------------------------------------------------------------------------
(* Time and faults (external).                                             *)

\* Whose publication of e is still under way.
Publishing(e) == {p \in Runners : pc[p] \in {"publish", "mark", "fail"} /\ cur[p] = e}

\* A delay passes, or the lease of an entry whose publisher is gone.
Elapse(e) ==
  /\ fresh[e]
  /\ entry[e] = "publishing" => Publishing(e) = {}
  /\ fresh' = [fresh EXCEPT ![e] = FALSE]
  /\ UNCHANGED <<jobVars, entry, attempts, owner, sent, pc, cur, faults>>

JobDue(j) ==
  /\ jstatus[j] = "queued" /\ ~jdue[j]
  /\ jdue' = [jdue EXCEPT ![j] = TRUE]
  /\ UNCHANGED <<jstatus, tries, outboxVars, sent, pc, cur, faults>>

\* The call to the broker outlives the lease, which is not renewed.
Stall(e) ==
  /\ faults < MaxFaults
  /\ entry[e] = "publishing" /\ fresh[e] /\ Publishing(e) # {}
  /\ fresh' = [fresh EXCEPT ![e] = FALSE]
  /\ faults' = faults + 1
  /\ UNCHANGED <<jobVars, entry, attempts, owner, sent, pc, cur>>

\* The process dies; the platform starts it again.
RunnerDies(p) ==
  /\ faults < MaxFaults
  /\ pc[p] # "idle"
  /\ Go(p, "idle", Nothing)
  /\ faults' = faults + 1
  /\ UNCHANGED <<jobVars, outboxVars, sent>>

Cycle(p) ==
  \/ ClaimOutbox(p) \/ Publish(p) \/ MarkPublished(p) \/ FailOutbox(p)
  \/ Answered(p) \/ ReceiveFails(p) \/ ClaimJob(p) \/ EndJob(p)

Next ==
  \/ \E j \in Jobs : Enqueue(j) \/ Elapse(j) \/ JobDue(j) \/ Stall(j)
  \/ \E p \in Runners : Cycle(p) \/ RunnerDies(p)

Spec == Init /\ [][Next]_vars

\* run_sqs_runner loops for ever and the platform restarts it; runner_tick is
\* called by the cron trigger.  Retry delays pass.  Nothing makes the broker
\* accept a signal or answer a call, and nothing makes a client enqueue.
Fairness ==
  /\ \A p \in Runners : WF_vars(Cycle(p))
  /\ \A j \in Jobs : WF_vars(JobDue(j))

LiveSpec == Spec /\ Fairness

-----------------------------------------------------------------------------
\* The rows and the runners have their types.
WakeTypeOK ==
  /\ entry \in [Jobs -> {"none", "pending", "publishing", "published", "failed"}]
  /\ pc \in [Runners -> {"idle", "publish", "mark", "fail", "receive", "work", "run"}]
  /\ cur \in [Runners -> Jobs \cup {Nothing}]
  /\ \A p \in Runners : cur[p] = Nothing <=> pc[p] \in {"idle", "receive", "work"}

\* An entry recorded as published has reached the broker, although publishers
\* with one worker id race over expired leases and calls fail after being
\* accepted (publish_outbox_once, mark_outbox_published).
PublishedWasSent == \A e \in Jobs : entry[e] = "published" => e \in sent

\* What makes it inductive: a runner about to mark an entry has sent it.
SentBeforeMark == \A p \in Runners : pc[p] = "mark" => cur[p] \in sent

\* The broker answers p: a runner that asks again and again is answered again and again.
KeepsAnswering(p) == []<>(pc[p] = "receive") => []<><<Answered(p)>>_vars

\* Every job that is enqueued ends, through retries and re-claims of the leases of
\* dead workers, even if the broker refuses every signal, as long as some runner does
\* not have to ask the broker before it looks for a job (runner_tick) or is answered when
\* it does: a cycle whose publication fails raises before it looks for a job, and only
\* the attempt budget of the entries (fail_outbox) lets a later one go on.
JobsFinish ==
  (\E p \in Runners : p \notin SqsRunners \/ KeepsAnswering(p)) =>
    \A j \in Jobs : jstatus[j] \in {"queued", "running"} ~> jstatus[j] = "ended"
===============================================================================
