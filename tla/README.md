# Verification of the video orchestration pipeline

TLA+ models of the durable core of `src/src/orchestrator`, the TLC runs that check them
on small instances, and TLAPS proofs of the properties that matter most. Paths below are
relative to `src/src/orchestrator` unless they start with `docs/`, `tests/`, `front/` or
`README.md`.

## 1. The system

A *run* turns an offer into a batch of short videos. A creative graph drafts concepts,
scripts, creators and voices; a human reviews the plan at a *gate*; a fan-out then
produces every item (voiceover, talking head, product demo, QC loop, assembly). PostgreSQL
is the only source of truth: job rows with leases, gate rows, run rows, an outbox, an
event log, a LangGraph checkpoint per run, a ledger of paid effects and a row per stored
object. Workers, webhooks, reviewers, dashboards and the clock act on it concurrently, and
any process may die. Without a database the web process executes the run itself.

### Inventory

| Component | State | Operations | Hard part | Module |
|---|---|---|---|---|
| Job queue, gates (`db/jobs.py`) | `jobs`, `run_gates` | enqueue, claim, renew, complete, fail, open/resolve gate, cancel | expired leases, stale writers, attempt budget, gate versions | `JobQueue` |
| Worker (`worker.py`) | local variables of `run_worker_once` | execute, heartbeat, save, open gate, complete/fail | several transactions per job, crash between any two | `JobQueue` |
| Run row (`db/runs.py`) | `phase` | save | not fenced by the lease | `JobQueue` |
| Checkpointer, runner (`graph/checkpoint.py`, `runner.py`) | latest checkpoint of a thread | run, resume, get_status | `execute_run` restarts, `resume_run` continues | `JobQueue`, `CreativePlan`, `Production` |
| Review API (`web/routes_review.py`) | requests in flight | check, resolve, legacy approve | check and resolve are two transactions; stale pages | `JobQueue`, `CreativePlan` |
| Creative graph (`nodes/stages.py`, `graph/builder.py`, `tools/creators.py`) | plan, roster, voice batches, revision request | drafting nodes, review, reroll, finalize voices, fan-out | re-entry in the middle of the graph, retries after a voice was bought | `CreativePlan` |
| Item graph (`graph/builder.py`, `graph/routing.py`, `nodes/stages.py`) | one `Item` per concept, `results` | every node, QC loop, join, feedback | no checkpoint inside an item, additive channels | `Production` |
| Media store, storage, migration, retention (`media_store.py`, `storage/`, `db/artifacts.py`) | bytes in R2 or S3, `artifacts` rows | store, record, classify, expire, purge, migrate, change the backend | bytes and rows are changed by separate calls of programs that lock nothing | `MediaStore`; classification also in `Production` |
| Effect ledger (`db/effects.py`) | `effect_ledger`, `provider_quotas` | reserve, bind, update, mark_* | quota arithmetic, terminal states | `EffectLedger` |
| Paid effects (`tools/base.py`) | call in progress | `execute_paid_effect` | outcome unknown after a crash | `PaidEffect` |
| Video predictions (`tools/video.py`, `replicate_webhook.py`) | call, webhook and provider prediction | submit, bind, wait, poll, cancel, store; webhook | webhook overtakes the submitter, deadline races success | `VideoEffect` |
| Outbox and runners (`wake_queue.py`, `sqs_runner.py`, `runner_service.py`) | outbox rows, cycle in progress | claim, publish, mark, fail | failing broker, shared worker ids | `WakeQueue` |
| Event stream and SSE (`db/jobs.py`, `web/routes_runs.py`) | `run_events`, open transactions, connections | append, list by number, stream, reconnect | numbers drawn before commit, phase and events read apart | `EventLog`, `EventFeed` |
| Local executor, registry and stream (`web/run_executor.py`, `web/runs_registry.py`, `web/events.py`) | buffer, bounded queues, review future | execute, emit, subscribe, review, end | full queues, late and lost subscribers | `LocalRun`, `EventFeed` |
| Dashboard's stream reducer (`front/src/api/useRunStream.ts`) | phase shown, answer in flight | reduce events, hydrate | a stale answer arrives after the end | `LocalRun` |
| Progress and topology (`progress.py`, `graph/topology.py`) | the fold of the events | translate, fold, view | ends without an item, operations never closed | `Progress`, `GraphEvents` |
| Run API (`web/routes_runs.py`, `web/server.py`) | run created, mode | start, retry, state, stream | two back ends behind one interface | `RunApi` |
| Members and authentication (`auth.py`, `db/members.py`, `db/invitations.py`, `db/admin.py`, migrations 0012 and 0013) | `organization_members`, `organization_invitations`, `users`, requests being served | authorize and claim, grant, update, revoke, invite, cancel, bootstrap | role read once and used late; last owner; writers that skip the lock | `Members` |

**Not modelled.** The language runtime and the prompt catalogue (their outputs are
nondeterministic inputs of the graph); the provider adapters (modelled by their outcomes);
registry, configuration and runtime contract (static); the CLI except `ops maintain` and
`storage migrate-run`, and the legacy import (one-shot commands over the repositories);
evaluation and the feedback store (offline scoring of finished runs); the rest of the front
end (presentation); the media of creators and voices (written once and kept for ever), the
local directory as a back end and the SQLite twins of the repositories; listing and content
routes, request validation and token verification (no state of their own). `PROJECT.json`
lists each with its sources.

### How the parts interact

```
reviewer -- resolve_gate --> JobQueue -- claim --> worker -- checkpoint --> CreativePlan
                                ^                    |                         |
             WakeQueue ---------+ (announces jobs)   | events                  v fan-out
                                                     v                     Production
                        dashboard <-- EventLog <-- GraphEvents                 |
                            ^         (durable)    + Progress                  | clips
                            |                                                  |
                            +-- LocalRun (in memory)        MediaStore <-------+
                                                                               |
                            webhook --> VideoEffect --+                        |
                                                      +--> EffectLedger <------+
                                        PaidEffect  --+        (voices, voiceovers, images)
```

`PaidEffect` and `VideoEffect` EXTEND `EffectLedger` and use its actions as their
transactions; the ledger is the abstract specification that the callers implement
(`PaidImplementsLedger`, `VideoImplementsLedger`). `EventFeed` is the abstract specification of
an event stream: `EventLog` and `LocalRun` instantiate it with a refinement mapping (`FeedSpec`,
`LocalFeedSpec`). `RunApi` composes `GraphEvents` (which EXTENDS `Progress`) and `LocalRun`
behind the one interface a dashboard sees. `CreativePlan` and `Production` are the two halves
of the graph that `JobQueue` abstracts to a point (`drafting`, `review`, `producing`,
`ended`), so each can be explored in detail with one job at a time while overlapping jobs
are explored in `JobQueue`; `GraphEvents` follows the whole graph again, but only as a
producer of events. `MediaStore` stores what `Production` buys. `Members` decides who may
call the API and shares no state with the rest.

## 2. The modules and the code

**JobQueue.** One action per method of `PostgresJobRepository`, since each is one
transaction, and one per step of a worker. `lease[j]` is the number of ticks until
`lease_expires_at` (0: expired or NULL): every timestamp the code stores is "now plus a
constant" and every test compares it with now. `Held(p)` is the guard of `renew`,
`complete` and `fail`; it compares the row's `worker_id` and lease, not the attempt. Job
and gate ids are uuid5 of their content, hence pairs `<<run, version>>`. A worker's `pc`
walks `claimed → exec → ran → save_running/open_gate | save_done/run_end → finish`; `Crash`
drops it anywhere, `LoseLease` and `HeartbeatError` are the two ends of the heartbeat
task. `applied` records the plan every decision met in the checkpoint.

**EffectLedger.** `est`, `op`, `pst`, `released` are columns of `effect_ledger`, `used` and
`limit` those of `provider_quotas`. Each action has an outcome: the value returned or the
exception raised. Quota is stated with tokens: `QuotaExact` says `used` is the number of
(key, unit) pairs of the unreleased rows.

**PaidEffect.** `execute_paid_effect` by several processes: reserve, operate, record; a
replay reconciles or raises. `billed` is what the provider charged, which the code does
not see. `Reconcile` looks for the effect as `reconcile_voice` does, by a name (`NameOf`) made of
organization, creator id and description; effects of other runs may share it (`Namesakes`).

**VideoEffect.** `_durable_prediction_lifecycle` against `apply_replicate_event`. The
provider (external) accepts, advances and ends predictions by itself; a submission may be
accepted although the call raised. `Expire` is the deadline.

**CreativePlan.** The nodes before the fan-out in the three ways a run can be started
(with review, without, seeded with a creator). Texts are version numbers, a brief a model
value, a voice design batch its effect key (the ledger returns the same candidates for the
same key). `Approve` and `Regenerate` range over the patches a client may send, stale
selections included; the endpoint's validation is their guard. A node that raises is
`RestartJob`, `ResumeJob` or `GiveUp`, depending on the job and its attempts, and
`finalize_voices` may raise after it bought some voices (`slots`) and left others without a
known outcome (`unsure`). The ledger lets those not be tried again; they are reconciled by
name, which finds the purchase, or, if it never happened, another run's voice (`Namesake`).

**Production.** `at[i]` is the node of each item, `item[i]` its `Item`. An attempt that ends
inside `process_item` starts the item over; `made` is what the ledger remembers. `draft`
is which creative plan is produced: its hash is part of every clip's effect key (`Takes`),
but not of the key under which the clip is stored (`Objects`), so a new draft overwrites the
object and its row. `kind` says which job produces: a `resume_run` continues the thread
when it is retried, an `execute_run` restarts it.

**MediaStore.** One item's takes, their bytes per backend and their rows. A node leaves a
list of objects to store (`writing`); each is `PutBytes` and then `RecordRow`, as in
`_pointer` and `_record`. `pointer` is the uri in the item's clips, `done` what the ledger
returns for a completed effect. Downloads that fail leave the clip at the provider's address
and a later node stores it under another key. The purge (`StartPurge`, `PurgeBytes`,
`PurgeRow`) and the migration (`StartCopy`, `CopyObject`, `VerifyCopy`, `SwitchBackend`) work
from rows they listed earlier; every program may die between two calls. `Cutover` is the
reconfiguration of the deployment; it and the migration follow the runbook
(`docs/AWS-CUTOVER.md`), which drains the jobs first.

**EventFeed, EventLog.** `EventFeed` says that published ids are never withdrawn and that a
subscriber is told published ids, in order and once: what was told is a bag, so telling an id
again is a step the feed does not have. In `EventLog` every method that appends
to `run_events` is two steps: its statements draw numbers from the identity column and take
the row locks, the commit publishes the rows and the method's other changes. A reader
(`generate_persisted`) lists by number, then reads the phase, in two transactions, and
reconnects with the last number it saw. `hidden` remembers which events were committed
behind a higher number. A cancellation takes a job from its worker (`owns`), which still saves
the run row before it notices (`SaveRun`).

**Progress, GraphEvents.** `Progress` has no state: the node table of `graph/topology.py`,
the translation of a graph event (`Identity`, `Lifecycle`), one round of the loop of
`build_progress` (`Apply`) and everything after the loop (`View`). `GraphEvents` runs the
graph under a worker's attempts as a producer of chain events: every execution of a node
opens an operation, which a death or an interrupt never closes. A refused take is made again
on the tier `select_tier` returns, always the first, so an item comes back to the same node.

**LocalRun, RunApi.** `_execute_run` and the SSE endpoint share an event loop, so what
happens between two suspending awaits is one step. `pipe[c]` is the queue behind a stream
with the code's `put_nowait`, 0 its sentinel; `screen[c]` is what the reducer of
`useRunStream.ts` shows and `detail[c]` an answer of `/api/state` that is still on its way.
`RunApi` chooses the mode as `DATABASE_URL` does and adds the creation and the retry of a run.

**WakeQueue.** `publish_outbox_once` and then one job, as `run_sqs_cycle` and `runner_tick`
do; `fresh[e]` says that the timestamp of the entry is still in the future. A cycle of the SQS
loop asks the broker in between (`Answered`, `ReceiveFails`), any number of times in vain, and
looks for no job when that raises; `runner_tick` does not ask. Received signals are not state:
`process_job` is called with or without one.

**Members.** A request is authenticated (`Authorize`, and `Claim` in a later statement),
then takes the organization's row, reads and tests the member (`Lock`, `Check`) and writes
(`Commit`); invitations are two statements without a lock, and the INSERT's foreign key
waits for the holder of the organization's row (`InviteInsert`, `InviteCommit`). The
policies of migrations 0012 and 0013 are `MayWrite`, evaluated on the role the actor has at
that statement, while the routes decide by `req[p].role`, the role at authentication.
`outside` remembers that a writer which does not take the row (a claim, an administrative
command) has written since it was taken.

## 3. The runs

| Run | Shows | Instance |
|---|---|---|
| `queue_calm` | `ApprovalMeetsItsPlan`, `OneReviewOpen`, `QuietRunIsSettled`: without crashes or stalls an approval meets its plan, one review is open, an idle run is settled | 1 run, 2 workers, 3 gates, 5 plans, 2 regenerations |
| `queue_faults` | `LeaseIdentifiesClaim`, `ResumeIffResolved`, `FinishedJobsStay` under a crash, stalls and a re-claim | 1 run, 2 workers, 1 gate |
| `queue_crash_approval` | *violation* of `ApprovalMeetsItsPlan`: a crash lets an approval meet a plan its reviewer never saw | 1 crash |
| `paid_effect` | `ChargedOnce`, `FailedWasNotBilled`, `SuccessWasBilled`, `QuotaExact`, `SettledStays` | 3 keys, of different units and two of one name, 6 calls by 2 concurrent, dying processes |
| `video_effect` | `SubmittedOnce`, `LedgerFollowsProvider`, `ReleasedWasNotSubmitted`, `StatusNeverRegresses`; every call ends (`CallsEnd`) | 3 calls, 2 webhooks |
| `production` | `DeliveredWasApproved`, `RetentionFollowsVerdict`, `OneResultPerItem`; production ends (`ProductionEnds`) | 2 items, 2 QC attempts, 2 attempts of either kind of job, required lip sync |
| `media_store` | `MediaIsReadable`; expired objects disappear (`ExpiredIsPurged`) | 2 QC attempts (4 takes), 2 faults, every order of job, purge, migration and cutover |
| `event_log` | `MissedWasHidden`, `FeedSpec` (refinement); `RunSettles`, `StreamCatchesUp` (liveness) | 1 worker and 3 other writers, 1 dashboard, 1 progress event per attempt, 1 upset, 1 cancellation, 1 lost connection |
| `run_api` | `CompletedStageIsTrue`, `RunningIsShown`, `OutcomeAddsUp` of the durable progress; `MissedWasFull`, `DashboardShowsOutcome`, `LocalFeedSpec` (refinement) of the local stream | 2 items, 2 QC attempts on one tier, 2 turns; 2 dashboards, queues of 3, 1 review, 1 lost connection |
| `members` | `LastOwnerStays`, `AuthorityIsCurrent` | 3 users, 2 requests at a time and 3 in all, 3 roles, 2 administrative commands |
| `creative_plan` | `ProducedAsApproved`, `OnlyApprovedVoicesBought`, `EveryItemHasItsVoice`, `NoOldCandidate` | 2 creators, 3 briefs (2 of one spec), 2 revisions, 2 attempts |
| `wake_queue` | `PublishedWasSent`; a broker that refuses every signal starves no job as long as some runner that keeps calling `receive` is answered (`JobsFinish`) | 2 jobs, 2 SQS runners with one id, 1 fault, unbounded failures of the broker |

Every property of a passing run has a mutant: a plausible bug in a mapped definition
(a dropped guard, an off-by-one, a lost reset) that makes TLC refute it.

**Bounds.** Two workers suffice for every race on one row (a stale holder and a new one);
one run, because rows of different runs share nothing. Two attempts separate first, retry
and last. Three gates let a regeneration follow a regeneration. Three calls of a video
effect allow a replay after a death while another waits; two webhooks allow a duplicate or a
reordering. A two-unit key competes with a one-unit key for the last unit of a quota. Two
items are enough for items to be at different nodes when the job dies. In `event_log` a
worker, its heartbeat, a webhook and the web process have transactions open at once, so
numbers commit out of order although there is one worker; the theorems lift the safety part
to any number. A queue of three is smaller than the events of a run, so it overflows, and
larger than those of its first leg, so it also does not. Two faults in `media_store` are a
lost download and a death, or the deaths of two programs. In `paid_effect` two effects of
one name let a replay find the other's voice. In `Members` two owners, or an actor and the
one who demotes it, race over a third user; the commands set the roles up and a third
request follows the race.

Symmetry is used only over interchangeable processes, items, creators, users or dashboards,
and never with liveness. Deadlock is checked in `paid_effect`, `video_effect`, `production`,
`creative_plan` and `wake_queue`, whose ends are explicit steps. In the others the system may
stop: a finished run waits for nobody, and the supply of crashes, plans, reviews, requests or
connections is bounded.

**Fairness.** Weak fairness of each worker's steps and of the clock: the embedded runner
polls every two seconds (`web/server.py:256-287`), the SQS loop never returns and is
restarted by its platform, a cron trigger calls `runner_tick`. In `event_log` also of
commits (a transaction that nothing aborts commits) and of readers (the polling loop of the
stream and the browser's EventSource, which reconnects by itself after a lost connection;
after an answer other than 200 it does not, and the dashboard has to be opened again). In
`VideoEffect` strong fairness of `Expire`: the deadline is a monotonic clock that the
polling loop tests in every round. In `MediaStore` only of the purge, which a scheduled
workflow runs every day. Nothing is assumed of reviewers, providers, webhooks, brokers,
migrations or of crashes not happening.

## 4. Proofs

All theorems hold for every value of the constants under the named assumptions, which type
them and keep the placeholder values apart from the real ones (`ConstantsAssumption`,
`LedgerAssumption`, `PaidAssumption`, `VideoAssumption`, `ProductionAssumption`,
`PlanAssumption`, `MediaAssumption`, `ProgressAssumption`, `GraphAssumption`,
`LocalAssumption`, `LogAssumption`, `WakeAssumption`, `MembersAssumption`); batches and
users are finite, there is at least one QC attempt (`qc.max_attempts`, whatever the number
of tiers), and a voice design returns at least one candidate
(`adapters/elevenlabs_voice_design.py` raises otherwise). The theorems that need more say so
in an `ASSUME` of their own (`Calm`). The inductive invariants (`QueueInv`, `CalmInv`,
`VideoInv`, ...) are defined at the end of the component's module; TLC checked each on the
run's instance before it was proved.

* `JobQueueProofs`. `TypeCorrect` by one step per action. `QueueInvariant` proves
  `QueueInv`: the attempt budget is not inductive alone, since `claim` increments whatever
  the status; it needs that queued jobs have no attempts and retried ones have some left
  (`AttemptsFollowStatus`). That a gate has a resume job iff it is resolved needs that the
  execute job appears with the run row (`NoJobBeforeItsRun`). `AttemptBudgetHolds`,
  `ResumeIffResolvedHolds` and `FinishedJobsStayHolds` follow. `LeaseIdentifiesClaimHolds`
  has no hypothesis on worker ids: the property speaks of a worker whose id no other has
  (`IdIsOwn`), beside any number that share theirs. Its invariant is `OwnerKnowsAttempt`,
  which, unlike the property, does not mention the lease and so survives the clock. The
  theorems of the calm queue (`CalmInvariant`, `ApprovalMeetsItsPlanHolds`,
  `OneReviewOpenHolds`, `QuietRunIsSettledHolds`) assume `Calm`: no crash, no heartbeat that
  fails, one id per worker; with a crash the first is false (`queue_crash_approval`).
  `LeaseInv` says that a job stays its worker's until it is finished, so `ReviewInv` can say
  that at most one job of a run may still write to it (`BusyJobs`), none while a review is
  open, and that what a worker read of the checkpoint is still so when it writes.
* `EffectProofs`, on `EffectLedger` and its two users. Three lemmas on token sets
  (`TokensOfOne`, `TokensAdd`, `TokensRemove`) reduce quota arithmetic to cardinalities;
  `LedgerInvariant` combines types, `ReleasedOnlyFailed`, `QuotaExact`, `QuotaWithinLimit`
  and `OneEffectPerOperation`. `mark_failed` is the reason the first is needed: it releases
  only rows that are not failed yet. `SettledStaysHolds` is the action property.
  `PaidInvariant`: only the process that created the reservation operates (`OneOperator`),
  and a process between operation and record knows the truth of the bill, or after `Reconcile`
  that the provider has an effect of that name (`BillingKnown`, `Delivered`);
  `ChargedOnceHolds`, `FailedWasNotBilledHolds` and `SuccessWasBilledHolds` follow.
  `PaidImplementsLedger` shows each step to be a step of the ledger or a stutter, so all
  ledger theorems hold of the callers. `VideoInvariant`, for any number of calls, webhooks
  and predictions: only the call that created the reservation submits, and it is the first
  to (`OneSubmitter`); what a call or a webhook carries from one step to the next is still
  true when it uses it (`PredictionsAreKnown`), because a prediction's final status is
  final; and a refused submission left no prediction (`PredictionsWereSent`).
  `SubmittedOnceHolds`, `LedgerFollowsProviderHolds`, `ReleasedWasNotSubmittedHolds` and the
  action property `StatusNeverRegressesHolds` follow; `VideoImplementsLedger` is the
  refinement.
* `ProductionProofs`. `ProductionInvariant`: an item keeps no history, so `ItemInv` says what it
  brings to each node: the two clips of the attempt under way, bought and last in its list
  (`PairTaken`), its narration, its verdict and the retention of its objects. That another
  item's classification or a new draft leaves these alone needs `OwnClips`. From it
  `DeliveredWasApprovedHolds`, `RetentionFollowsVerdictHolds` and `OneResultPerItemHolds`, for
  any number of items, QC attempts and attempts of the job and every lip-sync setting.
* `CreativePlanProofs`. The thread keeps no history of its reviews, so `PlanInvariant` says
  what it brings along at each node. A job that comes to a second review carries the answer
  of the first, and that answer is a regeneration (`StaleAnswerRegenerates`): replayed, it
  approves nothing. An approval under way leads, patch included, to what its reviewer saw
  and chose (`ApprovalIsKept`), and until it is applied a reviewed run has no voice
  (`VoicesAfterApproval`); a voice other than the selected one was reconciled for a purchase
  that never happened (`unsure \ slots`). `ProducedAsApprovedHolds` and
  `OnlyApprovedVoicesBoughtHolds` follow, for any number of concepts, creators, candidates,
  regenerations and retries. That a replaced batch never comes back (`NoOldCandidateHolds`)
  needs that every reroll is counted in the key of the batch it leads to
  (`RerollsAreCounted`) and that a voice is designed only for a new roster or by a reroll
  (`DesignedForNewRoster`). `EveryItemHasItsVoiceHolds` is `CastIsComplete`.
* `MediaStoreProofs`. `MediaInvariant` divides the object's life at the end of the job
  (`UpkeepAfterJob`): before it nothing expires, is listed or moves, after it nothing is
  written. During the job, a pending write (`PendingWrites`, `WriteIsDue`) replaces no demo of the
  ledger (`LedgerIsStored`) nor the one at hand (`DemoIsStored`) but by its own bytes, because
  only a talking head can share a key with another clip (`KeysApart`, arithmetic on the take's
  number). After it, the purge holds only expired rows (`PurgeOnlyExpired`), so what it deletes
  is neither kept nor about to be switched to, and the migration's list still tells the
  checksum of every row that is left (`CopyIsCurrent`). `MediaIsReadableHolds` follows, for any
  number of attempts and of deaths. The lists are functions on `1..n` (`InOrder`), not
  `SortSeq`, which the prover cannot expand; `OnePerPlace` proves by counting that every place
  of such a list is taken.
* `DeliveryProofs`, on `EventLog`, `LocalRun` (as `RunApi` runs it) and `WakeQueue`. In the
  log, `StepKinds` sorts the steps by what they do to `rows`, `seq` and `got`: most leave
  them alone, a commit adds numbers already drawn, a round of a reader adds, once each, a
  prefix of what it has not read (`RoundIsPrefix`). With it `LogTypeCorrect`,
  `MissedWasHiddenHolds` (inductive once the types say that a dashboard holds only committed
  events) and `FeedSpecHolds`, the refinement of `EventFeed`, need one case per kind, not
  per action. For the stream in memory `LocalInvariant` relates buffer, queues and
  dashboards: the registered queues are those of the open connections (`StreamsAreOpen`), a
  queue is above everything its dashboard has received and ends with the sentinel
  (`PipeIsAhead`), and what is neither received nor queued did not fit (`HeardIsWhole`).
  `MissedWasFullHolds`, `DashboardShowsOutcomeHolds` and `LocalFeedSpecHolds`, the second
  implementation of `EventFeed`, follow, for every queue size and number of dashboards.
  `PublishedWasSentHolds`, of the outbox, goes through `SentBeforeMark` and has no
  hypothesis on worker ids.
* `GraphProofs`, on `Progress` and `GraphEvents` (as `RunApi` runs them). One lemma per kind of
  event says what `Apply` keeps of a fold: a start opens its operation (`StartFold`), an end
  closes that one and counts its unit (`EndFold`), a chain inside a node and a progress report
  touch only a stage that has an operation open (`InnerFold`, `ReportFold`). `IdentityIs` says
  that the translator finds the item of an end that does not carry it. `GraphInvariant`
  then needs one case per kind of step: the counted units of an item stage are exactly those
  that passed it, and a drafting stage of which anything was reported has an operation open or
  has completed (`FoldIsTrue`); what executes is open and remembered (`ExecutingIsOpen`);
  every result has one error or one end (`ResultsAreOutcomes`). `CompletedStageIsTrueHolds`,
  `RunningIsShownHolds` and `OutcomeAddsUpHolds` are consequences of it, for any number of
  items, attempts and failures.
* `MembersProofs`. `LastOwnerStays` is a property of one step, but it holds because of
  what was counted two steps earlier; `MembersInv` carries it: the organization's row has
  one holder (`LockIsExclusive`), whose request is complete (`RequestsAreWhole`), and the
  owner it is about to remove is not the only one unless somebody wrote without the lock
  (`OwnersCounted`). No other request writes roles under the lock, so the count stays
  true. Users must be finitely many for the count to mean anything, the only assumption
  beyond types. `AuthorityIsCurrent`, of the moment of each statement, needs
  `MembersHaveRows`: a grant that passes its test because the policy hides the target's
  membership is stopped by the target's users row.

Proved and not in a run: the type theorems, `AttemptBudgetHolds`, `QuotaWithinLimitHolds`,
`OneEffectPerOperationHolds`.

Only model-checked: liveness (`CallsEnd`, `ProductionEnds`, `ExpiredIsPurged`, `RunSettles`,
`StreamCatchesUp`, `JobsFinish`), which is out of the prover's reach. Every safety property of
a passing run is also a theorem.

## 5. Where code and documents disagree

One disagreement has a run of its own (`findings` in `PROJECT.json`):

* `queue_crash_approval`: `open_gate` neither closes the previous gate nor ties it to the
  checkpoint. After a crash between `open_gate` and `complete`, the job is re-claimed and
  drafts another plan while the first gate is pending; its approval is applied to the new
  plan. `README.md:122-124` promises that an old tab cannot approve a replaced review.

Others were met while modelling; the models have them as the code does.

*Jobs and effects.*

* A gate left pending by a failed run can be resolved, which takes the run out of `error`
  (`README.md:177-178`).
* The default worker ids of `runner_service.py:35`, `cli.py:505` and `web/server.py:248` are
  per kind of process; with one id for two workers the lease guard admits a stale one
  (`tests/test_postgres_jobs.py:1416` uses two ids). `LeaseIdentifiesClaim` therefore promises
  nothing to workers that share an id; `JobQueueFaults.cfg` gives each its own.
* `mark_uncertain` leaves failed rows alone (`docs/DECISIONS.md:879-881`);
  `UncertainEffectError` is not a `VideoEffectError` and fails the job, not the item
  (`docs/DECISIONS.md:809-810`).
* A restarted `execute_run` drafts a new script, whose hash changes the effect keys, and buys
  its takes again (`docs/DECISIONS.md:609-610` says a restart duplicates no paid call).
* `reconcile_voice` is said to find a purchase "by its deterministic provider-side name"
  (`adapters/elevenlabs_voice_design.py:326`), but creators are `creator-0`, `creator-1`, ... in
  every run, so the unique match may be the voice of another run or candidate.
* A worker whose job was cancelled saves the run as `running` over `cancelled` before it learns
  of it (`worker.py:272`), and may drop the attempt before it opens the gate; the run then has
  no job. `RunSettles` excepts cancelled runs.
* `run_sqs_cycle` calls `receive` before it looks for a job: a deployment of SQS runners alone
  finishes no job while that call fails, although PostgreSQL holds the jobs and SQS only
  announces them (`sqs_runner.py:1`). `JobsFinish` has the premise that some runner is
  a `runner_tick` or is answered when it asks (`KeepsAnswering`).
* `sqs_runner.py:24` says a failing job keeps its message; `run_worker_once` records the
  failure and returns, so the message is acknowledged and the sweep finds the retry.

*Graph.*

* `route_after_voiceover` is not wired into the graph; only required lip sync refuses a clip
  without a voiceover (`graph/routing.py:38`).
* `OneResultPerItem` is stated for `resume_run` jobs: `add_items` appends, so an `execute_run`
  restarted after the join counts items twice (`docs/ADR-D36-cloudflare-aws-portability.md:141`).
* A recast keeps the creator ids, so an equal voice spec finds the earlier design batch in
  the ledger (`docs/DECISIONS.md:765`); a voice reroll past the limit is accepted by the
  endpoint and refused by the node; a roster of one creator can never be approved.

*Events and dashboards.*

* An identity column numbers a row before its transaction commits, so a reader may be carried
  past an event that is committed later (`db/jobs.py:1061`); `MissedWasHidden` says that this
  is the only way to miss one. `docs/DECISIONS.md:609-610` says that none is lost.
* The persisted stream lists events and then reads the phase, which the worker saves before it
  appends the last event: the stream may announce its end without it
  (`web/routes_runs.py:324`).
* A `node_end` without an item completes a stage for the local dashboard after the first item
  (`docs/progress/archive/2026-07.md:1901-1903`); an interrupted review and a dead attempt
  leave an active operation; production is shown as completed between two takes; the durable
  dashboard stays in `review` until `run_end`.
* A full queue drops events without notice. The sentinel that does not fit leaves the streams
  after it open, and a replay longer than the queue refuses the connection
  (`web/run_executor.py:411`).
* `run_state` reads the run and its events in different transactions; a restart of the web
  process loses its local runs; retrying a failed run makes a new one.

*Media.*

* Only the last clip of a delivered item is `keep`: the approved talking head becomes
  `intermediate` and expires (`docs/ADR-D30-media-storage-r2-db.md:138`). Clips stored by
  `node_assembly` and `node_upscale` and the base clips of a lip sync are never classified.
* A storage key is not "único por run/item/kind" (`storage/records.py:41-43`): the fallback
  `clip-{n}` of `persist_item_media` (`media_store.py:366`) counts the clips of an item and
  meets the `clip-{attempt}` of `tools/video.py`. Were a run migrated while its job is running,
  old bytes could be copied over newer ones in S3; the runbook's drain step excludes it.
* The migration leaves the R2 copy behind; events and results keep `r2://` uris that
  `STORAGE_BACKEND=s3` no longer signs (`storage/resolve.py:80-86`), although old runs "seguem
  consultáveis" (`docs/AWS-CUTOVER.md:55`). `MediaIsReadable` therefore speaks of the uris
  that are still signed. A purge that meets a switch of the backend orphans the S3 copy, and a
  single-backend deployment deletes from its own backend whatever the row says.
* The verification after a copy compares the checksum that was sent along as metadata, not
  one of the bytes received.

*Members.*

* `claim_organization_invitation` upserts the membership without the organization's row: a
  role granted between the two statements of `authorize_tenant` is overwritten by the
  invitation's, the only owner's too. `LastOwnerStays` excepts this case (`outside`).
* `grant_member` swallows the failure of its users INSERT, which
  `db/members.py:233` calls an upsert
  (`docs/progress/changes/2026-08-29-postgres-role-separation.md:47`: "insert direto com
  tratamento de unicidade"), but the failed statement has aborted the transaction. A revoked
  user, whose row is kept "para auditoria/reconcessão" (`db/admin.py:167`), cannot be granted
  again through the API, only invited or granted on the administrative connection; the
  in-memory repository (`db/members.py:465-495`) does grant it.
* An invitation may outlive the membership it was sent for and readmit a revoked member. Its
  INSERT may wait for a member change that demotes its sender and is committed all the same.

## 6. Hazards

`PROJECT.json` lists, line by line, what tests would hardly reach, and for each the properties
that would catch it going wrong. They fall into six families: stale holders of a lease
(`queue_faults`), decisions about a plan that has moved (`queue_calm`, `creative_plan`),
outcomes lost between a provider and its record (`paid_effect`, `video_effect`), items started
over after some were finished (`production`, `media_store`), readers that are late or cut off
(`event_log`, `run_api`), and authority that has changed since it was read (`members`).

## 7. What the models leave out

Payloads, prompts, costs, names, tenancy columns and logging; the contents of artefacts;
time beyond the order of deadlines; PostgreSQL itself (transactions are atomic and row locks
are the atomicity of an action, except in `Members`, where the lock spans several, and in
`EventLog`, where statements and commit are apart). `cancel_pending_test_runs` is modelled as
it acts on rows, not with its environment check. The payload-hash comparison in `reserve` is
left out because keys are derived from the payload. In `Members` every user has one verified
address that is nobody else's, the organization exists, and reads that change nothing are not
requests. In `MediaStore` an object expires only after its job is over: retention is days,
a job minutes. `MediaStore` merges steps that no other program tells apart: `RecordRow` writes
the artifact row and then the ledger's success, two calls in the code (a death between them
adds a row to the state of a death before `RecordRow`, which the next attempt overwrites),
and `Classified` makes the `set_retention` calls of an item's clips at once (nothing expires
before the job is over). `CancelDelete` of `Members` is a statement and its commit. In
`GraphEvents` an event is folded as it is appended; delays and gaps of
reading are in `EventLog`.

## 8. Plan

Done: `JobQueue`, `EffectLedger`, `PaidEffect`, `VideoEffect`, `Production`, `CreativePlan`,
`WakeQueue`, `Members`, `EventLog` with `EventFeed`, `Progress`, `GraphEvents`, `LocalRun`,
`RunApi` and `MediaStore`, and proofs of the safety properties of all of them.

Next: `LanguageRuntime`, the budgeted agent turn (`language_runtime.py`, `stage_executor.py`),
which now is a nondeterministic input of the graph.
