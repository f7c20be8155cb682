----------------------------- MODULE GraphEvents -----------------------------
(***************************************************************************)
(* What a durable run reports of itself and what GET /api/state makes of   *)
(* it: the graph (graph/builder.py) as a producer of chain events under    *)
(* the worker's attempts, the translation of each event and the fold of    *)
(* build_progress (Progress), and the reader's snapshot.                   *)
(*                                                                         *)
(* Every execution of a node has a run_id of its own, the operation_id of  *)
(* its events.  A node that is interrupted or dies reports no end, so its  *)
(* operation stays open in the read model.  The item subgraph has no       *)
(* checkpointer: after a crash the unfinished items start over.            *)
(*                                                                         *)
(* An event is folded in when it is appended; the order of append and read *)
(* is the subject of EventLog, attempts that overlap of JobQueue, what the *)
(* nodes buy of Production and what they draft of CreativePlan.            *)
(***************************************************************************)
EXTENDS Progress

CONSTANTS
  MaxQc,       \* qc.max_attempts (3)
  MaxTurns     \* bound: regenerations, refusals and failed nodes of a run, and twice
               \* its attempts that die or fail, together

ASSUME GraphAssumption == MaxQc \in Nat \ {0} /\ MaxTurns \in Nat

VARIABLES
  runPhase,  \* runs.phase
  had,       \* history: the phases the run has had
  reviewed,  \* run option review_plan
  job,       \* the job: "execute_run", or the resolution a resume_run carries
  at,        \* the batch graph: its node, what that node does, its reports
  attempt,   \* how many times the graph was invoked
  held,      \* the answer the next interrupt() of this invocation returns
  it,        \* the item subgraphs
  results,   \* the additive results channel of the checkpoint
  fold,      \* build_progress after the events so far
  memo,      \* what the translator of this invocation remembers
  passed,    \* history: (stage, item) that completed at least once
  turns      \* what counts towards MaxTurns

rowVars == <<runPhase, had, reviewed>>
threadVars == <<at, it, results>>
eventVars == <<fold, memo, passed>>
graphVars == <<rowVars, job, attempt, held, threadVars, eventVars, turns>>

-------------------------------------------------------------------------------

\* tier_names: every configured tier is a node of the item graph.
Tiers == <<"ltx", "kling">>

\* select_tier: whatever the number of attempts, the first one.
SelectTier(attempts) == Tiers[1]

Drafting == {"concepts", "scripts", "creator_profiles", "roster", "review"}
ItemNodes == {"voiceover", "ltx", "kling", "product_demo", "qc", "assembly", "upscale", "drop"}

\* The edges of the batch graph.
After ==
  [concepts |-> "scripts", scripts |-> "creator_profiles", creator_profiles |-> "roster",
   roster |-> "review"]

NewItem == [node |-> "new", on |-> FALSE, err |-> "none", att |-> 0, end |-> "none"]

GraphInit ==
  /\ runPhase = "running"
  /\ had = {"running"}
  /\ reviewed \in BOOLEAN
  /\ job = "execute_run"
  /\ at = [node |-> "concepts", is |-> "queued", n |-> 0]
  /\ attempt = 0
  /\ held = "none"
  /\ it = [i \in Items |-> NewItem]
  /\ results = << >>
  /\ fold = Fresh
  /\ memo = {}
  /\ passed = {}
  /\ turns = 0

\* Faulty variant: operations are named after their node.
OpOfNode(node, i) == <<node>>

\* operation_id, the run_id of the execution.  A clip that quality control refuses is
\* made again by the same nodes in the same invocation: those executions share a name
\* here, one opened only after the one before was closed.
Op(node, i) == <<node, i, attempt>>

\* persist_progress of a start and of an end.  The input of an item node holds its
\* item; its output may or may not.
Started(node, i) ==
  /\ memo' = Remember(memo, Op(node, i), i)
  /\ fold' = Apply(fold, Lifecycle(memo, node, "started", Op(node, i), i))
  /\ UNCHANGED passed

Ended(node, i, carried) ==
  /\ memo' = Forget(memo, Op(node, i))
  /\ fold' = Apply(fold, Lifecycle(memo, node, "completed", Op(node, i), carried))
  /\ passed' = passed \cup (IF Terminal(node) THEN {<<NodeStage[node], i>>} ELSE {})

Turn(n) == turns' = turns + n /\ turns' <= MaxTurns

Becomes(phase) == runPhase' = phase /\ had' = had \cup {phase} /\ UNCHANGED reviewed

-------------------------------------------------------------------------------
(* The batch graph                                                         *)

\* A worker claims the job and invokes the graph, with a fresh translator.  The
\* resolution of a resume_run answers the review if the thread stands there.
Invoke ==
  /\ at.is = "queued"
  /\ at' = [at EXCEPT !.is = "ready"]
  /\ attempt' = attempt + 1
  /\ held' = IF job # "execute_run" /\ at.node = "review" THEN job ELSE "none"
  /\ UNCHANGED <<rowVars, job, it, results, eventVars, turns>>

StartNode ==
  /\ at.is = "ready" /\ at.node \in Drafting
  /\ at' = [at EXCEPT !.is = "on", !.n = 0]
  /\ Started(at.node, NoItem)
  /\ UNCHANGED <<rowVars, job, attempt, held, it, results, turns>>

\* node_scripts and node_roster report each script and each preview.
Report ==
  /\ at.is = "on" /\ at.node \in {"scripts", "roster"}
  /\ at.n < Cardinality(Items)
  /\ at' = [at EXCEPT !.n = @ + 1]
  /\ fold' = Apply(fold, CreativeProgress(NodeStage[at.node], at.n + 1, Cardinality(Items)))
  /\ UNCHANGED <<rowVars, job, attempt, held, it, results, memo, passed, turns>>

\* A chain inside a node runs under the node's name and a run_id of its own.
InnerChain ==
  LET op == <<at.node, NoItem, attempt, "inner">> IN
  /\ at.is = "on" /\ at.node # "review"
  /\ fold' = Apply(Apply(fold, Lifecycle(memo, at.node, "started", op, NoItem)),
                   Lifecycle(memo, at.node, "completed", op, NoItem))
  /\ UNCHANGED <<rowVars, job, attempt, held, threadVars, memo, passed, turns>>

\* node_review without an answer: interrupt() leaves the node, and no end is reported.
Interrupt ==
  /\ at.is = "on" /\ at.node = "review"
  /\ reviewed /\ held = "none"
  /\ at' = [at EXCEPT !.is = "asking"]
  /\ memo' = {}
  /\ UNCHANGED <<rowVars, job, attempt, held, it, results, fold, passed, turns>>

EndNode ==
  /\ at.is = "on" /\ at.node \in Drafting
  /\ at.node = "review" => ~reviewed \/ held # "none"
  /\ at.node \in {"scripts", "roster"} => at.n = Cardinality(Items)
  /\ at' = [at EXCEPT !.is = "ran"]
  /\ Ended(at.node, NoItem, NoItem)
  /\ UNCHANGED <<rowVars, job, attempt, held, it, results, turns>>

\* route_after_review; voice_candidates, the target of "voices", reports nothing.
Routed ==
  CASE ~reviewed \/ held = "approve" -> "items"
    [] reviewed /\ held = "voices" -> "review"
    [] OTHER -> held

\* The superstep ends: the checkpoint names the next node.
Advance ==
  /\ at.is = "ran"
  /\ at' = [node |-> IF at.node = "review" THEN Routed ELSE After[at.node],
            is |-> "ready", n |-> 0]
  /\ held' = "none"
  /\ it' = [i \in Items |-> NewItem]
  /\ UNCHANGED <<rowVars, job, attempt, results, eventVars, turns>>

\* _execute_pipeline_job saves the run and opens the gate.
SaveAndGate ==
  /\ at.is = "asking"
  /\ Becomes("review")
  /\ at' = [at EXCEPT !.is = "gated"]
  /\ UNCHANGED <<job, attempt, held, it, results, eventVars, turns>>

\* resolve_gate queues a resume_run job with the resolution.
Answer(a) ==
  /\ at.is = "gated"
  /\ Turn(IF a = "approve" THEN 0 ELSE 1)
  /\ job' = a
  /\ Becomes("running")
  /\ at' = [at EXCEPT !.is = "queued"]
  /\ UNCHANGED <<attempt, held, it, results, eventVars>>

-------------------------------------------------------------------------------
(* The item subgraphs                                                      *)

Producing == at.node = "items" /\ at.is = "ready"

\* process_item enters the subgraph of its item: two starts in a row.
StartItem(i) ==
  LET outer == Op("process_item", i)
      inner == Op("voiceover", i)
  IN
  /\ Producing /\ it[i].node = "new"
  /\ it' = [it EXCEPT ![i].node = "voiceover", ![i].on = TRUE]
  /\ memo' = Remember(Remember(memo, outer, i), inner, i)
  /\ fold' = Apply(Apply(fold, Lifecycle(memo, "process_item", "started", outer, i)),
                   Lifecycle(memo, "voiceover", "started", inner, i))
  /\ UNCHANGED passed
  /\ UNCHANGED <<rowVars, job, attempt, held, at, results, turns>>

StartItemNode(i) ==
  /\ Producing /\ it[i].node \in ItemNodes /\ ~it[i].on
  /\ it' = [it EXCEPT ![i].on = TRUE]
  /\ Started(it[i].node, i)
  /\ UNCHANGED <<rowVars, job, attempt, held, at, results, turns>>

\* What a node may leave in its item, and where the item goes next.
ItemStep(x) ==
  CASE x.node = "voiceover" ->
         {[x EXCEPT !.node = SelectTier(x.att), !.err = e] : e \in {"none", "plain"}}
    [] x.node \in {"ltx", "kling"} ->
         {[x EXCEPT !.node = IF x.err = "none" THEN "product_demo" ELSE "over"],
          [x EXCEPT !.node = "over", !.err = "talking_head"]}
    [] x.node = "product_demo" ->
         {[x EXCEPT !.node = "qc"], [x EXCEPT !.node = "over", !.err = "product_demo"]}
    [] x.node = "qc" ->
         {[x EXCEPT !.node = "assembly"],
          [x EXCEPT !.att = @ + 1,
                    !.node = IF x.att + 1 < MaxQc THEN SelectTier(x.att + 1) ELSE "drop"]}
    [] x.node = "assembly" ->
         {[x EXCEPT !.node = "upscale", !.end = "assembled"],
          [x EXCEPT !.node = "upscale", !.err = "plain"]}
    [] x.node = "upscale" -> {[x EXCEPT !.node = "over"]}
    [] x.node = "drop" -> {[x EXCEPT !.node = "over", !.end = "dropped"]}

EndItemNode(i) ==
  /\ Producing /\ it[i].on
  /\ \E x \in ItemStep(it[i]) :
       /\ it' = [it EXCEPT ![i] = [x EXCEPT !.on = FALSE]]
       /\ Turn(IF x.err = it[i].err /\ x.att = it[i].att THEN 0 ELSE 1)
  /\ \E carried \in {i, NoItem} : Ended(it[i].node, i, carried)
  /\ UNCHANGED <<rowVars, job, attempt, held, at, results>>

\* process_item returns its item.
EndItem(i) ==
  /\ Producing /\ it[i].node = "over"
  /\ it' = [it EXCEPT ![i].node = "written"]
  /\ Ended("process_item", i, i)
  /\ UNCHANGED <<rowVars, job, attempt, held, at, results, turns>>

\* The superstep ends: add_items appends to the results; feedback has no stage.
Join ==
  /\ Producing /\ \A i \in Items : it[i].node = "written"
  /\ results' = [x \in DOMAIN results \cup (Items \X {attempt}) |->
                   IF x \in DOMAIN results THEN results[x]
                   ELSE [err |-> it[x[1]].err, end |-> it[x[1]].end]]
  /\ at' = [at EXCEPT !.node = "end"]
  /\ UNCHANGED <<rowVars, job, attempt, held, it, eventVars, turns>>

-------------------------------------------------------------------------------
(* The end of an attempt                                                   *)

Working == at.is \in {"ready", "on", "ran", "asking", "saved"}

\* The run row is saved before the job is completed.
SaveDone ==
  /\ at.node = "end" /\ at.is = "ready"
  /\ Becomes("done")
  /\ at' = [at EXCEPT !.is = "saved"]
  /\ UNCHANGED <<job, attempt, held, it, results, eventVars, turns>>

CompleteJob ==
  /\ at.is = "saved"
  /\ at' = [at EXCEPT !.is = "over"]
  /\ UNCHANGED <<rowVars, job, attempt, held, it, results, eventVars, turns>>

\* The last attempt of the job fails.
FailRun ==
  /\ Working
  /\ Turn(2)
  /\ Becomes("error")
  /\ at' = [at EXCEPT !.is = "over"]
  /\ memo' = {}
  /\ it' = [i \in Items |-> NewItem]
  /\ UNCHANGED <<job, attempt, held, results, fold, passed>>

\* cancel_pending_test_runs takes the run at its gate.
CancelRun ==
  /\ at.is = "gated"
  /\ Becomes("cancelled")
  /\ at' = [at EXCEPT !.is = "over"]
  /\ UNCHANGED <<job, attempt, held, it, results, eventVars, turns>>

\* An attempt dies and the job is tried again: an execute_run starts the graph over, a
\* resume_run continues the thread, the items that had not returned from their start.
CrashAttempt ==
  /\ Working
  /\ Turn(2)
  /\ at' = [node |-> IF job = "execute_run" THEN "concepts" ELSE at.node,
            is |-> "queued", n |-> 0]
  /\ it' = [i \in Items |-> IF it[i].node = "written" THEN it[i] ELSE NewItem]
  /\ memo' = {}
  /\ UNCHANGED <<rowVars, job, attempt, held, results, fold, passed>>

Answers == {"approve", "concepts", "scripts", "creator_profiles", "voices"}

GraphNext ==
  \/ Invoke \/ StartNode \/ Report \/ InnerChain \/ Interrupt \/ EndNode \/ Advance
  \/ SaveAndGate \/ CancelRun
  \/ \E a \in Answers : Answer(a)
  \/ \E i \in Items : StartItem(i) \/ StartItemNode(i) \/ EndItemNode(i) \/ EndItem(i)
  \/ Join \/ SaveDone \/ CompleteJob \/ FailRun \/ CrashAttempt

GraphSpec == GraphInit /\ [][GraphNext]_graphVars

-------------------------------------------------------------------------------
(* GET /api/state                                                          *)

\* run_state reads the results, then the phase, then the events: a slow reader may
\* lay any phase the run has had over the events of now.
Shown(phase) == View(fold, phase, results)

Leaves == {s \in Stages : Children[s] = {}} \ {"setup"}

\* A stage that the progress of an unfinished run shows as completed really was
\* completed, at least once, by every item of the batch (by the batch, for a drafting
\* stage), whichever attempts died on the way: build_progress counts distinct items and
\* the translator keeps an item's identity from the start of an operation to its end.
CompletedStageIsTrue ==
  \A p \in had \cap {"running", "review"} :
    LET shown == Shown(p) IN
    \A s \in {t \in Leaves : shown[t] = "completed"} :
      \A i \in (IF s \in PerItem THEN Items ELSE {NoItem}) : <<s, i>> \in passed

\* The nodes that are executing now.
Executing ==
  (IF at.is = "on" THEN {at.node} ELSE {})
    \cup (IF at.is = "ready" THEN {it[i].node : i \in {j \in Items : it[j].on}} ELSE {})

\* While a node executes, the progress of the unfinished run shows its stage and the
\* stage's parent as running, whatever other items, inner chains or dead attempts
\* reported: an end closes only its own operation.
RunningIsShown ==
  \A p \in had \cap {"running", "review"} :
    LET shown == Shown(p) IN
    \A s \in {NodeStage[node] : node \in Executing} :
      /\ shown[s] = "running" \/ (s = "review" /\ p = "review")
      /\ Parent[s] # "" => shown[Parent[s]] = "running"

\* The report of a finished run accounts for every result exactly once: as a failed
\* talking head, a failed demo, a refusal of quality control, an assembled video or a
\* failed assembly.  So the report of build_progress agrees with the routes of the
\* item graph, also when a restarted run has delivered its items twice.
OutcomeAddsUp ==
  "done" \in had =>
    LET u == DoneUnits(results) IN
    /\ u.talking_failed + u.product_failed + u.qc_failed + u.assembled + u.assembly_failed
         = Cardinality(DOMAIN results)
    /\ Shown("done")["assembly"] = "completed"

-------------------------------------------------------------------------------
(* Why they hold.                                                          *)

Units == Items \cup {NoItem}
ItemStages == {"talking_head", "product_demo", "qc", "assembly"}
DraftStages == Leaves \ ItemStages

ItemStates ==
  [node : ItemNodes \cup {"new", "over", "written"}, on : BOOLEAN,
   err : {"none", "plain", "talking_head", "product_demo"}, att : Nat,
   end : {"none", "assembled", "dropped"}]

\* The entry of active_operations, and what the translator remembers of it.
Operation(node, i, k) == [op |-> <<node, i, k>>, stage |-> NodeStage[node], item |-> i]
Remembered(node, i, k) == [op |-> <<node, i, k>>, item |-> i]

\* What build_progress may hold: the open operations are those of the attempts so far.
FoldsOf(attempts) ==
  [status : [Stages -> {"pending", "running", "completed"}],
   done : [Stages -> Nat], total : [Stages -> Nat], units : [Stages -> SUBSET Units],
   active : SUBSET {Operation(node, i, k) :
                      node \in DOMAIN NodeStage, i \in Units, k \in 0..attempts}]

\* What a translator may remember.
MemosOf(attempts) ==
  SUBSET {Remembered(node, i, k) : node \in DOMAIN NodeStage, i \in Units, k \in 0..attempts}

Places ==
  [node : Drafting \cup {"items", "end"},
   is : {"queued", "ready", "on", "ran", "asking", "gated", "saved", "over"}, n : Nat]

\* Every variable keeps its type.
GraphTypeOK ==
  /\ at \in Places
  /\ job \in Answers \cup {"execute_run"}
  /\ held \in Answers \cup {"none"}
  /\ attempt \in Nat
  /\ it \in [Items -> ItemStates]
  /\ fold \in FoldsOf(attempt)
  /\ memo \in MemosOf(attempt)

\* How an item may end: with one error or one end.
Outcome(err, end) ==
  \/ err \in {"talking_head", "product_demo", "plain"} /\ end = "none"
  \/ err = "none" /\ end \in {"dropped", "assembled"}

\* An item in production has no error, but for that of its voiceover, which ends it at the
\* next node, and that of its assembly.
ItemIsSound(x) ==
  /\ x.node \in {"new", "voiceover", "product_demo", "qc", "assembly", "drop"} =>
       x.err = "none" /\ x.end = "none"
  /\ x.node \in {"ltx", "kling"} => x.err \in {"none", "plain"} /\ x.end = "none"
  /\ x.node = "upscale" => \/ x.err = "none" /\ x.end = "assembled"
                           \/ x.err = "plain" /\ x.end = "none"
  /\ x.node \in {"over", "written"} => Outcome(x.err, x.end)

ResultsAreOutcomes ==
  /\ IsFiniteSet(DOMAIN results)
  /\ \A x \in DOMAIN results : Outcome(results[x].err, results[x].end)

\* A node that executes has its operation open, and an item's node is remembered.
ExecutingIsOpen ==
  /\ at.is = "on" => at.node \in Drafting /\ Operation(at.node, NoItem, attempt) \in fold.active
  /\ \A i \in Items : it[i].on =>
       /\ Producing /\ it[i].node \in ItemNodes
       /\ Operation(it[i].node, i, attempt) \in fold.active
       /\ Remembered(it[i].node, i, attempt) \in memo

\* A fold tells the truth of what has passed: the stage of an item counts the items that
\* completed it; a drafting stage of which anything was reported has an operation open or
\* has completed.
FoldIsTrue(m, P) ==
  /\ \A s \in ItemStages :
       /\ m.units[s] = {i \in Items : <<s, i>> \in P}
       /\ m.done[s] = Cardinality(m.units[s])
       /\ m.total[s] = Cardinality(Items)
       /\ m.status[s] # "completed"
  /\ \A s \in DraftStages :
       \/ \E a \in m.active : a.stage = s
       \/ <<s, NoItem>> \in P
       \/ m.done[s] = 0 /\ m.status[s] = "pending"

\* A drafting node is left by its edge, and the review with an answer if one was asked for.
RoutesAreKnown ==
  at.is = "ran" => at.node \in Drafting /\ (at.node = "review" => ~reviewed \/ held # "none")

GraphInv ==
  /\ \A i \in Items : ItemIsSound(it[i])
  /\ ResultsAreOutcomes
  /\ ExecutingIsOpen
  /\ FoldIsTrue(fold, passed)
  /\ RoutesAreKnown

===============================================================================
