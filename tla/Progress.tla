------------------------------- MODULE Progress -------------------------------
(***************************************************************************)
(* The progress read model (progress.py) over the node table of            *)
(* graph/topology.py: how an event of the graph becomes a public progress  *)
(* event (ProgressEventTranslator), how build_progress folds the events    *)
(* into a status per stage, and how the phase of the run and its items     *)
(* overrule them.                                                          *)
(*                                                                         *)
(* build_progress starts from the first event at every request.  Its loop  *)
(* is a left fold, so a module that publishes events keeps the folded      *)
(* value and applies Apply to it; View is everything after the loop.       *)
(* Labels, timestamps, the item list and the timeline (build_activity) are *)
(* left out.                                                               *)
(***************************************************************************)
EXTENDS Naturals, FiniteSets

CONSTANTS
  Items,    \* ids of the items of the batch; batch_size is their number
  NoItem    \* the event names no item

ASSUME ProgressAssumption == IsFiniteSet(Items) /\ NoItem \notin Items

-------------------------------------------------------------------------------
(* graph/topology.py                                                       *)

Parent ==
  [setup |-> "", creative_plan |-> "", review |-> "", production |-> "", assembly |-> "",
   concepts |-> "creative_plan", scripts |-> "creative_plan",
   creator_profiles |-> "creative_plan", creator_previews |-> "creative_plan",
   talking_head |-> "production", product_demo |-> "production", qc |-> "production"]

Stages == DOMAIN Parent
Children == [s \in Stages |-> {t \in Stages : Parent[t] = s}]

\* The nodes that have a public stage; voice_candidates, finalize_voices and feedback
\* have none.
NodeStage ==
  [concepts |-> "concepts", scripts |-> "scripts", creator_profiles |-> "creator_profiles",
   roster |-> "creator_previews", review |-> "review", process_item |-> "production",
   voiceover |-> "assembly", ltx |-> "talking_head", kling |-> "talking_head",
   product_demo |-> "product_demo", qc |-> "qc", drop |-> "qc",
   assembly |-> "assembly", upscale |-> "assembly"]

\* The node whose end completes a unit of its stage; any tier does for talking_head.
Terminal(node) ==
  node \in {"concepts", "scripts", "creator_profiles", "roster", "review", "process_item",
            "product_demo", "qc", "upscale", "ltx", "kling"}

PerItem == {"production", "talking_head", "product_demo", "qc", "assembly"}

-------------------------------------------------------------------------------
(* The translator: an event that does not carry its item takes it from the *)
(* start of the same operation.                                            *)

\* Faulty variant: the end of an operation is translated by itself.
IdentityOfEvent(memo, op, item) == item

Identity(memo, op, item) ==
  IF item = NoItem /\ \E x \in memo : x.op = op
  THEN (CHOOSE x \in memo : x.op = op).item ELSE item

\* What the translator remembers after a start and after an end.
Remember(memo, op, item) ==
  IF item = NoItem THEN memo ELSE {x \in memo : x.op # op} \cup {[op |-> op, item |-> item]}

Forget(memo, op) == {x \in memo : x.op # op}

\* Public progress events; `done` and `total` are those of creative_progress.
Lifecycle(memo, node, life, op, item) ==
  [stage |-> NodeStage[node], node |-> node, life |-> life, op |-> op,
   item |-> Identity(memo, op, item), done |-> 0, total |-> 1]

CreativeProgress(stage, done, total) ==
  [stage |-> stage, node |-> stage, life |-> "progress", op |-> <<stage>>,
   item |-> NoItem, done |-> done, total |-> total]

-------------------------------------------------------------------------------
(* build_progress: the fold                                                *)

Fresh ==
  [status |-> [s \in Stages |-> "pending"],
   done |-> [s \in Stages |-> 0],
   total |-> [s \in Stages |-> IF s \in PerItem THEN Cardinality(Items) ELSE 1],
   units |-> [s \in Stages |-> {}],
   active |-> {}]

\* active_operations is a dictionary: one entry per operation.
Others(m, op) == {a \in m.active : a.op # op}

Counted(m, e) ==
  LET units == m.units[e.stage] \cup {e.item} IN
  IF e.item = NoItem /\ m.total[e.stage] > 1
  THEN [m EXCEPT !.done[e.stage] = m.total[e.stage]]
  ELSE [m EXCEPT !.units[e.stage] = units, !.done[e.stage] = Cardinality(units)]

Apply(m, e) ==
  CASE e.life = "progress" ->
         [m EXCEPT !.done[e.stage] = e.done, !.total[e.stage] = e.total,
                   !.status[e.stage] = IF e.done >= e.total THEN "completed" ELSE "running"]
    [] e.life = "started" ->
         [m EXCEPT !.status[e.stage] = "running",
                   !.active = Others(m, e.op)
                                \cup {[op |-> e.op, stage |-> e.stage, item |-> e.item]}]
    [] e.life = "completed" ->
         LET popped == [m EXCEPT !.active = Others(m, e.op)] IN
         IF Terminal(e.node) THEN Counted(popped, e) ELSE popped

-------------------------------------------------------------------------------
(* build_progress: the snapshot                                            *)

\* The status of a stage by the events alone.
Settled(m) ==
  [s \in Stages |->
     CASE s = "setup" -> "completed"
       [] s # "setup" /\ \E a \in m.active : a.stage = s -> "running"
       [] /\ s # "setup" /\ ~\E a \in m.active : a.stage = s
          /\ m.done[s] > 0 /\ (m.total[s] \in {0, 1} \/ m.done[s] >= m.total[s]) -> "completed"
       [] OTHER -> m.status[s]]

\* What is known of an item of a finished run: its error, with the stage of the
\* FailureDetail or without one, and how it ended.
FailedAt(rec, stage) == {i \in DOMAIN rec : rec[i].err = stage}
Failing(rec) == {i \in DOMAIN rec : rec[i].err # "none"}
Dropped(rec) == {i \in DOMAIN rec : rec[i].end = "dropped"}
Assembled(rec) == {i \in DOMAIN rec : rec[i].end = "assembled"}

\* Faulty variant: a failed clip counts again among the assemblies.
AssemblyCandidatesAll(rec) == DOMAIN rec \ Dropped(rec)

AssemblyCandidates(rec) ==
  DOMAIN rec \ (Dropped(rec) \cup FailedAt(rec, "talking_head") \cup FailedAt(rec, "product_demo"))

\* The units of a finished run, by stage.
DoneUnits(rec) ==
  LET C == AssemblyCandidates(rec) IN
  [talking_failed |-> Cardinality(FailedAt(rec, "talking_head")),
   product_failed |-> Cardinality(FailedAt(rec, "product_demo")),
   qc_failed |-> Cardinality(Dropped(rec)),
   assembled |-> Cardinality(Assembled(rec) \cap C),
   assembly_failed |-> Cardinality(Failing(rec) \cap C),
   assembly_total |-> Cardinality(C)]

DoneStatus(rec) ==
  LET u == DoneUnits(rec) IN
  [s \in Stages |->
     IF s = "assembly" /\ DOMAIN rec # {} /\ u.assembled + u.assembly_failed < u.assembly_total
     THEN "failed" ELSE "completed"]

\* The phase of the run overrules the events.
ByPhase(st, phase, rec) ==
  CASE phase = "review" -> [st EXCEPT !["review"] = "waiting"]
    [] phase = "done" -> DoneStatus(rec)
    [] phase \in {"error", "cancelled"} ->
         [s \in Stages |-> IF st[s] \in {"running", "waiting"} THEN "failed" ELSE st[s]]
    [] OTHER -> st

OfChildren(st, s) ==
  LET kids == {st[t] : t \in Children[s]} IN
  CASE "failed" \in kids -> "failed"
    [] "failed" \notin kids /\ "running" \in kids -> "running"
    [] kids = {"completed"} -> "completed"
    [] OTHER -> st[s]

WithParents(st) ==
  [s \in Stages |-> IF Children[s] = {} THEN st[s] ELSE OfChildren(st, s)]

View(m, phase, rec) == WithParents(ByPhase(Settled(m), phase, rec))

===============================================================================
