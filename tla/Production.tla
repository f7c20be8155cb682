------------------------------ MODULE Production ------------------------------
(***************************************************************************)
(* The production half of a run: the fan-out of process_item over the      *)
(* approved concepts, the per-item subgraph (graph/builder.py              *)
(* build_item_graph, nodes/stages.py), the join into `results` and the     *)
(* feedback node, under retries of the job that executes it.               *)
(*                                                                         *)
(* The subgraph has no checkpointer of its own: an attempt of the job that *)
(* ends inside process_item starts the item again from its original state, *)
(* and only the effect ledger remembers what was bought.  Items that had   *)
(* returned keep their pending writes.  A resume_run job continues the     *)
(* thread; an execute_run job (a run without review) feeds the graph its   *)
(* input again and so restarts it, with whatever the creative agents write *)
(* this time.  Overlapping attempts are the business of JobQueue, and the  *)
(* ledger's of EffectLedger.                                               *)
(***************************************************************************)
EXTENDS Integers, Sequences, FiniteSets

CONSTANTS
  Items,        \* concept ids, the same in every draft of a run
  MaxAttempts,  \* qc.max_attempts
  LipSync,      \* latentsync: "off", "optional" or "required"
  MockFallback, \* assembly.allow_mock_fallback
  MaxTries      \* bound: attempts of the job

ASSUME ProductionAssumption ==
  /\ MaxAttempts \in Nat \ {0}
  /\ LipSync \in {"off", "optional", "required"}
  /\ MockFallback \in BOOLEAN
  /\ MaxTries \in Nat \ {0}

Outcomes == {"delivered", "dropped", "error"}
Retention == {"keep", "intermediate", "rejected"}
Drafts == 1..MaxTries

\* What identifies a paid clip in the effect ledger: the prompt's hash tells drafts apart.
Takes == [item : Items, stage : {"talking_head", "latentsync", "product_demo"},
          attempt : 0..MaxAttempts, draft : Drafts]

\* What identifies its object in storage, which drafts share.
Objects == [item : Items, stage : {"talking_head", "product_demo"}, attempt : 0..MaxAttempts]
ObjectOf(t) == [item |-> t.item, stage |-> t.stage, attempt |-> t.attempt]

VARIABLES
  at,        \* the node each item is at; "written": process_item returned
  item,      \* the Item each process_item works on
  step,      \* the batch graph: "produce", "feedback", "ended"; then the job's end
  results,   \* the additive results channel, per item
  draft,     \* which creative plan is being produced
  made,      \* the clips bought, as the ledger remembers them
  retention, \* artifacts.retention_class of the clips
  tries,     \* attempts of the job
  kind       \* the job: an execute_run (a run without review) or a resume_run

vars == <<at, item, step, results, draft, made, retention, tries, kind>>

\* fan_out: a new Item for every concept.
NewItem ==
  [attempts |-> 0, voice |-> FALSE, error |-> FALSE, clips |-> << >>, qc |-> "none",
   assembled |-> FALSE, dropped |-> FALSE]

Init ==
  /\ at = [i \in Items |-> "voiceover"]
  /\ item = [i \in Items |-> NewItem]
  /\ step = "produce"
  /\ results = [i \in Items |-> << >>]
  /\ draft = 1
  /\ made = {}
  /\ retention = [o \in Objects |-> "keep"]
  /\ tries = 1
  /\ kind \in {"execute_run", "resume_run"}

-----------------------------------------------------------------------------
(* The per-item subgraph: each node updates its item and routes it on.     *)

Move(i, node, update) ==
  /\ step = "produce"
  /\ at' = [at EXCEPT ![i] = node]
  /\ item' = [item EXCEPT ![i] = update]
  /\ UNCHANGED <<step, results, draft, tries, kind>>

Take(i, stage) ==
  [item |-> i, stage |-> stage, attempt |-> item[i].attempts, draft |-> draft]

\* node_voiceover: any failure becomes the item's error, and route_after_script goes
\* on to the video tier all the same.
Voiceover(i) ==
  /\ at[i] = "voiceover"
  /\ \E ok \in BOOLEAN :
       Move(i, "talking_head", [item[i] EXCEPT !.voice = ok, !.error = ~ok])
  /\ UNCHANGED <<made, retention>>

\* Faulty variants: an expected failure does not end the item, or ends it outside the
\* join.
AlwaysContinue(e, node) == node

EndsAside(e, node) == IF e THEN "failed" ELSE node

\* route_after_video_node
AfterVideo(e, node) == IF e THEN "written" ELSE node

\* A node that bought the clip t appends it; VideoEffectError becomes the item's error.
ClipDone(i, t, node) ==
  Move(i, AfterVideo(item[i].error, node), [item[i] EXCEPT !.clips = Append(@, t)])

ClipFailed(i, node) ==
  Move(i, AfterVideo(TRUE, node), [item[i] EXCEPT !.error = TRUE])

\* _durable_replicate_clip refuses a talking head without audio when lip sync is required.
HasAudio(i) == LipSync = "required" => item[i].voice

\* The paid effects behind a talking head: the base clip, then the lip sync.
HeadTakes(i) ==
  {Take(i, "talking_head")}
    \cup IF item[i].voice /\ LipSync # "off" THEN {Take(i, "latentsync")} ELSE {}

\* generate_clip_tool: the clip t of the effects ts.  A completed effect is replayed, never
\* bought again; a new clip replaces the object, and its row is a new one.
GenerateClip(ts, t) ==
  /\ made' = made \cup ts
  /\ retention' =
       IF ts \subseteq made THEN retention ELSE [retention EXCEPT ![ObjectOf(t)] = "keep"]

\* make_gen_node
TalkingHead(i) ==
  /\ at[i] = "talking_head"
  /\ \/ /\ HasAudio(i)
        /\ GenerateClip(HeadTakes(i), Take(i, "talking_head"))
        /\ ClipDone(i, Take(i, "talking_head"), "product_demo")
     \/ /\ HasAudio(i)
        /\ ~(HeadTakes(i) \subseteq made)
        /\ \E bought \in {made, made \cup {Take(i, "talking_head")}} :
             ~(HeadTakes(i) \subseteq bought) /\ made' = bought
        /\ ClipFailed(i, "product_demo")
        /\ UNCHANGED retention
     \/ /\ ~HasAudio(i)
        /\ ClipFailed(i, "product_demo")
        /\ UNCHANGED <<made, retention>>

\* node_product_demo
ProductDemo(i) ==
  LET t == Take(i, "product_demo") IN
  /\ at[i] = "product_demo"
  /\ \/ GenerateClip({t}, t) /\ ClipDone(i, t, "qc")
     \/ t \notin made /\ ClipFailed(i, "qc") /\ UNCHANGED <<made, retention>>

IsLast(o, s) == o = ObjectOf(s[Len(s)])
Stored(s) == {ObjectOf(s[n]) : n \in 1..Len(s)}

\* Faulty variant: a dropped item's last take is kept.
ClassifyLastKept(it) ==
  [o \in Objects |-> IF o \notin Stored(it.clips) THEN retention[o]
                     ELSE IF IsLast(o, it.clips) THEN "keep"
                     ELSE IF it.dropped THEN "rejected" ELSE "intermediate"]

\* classify_item_retention: every take of a dropped item is rejected; the last take of
\* an approved one is the deliverable and the takes before it are superseded.
Classify(it) ==
  [o \in Objects |-> IF o \notin Stored(it.clips) THEN retention[o]
                     ELSE IF it.dropped THEN "rejected"
                     ELSE IF IsLast(o, it.clips) THEN "keep" ELSE "intermediate"]

\* route_after_qc, for a refused item.
AfterQc(n) == IF n < MaxAttempts THEN "talking_head" ELSE "drop"

\* node_qc and route_after_qc, in one node: a refusal counts as an attempt.
Qc(i) ==
  LET passed == [item[i] EXCEPT !.qc = "passed"]
      refused == [item[i] EXCEPT !.qc = "failed", !.attempts = @ + 1]
  IN /\ at[i] = "qc"
     /\ \/ retention' = Classify(passed) /\ Move(i, "assembly", passed)
        \/ Move(i, AfterQc(refused.attempts), refused) /\ UNCHANGED retention
     /\ UNCHANGED made

\* node_assembly: best effort; without a mock fallback the failure is the item's error.
Assembled(it, ok) ==
  [it EXCEPT !.assembled = ok \/ MockFallback, !.error = ~(ok \/ MockFallback)]

Assembly(i) ==
  /\ at[i] = "assembly"
  /\ \E ok \in BOOLEAN : Move(i, "upscale", Assembled(item[i], ok))
  /\ UNCHANGED <<made, retention>>

\* node_upscale: best effort, it may only replace the assembled video.
Upscale(i) ==
  /\ at[i] = "upscale"
  /\ Move(i, "written", item[i])
  /\ UNCHANGED <<made, retention>>

\* node_drop
Drop(i) ==
  LET dropped == [item[i] EXCEPT !.dropped = TRUE] IN
  /\ at[i] = "drop"
  /\ retention' = Classify(dropped)
  /\ Move(i, "written", dropped)
  /\ UNCHANGED made

-----------------------------------------------------------------------------
(* The batch graph and the job.                                            *)

\* How node_feedback and the summary count an item.
Outcome(it) ==
  IF it.dropped THEN "dropped" ELSE IF it.assembled THEN "delivered" ELSE "error"

\* The superstep ends when every process_item has returned: the writes of all of them
\* go through the add_items reducer.
Join ==
  /\ step = "produce"
  /\ \A i \in Items : at[i] = "written"
  /\ results' = [i \in Items |-> Append(results[i], Outcome(item[i]))]
  /\ step' = "feedback"
  /\ UNCHANGED <<at, item, draft, made, retention, tries, kind>>

\* node_feedback, then END.
Feedback ==
  /\ step = "feedback"
  /\ step' = "ended"
  /\ UNCHANGED <<at, item, results, draft, made, retention, tries, kind>>

\* The worker saves the run and completes the job.
Complete ==
  /\ step = "ended"
  /\ step' = "complete"
  /\ UNCHANGED <<at, item, results, draft, made, retention, tries, kind>>

Running == step \in {"produce", "feedback", "ended"}

\* Faulty variant: the retried resume_run job is given the graph's input as well.
ResumeFromStart ==
  /\ Running /\ kind = "resume_run"
  /\ tries < MaxTries
  /\ tries' = tries + 1
  /\ step' = "produce"
  /\ at' = [i \in Items |-> "voiceover"]
  /\ item' = [i \in Items |-> NewItem]
  /\ UNCHANGED <<results, draft, made, retention, kind>>

\* An exception leaves a node, or the process dies, and the job is tried again: the
\* thread continues, and only the items that had not returned start over.
ResumeJob ==
  /\ Running /\ kind = "resume_run"
  /\ tries < MaxTries
  /\ tries' = tries + 1
  /\ at' = [i \in Items |-> IF at[i] = "written" THEN "written" ELSE "voiceover"]
  /\ item' = [i \in Items |-> IF at[i] = "written" THEN item[i] ELSE NewItem]
  /\ UNCHANGED <<step, results, draft, made, retention, kind>>

\* The same for an execute_run job: the graph restarts and drafts a plan, the same or
\* another one; the results channel has no way to be reset.
RestartJob ==
  /\ Running /\ kind = "execute_run"
  /\ tries < MaxTries
  /\ tries' = tries + 1
  /\ step' = "produce"
  /\ draft' \in {draft, draft + 1}
  /\ at' = [i \in Items |-> "voiceover"]
  /\ item' = [i \in Items |-> NewItem]
  /\ UNCHANGED <<results, made, retention, kind>>

\* The last attempt fails.
GiveUp ==
  /\ Running
  /\ tries = MaxTries
  /\ step' = "failed"
  /\ UNCHANGED <<at, item, results, draft, made, retention, tries, kind>>

\* The job is over.
Over ==
  /\ ~Running
  /\ UNCHANGED vars

ItemStep(i) ==
  \/ Voiceover(i) \/ TalkingHead(i) \/ ProductDemo(i) \/ Qc(i)
  \/ Assembly(i) \/ Upscale(i) \/ Drop(i)

Next ==
  \/ \E i \in Items : ItemStep(i)
  \/ Join \/ Feedback \/ Complete
  \/ ResumeJob \/ RestartJob \/ GiveUp \/ Over

Spec == Init /\ [][Next]_vars

\* asyncio runs every ready task of the superstep; nothing obliges the job to fail.
LiveSpec ==
  /\ Spec
  /\ \A i \in Items : WF_vars(ItemStep(i))
  /\ WF_vars(Join) /\ WF_vars(Feedback) /\ WF_vars(Complete)

-----------------------------------------------------------------------------
\* What is delivered passed QC, has its narration, and is cut from the two clips of the
\* attempt that passed (the assembler takes clips[-2:]), both of them bought.
DeliveredWasApproved ==
  \A i \in Items : item[i].assembled =>
    LET it == item[i]
        n == Len(it.clips)
    IN /\ it.qc = "passed" /\ it.voice /\ ~it.dropped
       /\ n >= 2
       /\ it.clips[n - 1] = Take(i, "talking_head") /\ it.clips[n] = Take(i, "product_demo")
       /\ {it.clips[n - 1], it.clips[n]} \subseteq made

\* When an item ends, the retention classes match the verdict it ended with, also after
\* an earlier attempt of the job had classified its takes by another verdict, or a new
\* draft had replaced them.
RetentionFollowsVerdict ==
  \A i \in Items : at[i] = "written" =>
    LET it == item[i] IN
      /\ it.dropped => \A o \in Stored(it.clips) : retention[o] = "rejected"
      /\ it.assembled =>
           \A o \in Stored(it.clips) :
             retention[o] = IF IsLast(o, it.clips) THEN "keep" ELSE "intermediate"

\* A resumed run has every item in results once, with the outcome it ended with, however
\* often its job was retried.
OneResultPerItem ==
  kind = "resume_run" /\ step \in {"feedback", "ended", "complete"} =>
    \A i \in Items : results[i] = <<Outcome(item[i])>>

\* The QC loop of every item ends, and with it the job, through its retries.
ProductionEnds == <>(step \in {"complete", "failed"})

-----------------------------------------------------------------------------
(* The inductive invariant of ProductionProofs.  The item graph keeps no   *)
(* history, so where an item is has to say what it brings along: the clips *)
(* of the attempt under way, its narration, its verdict.                   *)

Nodes == {"voiceover", "talking_head", "product_demo", "qc", "assembly", "upscale", "drop",
          "written"}

Clips == {t \in Takes : t.stage \in {"talking_head", "product_demo"}}

ItemStates ==
  [attempts : 0..MaxAttempts, voice : BOOLEAN, error : BOOLEAN, clips : Seq(Clips),
   qc : {"none", "passed", "failed"}, assembled : BOOLEAN, dropped : BOOLEAN]

ProductionTypeOK ==
  /\ at \in [Items -> Nodes]
  /\ item \in [Items -> ItemStates]
  /\ step \in {"produce", "feedback", "ended", "complete", "failed"}
  /\ results \in [Items -> Seq(Outcomes)]
  /\ made \in SUBSET Takes
  /\ retention \in [Objects -> Retention]
  /\ tries \in 1..MaxTries
  /\ draft \in 1..tries
  /\ kind \in {"execute_run", "resume_run"}

\* The clips of an item are its own: no other item's classification touches them.
OwnClips(i) == \A n \in 1..Len(item[i].clips) : item[i].clips[n].item = i

\* The last clip is the talking head of this attempt, bought.
HeadTaken(i) ==
  LET c == item[i].clips IN
  /\ Len(c) >= 1
  /\ c[Len(c)] = Take(i, "talking_head")
  /\ c[Len(c)] \in made

\* The last two clips are the pair of this attempt, bought.
PairTaken(i) ==
  LET c == item[i].clips IN
  /\ Len(c) >= 2
  /\ c[Len(c) - 1] = Take(i, "talking_head") /\ c[Len(c)] = Take(i, "product_demo")
  /\ {c[Len(c) - 1], c[Len(c)]} \subseteq made

KeptAsApproved(i) ==
  \A o \in Stored(item[i].clips) :
    retention[o] = IF IsLast(o, item[i].clips) THEN "keep" ELSE "intermediate"

KeptAsRejected(i) == \A o \in Stored(item[i].clips) : retention[o] = "rejected"

\* Only an item with narration and no error gets past the talking head.
Sound(i) == item[i].voice /\ ~item[i].error

Approved(i) ==
  /\ item[i].qc = "passed" /\ item[i].voice /\ ~item[i].dropped
  /\ PairTaken(i)
  /\ KeptAsApproved(i)

\* What an item brings to the node it is at.
ItemInv(i) ==
  /\ OwnClips(i)
  /\ at[i] \in {"voiceover", "talking_head", "product_demo", "qc", "assembly", "drop"}
       => ~item[i].assembled /\ ~item[i].dropped
  /\ at[i] \in {"voiceover", "talking_head", "product_demo", "qc"}
       => item[i].attempts < MaxAttempts
  /\ at[i] = "talking_head" => (item[i].voice <=> ~item[i].error)
  /\ at[i] \in {"product_demo", "qc"} => Sound(i)
  /\ at[i] = "product_demo" => HeadTaken(i)
  /\ at[i] = "qc" => PairTaken(i)
  /\ at[i] \in {"assembly", "upscale"} => Approved(i)
  /\ item[i].assembled => Approved(i)
  /\ item[i].dropped => KeptAsRejected(i)

\* The join writes the results channel once, after the last item.
ResultsInv ==
  /\ step \in {"feedback", "ended", "complete"} => \A i \in Items : at[i] = "written"
  /\ kind = "resume_run" /\ step = "produce" => \A i \in Items : results[i] = << >>
  /\ OneResultPerItem

ProductionInv ==
  /\ ProductionTypeOK
  /\ \A i \in Items : ItemInv(i)
  /\ ResultsInv

===============================================================================
