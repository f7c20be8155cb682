----------------------------- MODULE CreativePlan -----------------------------
(***************************************************************************)
(* The creative half of a run: concepts, scripts, creator profiles, the    *)
(* roster, the voice candidates, the human review with its four kinds of   *)
(* regeneration, and the voices made permanent before the fan-out          *)
(* (graph/builder.py build_graph, nodes/stages.py, web/routes_review.py).  *)
(* Production takes over at the fan-out.                                   *)
(*                                                                         *)
(* Texts are version numbers, a voice brief is a member of Briefs and a    *)
(* design batch is its effect key: the ledger gives the same candidates to *)
(* the same key.  Crashes that leave two jobs on the thread are the        *)
(* business of JobQueue; here one job at a time drives the graph, retried  *)
(* when a node raises.                                                     *)
(***************************************************************************)
EXTENDS Integers, FiniteSets

CONSTANTS
  Creators,      \* the creator ids of a roster
  Seed,          \* the creator a run may be seeded with
  Concepts,      \* the concept ids of a batch
  Briefs,        \* voice briefs
  SpecOf,        \* the voice spec (its hash) derived from a brief
  Picks,         \* the candidates of a design batch, at least one
  None,
  Namesake,      \* a voice another run made permanent under the name of one of these
  MaxRerolls,    \* voice.max_rerolls_per_creator
  MaxTries,      \* attempts of a job
  MaxRevisions   \* bound: regenerate decisions

Batches == {SpecOf[b] : b \in Briefs} \X Nat
Candidates == Batches \X Picks

\* What a reviewer may have approved.
Approvals ==
  [text : Nat, script : Nat,
   voice : UNION {[cast -> Candidates] : cast \in SUBSET (Creators \cup {Seed})}]

ASSUME PlanAssumption ==
  /\ Seed \notin Creators
  /\ DOMAIN SpecOf = Briefs /\ Picks # {}
  /\ None \notin Approvals \cup {"concepts", "scripts", "creators", "voices"}
  /\ MaxRerolls \in Nat /\ MaxTries \in Nat \ {0} /\ MaxRevisions \in Nat

VARIABLES
  mode,       \* "review": review_plan is set; "direct": it is not; "seeded": seed_creator too
  at,         \* the node the thread is at; "produce" after the fan-out
  plan,       \* the versions of the concepts and of their scripts
  version,    \* versions written so far
  assigned,   \* creator_assignments
  roster,     \* the creators that could be built, with their voices
  request,    \* revision_request: target and ids
  gate,       \* the review gate: "none", "open" or "answered"
  answer,     \* the resolution the resume_run job carries
  job, tries, \* the job that drives the thread: "execute" or "resume", and its attempt
  slots,      \* voices made permanent at the provider: creator and candidate
  unsure,     \* purchases of voices that ended without the ledger knowing how
  approved,   \* history: what the approving reviewer saw and chose
  revisions   \* how many regenerations were asked for

vars == <<mode, at, plan, version, assigned, roster, request, gate, answer, job, tries,
          slots, unsure, approved, revisions>>
bought == <<slots, unsure>>
context == <<mode, job, tries, approved, revisions>>

NoRequest == [target |-> None, ids |-> {}]

Init ==
  /\ mode \in {"review", "direct", "seeded"}
  /\ at = "concepts"
  /\ plan = [text |-> 0, script |-> 0]
  /\ version = 0
  /\ assigned = << >>
  /\ roster = << >>
  /\ request = NoRequest
  /\ gate = "none"
  /\ answer = None
  /\ job = "execute"
  /\ tries = 1
  /\ slots = {}
  /\ unsure = {}
  /\ approved = None
  /\ revisions = 0

-----------------------------------------------------------------------------
(* The drafting nodes.                                                     *)

\* node_concepts: the whole batch is written, whatever ids the revision names.
WriteConcepts ==
  /\ at = "concepts"
  /\ at' = "scripts"
  /\ version' = version + 1
  /\ plan' = [plan EXCEPT !.text = version + 1]
  /\ UNCHANGED <<context, gate, assigned, roster, request, answer, bought>>

\* node_scripts
WriteScripts ==
  /\ at = "scripts"
  /\ at' = "creator_profiles"
  /\ version' = version + 1
  /\ plan' = [plan EXCEPT !.script = version + 1]
  /\ UNCHANGED <<context, gate, assigned, roster, request, answer, bought>>

\* node_creator_profiles: every concept gets one of the two creators.
DesignProfiles ==
  /\ at = "creator_profiles"
  /\ at' = "roster"
  /\ assigned' \in [Concepts -> Creators]
  /\ UNCHANGED <<context, gate, plan, version, roster, request, answer, bought>>

NewCreator(b, v) ==
  [brief |-> b, batch |-> None, selected |-> None, history |-> {}, rerolls |-> 0, voice |-> v]

\* node_roster: builds the creators concurrently and goes on with those that succeeded.
BuildRoster ==
  /\ at = "roster" /\ mode # "seeded"
  /\ \E built \in SUBSET Creators \ {{}} : \E b \in [built -> Briefs] :
       roster' = [c \in built |-> NewCreator(b[c], None)]
  /\ at' = "voice_candidates"
  /\ UNCHANGED <<context, gate, plan, version, assigned, request, answer, bought>>

\* node_roster with a seed_creator: it takes every concept, and has a voice already.
SeedRoster ==
  /\ at = "roster" /\ mode = "seeded"
  /\ \E b \in Briefs : roster' = [c \in {Seed} |-> NewCreator(b, "own")]
  /\ assigned' = [k \in Concepts |-> Seed]
  /\ at' = "voice_candidates"
  /\ UNCHANGED <<context, gate, plan, version, request, answer, bought>>

\* Faulty variant: the reroll count is not part of the effect key.
DesignKeyWithoutCount(brief, rerolls) == <<SpecOf[brief], 0>>

\* The effect key of design_creator_voice_tool, for the run and the creator.
DesignKey(brief, rerolls) == <<SpecOf[brief], rerolls>>

\* voice reroll limit reached
MayReroll(r) == r.rerolls < MaxRerolls

\* The candidate a creator starts with: none on review, else the first of the batch.
Preselected(batch) == IF mode = "review" THEN None ELSE <<batch, CHOOSE p \in Picks : TRUE>>

Superseded(r) == r.history \cup ({r.batch} \ {None})

Designed(r) ==
  LET batch == DesignKey(r.brief, r.rerolls) IN
  [r EXCEPT !.batch = batch, !.selected = Preselected(batch)]

Rerolled(r) ==
  LET batch == DesignKey(r.brief, r.rerolls + 1) IN
  [r EXCEPT !.batch = batch, !.selected = Preselected(batch), !.rerolls = @ + 1,
            !.history = Superseded(r), !.voice = None]

\* node_voice_candidates: everyone's voices, or those of the creators a reroll names.
DesignVoices ==
  LET reroll == request.target = "voices" IN
  /\ at = "voice_candidates"
  /\ reroll => /\ request.ids \subseteq DOMAIN roster
               /\ \A c \in request.ids : MayReroll(roster[c])
  /\ roster' = [c \in DOMAIN roster |->
                  CASE ~reroll -> Designed(roster[c])
                    [] reroll /\ c \in request.ids -> Rerolled(roster[c])
                    [] OTHER -> roster[c]]
  /\ at' = "review"
  /\ UNCHANGED <<context, gate, plan, version, assigned, request, answer, bought>>

-----------------------------------------------------------------------------
(* The review.  The gate shows the plan; a decision may edit the briefs of *)
(* the creators, select candidates (None: left as it is) and edit the      *)
(* concepts.                                                               *)

\* The candidates of the creator's current batch.
Selectable(r) == IF r.batch = None THEN {} ELSE {r.batch} \X Picks

\* A changed voice_brief sends the candidates to the history.
Edited(r, b) ==
  IF b = r.brief THEN r
  ELSE [r EXCEPT !.brief = b, !.batch = None, !.selected = None, !.history = Superseded(r)]

Picked(r, s) == IF r.batch = None \/ s = None THEN r ELSE [r EXCEPT !.selected = s]

\* apply_review_creator_updates raises unless the roster is complete and every selection
\* belongs to its creator.
PatchOk(b, s) ==
  /\ DOMAIN roster = Creators
  /\ \A c \in Creators : b[c] = roster[c].brief /\ s[c] # None => s[c] \in Selectable(roster[c])

\* apply_review_creator_updates
Reviewed(b, s) == [c \in DOMAIN roster |-> Picked(Edited(roster[c], b[c]), s[c])]

\* validate_voice_selections
AllSelected(ros) == \A c \in DOMAIN ros : ros[c].selected \in Selectable(ros[c])

NoEdits == [c \in DOMAIN roster |-> roster[c].brief]
NoPicks == [c \in DOMAIN roster |-> None]

\* The patches a client may send: one brief rewritten, selections from this page or from
\* one it loaded earlier.
BriefPatches == {[NoEdits EXCEPT ![c] = b] : c \in DOMAIN roster, b \in Briefs}
SelectionPatches ==
  {s \in [DOMAIN roster -> {None} \cup UNION {Superseded(roster[c]) \X Picks : c \in DOMAIN roster}] :
     \A c \in DOMAIN roster : s[c] \in {None} \cup (Superseded(roster[c]) \X Picks)}

\* The interrupted job opens the gate and completes.
OpenGate ==
  /\ at = "review" /\ mode = "review" /\ gate = "none"
  /\ gate' = "open"
  /\ answer' = None
  /\ UNCHANGED <<context, at, plan, version, assigned, roster, request, bought>>

\* resolve_gate enqueues the resume_run job that carries the answer.
Resolve(a) ==
  /\ gate' = "answered"
  /\ answer' = a
  /\ job' = "resume" /\ tries' = 1
  /\ UNCHANGED <<mode, at, plan, version, assigned, roster, request, bought>>

Answer(target, ids, b, s, edit) ==
  [target |-> target, ids |-> ids, briefs |-> b, picks |-> s, edit |-> edit,
   patch |-> <<b, s>> # <<NoEdits, NoPicks>>]

\* POST review, action approve.
Approve ==
  /\ gate = "open"
  /\ \E b \in BriefPatches, s \in SelectionPatches, edit \in BOOLEAN :
       LET a == Answer(None, {}, b, s, edit)
           ros == Reviewed(b, s)
       IN /\ a.patch => PatchOk(b, s)
          /\ AllSelected(ros)
          /\ Resolve(a)
          /\ approved' = [text |-> IF edit THEN version + 1 ELSE plan.text,
                          script |-> IF edit THEN version + 1 ELSE plan.script,
                          voice |-> [c \in DOMAIN ros |-> ros[c].selected]]
  /\ UNCHANGED revisions

\* POST review, action regenerate: creator edits go with the targets creators and voices,
\* concept edits with the others.  The reroll limit is not looked at.
Regenerate(target) ==
  /\ gate = "open"
  /\ revisions < MaxRevisions
  /\ revisions' = revisions + 1
  /\ \/ /\ target \in {"creators", "voices"}
        /\ \E ids \in SUBSET DOMAIN roster \ {{}}, b \in BriefPatches, s \in SelectionPatches :
             LET a == Answer(target, ids, b, s, FALSE) IN
             /\ a.patch => PatchOk(b, s)
             /\ Resolve(a)
     \/ /\ target \in {"concepts", "scripts"}
        /\ \E edit \in BOOLEAN : Resolve(Answer(target, Concepts, NoEdits, NoPicks, edit))
  /\ UNCHANGED approved

\* route_after_review
AfterReview(target) ==
  CASE target = None -> "finalize_voices"
    [] target \in {"concepts", "scripts"} -> target
    [] target = "creators" -> "creator_profiles"
    [] target = "voices" -> "voice_candidates"

\* Faulty variant: the edited concepts are validated and forgotten.
AnsweredPlanUnedited == plan

\* apply_review_concept_updates
AnsweredPlan ==
  IF answer.edit THEN [text |-> version + 1, script |-> version + 1] ELSE plan

\* node_review, resumed with the answer.
ApplyAnswer ==
  /\ gate = "answered"
  /\ IF answer.patch
     THEN /\ PatchOk(answer.briefs, answer.picks)
          /\ roster' = Reviewed(answer.briefs, answer.picks)
     ELSE UNCHANGED roster
  /\ version' = IF answer.edit THEN version + 1 ELSE version
  /\ plan' = AnsweredPlan
  /\ request' = [target |-> answer.target, ids |-> answer.ids]
  /\ at' = AfterReview(answer.target)
  /\ gate' = "none"
  /\ UNCHANGED <<context, assigned, answer, bought>>

\* node_review without review_plan.
SkipReview ==
  /\ at = "review" /\ mode # "review"
  /\ at' = "finalize_voices"
  /\ request' = NoRequest
  /\ UNCHANGED <<context, gate, plan, version, assigned, roster, answer, bought>>

-----------------------------------------------------------------------------
(* The permanent voices and the fan-out.                                   *)

\* The creators that still need a voice, and the slots their selections buy.
Voiceless == {c \in DOMAIN roster : roster[c].voice = None}

\* Faulty variant: the first candidate of the batch, whatever was selected.
SlotOfFirst(c) == <<c, <<roster[c].batch, CHOOSE p \in Picks : TRUE>>>>

Slot(c) == <<c, roster[c].selected>>

\* Faulty variant: assignments to creators that are not in the roster are not looked at.
NoVoiceMissingInRoster(ros) == \A c \in DOMAIN ros : ros[c].voice # None

\* assigned creators without voice_ref
NoVoiceMissing(ros) ==
  \A k \in Concepts : assigned[k] \in DOMAIN ros /\ ros[assigned[k]].voice # None

\* What finalize_creator_voice_tool returns for c.  A purchase nobody knows the outcome of
\* is reconciled: if it never reached the provider, the voice of that name is another
\* run's, where creators have the same ids.
VoiceOf(c) == IF Slot(c) \in unsure \ slots THEN Namesake ELSE roster[c].selected

\* The effect ledger lets a purchase be tried once.
Untried(c) == Slot(c) \notin unsure

\* node_finalize_voices
FinalizeVoices ==
  LET ros == [c \in DOMAIN roster |->
                IF c \in Voiceless THEN [roster[c] EXCEPT !.voice = VoiceOf(c)] ELSE roster[c]]
  IN /\ at = "finalize_voices"
     /\ AllSelected([c \in Voiceless |-> roster[c]])
     /\ slots' = slots \cup {Slot(c) : c \in {v \in Voiceless : Untried(v)}}
     /\ NoVoiceMissing(ros)
     /\ roster' = ros
     /\ at' = "produce"
     /\ UNCHANGED <<context, gate, plan, version, assigned, request, answer, unsure>>

\* A node raises, finalize_voices possibly after it bought some of the voices, and some
\* without an answer.
Bought ==
  LET buyers == {c \in Voiceless : Untried(c)} IN
  \E some \in SUBSET buyers, lost \in SUBSET buyers :
    /\ some \cup lost # {} =>
         at = "finalize_voices" /\ AllSelected([c \in some \cup lost |-> roster[c]])
    /\ slots' = slots \cup {Slot(c) : c \in some}
    /\ unsure' = unsure \cup ({Slot(c) : c \in lost} \ slots)

Busy == at \notin {"produce", "failed"} /\ gate # "open"

\* An execute_run job gives the graph its input again.
RestartJob ==
  /\ Busy /\ job = "execute"
  /\ tries < MaxTries
  /\ Bought
  /\ at' = "concepts"
  /\ tries' = tries + 1
  /\ UNCHANGED <<mode, gate, plan, version, assigned, roster, request, answer, job, approved,
                 revisions>>

\* A resume_run job continues the thread; if that has come to the next review, its answer
\* is given once more.
ResumeJob ==
  /\ Busy /\ job = "resume"
  /\ tries < MaxTries
  /\ Bought
  /\ gate' = IF at = "review" THEN "answered" ELSE "none"
  /\ tries' = tries + 1
  /\ UNCHANGED <<mode, at, plan, version, assigned, roster, request, answer, job, approved,
                 revisions>>

\* The last attempt raises.
GiveUp ==
  /\ Busy
  /\ tries = MaxTries
  /\ Bought
  /\ at' = "failed"
  /\ gate' = "none"
  /\ UNCHANGED <<mode, plan, version, assigned, roster, request, answer, job, tries, approved,
                 revisions>>

\* fan_out: the creator of a concept, and the fallback when its own is not in the roster.
CreatorOf(k) ==
  IF assigned[k] \in DOMAIN roster THEN assigned[k] ELSE CHOOSE c \in DOMAIN roster : TRUE

\* The thread is done with, or waits for a reviewer who may never come.
Rest ==
  /\ ~Busy
  /\ UNCHANGED vars

Next ==
  \/ WriteConcepts \/ WriteScripts \/ DesignProfiles \/ BuildRoster \/ SeedRoster \/ DesignVoices
  \/ OpenGate \/ Approve \/ ApplyAnswer \/ SkipReview \/ FinalizeVoices
  \/ \E target \in {"concepts", "scripts", "creators", "voices"} : Regenerate(target)
  \/ RestartJob \/ ResumeJob \/ GiveUp \/ Rest

Spec == Init /\ [][Next]_vars

-----------------------------------------------------------------------------
\* What a reviewed run produces is what its reviewer approved: the concepts and scripts on
\* the page with the reviewer's edits, and for every creator the voice that was selected,
\* unless its purchase was left unsure by an attempt that failed and never happened.
ProducedAsApproved ==
  mode = "review" /\ at = "produce" =>
    /\ plan = [text |-> approved.text, script |-> approved.script]
    /\ \A k \in Concepts :
         LET c == CreatorOf(k) IN
         \/ roster[c].voice = approved.voice[c]
         \/ <<c, approved.voice[c]>> \in unsure \ slots

\* In a reviewed run only approved candidates are made permanent, at most one for each
\* creator, however often the job is retried.
OnlyApprovedVoicesBought ==
  mode = "review" =>
    \A v \in slots : approved # None /\ v[1] \in DOMAIN approved.voice /\ v[2] = approved.voice[v[1]]

\* Every item is produced with the creator it was assigned to, and that creator has a voice:
\* the fallback of fan_out is never taken.
EveryItemHasItsVoice ==
  at = "produce" =>
    \A k \in Concepts : CreatorOf(k) = assigned[k] /\ roster[CreatorOf(k)].voice # None

\* A batch of candidates that was replaced is never on the page again while the creator
\* is kept.
NoOldCandidate == \A c \in DOMAIN roster : roster[c].batch \notin roster[c].history


-----------------------------------------------------------------------------
(* The inductive invariant of CreativePlanProofs.  The thread keeps no     *)
(* history of its own, so where it is has to say what it brings along:     *)
(* whether the roster is a new one, what the answer that is still on its   *)
(* way will change, and whose decision the voices are bought on.           *)

Drafting == {"concepts", "scripts", "creator_profiles", "roster"}
Nodes == Drafting \cup {"voice_candidates", "review", "finalize_voices", "produce", "failed"}
Targets == {"concepts", "scripts", "creators", "voices"}

Profiles ==
  [brief : Briefs, batch : Batches \cup {None}, selected : Candidates \cup {None},
   history : SUBSET Batches, rerolls : 0..MaxRerolls, voice : Candidates \cup {None, "own", Namesake}]

PlanTypeOK ==
  /\ mode \in {"review", "direct", "seeded"}
  /\ at \in Nodes
  /\ plan \in [text : Nat, script : Nat] /\ version \in Nat
  /\ DOMAIN roster \subseteq Creators \cup {Seed} /\ roster \in [DOMAIN roster -> Profiles]
  /\ request.target \in Targets \cup {None}
  /\ gate \in {"none", "open", "answered"}
  /\ job \in {"execute", "resume"} /\ tries \in 1..MaxTries
  /\ revisions \in 0..MaxRevisions

\* Only a resumed job carries an answer, and only a reviewed run has one.
ResumedByReview ==
  /\ gate # "none" => mode = "review" /\ at = "review"
  /\ gate = "answered" => job = "resume"
  /\ job = "resume" => mode = "review"
  /\ job = "execute" => request.target = None
  /\ mode = "review" /\ at \in {"finalize_voices", "produce"} => job = "resume"

\* The answer of a resumed job is one a client sent; its patch, if it has one, was for a
\* complete roster.
AnswerIsAPatch ==
  job = "resume" /\ gate # "open" =>
    /\ answer.target \in Targets \cup {None}
    /\ answer.patch => answer.briefs \in [Creators -> Briefs]

\* A job that comes to the next review has a regeneration behind it, so that answering
\* with it once more approves nothing.
StaleAnswerRegenerates ==
  job = "resume" /\ gate = "none" /\ at \in Drafting \cup {"voice_candidates", "review"}
    => answer.target # None

\* Voices are designed for a new roster, or rerolled.
DesignedForNewRoster ==
  /\ at \in Drafting => request.target # "voices"
  /\ at = "voice_candidates" /\ request.target # "voices" =>
       \A c \in DOMAIN roster :
         roster[c].batch = None /\ roster[c].history = {} /\ roster[c].rerolls = 0

\* Every reroll is counted in the batch it leads to.
RerollsAreCounted ==
  \A c \in DOMAIN roster :
    /\ None \notin roster[c].history
    /\ \A batch \in roster[c].history \cup ({roster[c].batch} \ {None}) :
         batch[2] <= roster[c].rerolls

\* What ros and the versions p are is what the reviewer approved.
ApprovedIs(p, ros) ==
  /\ approved # None
  /\ p = [text |-> approved.text, script |-> approved.script]
  /\ DOMAIN approved.voice = DOMAIN ros
  /\ \A c \in DOMAIN ros : approved.voice[c] = ros[c].selected

AnsweredRoster == IF answer.patch THEN Reviewed(answer.briefs, answer.picks) ELSE roster

\* The approval under way leads to what was approved, and so does the rest of the thread.
ApprovalIsKept ==
  /\ gate = "answered" /\ answer.target = None => ApprovedIs(AnsweredPlan, AnsweredRoster)
  /\ mode = "review" /\ at \in {"finalize_voices", "produce"} => ApprovedIs(plan, roster)

\* A reviewed run has no voice before it is approved.
VoicesAfterApproval ==
  mode = "review" =>
    /\ slots # {} => at \in {"finalize_voices", "produce", "failed"}
    /\ at # "produce" => \A c \in DOMAIN roster : roster[c].voice = None
    /\ at = "produce" => \A c \in DOMAIN roster :
         roster[c].voice = roster[c].selected \/ Slot(c) \in unsure \ slots

\* What fan_out is given.
CastIsComplete == at = "produce" => NoVoiceMissing(roster)

PlanInv ==
  /\ PlanTypeOK
  /\ ResumedByReview /\ AnswerIsAPatch /\ StaleAnswerRegenerates
  /\ DesignedForNewRoster /\ RerollsAreCounted /\ NoOldCandidate
  /\ ApprovalIsKept /\ VoicesAfterApproval /\ OnlyApprovedVoicesBought
  /\ CastIsComplete

=============================================================================
