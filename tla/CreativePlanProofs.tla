-------------------------- MODULE CreativePlanProofs --------------------------
(***************************************************************************)
(* What a reviewed run makes of its review, for every roster, every set of *)
(* briefs and candidates, and any number of regenerations and retries.     *)
(***************************************************************************)
EXTENDS CreativePlan, TLAPS

-------------------------------------------------------------------------------
(* The operators on creators.                                              *)

\* A design batch is known by the spec of its brief and by the number of rerolls before it.
LEMMA DesignKeyType ==
  ASSUME NEW b \in Briefs, NEW n \in Nat
  PROVE  DesignKey(b, n) \in Batches /\ DesignKey(b, n)[2] = n
BY DEF DesignKey, Batches

\* The history after a batch is superseded: the batches it had, and the batch if there is one.
LEMMA SupersededHas ==
  ASSUME NEW r \in Profiles, None \notin r.history
  PROVE  /\ Superseded(r) \in SUBSET Batches
         /\ None \notin Superseded(r)
         /\ \A batch \in Superseded(r) : batch \in r.history \cup ({r.batch} \ {None})
BY DEF Superseded, Profiles

\* An edit keeps the creator's type, its count and its voice.
LEMMA EditedType ==
  ASSUME NEW r \in Profiles, NEW b \in Briefs, None \notin r.history
  PROVE  /\ Edited(r, b) \in Profiles
         /\ None \notin Edited(r, b).history
         /\ Edited(r, b).rerolls = r.rerolls /\ Edited(r, b).voice = r.voice
         /\ \A batch \in Edited(r, b).history \cup ({Edited(r, b).batch} \ {None}) :
              batch \in r.history \cup ({r.batch} \ {None})
         /\ r.batch \notin r.history => Edited(r, b).batch \notin Edited(r, b).history
         /\ b = r.brief => Edited(r, b) = r
         /\ b # r.brief => Edited(r, b).batch = None
<1>1. CASE b = r.brief
  BY <1>1 DEF Edited
<1>2. CASE b # r.brief
  <2>1. Edited(r, b) = [r EXCEPT !.brief = b, !.batch = None, !.selected = None,
                                 !.history = Superseded(r)]
    BY <1>2 DEF Edited
  <2>2. /\ Edited(r, b) \in Profiles
        /\ Edited(r, b).history = Superseded(r) /\ Edited(r, b).batch = None
        /\ Edited(r, b).rerolls = r.rerolls /\ Edited(r, b).voice = r.voice
    BY <2>1, SupersededHas DEF Profiles
  <2> QED
    BY <1>2, <2>2, SupersededHas
<1> QED
  BY <1>1, <1>2

\* A selection changes nothing but the selected candidate.
LEMMA PickedType ==
  ASSUME NEW r \in Profiles, NEW s, s # None => r.batch = None \/ s \in Selectable(r)
  PROVE  /\ Picked(r, s) \in Profiles
         /\ Picked(r, s).batch = r.batch /\ Picked(r, s).history = r.history
         /\ Picked(r, s).rerolls = r.rerolls /\ Picked(r, s).voice = r.voice
BY DEF Picked, Selectable, Profiles, Candidates

\* The two together: what an accepted patch makes of a creator.
LEMMA ReviewedCreator ==
  ASSUME NEW r \in Profiles, NEW b \in Briefs, NEW s, None \notin r.history,
         b = r.brief /\ s # None => s \in Selectable(r)
  PROVE  LET e == Picked(Edited(r, b), s) IN
         /\ e \in Profiles
         /\ None \notin e.history
         /\ e.rerolls = r.rerolls /\ e.voice = r.voice
         /\ \A batch \in e.history \cup ({e.batch} \ {None}) :
              batch \in r.history \cup ({r.batch} \ {None})
         /\ r.batch \notin r.history => e.batch \notin e.history
<1>1. s # None => Edited(r, b).batch = None \/ s \in Selectable(Edited(r, b))
  BY EditedType
<1> QED
  BY <1>1, EditedType, PickedType

\* What a reviewer sees and what the resumed job makes of an answer without a patch is the
\* roster as it stands.
LEMMA NoPatchNoChange ==
  ASSUME roster \in [DOMAIN roster -> Profiles]
  PROVE  Reviewed(NoEdits, NoPicks) = roster
BY DEF Reviewed, NoEdits, NoPicks, Edited, Picked

-------------------------------------------------------------------------------
(* The steps.                                                              *)

\* A thread starts without a roster, a review or a voice.
LEMMA PlanInvInit == Init => PlanInv
<1> SUFFICES ASSUME Init PROVE PlanInv
  OBVIOUS
<1>1. DOMAIN roster = {} /\ roster \in [DOMAIN roster -> Profiles]
  BY DEF Init
<1>2. PlanTypeOK
  BY <1>1, PlanAssumption DEF Init, PlanTypeOK, Nodes, Drafting, NoRequest
<1> QED
  BY <1>1, <1>2, PlanAssumption
  DEF Init, PlanInv, ResumedByReview, AnswerIsAPatch, StaleAnswerRegenerates,
      DesignedForNewRoster, RerollsAreCounted, NoOldCandidate, ApprovalIsKept,
      VoicesAfterApproval, OnlyApprovedVoicesBought, CastIsComplete, NoRequest, Drafting

\* The drafting nodes write texts and assignments, which no review has seen yet.
LEMMA DraftKeepsInv ==
  ASSUME PlanInv, WriteConcepts \/ WriteScripts \/ DesignProfiles
  PROVE  PlanInv'
<1> USE DEF WriteConcepts, WriteScripts, DesignProfiles, context, bought
<1>1. /\ at \in Drafting /\ at' \in Drafting
      /\ UNCHANGED <<mode, roster, request, gate, answer, job, tries, slots, approved, revisions>>
      /\ plan' \in [text : Nat, script : Nat] /\ version' \in Nat
  BY DEF PlanInv, PlanTypeOK, Drafting
<1> HIDE DEF WriteConcepts, WriteScripts, DesignProfiles
<1>2. gate = "none"
  BY <1>1 DEF PlanInv, PlanTypeOK, ResumedByReview, Drafting
<1>3. PlanTypeOK'
  BY <1>1 DEF PlanInv, PlanTypeOK, Nodes
<1>4. ResumedByReview' /\ AnswerIsAPatch' /\ StaleAnswerRegenerates'
  BY <1>1, <1>2 DEF PlanInv, ResumedByReview, AnswerIsAPatch, StaleAnswerRegenerates, Drafting
<1>5. DesignedForNewRoster' /\ RerollsAreCounted' /\ NoOldCandidate'
  BY <1>1 DEF PlanInv, DesignedForNewRoster, RerollsAreCounted, NoOldCandidate, Drafting
<1>6. ApprovalIsKept' /\ VoicesAfterApproval'
  BY <1>1, <1>2 DEF PlanInv, ApprovalIsKept, VoicesAfterApproval, Drafting
<1>7. OnlyApprovedVoicesBought' /\ CastIsComplete'
  BY <1>1 DEF PlanInv, OnlyApprovedVoicesBought, CastIsComplete, Drafting
<1> QED
  BY <1>3, <1>4, <1>5, <1>6, <1>7 DEF PlanInv

\* A roster is built without batches, and in a reviewed run without voices.
LEMMA RosterKeepsInv ==
  ASSUME PlanInv, BuildRoster \/ SeedRoster
  PROVE  PlanInv'
<1>1. /\ at = "roster" /\ at' = "voice_candidates"
      /\ UNCHANGED <<mode, plan, version, request, gate, answer, job, tries, slots, approved,
                     revisions>>
  BY DEF BuildRoster, SeedRoster, context, bought
<1>2. PICK cast \in SUBSET (Creators \cup {Seed}), v \in {None, "own"} :
       \E b \in [cast -> Briefs] :
        /\ roster' = [c \in cast |-> NewCreator(b[c], v)]
        /\ mode = "review" => v = None
  <2>1. CASE BuildRoster
    BY <2>1 DEF BuildRoster
  <2>2. CASE SeedRoster
    <3>1. PICK b \in Briefs : roster' = [c \in {Seed} |-> NewCreator(b, "own")]
      BY <2>2 DEF SeedRoster
    <3>2. [c \in {Seed} |-> b] \in [{Seed} -> Briefs]
      OBVIOUS
    <3>3. roster' = [c \in {Seed} |-> NewCreator([d \in {Seed} |-> b][c], "own")]
      BY <3>1
    <3> QED
      BY <2>2, <3>2, <3>3 DEF SeedRoster
  <2> QED
    BY <2>1, <2>2
<1>3. \A b \in Briefs : NewCreator(b, v) \in Profiles
  BY PlanAssumption DEF NewCreator, Profiles
<1>4. /\ DOMAIN roster' = cast
      /\ \A c \in cast : /\ roster'[c].batch = None /\ roster'[c].history = {}
                         /\ roster'[c].rerolls = 0 /\ roster'[c].voice = v
  BY <1>2 DEF NewCreator
<1>5. gate = "none"
  BY <1>1 DEF PlanInv, PlanTypeOK, ResumedByReview
<1>6. PlanTypeOK'
  BY <1>1, <1>2, <1>3 DEF PlanInv, PlanTypeOK, Nodes
<1>7. ResumedByReview' /\ AnswerIsAPatch' /\ StaleAnswerRegenerates'
  BY <1>1, <1>5 DEF PlanInv, ResumedByReview, AnswerIsAPatch, StaleAnswerRegenerates, Drafting
<1>8. DesignedForNewRoster' /\ RerollsAreCounted' /\ NoOldCandidate'
  BY <1>1, <1>4 DEF PlanInv, DesignedForNewRoster, RerollsAreCounted, NoOldCandidate, Drafting
<1>9. ApprovalIsKept' /\ VoicesAfterApproval'
  BY <1>1, <1>2, <1>4, <1>5 DEF PlanInv, ApprovalIsKept, VoicesAfterApproval
<1>10. OnlyApprovedVoicesBought' /\ CastIsComplete'
  BY <1>1 DEF PlanInv, OnlyApprovedVoicesBought, CastIsComplete
<1> QED
  BY <1>6, <1>7, <1>8, <1>9, <1>10 DEF PlanInv

\* A new roster gets its first batches; a reroll gets one that no count was part of yet.
LEMMA DesignKeepsInv ==
  ASSUME PlanInv, DesignVoices
  PROVE  PlanInv'
<1> DEFINE reroll == request.target = "voices"
<1>1. /\ at = "voice_candidates" /\ at' = "review"
      /\ UNCHANGED <<mode, plan, version, request, gate, answer, job, tries, slots, approved,
                     revisions>>
      /\ reroll => \A c \in request.ids : MayReroll(roster[c])
  BY DEF DesignVoices, context, bought
<1>2. /\ DOMAIN roster' = DOMAIN roster
      /\ \A c \in DOMAIN roster :
           \/ ~reroll /\ roster'[c] = Designed(roster[c])
           \/ reroll /\ c \in request.ids /\ roster'[c] = Rerolled(roster[c])
           \/ reroll /\ roster'[c] = roster[c]
  BY DEF DesignVoices
<1>3. gate = "none"
  BY <1>1 DEF PlanInv, PlanTypeOK, ResumedByReview
<1>4. \A batch \in Batches : Preselected(batch) \in Candidates \cup {None}
  BY PlanAssumption DEF Preselected, Candidates
<1>5. ASSUME NEW c \in DOMAIN roster
      PROVE  /\ roster'[c] \in Profiles
             /\ None \notin roster'[c].history
             /\ \A batch \in roster'[c].history \cup ({roster'[c].batch} \ {None}) :
                  batch[2] <= roster'[c].rerolls
             /\ roster'[c].batch \notin roster'[c].history
             /\ roster'[c].voice \in {roster[c].voice, None}
  <2> DEFINE r == roster[c]
  <2>1. /\ r \in Profiles /\ None \notin r.history /\ r.batch \notin r.history
        /\ \A batch \in r.history \cup ({r.batch} \ {None}) : batch[2] <= r.rerolls
    BY <1>5 DEF PlanInv, PlanTypeOK, RerollsAreCounted, NoOldCandidate
  <2>2. CASE ~reroll /\ roster'[c] = Designed(r)
    <3> DEFINE batch == DesignKey(r.brief, r.rerolls)
    <3>1. r.history = {} /\ r.rerolls = 0
      BY <1>1, <1>5, <2>2 DEF PlanInv, DesignedForNewRoster
    <3>2. batch \in Batches /\ batch[2] = r.rerolls
      BY <2>1, <3>1, DesignKeyType DEF Profiles
    <3>3. roster'[c] = [r EXCEPT !.batch = batch, !.selected = Preselected(batch)]
      BY <2>2 DEF Designed
    <3>4. roster'[c] \in Profiles
      BY <2>1, <3>2, <3>3, <1>4 DEF Profiles
    <3>5. /\ roster'[c].history = {} /\ roster'[c].batch = batch /\ roster'[c].rerolls = 0
          /\ roster'[c].voice = r.voice
      BY <2>1, <3>1, <3>3 DEF Profiles
    <3> HIDE DEF batch
    <3> QED
      BY <3>1, <3>2, <3>4, <3>5
  <2>3. CASE reroll /\ c \in request.ids /\ roster'[c] = Rerolled(r)
    <3> DEFINE batch == DesignKey(r.brief, r.rerolls + 1)
    <3>1. r.rerolls < MaxRerolls /\ r.rerolls \in Nat /\ r.brief \in Briefs
      BY <1>1, <2>1, <2>3 DEF MayReroll, Profiles
    <3>2. batch \in Batches /\ batch[2] = r.rerolls + 1
      BY <3>1, DesignKeyType
    <3>3. roster'[c] = [r EXCEPT !.batch = batch, !.selected = Preselected(batch),
                                 !.rerolls = @ + 1, !.history = Superseded(r), !.voice = None]
      BY <2>3 DEF Rerolled
    <3> HIDE DEF batch
    <3>4. r.rerolls + 1 \in 0..MaxRerolls
      BY <3>1, PlanAssumption
    <3>5. roster'[c] \in Profiles
      <4>1. Superseded(r) \in SUBSET Batches
        BY <2>1, SupersededHas
      <4>2. Preselected(batch) \in Candidates \cup {None}
        BY <1>4, <3>2
      <4> QED
        BY <2>1, <3>2, <3>3, <3>4, <4>1, <4>2 DEF Profiles
    <3>6. /\ roster'[c].history = Superseded(r) /\ roster'[c].batch = batch
          /\ roster'[c].rerolls = r.rerolls + 1 /\ roster'[c].voice = None
      BY <2>1, <3>3 DEF Profiles
    <3>7. \A old \in Superseded(r) : old \in Batches /\ old[2] <= r.rerolls
      BY <2>1, SupersededHas
    <3>8. \A old \in Superseded(r) : old[2] \in Nat
      BY <3>7 DEF Batches
    <3>9. batch \notin Superseded(r)
      BY <3>1, <3>2, <3>7
    <3> QED
      BY <2>1, <3>1, <3>2, <3>5, <3>6, <3>7, <3>8, <3>9, SupersededHas
  <2>4. CASE roster'[c] = r
    BY <2>1, <2>4
  <2> QED
    BY <1>2, <2>2, <2>3, <2>4
<1>6. PlanTypeOK'
  <2>1. roster' \in [DOMAIN roster' -> Profiles]
    BY <1>2, <1>5 DEF DesignVoices
  <2> QED
    BY <1>1, <1>2, <2>1 DEF PlanInv, PlanTypeOK, Nodes
<1>7. ResumedByReview' /\ AnswerIsAPatch' /\ StaleAnswerRegenerates'
  BY <1>1, <1>3 DEF PlanInv, ResumedByReview, AnswerIsAPatch, StaleAnswerRegenerates, Drafting
<1>8. DesignedForNewRoster' /\ RerollsAreCounted' /\ NoOldCandidate'
  BY <1>1, <1>2, <1>5 DEF DesignedForNewRoster, RerollsAreCounted, NoOldCandidate, Drafting
<1>9. ApprovalIsKept' /\ VoicesAfterApproval'
  BY <1>1, <1>2, <1>3, <1>5 DEF PlanInv, ApprovalIsKept, VoicesAfterApproval
<1>10. OnlyApprovedVoicesBought' /\ CastIsComplete'
  BY <1>1 DEF PlanInv, OnlyApprovedVoicesBought, CastIsComplete
<1> QED
  BY <1>6, <1>7, <1>8, <1>9, <1>10 DEF PlanInv

\* The gate shows the plan as it is.
LEMMA OpenGateKeepsInv ==
  ASSUME PlanInv, OpenGate
  PROVE  PlanInv'
<1>1. /\ at = "review" /\ mode = "review" /\ gate = "none" /\ gate' = "open"
      /\ UNCHANGED <<mode, at, plan, version, roster, request, job, tries, slots, approved,
                     revisions>>
  BY DEF OpenGate, context, bought
<1>2. PlanTypeOK'
  BY <1>1 DEF PlanInv, PlanTypeOK
<1>3. ResumedByReview' /\ AnswerIsAPatch' /\ StaleAnswerRegenerates'
  BY <1>1 DEF PlanInv, ResumedByReview, AnswerIsAPatch, StaleAnswerRegenerates
<1>4. DesignedForNewRoster' /\ RerollsAreCounted' /\ NoOldCandidate'
  BY <1>1 DEF PlanInv, DesignedForNewRoster, RerollsAreCounted, NoOldCandidate
<1>5. ApprovalIsKept' /\ VoicesAfterApproval'
  BY <1>1 DEF PlanInv, ApprovalIsKept, VoicesAfterApproval
<1>6. OnlyApprovedVoicesBought' /\ CastIsComplete'
  BY <1>1 DEF PlanInv, OnlyApprovedVoicesBought, CastIsComplete
<1> QED
  BY <1>2, <1>3, <1>4, <1>5, <1>6 DEF PlanInv

\* A patch that a client sent is one of briefs for the whole roster.
LEMMA BriefPatchType ==
  ASSUME PlanTypeOK, NEW b \in BriefPatches
  PROVE  b \in [DOMAIN roster -> Briefs]
<1>1. NoEdits \in [DOMAIN roster -> Briefs]
  BY DEF PlanTypeOK, NoEdits, Profiles
<1>2. PICK c \in DOMAIN roster, d \in Briefs : b = [NoEdits EXCEPT ![c] = d]
  BY DEF BriefPatches
<1> QED
  BY <1>1, <1>2

\* An answer on its way, whatever it asks for.
LEMMA ResolveKeepsInv ==
  ASSUME PlanInv, NEW a, gate = "open", Resolve(a),
         a.target \in Targets \cup {None},
         a.patch => a.briefs \in [Creators -> Briefs],
         revisions' \in 0..MaxRevisions,
         a.target = None => ApprovedIs(AnsweredPlan, AnsweredRoster)',
         a.target # None => UNCHANGED approved
  PROVE  PlanInv'
<1>1. /\ gate' = "answered" /\ answer' = a /\ job' = "resume" /\ tries' = 1
      /\ UNCHANGED <<mode, at, plan, version, roster, request, slots>>
  BY DEF Resolve, bought
<1>2. at = "review" /\ mode = "review"
  BY DEF PlanInv, ResumedByReview
<1>3. slots = {}
  BY <1>2 DEF PlanInv, VoicesAfterApproval
<1>4. PlanTypeOK'
  BY <1>1, PlanAssumption DEF PlanInv, PlanTypeOK
<1>5. ResumedByReview' /\ AnswerIsAPatch' /\ StaleAnswerRegenerates'
  BY <1>1, <1>2 DEF PlanInv, ResumedByReview, AnswerIsAPatch, StaleAnswerRegenerates
<1>6. DesignedForNewRoster' /\ RerollsAreCounted' /\ NoOldCandidate'
  BY <1>1 DEF PlanInv, DesignedForNewRoster, RerollsAreCounted, NoOldCandidate
<1>7. ApprovalIsKept' /\ VoicesAfterApproval'
  BY <1>1, <1>2, <1>3 DEF PlanInv, ApprovalIsKept, VoicesAfterApproval
<1>8. OnlyApprovedVoicesBought' /\ CastIsComplete'
  BY <1>1, <1>2, <1>3 DEF OnlyApprovedVoicesBought, CastIsComplete
<1> QED
  BY <1>4, <1>5, <1>6, <1>7, <1>8 DEF PlanInv

\* An approval is remembered as what the resumed job will make of it.
LEMMA ApproveKeepsInv ==
  ASSUME PlanInv, Approve
  PROVE  PlanInv'
<1>1. PICK b \in BriefPatches, s \in SelectionPatches, edit \in BOOLEAN :
        LET a == Answer(None, {}, b, s, edit)
            ros == Reviewed(b, s)
        IN /\ a.patch => PatchOk(b, s)
           /\ AllSelected(ros)
           /\ Resolve(a)
           /\ approved' = [text |-> IF edit THEN version + 1 ELSE plan.text,
                           script |-> IF edit THEN version + 1 ELSE plan.script,
                           voice |-> [c \in DOMAIN ros |-> ros[c].selected]]
  BY DEF Approve
<1> DEFINE a == Answer(None, {}, b, s, edit)
           ros == Reviewed(b, s)
<1>2. gate = "open" /\ revisions' = revisions
  BY DEF Approve
<1>3. /\ a.target = None /\ a.briefs = b /\ a.picks = s /\ a.edit = edit
      /\ a.patch = (<<b, s>> # <<NoEdits, NoPicks>>)
  BY DEF Answer
<1>4. /\ answer' = a
      /\ UNCHANGED <<mode, at, plan, version, roster, request, slots>>
  BY <1>1 DEF Resolve, bought
<1>5. roster \in [DOMAIN roster -> Profiles]
  BY DEF PlanInv, PlanTypeOK
<1>6. ros = IF a.patch THEN Reviewed(b, s) ELSE roster
  BY <1>3, <1>5, NoPatchNoChange
<1>7. AnsweredRoster' = ros
  <2>1. Reviewed(b, s)' = Reviewed(b, s)
    BY <1>4 DEF Reviewed
  <2> QED
    BY <1>3, <1>4, <1>6, <2>1 DEF AnsweredRoster, Reviewed
<1>8. AnsweredPlan' = [text |-> approved'.text, script |-> approved'.script]
  <2>1. plan = [text |-> plan.text, script |-> plan.script]
    BY DEF PlanInv, PlanTypeOK
  <2> QED
    BY <1>1, <1>3, <1>4, <2>1 DEF AnsweredPlan
<1>9. DOMAIN ros = DOMAIN roster
  BY DEF Reviewed
<1>10. approved' # None
  <2>1. approved'.text \in Nat /\ approved'.script \in Nat
    BY <1>1 DEF PlanInv, PlanTypeOK
  <2>2. \A c \in DOMAIN ros : ros[c].selected \in Candidates
    <3> SUFFICES ASSUME NEW c \in DOMAIN ros PROVE ros[c].selected \in Candidates
      OBVIOUS
    <3>1. ros[c].selected \in Selectable(ros[c])
      BY <1>1 DEF AllSelected
    <3>2. ros[c].batch \in Batches \cup {None}
      <4>1. roster[c] \in Profiles /\ None \notin roster[c].history /\ b[c] \in Briefs
        BY <1>5, <1>9, BriefPatchType DEF PlanInv, RerollsAreCounted
      <4>2. ros[c] = Picked(Edited(roster[c], b[c]), s[c])
        BY <1>9 DEF Reviewed
      <4>3. Edited(roster[c], b[c]) \in Profiles
        BY <4>1, EditedType
      <4>4. ros[c].batch = Edited(roster[c], b[c]).batch
        BY <4>2, <4>3 DEF Picked, Profiles
      <4> QED
        BY <4>3, <4>4 DEF Profiles
    <3> QED
      BY <3>1, <3>2 DEF Selectable, Candidates
  <2>3. DOMAIN ros \in SUBSET (Creators \cup {Seed})
    BY <1>9 DEF PlanInv, PlanTypeOK
  <2>4. [c \in DOMAIN ros |-> ros[c].selected] \in [DOMAIN ros -> Candidates]
    BY <2>2
  <2> HIDE DEF ros
  <2>5. approved' \in Approvals
    BY <1>1, <2>1, <2>3, <2>4 DEF Approvals, ros
  <2> QED
    BY <2>5, PlanAssumption
<1>11. ApprovedIs(AnsweredPlan, AnsweredRoster)'
  <2>1. /\ DOMAIN approved'.voice = DOMAIN ros
        /\ \A c \in DOMAIN ros : approved'.voice[c] = ros[c].selected
    BY <1>1
  <2> QED
    BY <1>7, <1>8, <1>10, <2>1 DEF ApprovedIs
<1>12. a.patch => a.briefs \in [Creators -> Briefs]
  BY <1>1, <1>3, BriefPatchType DEF PatchOk, PlanInv
<1>13. revisions' \in 0..MaxRevisions
  BY <1>2 DEF PlanInv, PlanTypeOK
<1> HIDE DEF a, ros
<1> QED
  BY <1>1, <1>2, <1>3, <1>11, <1>12, <1>13, ResolveKeepsInv DEF a

\* A regeneration approves nothing.
LEMMA RegenerateKeepsInv ==
  ASSUME PlanInv, NEW target \in Targets, Regenerate(target)
  PROVE  PlanInv'
<1>1. /\ gate = "open" /\ UNCHANGED approved
      /\ revisions' \in 0..MaxRevisions
  BY PlanAssumption DEF Regenerate, PlanInv, PlanTypeOK
<1>2. target # None
  BY PlanAssumption DEF Targets
<1>3. \E a : /\ Resolve(a) /\ a.target = target
             /\ a.patch => a.briefs \in [Creators -> Briefs]
  <2>1. CASE /\ target \in {"creators", "voices"}
             /\ \E ids \in SUBSET DOMAIN roster \ {{}}, b \in BriefPatches, s \in SelectionPatches :
                  LET a == Answer(target, ids, b, s, FALSE) IN
                  /\ a.patch => PatchOk(b, s)
                  /\ Resolve(a)
    <3>1. PICK ids \in SUBSET DOMAIN roster \ {{}}, b \in BriefPatches, s \in SelectionPatches :
            LET a == Answer(target, ids, b, s, FALSE) IN
            /\ a.patch => PatchOk(b, s)
            /\ Resolve(a)
      BY <2>1
    <3>2. /\ Answer(target, ids, b, s, FALSE).target = target
          /\ Answer(target, ids, b, s, FALSE).briefs = b
      BY DEF Answer
    <3>3. PatchOk(b, s) => b \in [Creators -> Briefs]
      BY BriefPatchType DEF PatchOk, PlanInv
    <3> QED
      BY <3>1, <3>2, <3>3
  <2>2. CASE \E edit \in BOOLEAN : Resolve(Answer(target, Concepts, NoEdits, NoPicks, edit))
    <3>1. PICK edit \in BOOLEAN : Resolve(Answer(target, Concepts, NoEdits, NoPicks, edit))
      BY <2>2
    <3>2. /\ Answer(target, Concepts, NoEdits, NoPicks, edit).target = target
          /\ ~Answer(target, Concepts, NoEdits, NoPicks, edit).patch
      BY DEF Answer
    <3> QED
      BY <3>1, <3>2
  <2> QED
    BY <2>1, <2>2 DEF Regenerate
<1> QED
  BY <1>1, <1>2, <1>3, ResolveKeepsInv

\* Resumed with an approval the thread has what was approved; resumed with a regeneration
\* it drafts anew, or rerolls.
LEMMA ApplyAnswerKeepsInv ==
  ASSUME PlanInv, ApplyAnswer
  PROVE  PlanInv'
<1>1. /\ gate = "answered" /\ gate' = "none"
      /\ request'.target = answer.target
      /\ at' = AfterReview(answer.target)
      /\ roster' = AnsweredRoster /\ plan' = AnsweredPlan
      /\ answer.patch => PatchOk(answer.briefs, answer.picks)
      /\ version' = IF answer.edit THEN version + 1 ELSE version
      /\ UNCHANGED <<mode, job, tries, approved, revisions, answer, slots>>
  BY DEF ApplyAnswer, context, bought, AnsweredRoster
<1>2. /\ mode = "review" /\ at = "review" /\ job = "resume"
      /\ answer.target \in Targets \cup {None}
      /\ answer.patch => answer.briefs \in [Creators -> Briefs]
  BY <1>1 DEF PlanInv, ResumedByReview, AnswerIsAPatch
<1>3. slots = {} /\ \A c \in DOMAIN roster : roster[c].voice = None
  BY <1>2 DEF PlanInv, VoicesAfterApproval
<1>4. /\ at' \in Nodes /\ at' \notin {"review", "produce", "failed"}
      /\ answer.target = None <=> at' = "finalize_voices"
      /\ at' \in Drafting => answer.target # "voices"
      /\ at' = "voice_candidates" => answer.target = "voices"
  BY <1>1, <1>2, PlanAssumption DEF AfterReview, Targets, Nodes, Drafting
<1>5. DOMAIN roster' = DOMAIN roster
  BY <1>1 DEF AnsweredRoster, Reviewed
<1>6. ASSUME NEW c \in DOMAIN roster
      PROVE  /\ roster'[c] \in Profiles
             /\ None \notin roster'[c].history
             /\ \A batch \in roster'[c].history \cup ({roster'[c].batch} \ {None}) :
                  batch[2] <= roster'[c].rerolls
             /\ roster'[c].batch \notin roster'[c].history
             /\ roster'[c].voice = None
  <2> DEFINE r == roster[c]
  <2>1. /\ r \in Profiles /\ None \notin r.history /\ r.batch \notin r.history
        /\ \A batch \in r.history \cup ({r.batch} \ {None}) : batch[2] <= r.rerolls
        /\ r.voice = None
    BY <1>3, <1>6 DEF PlanInv, PlanTypeOK, RerollsAreCounted, NoOldCandidate
  <2>2. CASE answer.patch
    <3> DEFINE b == answer.briefs[c]
               s == answer.picks[c]
    <3>1. DOMAIN roster = Creators /\ b \in Briefs
      BY <1>1, <1>2, <1>6, <2>2 DEF PatchOk
    <3>2. b = r.brief /\ s # None => s \in Selectable(r)
      BY <1>1, <1>6, <2>2, <3>1 DEF PatchOk
    <3>3. roster'[c] = Picked(Edited(r, b), s)
      BY <1>1, <1>6, <2>2 DEF AnsweredRoster, Reviewed
    <3> HIDE DEF b, s, r
    <3> QED
      BY <2>1, <3>1, <3>2, <3>3, ReviewedCreator
  <2>3. CASE ~answer.patch
    BY <1>1, <2>1, <2>3 DEF AnsweredRoster
  <2> QED
    BY <2>2, <2>3
<1>7. PlanTypeOK'
  <2>1. roster' \in [DOMAIN roster' -> Profiles]
    <3>1. roster' = [c \in DOMAIN roster |-> roster'[c]]
      BY <1>1 DEF AnsweredRoster, Reviewed, PlanInv, PlanTypeOK
    <3> QED
      BY <1>5, <1>6, <3>1
  <2>2. plan' \in [text : Nat, script : Nat] /\ version' \in Nat
    BY <1>1 DEF AnsweredPlan, PlanInv, PlanTypeOK
  <2> QED
    BY <1>1, <1>2, <1>4, <1>5, <2>1, <2>2 DEF PlanInv, PlanTypeOK
<1>8. ResumedByReview' /\ AnswerIsAPatch' /\ StaleAnswerRegenerates'
  BY <1>1, <1>2, <1>4 DEF PlanInv, ResumedByReview, AnswerIsAPatch, StaleAnswerRegenerates,
     Drafting
<1>9. DesignedForNewRoster' /\ RerollsAreCounted' /\ NoOldCandidate'
  BY <1>1, <1>4, <1>5, <1>6 DEF DesignedForNewRoster, RerollsAreCounted, NoOldCandidate
<1>10. ApprovalIsKept'
  <2>1. answer.target = None => ApprovedIs(plan', roster')
    BY <1>1 DEF PlanInv, ApprovalIsKept
  <2> QED
    BY <1>1, <1>4, <2>1 DEF ApprovalIsKept, ApprovedIs
<1>11. VoicesAfterApproval' /\ OnlyApprovedVoicesBought' /\ CastIsComplete'
  BY <1>1, <1>3, <1>4, <1>5, <1>6 DEF VoicesAfterApproval, OnlyApprovedVoicesBought,
     CastIsComplete
<1> QED
  BY <1>7, <1>8, <1>9, <1>10, <1>11 DEF PlanInv

\* A run without a review goes on.
LEMMA SkipReviewKeepsInv ==
  ASSUME PlanInv, SkipReview
  PROVE  PlanInv'
<1>1. /\ mode # "review" /\ at' = "finalize_voices" /\ request'.target = None
      /\ UNCHANGED <<mode, plan, version, roster, gate, answer, job, tries, slots, approved,
                     revisions>>
  BY DEF SkipReview, context, bought, NoRequest
<1>2. gate = "none" /\ job = "execute"
  BY <1>1 DEF PlanInv, PlanTypeOK, ResumedByReview
<1>3. PlanTypeOK'
  BY <1>1 DEF PlanInv, PlanTypeOK, Nodes
<1>4. ResumedByReview' /\ AnswerIsAPatch' /\ StaleAnswerRegenerates'
  BY <1>1, <1>2 DEF PlanInv, ResumedByReview, AnswerIsAPatch, StaleAnswerRegenerates
<1>5. DesignedForNewRoster' /\ RerollsAreCounted' /\ NoOldCandidate'
  BY <1>1 DEF PlanInv, DesignedForNewRoster, RerollsAreCounted, NoOldCandidate, Drafting
<1>6. ApprovalIsKept' /\ VoicesAfterApproval'
  BY <1>1, <1>2 DEF ApprovalIsKept, VoicesAfterApproval
<1>7. OnlyApprovedVoicesBought' /\ CastIsComplete'
  BY <1>1 DEF OnlyApprovedVoicesBought, CastIsComplete
<1> QED
  BY <1>3, <1>4, <1>5, <1>6, <1>7 DEF PlanInv

\* The voices that are bought, by a node that ends or by one that raises, are those the
\* reviewer selected.
LEMMA BoughtAsApproved ==
  ASSUME PlanInv, at = "finalize_voices", mode = "review",
         NEW some \in SUBSET Voiceless,
         slots' = slots \cup {Slot(c) : c \in some}
  PROVE  \A v \in slots' :
           approved # None /\ v[1] \in DOMAIN approved.voice /\ v[2] = approved.voice[v[1]]
<1>1. ApprovedIs(plan, roster)
  BY DEF PlanInv, ApprovalIsKept
<1>2. \A c \in some : c \in DOMAIN roster
  BY DEF Voiceless
<1>3. \A c \in some : Slot(c)[1] = c /\ Slot(c)[2] = roster[c].selected
  BY DEF Slot
<1> QED
  BY <1>1, <1>2, <1>3 DEF ApprovedIs, PlanInv, OnlyApprovedVoicesBought

\* Every creator leaves the node with the voice that was selected, or with that of a
\* namesake where the purchase is known to nobody and never happened.
LEMMA FinalizeKeepsInv ==
  ASSUME PlanInv, FinalizeVoices
  PROVE  PlanInv'
<1> DEFINE ros == [c \in DOMAIN roster |->
                     IF c \in Voiceless THEN [roster[c] EXCEPT !.voice = VoiceOf(c)]
                     ELSE roster[c]]
<1> DEFINE buyers == {c \in Voiceless : Untried(c)}
<1>1. /\ at = "finalize_voices" /\ at' = "produce"
      /\ AllSelected([c \in Voiceless |-> roster[c]])
      /\ slots' = slots \cup {Slot(c) : c \in buyers}
      /\ NoVoiceMissing(ros)
      /\ roster' = ros
      /\ UNCHANGED <<mode, plan, version, assigned, request, gate, answer, job, tries, approved,
                     revisions, unsure>>
  BY DEF FinalizeVoices, context
<1>2. gate = "none"
  BY <1>1 DEF PlanInv, PlanTypeOK, ResumedByReview
<1>3. roster \in [DOMAIN roster -> Profiles]
  BY DEF PlanInv, PlanTypeOK
<1>4. ASSUME NEW c \in DOMAIN roster
      PROVE  /\ ros[c] \in Profiles
             /\ ros[c].history = roster[c].history /\ ros[c].batch = roster[c].batch
             /\ ros[c].rerolls = roster[c].rerolls /\ ros[c].selected = roster[c].selected
             /\ roster[c].voice = None => ros[c].voice = VoiceOf(c)
  <2>1. roster[c] \in Profiles
    BY <1>3
  <2>2. c \in Voiceless <=> roster[c].voice = None
    BY DEF Voiceless
  <2>3. CASE c \in Voiceless
    <3>0. VoiceOf(c) \in Candidates \cup {None, "own", Namesake}
      BY <2>1 DEF VoiceOf, Profiles
    <3>1. ros[c] = [roster[c] EXCEPT !.voice = VoiceOf(c)]
      BY <2>3
    <3> HIDE DEF ros
    <3>2. [roster[c] EXCEPT !.voice = VoiceOf(c)] \in Profiles
      BY <2>1, <3>0 DEF Profiles
    <3> QED
      BY <2>1, <3>1, <3>2 DEF Profiles
  <2>4. CASE c \notin Voiceless
    <3>1. ros[c] = roster[c]
      BY <2>4
    <3> QED
      BY <2>1, <2>2, <2>4, <3>1
  <2> QED
    BY <2>3, <2>4
<1>5. DOMAIN ros = DOMAIN roster /\ ros \in [DOMAIN roster -> Profiles]
  BY <1>4
<1>6. CastIsComplete'
  <2> HIDE DEF ros
  <2> QED
    BY <1>1 DEF CastIsComplete, NoVoiceMissing
<1> HIDE DEF ros
<1>7. PlanTypeOK'
  BY <1>1, <1>5 DEF PlanInv, PlanTypeOK, Nodes
<1>8. ResumedByReview' /\ AnswerIsAPatch' /\ StaleAnswerRegenerates'
  BY <1>1, <1>2 DEF PlanInv, ResumedByReview, AnswerIsAPatch, StaleAnswerRegenerates, Drafting
<1>9. DesignedForNewRoster' /\ RerollsAreCounted' /\ NoOldCandidate'
  BY <1>1, <1>4, <1>5 DEF PlanInv, DesignedForNewRoster, RerollsAreCounted, NoOldCandidate,
     Drafting
<1>10. ApprovalIsKept'
  BY <1>1, <1>2, <1>4, <1>5 DEF PlanInv, ApprovalIsKept, ApprovedIs
<1>11. VoicesAfterApproval'
  <2> SUFFICES ASSUME mode = "review", NEW c \in DOMAIN roster
               PROVE  ros[c].voice = ros[c].selected \/ <<c, ros[c].selected>> \in unsure \ slots'
    BY <1>1, <1>5 DEF VoicesAfterApproval, Slot
  <2>1. ros[c].voice = VoiceOf(c) /\ ros[c].selected = roster[c].selected
    BY <1>1, <1>4 DEF PlanInv, VoicesAfterApproval
  <2>2. \A b \in buyers : Slot(b) \notin unsure
    BY DEF Untried
  <2> QED
    BY <1>1, <2>1, <2>2 DEF VoiceOf, Slot
<1>12. OnlyApprovedVoicesBought'
  <2>1. buyers \in SUBSET Voiceless
    OBVIOUS
  <2> HIDE DEF buyers
  <2> QED
    BY <1>1, <2>1, BoughtAsApproved DEF OnlyApprovedVoicesBought
<1> QED
  BY <1>6, <1>7, <1>8, <1>9, <1>10, <1>11, <1>12 DEF PlanInv

\* A node that raises has at most bought voices; what comes next is the same graph from
\* its start, the same node, or nothing.
LEMMA FailureKeepsInv ==
  ASSUME PlanInv, RestartJob \/ ResumeJob \/ GiveUp
  PROVE  PlanInv'
<1>1. /\ Bought /\ at \notin {"produce", "failed"} /\ gate # "open"
      /\ UNCHANGED <<mode, plan, version, roster, request, answer, job, approved, revisions>>
      /\ \/ job = "execute" /\ at' = "concepts" /\ gate' = gate /\ tries' = tries + 1
         \/ /\ job = "resume" /\ at' = at /\ tries' = tries + 1
            /\ gate' = IF at = "review" THEN "answered" ELSE "none"
         \/ at' = "failed" /\ gate' = "none" /\ tries' = tries
      /\ tries' # tries => tries < MaxTries
  BY DEF RestartJob, ResumeJob, GiveUp, Busy
<1>2. job = "execute" => gate = "none" /\ request.target = None
  BY <1>1 DEF PlanInv, PlanTypeOK, ResumedByReview
<1>3. job = "resume" => mode = "review"
  BY DEF PlanInv, ResumedByReview
<1>4. PICK some \in SUBSET Voiceless :
        /\ some # {} => at = "finalize_voices"
        /\ slots' = slots \cup {Slot(c) : c \in some}
  BY <1>1 DEF Bought
<1>5. at # "finalize_voices" => slots' = slots
  BY <1>4
<1>6. PlanTypeOK'
  BY <1>1, <1>2, PlanAssumption DEF PlanInv, PlanTypeOK, Nodes, Drafting
<1>7. ResumedByReview'
  <2>1. gate' # "none" => mode' = "review" /\ at' = "review" /\ job' = "resume"
    BY <1>1, <1>2, <1>3
  <2>2. at' \in {"finalize_voices", "produce"} => at = at'
    BY <1>1
  <2> QED
    BY <1>1, <2>1, <2>2 DEF PlanInv, ResumedByReview
<1>8. AnswerIsAPatch' /\ StaleAnswerRegenerates'
  BY <1>1, <1>2
  DEF PlanInv, PlanTypeOK, ResumedByReview, AnswerIsAPatch, StaleAnswerRegenerates, Drafting
<1>9. DesignedForNewRoster' /\ RerollsAreCounted' /\ NoOldCandidate'
  BY <1>1, <1>2, PlanAssumption
  DEF PlanInv, DesignedForNewRoster, RerollsAreCounted, NoOldCandidate, Drafting
<1>10. ApprovalIsKept'
  <2>1. CASE job = "resume" /\ at' = at
    <3>1. gate' = "answered" => \/ gate = "answered"
                                \/ answer.target # None
      BY <1>1, <2>1 DEF PlanInv, PlanTypeOK, StaleAnswerRegenerates
    <3>2. AnsweredPlan' = AnsweredPlan /\ AnsweredRoster' = AnsweredRoster
      BY <1>1 DEF AnsweredPlan, AnsweredRoster, Reviewed
    <3>3. gate' = "answered" /\ answer.target = None => ApprovedIs(AnsweredPlan, AnsweredRoster)'
      BY <1>1, <3>1, <3>2 DEF PlanInv, ApprovalIsKept, ApprovedIs
    <3>4. at \in {"finalize_voices", "produce"} /\ mode = "review" => ApprovedIs(plan, roster)'
      BY <1>1 DEF PlanInv, ApprovalIsKept, ApprovedIs
    <3> QED
      BY <1>1, <2>1, <3>3, <3>4 DEF ApprovalIsKept
  <2>2. CASE at' \in {"concepts", "failed"} /\ gate' = "none"
    BY <2>2 DEF ApprovalIsKept
  <2> QED
    BY <1>1, <1>2, <2>1, <2>2 DEF PlanInv, PlanTypeOK
<1>11. VoicesAfterApproval'
  <2>1. mode = "review" /\ at = "finalize_voices" => job = "resume"
    BY DEF PlanInv, ResumedByReview
  <2> QED
    BY <1>1, <1>5, <2>1 DEF PlanInv, VoicesAfterApproval
<1>12. OnlyApprovedVoicesBought'
  BY <1>1, <1>4, <1>5, BoughtAsApproved DEF PlanInv, OnlyApprovedVoicesBought
<1>13. CastIsComplete'
  BY <1>1 DEF CastIsComplete
<1> QED
  BY <1>6, <1>7, <1>8, <1>9, <1>10, <1>11, <1>12, <1>13 DEF PlanInv

\* A step that changes nothing.
LEMMA PlanStutterKeepsInv ==
  ASSUME PlanInv, UNCHANGED vars
  PROVE  PlanInv'
<1> USE DEF vars
<1>1. PlanTypeOK' /\ ResumedByReview' /\ AnswerIsAPatch' /\ StaleAnswerRegenerates'
  BY DEF PlanInv, PlanTypeOK, ResumedByReview, AnswerIsAPatch, StaleAnswerRegenerates
<1>2. DesignedForNewRoster' /\ RerollsAreCounted' /\ NoOldCandidate'
  BY DEF PlanInv, DesignedForNewRoster, RerollsAreCounted, NoOldCandidate
<1>3. ApprovalIsKept'
  BY DEF PlanInv, ApprovalIsKept, ApprovedIs, AnsweredPlan, AnsweredRoster, Reviewed
<1>4. VoicesAfterApproval' /\ OnlyApprovedVoicesBought'
  BY DEF PlanInv, VoicesAfterApproval, OnlyApprovedVoicesBought, Slot
<1>5. CastIsComplete'
  BY DEF PlanInv, CastIsComplete, NoVoiceMissing
<1> QED
  BY <1>1, <1>2, <1>3, <1>4, <1>5 DEF PlanInv

-------------------------------------------------------------------------------
(* The theorems.                                                           *)

\* The inductive invariant of the creative graph: a roster's batches are new or counted, an
\* answer that is given again regenerates, and nothing is bought before the approval.
THEOREM PlanInvariant == Spec => []PlanInv
<1>1. PlanInv /\ [Next]_vars => PlanInv'
  <2> SUFFICES ASSUME PlanInv, [Next]_vars PROVE PlanInv'
    OBVIOUS
  <2>1. CASE WriteConcepts \/ WriteScripts \/ DesignProfiles
    BY <2>1, DraftKeepsInv
  <2>2. CASE BuildRoster \/ SeedRoster
    BY <2>2, RosterKeepsInv
  <2>3. CASE DesignVoices
    BY <2>3, DesignKeepsInv
  <2>4. CASE OpenGate \/ Approve
    BY <2>4, OpenGateKeepsInv, ApproveKeepsInv
  <2>5. ASSUME NEW target \in {"concepts", "scripts", "creators", "voices"}, Regenerate(target)
        PROVE  PlanInv'
    BY <2>5, RegenerateKeepsInv DEF Targets
  <2>6. CASE ApplyAnswer \/ SkipReview
    BY <2>6, ApplyAnswerKeepsInv, SkipReviewKeepsInv
  <2>7. CASE FinalizeVoices
    BY <2>7, FinalizeKeepsInv
  <2>8. CASE RestartJob \/ ResumeJob \/ GiveUp
    BY <2>8, FailureKeepsInv
  <2>9. CASE Rest \/ UNCHANGED vars
    BY <2>9, PlanStutterKeepsInv DEF Rest
  <2> QED
    BY <2>1, <2>2, <2>3, <2>4, <2>5, <2>6, <2>7, <2>8, <2>9 DEF Next
<1> QED
  BY <1>1, PlanInvInit, PTL DEF Spec

\* What is produced is the plan on the reviewer's page with the reviewer's edits, spoken by
\* the voices the reviewer selected, except where a failed attempt left a purchase unsure
\* that never happened: there reconcile_voice takes the voice of that name.
THEOREM ProducedAsApprovedHolds == Spec => []ProducedAsApproved
<1>1. PlanInv => ProducedAsApproved
  <2> SUFFICES ASSUME PlanInv, mode = "review", at = "produce"
               PROVE  /\ plan = [text |-> approved.text, script |-> approved.script]
                      /\ \A k \in Concepts :
                           \/ roster[CreatorOf(k)].voice = approved.voice[CreatorOf(k)]
                           \/ <<CreatorOf(k), approved.voice[CreatorOf(k)]>> \in unsure \ slots
    BY DEF ProducedAsApproved
  <2>1. ApprovedIs(plan, roster)
    BY DEF PlanInv, ApprovalIsKept
  <2>2. \A c \in DOMAIN roster :
          roster[c].voice = approved.voice[c] \/ <<c, approved.voice[c]>> \in unsure \ slots
    BY <2>1 DEF PlanInv, VoicesAfterApproval, ApprovedIs, Slot
  <2>3. \A k \in Concepts : CreatorOf(k) \in DOMAIN roster
    BY DEF PlanInv, CastIsComplete, NoVoiceMissing, CreatorOf
  <2> QED
    BY <2>1, <2>2, <2>3 DEF ApprovedIs
<1> QED
  BY <1>1, PlanInvariant, PTL

\* No candidate is made permanent that the reviewer did not approve, whatever is retried.
THEOREM OnlyApprovedVoicesBoughtHolds == Spec => []OnlyApprovedVoicesBought
BY PlanInvariant, PTL DEF PlanInv

\* The fallback of fan_out is never taken, and no item is without a voice.
THEOREM EveryItemHasItsVoiceHolds == Spec => []EveryItemHasItsVoice
<1>1. PlanInv => EveryItemHasItsVoice
  BY DEF PlanInv, CastIsComplete, NoVoiceMissing, EveryItemHasItsVoice, CreatorOf
<1> QED
  BY <1>1, PlanInvariant, PTL

\* A replaced batch never comes back, although the effect ledger would give the same
\* candidates to the same key.
THEOREM NoOldCandidateHolds == Spec => []NoOldCandidate
BY PlanInvariant, PTL DEF PlanInv

===============================================================================
