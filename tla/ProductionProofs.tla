--------------------------- MODULE ProductionProofs ---------------------------
(* Theorems about the production of a run for every set of items, every    *)
(* number of QC attempts and of attempts of the job, with lip sync off,    *)
(* optional or required and with or without a mock assembly.               *)
EXTENDS Production, TLAPS

-------------------------------------------------------------------------------
(* Clips and their objects                                                 *)

\* A clip's object is one storage knows, and is its item's.
LEMMA ObjectsOfClips ==
  ASSUME NEW t \in Clips
  PROVE  ObjectOf(t) \in Objects /\ ObjectOf(t).item = t.item
BY DEF Clips, Takes, Objects, ObjectOf

\* An item's clips are stored as objects of the item.
LEMMA StoredAreOwn ==
  ASSUME NEW i \in Items, ProductionTypeOK, OwnClips(i), NEW o \in Stored(item[i].clips)
  PROVE  o \in Objects /\ o.item = i
<1>1. PICK n \in 1..Len(item[i].clips) : o = ObjectOf(item[i].clips[n])
  BY DEF Stored
<1>2. item[i].clips \in Seq(Clips)
  BY DEF ProductionTypeOK, ItemStates
<1>3. item[i].clips[n] \in Clips /\ item[i].clips[n].item = i
  BY <1>2 DEF OwnClips
<1> QED
  BY <1>1, <1>3, ObjectsOfClips

\* The clip of an attempt under way, or of the attempt QC just refused.
LEMMA TakesAreTakes ==
  ASSUME ProductionTypeOK, NEW i \in Items,
         NEW s \in {"talking_head", "latentsync", "product_demo"}
  PROVE  /\ Take(i, s) \in Takes
         /\ Take(i, s).item = i
         /\ s # "latentsync" => Take(i, s) \in Clips
<1>1. draft \in Drafts /\ item[i].attempts \in 0..MaxAttempts
  BY ProductionAssumption DEF ProductionTypeOK, ItemStates, Drafts
<1> QED
  BY <1>1 DEF Take, Takes, Clips

-------------------------------------------------------------------------------
(* Types                                                                   *)

\* A node of the item graph keeps the types if what it writes has them.
LEMMA MoveKeepsTypes ==
  ASSUME ProductionTypeOK, NEW i \in Items, NEW node \in Nodes, NEW u \in ItemStates,
         Move(i, node, u), made' \in SUBSET Takes, retention' \in [Objects -> Retention]
  PROVE  ProductionTypeOK'
BY DEF ProductionTypeOK, Move

\* An item with another clip.
LEMMA ClipAdded ==
  ASSUME NEW it \in ItemStates, NEW t \in Clips
  PROVE  [it EXCEPT !.clips = Append(@, t)] \in ItemStates
<1>1. Append(it.clips, t) \in Seq(Clips)
  BY DEF ItemStates
<1> QED
  BY <1>1 DEF ItemStates

\* A new item.
LEMMA NewItemTyped == NewItem \in ItemStates
BY ProductionAssumption DEF NewItem, ItemStates

\* Classifying an item's takes gives every object a class.
LEMMA ClassifyTyped ==
  ASSUME ProductionTypeOK, NEW it
  PROVE  Classify(it) \in [Objects -> Retention]
BY DEF ProductionTypeOK, Classify, Retention

\* Buying takes records takes, and keeps the classes.
LEMMA GenerateTyped ==
  ASSUME ProductionTypeOK, NEW ts \in SUBSET Takes, NEW t \in Clips, GenerateClip(ts, t)
  PROVE  made' \in SUBSET Takes /\ retention' \in [Objects -> Retention]
BY ObjectsOfClips DEF ProductionTypeOK, GenerateClip, Retention

\* Every node keeps the types.
LEMMA ItemStepTypes ==
  ASSUME ProductionTypeOK, NEW i \in Items, ItemInv(i), ItemStep(i)
  PROVE  ProductionTypeOK'
<1> DEFINE it == item[i]
<1>1. it \in ItemStates /\ made \in SUBSET Takes /\ retention \in [Objects -> Retention]
  BY DEF ProductionTypeOK
<1>2. CASE Voiceover(i)
  <2>1. PICK ok \in BOOLEAN : Move(i, "talking_head", [it EXCEPT !.voice = ok, !.error = ~ok])
    BY <1>2 DEF Voiceover
  <2>2. [it EXCEPT !.voice = ok, !.error = ~ok] \in ItemStates
    BY <1>1 DEF ItemStates
  <2>3. "talking_head" \in Nodes /\ made' = made /\ retention' = retention
    BY <1>2 DEF Voiceover, Nodes
  <2> QED
    BY <1>1, <2>1, <2>2, <2>3, MoveKeepsTypes
<1>3. ASSUME NEW node \in Nodes, ClipFailed(i, node),
             made' \in SUBSET Takes, retention' \in [Objects -> Retention]
      PROVE  ProductionTypeOK'
  <2>1. [it EXCEPT !.error = TRUE] \in ItemStates
    BY <1>1 DEF ItemStates
  <2>2. AfterVideo(TRUE, node) \in Nodes
    BY DEF AfterVideo, Nodes
  <2>3. Move(i, AfterVideo(TRUE, node), [it EXCEPT !.error = TRUE])
    BY <1>3 DEF ClipFailed
  <2> QED
    BY <1>3, <2>1, <2>2, <2>3, MoveKeepsTypes
<1>4. ASSUME NEW node \in Nodes, NEW t \in Clips, NEW ts \in SUBSET Takes,
             GenerateClip(ts, t), ClipDone(i, t, node)
      PROVE  ProductionTypeOK'
  <2>1. [it EXCEPT !.clips = Append(@, t)] \in ItemStates
    BY <1>1, ClipAdded
  <2>2. AfterVideo(it.error, node) \in Nodes
    BY DEF AfterVideo, Nodes
  <2>3. Move(i, AfterVideo(it.error, node), [it EXCEPT !.clips = Append(@, t)])
    BY <1>4 DEF ClipDone
  <2>4. made' \in SUBSET Takes /\ retention' \in [Objects -> Retention]
    BY <1>4, GenerateTyped
  <2> QED
    BY <2>1, <2>2, <2>3, <2>4, MoveKeepsTypes
<1>5. CASE TalkingHead(i)
  <2>1. /\ Take(i, "talking_head") \in Clips
        /\ Take(i, "talking_head") \in Takes /\ Take(i, "latentsync") \in Takes
    BY TakesAreTakes
  <2>2. HeadTakes(i) \in SUBSET Takes
    BY <2>1 DEF HeadTakes
  <2>3. "product_demo" \in Nodes
    BY DEF Nodes
  <2>4. CASE GenerateClip(HeadTakes(i), Take(i, "talking_head"))
             /\ ClipDone(i, Take(i, "talking_head"), "product_demo")
    BY <1>4, <2>1, <2>2, <2>3, <2>4
  <2>5. CASE ~(/\ GenerateClip(HeadTakes(i), Take(i, "talking_head"))
               /\ ClipDone(i, Take(i, "talking_head"), "product_demo"))
    <3>1. ClipFailed(i, "product_demo") /\ retention' = retention
      BY <1>5, <2>5 DEF TalkingHead
    <3>2. made' = made \/ made' = made \cup {Take(i, "talking_head")}
      BY <1>5, <2>5 DEF TalkingHead
    <3> QED
      BY <1>1, <1>3, <2>1, <2>3, <3>1, <3>2
  <2> QED
    BY <2>4, <2>5
<1>6. CASE ProductDemo(i)
  <2>1. /\ Take(i, "product_demo") \in Clips
        /\ {Take(i, "product_demo")} \in SUBSET Takes /\ "qc" \in Nodes
    BY TakesAreTakes DEF Nodes
  <2>2. \/ /\ GenerateClip({Take(i, "product_demo")}, Take(i, "product_demo"))
           /\ ClipDone(i, Take(i, "product_demo"), "qc")
        \/ ClipFailed(i, "qc") /\ made' = made /\ retention' = retention
    BY <1>6 DEF ProductDemo
  <2> QED
    BY <1>1, <1>3, <1>4, <2>1, <2>2
<1>7. CASE Qc(i)
  <2>1. CASE /\ retention' = Classify([it EXCEPT !.qc = "passed"])
             /\ Move(i, "assembly", [it EXCEPT !.qc = "passed"])
    <3>1. [it EXCEPT !.qc = "passed"] \in ItemStates /\ "assembly" \in Nodes
      BY <1>1 DEF Nodes, ItemStates
    <3>2. retention' \in [Objects -> Retention] /\ made' = made
      BY <1>7, <2>1, ClassifyTyped DEF Qc
    <3> QED
      BY <1>1, <2>1, <3>1, <3>2, MoveKeepsTypes
  <2>2. CASE Move(i, AfterQc([it EXCEPT !.qc = "failed", !.attempts = @ + 1].attempts),
                  [it EXCEPT !.qc = "failed", !.attempts = @ + 1])
             /\ retention' = retention
    <3>1. it.attempts < MaxAttempts
      BY <1>7 DEF Qc, ItemInv
    <3>2. [it EXCEPT !.qc = "failed", !.attempts = @ + 1] \in ItemStates
      <4>1. it.attempts + 1 \in 0..MaxAttempts
        BY <1>1, <3>1, ProductionAssumption DEF ItemStates
      <4> QED
        BY <1>1, <4>1 DEF ItemStates
    <3>3. AfterQc([it EXCEPT !.qc = "failed", !.attempts = @ + 1].attempts) \in Nodes
      BY DEF AfterQc, Nodes
    <3>4. made' = made
      BY <1>7 DEF Qc
    <3> QED
      BY <1>1, <2>2, <3>2, <3>3, <3>4, MoveKeepsTypes
  <2> QED
    BY <1>7, <2>1, <2>2 DEF Qc
<1>8. CASE Assembly(i)
  <2>1. PICK ok \in BOOLEAN : Move(i, "upscale", Assembled(it, ok))
    BY <1>8 DEF Assembly
  <2>2. Assembled(it, ok) \in ItemStates
    BY <1>1, ProductionAssumption DEF Assembled, ItemStates
  <2>3. "upscale" \in Nodes /\ made' = made /\ retention' = retention
    BY <1>8 DEF Assembly, Nodes
  <2> QED
    BY <1>1, <2>1, <2>2, <2>3, MoveKeepsTypes
<1>9. CASE Upscale(i)
  <2>1. "written" \in Nodes /\ Move(i, "written", it) /\ made' = made /\ retention' = retention
    BY <1>9 DEF Upscale, Nodes
  <2> QED
    BY <1>1, <2>1, MoveKeepsTypes
<1>10. CASE Drop(i)
  <2>1. "written" \in Nodes /\ Move(i, "written", [it EXCEPT !.dropped = TRUE]) /\ made' = made
    BY <1>10 DEF Drop, Nodes
  <2>2. [it EXCEPT !.dropped = TRUE] \in ItemStates
    BY <1>1 DEF ItemStates
  <2>3. retention' \in [Objects -> Retention]
    BY <1>10, ClassifyTyped DEF Drop
  <2> QED
    BY <1>1, <2>1, <2>2, <2>3, MoveKeepsTypes
<1> QED
  BY <1>2, <1>5, <1>6, <1>7, <1>8, <1>9, <1>10 DEF ItemStep

-------------------------------------------------------------------------------
(* The items a node does not work on                                       *)

\* What a node of item i may change of the others: it adds to the clips bought, and
\* reclassifies objects of item i only.
OthersKept(i) ==
  /\ draft' = draft
  /\ made \subseteq made'
  /\ \A j \in Items \ {i} : at'[j] = at[j] /\ item'[j] = item[j]
  /\ \A o \in Objects : o.item # i => retention'[o] = retention[o]

\* Buying a clip of an item reclassifies at most that item's object.
LEMMA GenerateKeepsOthers ==
  ASSUME ProductionTypeOK, NEW i \in Items, NEW t \in Clips, t.item = i, NEW ts,
         GenerateClip(ts, t)
  PROVE  made \subseteq made' /\ \A o \in Objects : o.item # i => retention'[o] = retention[o]
BY ObjectsOfClips DEF ProductionTypeOK, GenerateClip

\* Classifying an item reclassifies only its own objects.
LEMMA ClassifyKeepsOthers ==
  ASSUME ProductionTypeOK, NEW i \in Items, OwnClips(i),
         NEW it, it.clips = item[i].clips, NEW o \in Objects, o.item # i
  PROVE  Classify(it)[o] = retention[o]
<1>1. o \notin Stored(it.clips)
  BY StoredAreOwn
<1> QED
  BY <1>1 DEF Classify

\* Every node works on its own item.
LEMMA ItemStepKeepsOthers ==
  ASSUME ProductionTypeOK, NEW i \in Items, ItemInv(i), ItemStep(i)
  PROVE  OthersKept(i)
<1>1. /\ draft' = draft
      /\ \A j \in Items \ {i} : at'[j] = at[j] /\ item'[j] = item[j]
  <2>1. \E node, u : Move(i, node, u)
    <3>1. CASE Voiceover(i) \/ Assembly(i) \/ Upscale(i) \/ Drop(i)
      BY <3>1, Zenon DEF Voiceover, Assembly, Upscale, Drop
    <3>2. CASE TalkingHead(i) \/ ProductDemo(i)
      <4>1. \E t, node : ClipDone(i, t, node) \/ ClipFailed(i, node)
        BY <3>2, Zenon DEF TalkingHead, ProductDemo
      <4> QED
        BY <4>1, Zenon DEF ClipDone, ClipFailed
    <3>3. CASE Qc(i)
      BY <3>3, Zenon DEF Qc
    <3> QED
      BY <3>1, <3>2, <3>3 DEF ItemStep
  <2> QED
    BY <2>1 DEF Move, ProductionTypeOK
<1>2. made \subseteq made' /\ \A o \in Objects : o.item # i => retention'[o] = retention[o]
  <2>1. CASE Voiceover(i) \/ Assembly(i) \/ Upscale(i)
    BY <2>1 DEF Voiceover, Assembly, Upscale
  <2>2. CASE TalkingHead(i)
    <3>1. Take(i, "talking_head") \in Clips /\ Take(i, "talking_head").item = i
      BY TakesAreTakes
    <3>2. \/ GenerateClip(HeadTakes(i), Take(i, "talking_head"))
          \/ made \subseteq made' /\ retention' = retention
      BY <2>2 DEF TalkingHead
    <3> QED
      BY <3>1, <3>2, GenerateKeepsOthers
  <2>3. CASE ProductDemo(i)
    <3>1. Take(i, "product_demo") \in Clips /\ Take(i, "product_demo").item = i
      BY TakesAreTakes
    <3>2. \/ GenerateClip({Take(i, "product_demo")}, Take(i, "product_demo"))
          \/ made' = made /\ retention' = retention
      BY <2>3 DEF ProductDemo
    <3> QED
      BY <3>1, <3>2, GenerateKeepsOthers
  <2>4. CASE Qc(i) \/ Drop(i)
    <3>1. made' = made /\ OwnClips(i) /\ item[i] \in ItemStates
      BY <2>4 DEF Qc, Drop, ItemInv, ProductionTypeOK
    <3>2. \/ retention' = retention
          \/ \E it : it.clips = item[i].clips /\ retention' = Classify(it)
      <4>1. /\ [item[i] EXCEPT !.qc = "passed"].clips = item[i].clips
            /\ [item[i] EXCEPT !.dropped = TRUE].clips = item[i].clips
        BY <3>1 DEF ItemStates
      <4> QED
        BY <2>4, <4>1 DEF Qc, Drop
    <3> QED
      BY <3>1, <3>2, ClassifyKeepsOthers
  <2> QED
    BY <2>1, <2>2, <2>3, <2>4 DEF ItemStep
<1> QED
  BY <1>1, <1>2 DEF OthersKept

\* An item no node works on keeps what it brings along.
LEMMA OthersStay ==
  ASSUME ProductionTypeOK, NEW i \in Items, OthersKept(i), NEW j \in Items \ {i}, ItemInv(j)
  PROVE  ItemInv(j)'
<1>1. /\ at'[j] = at[j] /\ item'[j] = item[j]
      /\ draft' = draft /\ made \subseteq made' /\ j \in Items
  BY DEF OthersKept
<1>2. \A s : Take(j, s)' = Take(j, s)
  BY <1>1 DEF Take
<1>3. OwnClips(j)
  BY DEF ItemInv
<1>4. \A o \in Stored(item[j].clips) : retention'[o] = retention[o]
  BY <1>1, <1>3, StoredAreOwn DEF OthersKept
<1>5. OwnClips(j)' /\ (Sound(j) => Sound(j)')
  BY <1>1, <1>3 DEF OwnClips, Sound
<1>6. HeadTaken(j) => HeadTaken(j)'
  BY <1>1, <1>2 DEF HeadTaken
<1>7. PairTaken(j) => PairTaken(j)'
  BY <1>1, <1>2 DEF PairTaken
<1>8. (KeptAsApproved(j) => KeptAsApproved(j)') /\ (KeptAsRejected(j) => KeptAsRejected(j)')
  BY <1>1, <1>4 DEF KeptAsApproved, KeptAsRejected
<1>9. Approved(j) => Approved(j)'
  BY <1>1, <1>7, <1>8 DEF Approved
<1> QED
  BY <1>1, <1>5, <1>6, <1>7, <1>8, <1>9 DEF ItemInv

-------------------------------------------------------------------------------
(* The item a node works on                                                *)

\* An item that has just started satisfies the invariant.
LEMMA NewItemInv ==
  ASSUME NEW i \in Items, item[i] = NewItem, at[i] = "voiceover"
  PROVE  ItemInv(i)
<1>1. Len(item[i].clips) = 0 /\ ~item[i].assembled /\ ~item[i].dropped /\ item[i].attempts = 0
  BY DEF NewItem
<1>2. OwnClips(i)
  BY <1>1 DEF OwnClips
<1> QED
  BY <1>1, <1>2, ProductionAssumption DEF ItemInv

\* node_voiceover.
LEMMA VoiceoverInv ==
  ASSUME ProductionTypeOK, NEW i \in Items, ItemInv(i), Voiceover(i)
  PROVE  ItemInv(i)'
<1>1. item[i] \in ItemStates /\ at \in [Items -> Nodes] /\ item \in [Items -> ItemStates]
  BY DEF ProductionTypeOK
<1>2. PICK ok \in BOOLEAN :
        Move(i, "talking_head", [item[i] EXCEPT !.voice = ok, !.error = ~ok])
  BY DEF Voiceover
<1>3. /\ at'[i] = "talking_head"
      /\ item'[i] = [item[i] EXCEPT !.voice = ok, !.error = ~ok]
  BY <1>1, <1>2 DEF Move
<1>4. /\ item'[i].clips = item[i].clips /\ item'[i].attempts = item[i].attempts
      /\ item'[i].assembled = item[i].assembled /\ item'[i].dropped = item[i].dropped
      /\ item'[i].voice = ok /\ item'[i].error = ~ok
  BY <1>1, <1>3 DEF ItemStates
<1>5. ~item[i].assembled /\ ~item[i].dropped /\ item[i].attempts < MaxAttempts /\ OwnClips(i)
  BY DEF ItemInv, Voiceover
<1>6. OwnClips(i)'
  BY <1>4, <1>5 DEF OwnClips
<1> QED
  BY <1>3, <1>4, <1>5, <1>6 DEF ItemInv

\* An item whose clip failed is written, with nothing delivered.
LEMMA FailedInv ==
  ASSUME ProductionTypeOK, NEW i \in Items, ItemInv(i), at[i] \in {"talking_head", "product_demo"},
         NEW node, ClipFailed(i, node)
  PROVE  ItemInv(i)'
<1>1. item[i] \in ItemStates /\ at \in [Items -> Nodes] /\ item \in [Items -> ItemStates]
  BY DEF ProductionTypeOK
<1>2. at'[i] = "written" /\ item'[i] = [item[i] EXCEPT !.error = TRUE]
  BY <1>1 DEF ClipFailed, AfterVideo, Move
<1>3. /\ item'[i].clips = item[i].clips /\ item'[i].attempts = item[i].attempts
      /\ item'[i].assembled = item[i].assembled /\ item'[i].dropped = item[i].dropped
  BY <1>1, <1>2 DEF ItemStates
<1>4. ~item[i].assembled /\ ~item[i].dropped /\ OwnClips(i)
  BY DEF ItemInv
<1>5. OwnClips(i)'
  BY <1>3, <1>4 DEF OwnClips
<1> QED
  BY <1>2, <1>3, <1>4, <1>5 DEF ItemInv

\* What a clip adds: it is the last one, and the one before it is what was the last.
LEMMA ClipDoneAppends ==
  ASSUME ProductionTypeOK, NEW i \in Items, OwnClips(i), NEW t \in Clips, t.item = i,
         NEW node, ClipDone(i, t, node)
  PROVE  LET c == item[i].clips
             d == item'[i].clips IN
         /\ at'[i] = IF item[i].error THEN "written" ELSE node
         /\ item'[i].attempts = item[i].attempts /\ item'[i].voice = item[i].voice
         /\ item'[i].error = item[i].error /\ item'[i].assembled = item[i].assembled
         /\ item'[i].dropped = item[i].dropped /\ draft' = draft
         /\ Len(c) \in Nat /\ Len(d) = Len(c) + 1 /\ d[Len(d)] = t
         /\ Len(c) >= 1 => d[Len(d) - 1] = c[Len(c)]
         /\ OwnClips(i)'
<1>1. item[i] \in ItemStates /\ at \in [Items -> Nodes] /\ item \in [Items -> ItemStates]
  BY DEF ProductionTypeOK
<1>2. /\ at'[i] = (IF item[i].error THEN "written" ELSE node) /\ draft' = draft
      /\ item'[i] = [item[i] EXCEPT !.clips = Append(@, t)]
  BY <1>1 DEF ClipDone, AfterVideo, Move
<1>3. /\ item'[i].clips = Append(item[i].clips, t)
      /\ item'[i].attempts = item[i].attempts /\ item'[i].voice = item[i].voice
      /\ item'[i].error = item[i].error /\ item'[i].assembled = item[i].assembled
      /\ item'[i].dropped = item[i].dropped
  BY <1>1, <1>2 DEF ItemStates
<1>4. item[i].clips \in Seq(Clips)
  BY <1>1 DEF ItemStates
<1>5. /\ Len(item[i].clips) \in Nat /\ Len(item'[i].clips) = Len(item[i].clips) + 1
      /\ item'[i].clips[Len(item[i].clips) + 1] = t
      /\ \A n \in 1..Len(item[i].clips) : item'[i].clips[n] = item[i].clips[n]
  BY <1>3, <1>4
<1>6. ASSUME NEW n \in 1..Len(item'[i].clips) PROVE item'[i].clips[n].item = i
  <2>1. n = Len(item[i].clips) + 1 \/ n \in 1..Len(item[i].clips)
    BY <1>5
  <2> QED
    BY <1>5, <2>1 DEF OwnClips
<1>7. OwnClips(i)'
  BY <1>6 DEF OwnClips
<1> QED
  BY <1>2, <1>3, <1>5, <1>7

\* make_gen_node and node_product_demo.
LEMMA ClipInv ==
  ASSUME ProductionTypeOK, NEW i \in Items, ItemInv(i), TalkingHead(i) \/ ProductDemo(i)
  PROVE  ItemInv(i)'
<1>1. /\ OwnClips(i) /\ ~item[i].assembled /\ ~item[i].dropped /\ item[i].attempts < MaxAttempts
      /\ item[i] \in ItemStates
  BY DEF ItemInv, TalkingHead, ProductDemo, ProductionTypeOK
<1>2. ASSUME NEW node, ClipFailed(i, node), at[i] \in {"talking_head", "product_demo"}
      PROVE  ItemInv(i)'
  BY <1>2, FailedInv
<1>3. ASSUME at[i] = "talking_head", NEW ts, Take(i, "talking_head") \in ts,
             GenerateClip(ts, Take(i, "talking_head")),
             ClipDone(i, Take(i, "talking_head"), "product_demo")
      PROVE  ItemInv(i)'
  <2> DEFINE t == Take(i, "talking_head")
             d == item'[i].clips
  <2>1. t \in Clips /\ t.item = i
    BY TakesAreTakes
  <2>2. /\ at'[i] = IF item[i].error THEN "written" ELSE "product_demo"
        /\ item'[i].attempts = item[i].attempts /\ item'[i].voice = item[i].voice
        /\ item'[i].error = item[i].error /\ item'[i].assembled = item[i].assembled
        /\ item'[i].dropped = item[i].dropped /\ draft' = draft
        /\ Len(d) >= 1 /\ d[Len(d)] = t
        /\ OwnClips(i)'
    BY <1>1, <1>3, <2>1, ClipDoneAppends
  <2>3. Take(i, "talking_head")' = t /\ t \in made'
    BY <1>3, <2>2 DEF Take, GenerateClip
  <2>4. HeadTaken(i)'
    BY <2>2, <2>3 DEF HeadTaken
  <2>5. ~item[i].error => Sound(i)'
    BY <1>3, <2>2 DEF ItemInv, Sound
  <2> QED
    BY <1>1, <2>2, <2>4, <2>5 DEF ItemInv
<1>4. ASSUME at[i] = "product_demo", GenerateClip({Take(i, "product_demo")}, Take(i, "product_demo")),
             ClipDone(i, Take(i, "product_demo"), "qc")
      PROVE  ItemInv(i)'
  <2> DEFINE t == Take(i, "product_demo")
             d == item'[i].clips
  <2>1. t \in Clips /\ t.item = i /\ HeadTaken(i) /\ Sound(i)
    BY <1>4, TakesAreTakes DEF ItemInv
  <2>2. /\ at'[i] = IF item[i].error THEN "written" ELSE "qc"
        /\ item'[i].attempts = item[i].attempts /\ item'[i].voice = item[i].voice
        /\ item'[i].error = item[i].error /\ item'[i].assembled = item[i].assembled
        /\ item'[i].dropped = item[i].dropped /\ draft' = draft
        /\ Len(d) >= 2 /\ d[Len(d)] = t
        /\ d[Len(d) - 1] = Take(i, "talking_head") /\ Take(i, "talking_head") \in made
        /\ OwnClips(i)'
    BY <1>1, <1>4, <2>1, ClipDoneAppends DEF HeadTaken
  <2>3. /\ Take(i, "product_demo")' = t /\ t \in made' /\ made \subseteq made'
        /\ Take(i, "talking_head")' = Take(i, "talking_head")
    BY <1>4, <2>2 DEF Take, GenerateClip
  <2>4. PairTaken(i)'
    BY <2>2, <2>3 DEF PairTaken
  <2>5. Sound(i)'
    BY <2>1, <2>2 DEF Sound
  <2> QED
    BY <1>1, <2>1, <2>2, <2>4, <2>5 DEF ItemInv, Sound
<1>5. CASE TalkingHead(i)
  <2>1. at[i] = "talking_head" /\ Take(i, "talking_head") \in HeadTakes(i)
    BY <1>5 DEF TalkingHead, HeadTakes
  <2>2. \/ ClipFailed(i, "product_demo")
        \/ /\ GenerateClip(HeadTakes(i), Take(i, "talking_head"))
           /\ ClipDone(i, Take(i, "talking_head"), "product_demo")
    BY <1>5 DEF TalkingHead
  <2> QED
    BY <1>2, <1>3, <2>1, <2>2
<1>6. CASE ProductDemo(i)
  <2>1. /\ at[i] = "product_demo"
        /\ \/ ClipFailed(i, "qc")
           \/ /\ GenerateClip({Take(i, "product_demo")}, Take(i, "product_demo"))
              /\ ClipDone(i, Take(i, "product_demo"), "qc")
    BY <1>6 DEF ProductDemo
  <2> QED
    BY <1>2, <1>4, <2>1
<1> QED
  BY <1>5, <1>6

\* What a verdict leaves behind when it classifies the item's takes.
LEMMA ClassifyOwn ==
  ASSUME ProductionTypeOK, NEW i \in Items, OwnClips(i), NEW it, it.clips = item[i].clips,
         NEW o \in Stored(item[i].clips)
  PROVE  /\ it.dropped => Classify(it)[o] = "rejected"
         /\ ~it.dropped =>
              Classify(it)[o] = IF IsLast(o, item[i].clips) THEN "keep" ELSE "intermediate"
<1>1. o \in Objects
  BY StoredAreOwn
<1> QED
  BY <1>1 DEF Classify

\* node_qc: an approved item goes on with its takes classified, a refused one comes back.
LEMMA QcInv ==
  ASSUME ProductionTypeOK, NEW i \in Items, ItemInv(i), Qc(i)
  PROVE  ItemInv(i)'
<1> DEFINE passed == [item[i] EXCEPT !.qc = "passed"]
           refused == [item[i] EXCEPT !.qc = "failed", !.attempts = @ + 1]
<1>1. item[i] \in ItemStates /\ at \in [Items -> Nodes] /\ item \in [Items -> ItemStates]
  BY DEF ProductionTypeOK
<1>2. /\ OwnClips(i) /\ ~item[i].assembled /\ ~item[i].dropped /\ Sound(i) /\ PairTaken(i)
      /\ made' = made
  BY DEF ItemInv, Qc
<1>3. CASE retention' = Classify(passed) /\ Move(i, "assembly", passed)
  <2>1. at'[i] = "assembly" /\ item'[i] = passed /\ draft' = draft
    BY <1>1, <1>3 DEF Move
  <2>2. /\ passed.clips = item[i].clips /\ passed.attempts = item[i].attempts
        /\ passed.voice = item[i].voice /\ passed.assembled = item[i].assembled
        /\ passed.dropped = item[i].dropped /\ passed.qc = "passed"
    BY <1>1 DEF ItemStates
  <2>3. OwnClips(i)'
    BY <1>2, <2>1, <2>2 DEF OwnClips
  <2>4. \A s : Take(i, s)' = Take(i, s)
    BY <2>1, <2>2 DEF Take
  <2>5. PairTaken(i)'
    BY <1>2, <2>1, <2>2, <2>4 DEF PairTaken
  <2>6. \A o \in Stored(item[i].clips) :
          retention'[o] = IF IsLast(o, item[i].clips) THEN "keep" ELSE "intermediate"
    <3> HIDE DEF passed
    <3>1. \A o \in Stored(item[i].clips) :
            Classify(passed)[o] = IF IsLast(o, item[i].clips) THEN "keep" ELSE "intermediate"
      BY <1>2, <2>2, ClassifyOwn
    <3> QED
      BY <1>3, <3>1
  <2>7. KeptAsApproved(i)'
    BY <2>1, <2>2, <2>6 DEF KeptAsApproved
  <2>8. Approved(i)'
    BY <1>2, <2>1, <2>2, <2>5, <2>7 DEF Approved, Sound
  <2> QED
    BY <1>2, <2>1, <2>2, <2>3, <2>8 DEF ItemInv
<1>4. CASE Move(i, AfterQc(refused.attempts), refused)
  <2>1. at'[i] = AfterQc(refused.attempts) /\ item'[i] = refused
    BY <1>1, <1>4 DEF Move
  <2>2. /\ refused.clips = item[i].clips /\ refused.voice = item[i].voice
        /\ refused.error = item[i].error /\ refused.assembled = item[i].assembled
        /\ refused.dropped = item[i].dropped
    BY <1>1 DEF ItemStates
  <2>3. OwnClips(i)'
    BY <1>2, <2>1, <2>2 DEF OwnClips
  <2>4. \/ at'[i] = "talking_head" /\ item'[i].attempts < MaxAttempts
        \/ at'[i] = "drop"
    BY <2>1 DEF AfterQc
  <2>5. item'[i].voice <=> ~item'[i].error
    BY <1>2, <2>1, <2>2 DEF Sound
  <2> QED
    BY <1>2, <2>1, <2>2, <2>3, <2>4, <2>5 DEF ItemInv
<1> QED
  BY <1>3, <1>4 DEF Qc

\* node_assembly, node_upscale and node_drop.
LEMMA EndInv ==
  ASSUME ProductionTypeOK, NEW i \in Items, ItemInv(i), Assembly(i) \/ Upscale(i) \/ Drop(i)
  PROVE  ItemInv(i)'
<1>1. item[i] \in ItemStates /\ at \in [Items -> Nodes] /\ item \in [Items -> ItemStates]
  BY DEF ProductionTypeOK
<1>2. OwnClips(i) /\ made' = made
  BY DEF ItemInv, Assembly, Upscale, Drop
<1>3. ASSUME Approved(i), retention' = retention, draft' = draft,
             item'[i].clips = item[i].clips, item'[i].attempts = item[i].attempts,
             item'[i].voice = item[i].voice, item'[i].dropped = item[i].dropped,
             item'[i].qc = item[i].qc, at'[i] \in {"upscale", "written"}
      PROVE  ItemInv(i)'
  <2>1. \A s : Take(i, s)' = Take(i, s)
    BY <1>3 DEF Take
  <2>2. OwnClips(i)' /\ PairTaken(i)'
    BY <1>2, <1>3, <2>1 DEF OwnClips, PairTaken, Approved
  <2>3. KeptAsApproved(i)'
    BY <1>3 DEF KeptAsApproved, Approved
  <2>4. Approved(i)'
    BY <1>3, <2>2, <2>3 DEF Approved
  <2>5. ~item'[i].dropped
    BY <1>3 DEF Approved
  <2> QED
    BY <1>3, <2>2, <2>4, <2>5 DEF ItemInv
<1>4. CASE Assembly(i)
  <2>1. PICK ok \in BOOLEAN : Move(i, "upscale", Assembled(item[i], ok))
    BY <1>4 DEF Assembly
  <2>2. at'[i] = "upscale" /\ item'[i] = Assembled(item[i], ok) /\ draft' = draft
    BY <1>1, <2>1 DEF Move
  <2>3. /\ item'[i].clips = item[i].clips /\ item'[i].attempts = item[i].attempts
        /\ item'[i].voice = item[i].voice /\ item'[i].dropped = item[i].dropped
        /\ item'[i].qc = item[i].qc
    BY <1>1, <2>2 DEF Assembled, ItemStates
  <2>4. Approved(i) /\ retention' = retention
    BY <1>4 DEF Assembly, ItemInv
  <2> QED
    BY <1>3, <2>2, <2>3, <2>4
<1>5. CASE Upscale(i)
  <2>1. at'[i] = "written" /\ item'[i] = item[i] /\ draft' = draft
    BY <1>1, <1>5 DEF Upscale, Move
  <2>2. Approved(i) /\ retention' = retention
    BY <1>5 DEF Upscale, ItemInv
  <2> QED
    BY <1>3, <2>1, <2>2
<1>6. CASE Drop(i)
  <2> DEFINE dropped == [item[i] EXCEPT !.dropped = TRUE]
  <2>1. at'[i] = "written" /\ item'[i] = dropped /\ retention' = Classify(dropped)
    BY <1>1, <1>6 DEF Drop, Move
  <2>2. /\ dropped.clips = item[i].clips /\ dropped.assembled = item[i].assembled
        /\ dropped.dropped
    BY <1>1 DEF ItemStates
  <2>3. ~item[i].assembled
    BY <1>6 DEF Drop, ItemInv
  <2>4. OwnClips(i)'
    BY <1>2, <2>1, <2>2 DEF OwnClips
  <2>5. \A o \in Stored(item[i].clips) : retention'[o] = "rejected"
    <3> HIDE DEF dropped
    <3>1. \A o \in Stored(item[i].clips) : Classify(dropped)[o] = "rejected"
      BY <1>2, <2>2, ClassifyOwn
    <3> QED
      BY <2>1, <3>1
  <2>6. KeptAsRejected(i)'
    BY <2>1, <2>2, <2>5 DEF KeptAsRejected
  <2> QED
    BY <2>1, <2>2, <2>3, <2>4, <2>6 DEF ItemInv
<1> QED
  BY <1>4, <1>5, <1>6

\* Every node keeps the invariant of the item it works on.
LEMMA ItemStepInv ==
  ASSUME ProductionTypeOK, NEW i \in Items, ItemInv(i), ItemStep(i)
  PROVE  ItemInv(i)'
BY VoiceoverInv, ClipInv, QcInv, EndInv DEF ItemStep

-------------------------------------------------------------------------------
(* The batch graph and the job                                             *)

\* The invariant at the start.
LEMMA ProductionInvInit == Init => ProductionInv
<1> SUFFICES ASSUME Init PROVE ProductionInv
  OBVIOUS
<1>1. ProductionTypeOK
  BY NewItemTyped, ProductionAssumption DEF Init, ProductionTypeOK, Nodes, Retention
<1>2. \A i \in Items : ItemInv(i)
  BY NewItemInv DEF Init
<1>3. ResultsInv
  BY DEF Init, ResultsInv, OneResultPerItem
<1> QED
  BY <1>1, <1>2, <1>3 DEF ProductionInv

\* A node leaves the results alone: it runs before the join.
LEMMA ItemStepResults ==
  ASSUME ResultsInv, NEW i \in Items, ItemStep(i)
  PROVE  ResultsInv'
<1>1. step = "produce" /\ step' = step /\ results' = results /\ kind' = kind
  <2>1. CASE Voiceover(i) \/ Assembly(i) \/ Upscale(i) \/ Drop(i) \/ Qc(i)
    BY <2>1 DEF Voiceover, Assembly, Upscale, Drop, Qc, Move
  <2>2. CASE TalkingHead(i) \/ ProductDemo(i)
    BY <2>2 DEF TalkingHead, ProductDemo, ClipDone, ClipFailed, Move
  <2> QED
    BY <2>1, <2>2 DEF ItemStep
<1> QED
  BY <1>1 DEF ResultsInv, OneResultPerItem

\* The steps of the batch graph that leave the items where they are.
LEMMA ItemsUnchanged ==
  ASSUME \A i \in Items : ItemInv(i), UNCHANGED <<at, item, draft, made, retention>>
  PROVE  \A i \in Items : ItemInv(i)'
BY DEF ItemInv, OwnClips, HeadTaken, PairTaken, Take, KeptAsApproved, KeptAsRejected, Sound,
       Approved

\* The items that had returned keep their writes, and the others start over, when the
\* thread continues in another attempt of the job.
LEMMA ResumeJobInv ==
  ASSUME ProductionInv, ResumeJob
  PROVE  ProductionInv'
<1> USE DEF ProductionInv
<1>1. ProductionTypeOK'
  BY NewItemTyped, ProductionAssumption DEF ResumeJob, ProductionTypeOK, Nodes
<1>2. ASSUME NEW i \in Items PROVE ItemInv(i)'
  <2>1. CASE at[i] = "written"
    <3>1. at'[i] = at[i] /\ item'[i] = item[i]
      BY <2>1 DEF ResumeJob
    <3>2. UNCHANGED <<draft, made, retention>>
      BY DEF ResumeJob
    <3> QED
      BY <3>1, <3>2 DEF ItemInv, OwnClips, HeadTaken, PairTaken, Take, KeptAsApproved,
                        KeptAsRejected, Sound, Approved
  <2>2. CASE at[i] # "written"
    <3>1. (at[i] = "voiceover")' /\ (item[i] = NewItem)'
      BY <2>2 DEF ResumeJob, NewItem
    <3>2. (at[i] = "voiceover" /\ item[i] = NewItem => ItemInv(i))'
      BY NewItemInv, PTL
    <3> QED
      BY <3>1, <3>2
  <2> QED
    BY <2>1, <2>2
<1>3. ResultsInv'
  <2>1. CASE step = "produce"
    BY <2>1 DEF ResumeJob, ResultsInv, OneResultPerItem
  <2>2. CASE step # "produce"
    <3>1. step \in {"feedback", "ended"} /\ \A i \in Items : at[i] = "written"
      BY <2>2 DEF ResumeJob, Running, ResultsInv
    <3>2. \A i \in Items : at'[i] = "written" /\ item'[i] = item[i]
      BY <3>1 DEF ResumeJob
    <3> QED
      BY <3>1, <3>2 DEF ResumeJob, ResultsInv, OneResultPerItem, Outcome
  <2> QED
    BY <2>1, <2>2
<1> QED
  BY <1>1, <1>2, <1>3

\* A restarted graph works on new items; only an execute_run job restarts it.
LEMMA RestartJobInv ==
  ASSUME ProductionInv, RestartJob
  PROVE  ProductionInv'
<1> USE DEF ProductionInv
<1>1. ProductionTypeOK'
  BY NewItemTyped, ProductionAssumption DEF RestartJob, ProductionTypeOK, Nodes
<1>2. ASSUME NEW i \in Items PROVE ItemInv(i)'
  <2>1. (at[i] = "voiceover")' /\ (item[i] = NewItem)'
    BY DEF RestartJob, NewItem
  <2>2. (at[i] = "voiceover" /\ item[i] = NewItem => ItemInv(i))'
    BY NewItemInv, PTL
  <2> QED
    BY <2>1, <2>2
<1>3. ResultsInv'
  BY DEF RestartJob, ResultsInv, OneResultPerItem
<1> QED
  BY <1>1, <1>2, <1>3

\* The invariant is inductive.
LEMMA ProductionInvStep == ProductionInv /\ [Next]_vars => ProductionInv'
<1> SUFFICES ASSUME ProductionInv, [Next]_vars PROVE ProductionInv'
  OBVIOUS
<1> USE DEF ProductionInv
<1>1. ASSUME NEW i \in Items, ItemStep(i) PROVE ProductionInv'
  <2>1. ProductionTypeOK'
    BY <1>1, ItemStepTypes
  <2>2. ASSUME NEW j \in Items PROVE ItemInv(j)'
    <3>1. CASE j = i
      BY <1>1, <3>1, ItemStepInv
    <3>2. CASE j # i
      BY <1>1, <3>2, ItemStepKeepsOthers, OthersStay
    <3> QED
      BY <3>1, <3>2
  <2>3. ResultsInv'
    BY <1>1, ItemStepResults
  <2> QED
    BY <2>1, <2>2, <2>3
<1>2. CASE Join
  <2>1. \A i \in Items : Outcome(item[i]) \in Outcomes
    BY DEF Outcome, Outcomes
  <2>2. ProductionTypeOK'
    BY <1>2, <2>1 DEF Join, ProductionTypeOK
  <2>3. \A i \in Items : ItemInv(i)'
    BY <1>2, ItemsUnchanged DEF Join
  <2>4. ASSUME NEW i \in Items, results[i] = << >> PROVE results'[i] = <<Outcome(item[i])>>
    <3>1. results'[i] = Append(<< >>, Outcome(item[i]))
      BY <1>2, <2>4 DEF Join
    <3>2. \A x : Append(<< >>, x) = <<x>>
      OBVIOUS
    <3> QED
      BY <3>1, <3>2
  <2>5. ResultsInv'
    BY <1>2, <2>4 DEF Join, ResultsInv, OneResultPerItem, Outcome
  <2> QED
    BY <2>2, <2>3, <2>5
<1>3. CASE Feedback \/ Complete \/ GiveUp
  <2>1. ProductionTypeOK'
    BY <1>3 DEF Feedback, Complete, GiveUp, ProductionTypeOK
  <2>2. \A i \in Items : ItemInv(i)'
    BY <1>3, ItemsUnchanged DEF Feedback, Complete, GiveUp
  <2>3. ResultsInv'
    BY <1>3 DEF Feedback, Complete, GiveUp, ResultsInv, OneResultPerItem, Outcome
  <2> QED
    BY <2>1, <2>2, <2>3
<1>4. CASE UNCHANGED vars
  <2>1. ProductionTypeOK' /\ ResultsInv'
    BY <1>4 DEF vars, ProductionTypeOK, ResultsInv, OneResultPerItem, Outcome
  <2>2. \A i \in Items : ItemInv(i)'
    BY <1>4, ItemsUnchanged DEF vars
  <2> QED
    BY <2>1, <2>2
<1> QED
  BY <1>1, <1>2, <1>3, <1>4, ResumeJobInv, RestartJobInv DEF Next, Over

-------------------------------------------------------------------------------
(* Theorems                                                                *)

\* Where an item is in its graph says what it brings along, and the results channel is
\* written once by a thread that is only ever continued.
THEOREM ProductionInvariant == Spec => []ProductionInv
BY ProductionInvInit, ProductionInvStep, PTL DEF Spec

\* What is delivered passed QC, is narrated, and is cut from the two bought clips of the
\* attempt that passed, for every setting of lip sync and of the assembly fallback.
THEOREM DeliveredWasApprovedHolds == Spec => []DeliveredWasApproved
<1>1. ProductionInv => DeliveredWasApproved
  BY DEF ProductionInv, ItemInv, Approved, PairTaken, DeliveredWasApproved
<1> QED
  BY <1>1, ProductionInvariant, PTL

\* The classes classify_item_retention leaves follow the verdict the item ended with, no
\* matter what earlier attempts and drafts had left on the same objects.
THEOREM RetentionFollowsVerdictHolds == Spec => []RetentionFollowsVerdict
<1>1. ProductionInv => RetentionFollowsVerdict
  BY DEF ProductionInv, ItemInv, Approved, KeptAsApproved, KeptAsRejected,
         RetentionFollowsVerdict
<1> QED
  BY <1>1, ProductionInvariant, PTL

\* A resumed run has every item in its results once, however often its job was retried.
THEOREM OneResultPerItemHolds == Spec => []OneResultPerItem
<1>1. ProductionInv => OneResultPerItem
  BY DEF ProductionInv, ResultsInv
<1> QED
  BY <1>1, ProductionInvariant, PTL

===============================================================================
