------------------------------ MODULE GraphProofs ------------------------------
(***************************************************************************)
(* What GET /api/state shows of a durable run is true of it (GraphEvents,  *)
(* as RunApi runs it), for any number of items, attempts, failures and     *)
(* chains inside nodes: a stage shown as completed was completed, a node   *)
(* that executes is shown, and the report of a finished run adds up.       *)
(*                                                                         *)
(* First the fold of build_progress, one lemma per kind of event; then the *)
(* steps of the graph, by what they report; then the three properties,     *)
(* each from GraphInv alone.                                               *)
(***************************************************************************)
EXTENDS RunApi, FiniteSetTheorems, TLAPS

-------------------------------------------------------------------------------
(* The topology, the fold and the translator                               *)

\* The stages and nodes of topology.py.
LEMMA Topology ==
  /\ Leaves = {"review", "assembly", "concepts", "scripts", "creator_profiles",
               "creator_previews", "talking_head", "product_demo", "qc"}
  /\ Leaves \subseteq Stages /\ ItemStages \subseteq Leaves
  /\ \A s \in Leaves : Children[s] = {}
  /\ Children["creative_plan"] = {"concepts", "scripts", "creator_profiles", "creator_previews"}
  /\ Children["production"] = {"talking_head", "product_demo", "qc"}
<1>1. Stages = {"setup", "creative_plan", "review", "production", "assembly", "concepts",
                "scripts", "creator_profiles", "creator_previews", "talking_head",
                "product_demo", "qc"}
  BY DEF Stages, Parent
<1>2. \A s \in Stages : Children[s] = {t \in Stages : Parent[t] = s}
  BY DEF Children
<1>3. /\ Parent["setup"] = "" /\ Parent["creative_plan"] = "" /\ Parent["review"] = ""
      /\ Parent["production"] = "" /\ Parent["assembly"] = ""
      /\ Parent["concepts"] = "creative_plan" /\ Parent["scripts"] = "creative_plan"
      /\ Parent["creator_profiles"] = "creative_plan"
      /\ Parent["creator_previews"] = "creative_plan"
      /\ Parent["talking_head"] = "production" /\ Parent["product_demo"] = "production"
      /\ Parent["qc"] = "production"
  BY DEF Parent
<1>4. \A t \in Stages : Parent[t] \in {"", "creative_plan", "production"}
  BY <1>1, <1>3
<1>5. \A s \in Stages \ {"creative_plan", "production"} : Children[s] = {}
  <2> SUFFICES ASSUME NEW s \in Stages \ {"creative_plan", "production"}, NEW t \in Children[s]
               PROVE  FALSE
    OBVIOUS
  <2>1. t \in Stages /\ Parent[t] = s
    BY <1>2
  <2>2. s \in {"", "creative_plan", "production"}
    BY <2>1, <1>4
  <2> QED
    BY <2>2, <1>1
<1>6. Children["creative_plan"] = {"concepts", "scripts", "creator_profiles", "creator_previews"}
  <2>1. "creative_plan" \in Stages
    BY <1>1
  <2>2. Children["creative_plan"] = {t \in Stages : Parent[t] = "creative_plan"}
    BY <2>1, <1>2
  <2>3. \A t \in Stages : Parent[t] = "creative_plan" <=>
          t \in {"concepts", "scripts", "creator_profiles", "creator_previews"}
    BY <1>1, <1>3
  <2>4. {"concepts", "scripts", "creator_profiles", "creator_previews"} \subseteq Stages
    BY <1>1
  <2> QED
    BY <2>2, <2>3, <2>4
<1>7. Children["production"] = {"talking_head", "product_demo", "qc"}
  <2>1. "production" \in Stages
    BY <1>1
  <2>2. Children["production"] = {t \in Stages : Parent[t] = "production"}
    BY <2>1, <1>2
  <2>3. \A t \in Stages : Parent[t] = "production" <=> t \in {"talking_head", "product_demo", "qc"}
    BY <1>1, <1>3
  <2>4. {"talking_head", "product_demo", "qc"} \subseteq Stages
    BY <1>1
  <2> QED
    BY <2>2, <2>3, <2>4
<1>8. Leaves = Stages \ {"creative_plan", "production", "setup"}
  BY <1>1, <1>5, <1>6, <1>7 DEF Leaves
<1> QED
  BY <1>1, <1>5, <1>6, <1>7, <1>8 DEF ItemStages

\* A stage with a parent is a child of it.
LEMMA ParentStage ==
  ASSUME NEW s \in Leaves, Parent[s] # ""
  PROVE  Parent[s] \in Stages /\ s \in Children[Parent[s]] /\ s # "review"
<1>1. s \in Stages /\ "creative_plan" \in Stages /\ "production" \in Stages
  BY DEF Leaves, Stages, Parent
<1>2. Parent[s] \in {"creative_plan", "production"} /\ s # "review"
  <2>1. s \in {"review", "assembly", "concepts", "scripts", "creator_profiles",
               "creator_previews", "talking_head", "product_demo", "qc"}
    BY Topology
  <2>2. Parent["review"] = "" /\ Parent["assembly"] = ""
    BY DEF Parent
  <2>3. /\ Parent["concepts"] = "creative_plan" /\ Parent["scripts"] = "creative_plan"
        /\ Parent["creator_profiles"] = "creative_plan"
        /\ Parent["creator_previews"] = "creative_plan"
        /\ Parent["talking_head"] = "production" /\ Parent["product_demo"] = "production"
        /\ Parent["qc"] = "production"
    BY DEF Parent
  <2> QED
    BY <2>1, <2>2, <2>3
<1> QED
  BY <1>1, <1>2 DEF Children

\* Which stage a node reports for, and whether its end completes a unit of it.
LEMMA NodesOfStages ==
  /\ \A node \in DOMAIN NodeStage : NodeStage[node] \in Stages \ {"setup", "creative_plan"}
  /\ Drafting \subseteq DOMAIN NodeStage
  /\ \A node \in Drafting : NodeStage[node] \in DraftStages /\ Terminal(node)
  /\ ItemNodes \subseteq DOMAIN NodeStage
  /\ \A node \in ItemNodes : NodeStage[node] \in ItemStages
  /\ "process_item" \in DOMAIN NodeStage /\ NodeStage["process_item"] = "production"
<1>1. DOMAIN NodeStage = {"concepts", "scripts", "creator_profiles", "roster", "review",
        "process_item", "voiceover", "ltx", "kling", "product_demo", "qc", "drop", "assembly",
        "upscale"}
  BY DEF NodeStage
<1>2. /\ NodeStage["concepts"] = "concepts" /\ NodeStage["scripts"] = "scripts"
      /\ NodeStage["creator_profiles"] = "creator_profiles"
      /\ NodeStage["roster"] = "creator_previews" /\ NodeStage["review"] = "review"
      /\ NodeStage["process_item"] = "production" /\ NodeStage["voiceover"] = "assembly"
      /\ NodeStage["ltx"] = "talking_head" /\ NodeStage["kling"] = "talking_head"
      /\ NodeStage["product_demo"] = "product_demo" /\ NodeStage["qc"] = "qc"
      /\ NodeStage["drop"] = "qc" /\ NodeStage["assembly"] = "assembly"
      /\ NodeStage["upscale"] = "assembly"
  BY DEF NodeStage
<1>3. Stages = {"setup", "creative_plan", "review", "production", "assembly", "concepts",
                "scripts", "creator_profiles", "creator_previews", "talking_head",
                "product_demo", "qc"}
  BY DEF Stages, Parent
<1> QED
  BY <1>1, <1>2, <1>3, Topology DEF Drafting, ItemNodes, DraftStages, ItemStages, Terminal

\* The units of a batch are finitely many.
LEMMA UnitsAreFinite ==
  IsFiniteSet(Units) /\ \A S \in SUBSET Units : IsFiniteSet(S) /\ Cardinality(S) \in Nat
<1>1. IsFiniteSet(Units)
  BY ProgressAssumption, FS_AddElement DEF Units
<1> QED
  BY <1>1, FS_Subset, FS_CardinalityType

\* An open operation tells its stage by its name.
LEMMA OperationNames ==
  ASSUME NEW k \in Nat, NEW m \in FoldsOf(k), NEW a \in m.active
  PROVE  \E node \in DOMAIN NodeStage, i \in Units, j \in 0..k :
           /\ a = Operation(node, i, j)
           /\ a.op = <<node, i, j>> /\ a.stage = NodeStage[node] /\ a.item = i
<1>1. m.active \subseteq {Operation(node, i, j) :
                           node \in DOMAIN NodeStage, i \in Units, j \in 0..k}
  BY DEF FoldsOf
<1> QED
  BY <1>1 DEF Operation

LEMMA FreshFold ==
  Fresh \in FoldsOf(0) /\ FoldIsTrue(Fresh, {})
<1>1. Fresh \in FoldsOf(0)
  BY UnitsAreFinite, ProgressAssumption, FS_CardinalityType DEF Fresh, FoldsOf
<1>2. ItemStages \subseteq Stages /\ ItemStages \subseteq PerItem /\ DraftStages \subseteq Stages
  BY Topology DEF ItemStages, PerItem, DraftStages
<1>3. Cardinality({}) = 0
  BY FS_EmptySet
<1> QED
  BY <1>1, <1>2, <1>3 DEF Fresh, FoldIsTrue

\* A start opens its operation, and leaves the truth of a fold as it was.
LEMMA StartFold ==
  ASSUME NEW k \in Nat, NEW m \in FoldsOf(k), NEW P, FoldIsTrue(m, P),
         NEW node \in DOMAIN NodeStage, NEW i \in Units, NEW e,
         e.life = "started", e.stage = NodeStage[node], e.op = <<node, i, k>>, e.item = i
  PROVE  /\ Apply(m, e) \in FoldsOf(k)
         /\ FoldIsTrue(Apply(m, e), P)
         /\ Apply(m, e).active = Others(m, <<node, i, k>>) \cup {Operation(node, i, k)}
<1> DEFINE s == NodeStage[node]
           A == Others(m, <<node, i, k>>) \cup {Operation(node, i, k)}
           r == [m EXCEPT !.status[s] = "running", !.active = A]
<1>1. Apply(m, e) = r
  BY DEF Apply, Operation
<1>2. s \in Stages
  BY NodesOfStages
<1>3. r = [status |-> [m.status EXCEPT ![s] = "running"], done |-> m.done, total |-> m.total,
           units |-> m.units, active |-> A]
  <2> HIDE DEF A, s
  <2>1. m = [status |-> m.status, done |-> m.done, total |-> m.total, units |-> m.units,
             active |-> m.active]
    BY DEF FoldsOf
  <2> DEFINE q == [m EXCEPT !.status[s] = "running"]
  <2>2. q = [status |-> [m.status EXCEPT ![s] = "running"], done |-> m.done, total |-> m.total,
             units |-> m.units, active |-> m.active]
    BY <2>1
  <2>3. r = [q EXCEPT !.active = A]
    BY <2>1
  <2> HIDE DEF q, r
  <2> QED
    BY <2>2, <2>3
<1>4. A \subseteq {Operation(n, j, h) : n \in DOMAIN NodeStage, j \in Units, h \in 0..k}
  BY DEF FoldsOf, Others
<1> HIDE DEF A, r
<1>5. r \in FoldsOf(k)
  BY <1>2, <1>3, <1>4 DEF FoldsOf
<1>6. \A t \in Stages : r.status[t] = IF t = s THEN "running" ELSE m.status[t]
  BY <1>2, <1>3 DEF FoldsOf
<1>7. ASSUME NEW a \in m.active
      PROVE  \E b \in A : b.stage = a.stage
  <2>1. PICK n \in DOMAIN NodeStage, j \in Units, h \in 0..k :
          a.op = <<n, j, h>> /\ a.stage = NodeStage[n]
    BY OperationNames
  <2>2. CASE a.op = <<node, i, k>>
    <3>1. n = node
      BY <2>1, <2>2
    <3>2. Operation(node, i, k) \in A /\ Operation(node, i, k).stage = NodeStage[node]
      BY DEF A, Operation
    <3> QED
      BY <2>1, <3>1, <3>2
  <2>3. CASE a.op # <<node, i, k>>
    BY <2>3 DEF A, Others
  <2> QED
    BY <2>2, <2>3
<1>8. Operation(node, i, k) \in A /\ Operation(node, i, k).stage = s
  BY DEF A, Operation
<1>9. ItemStages \subseteq Stages /\ DraftStages \subseteq Stages
  BY Topology DEF DraftStages
<1>10. r.units = m.units /\ r.done = m.done /\ r.total = m.total /\ r.active = A
  BY <1>3
<1>11. FoldIsTrue(r, P)
  <2>1. ASSUME NEW t \in ItemStages
        PROVE  /\ r.units[t] = {j \in Items : <<t, j>> \in P}
               /\ r.done[t] = Cardinality(r.units[t])
               /\ r.total[t] = Cardinality(Items)
               /\ r.status[t] # "completed"
    BY <1>6, <1>9, <1>10 DEF FoldIsTrue
  <2>2. ASSUME NEW t \in DraftStages
        PROVE  \/ \E a \in r.active : a.stage = t
               \/ <<t, NoItem>> \in P
               \/ r.done[t] = 0 /\ r.status[t] = "pending"
    BY <1>6, <1>7, <1>8, <1>9, <1>10 DEF FoldIsTrue
  <2> QED
    BY <2>1, <2>2 DEF FoldIsTrue
<1> QED
  BY <1>1, <1>5, <1>10, <1>11 DEF A

\* r is m with unit i of stage s counted.
OneMore(r, m, s, i) ==
  /\ r.units[s] = m.units[s] \cup {i}
  /\ r.done[s] = Cardinality(r.units[s])

\* Counting a unit touches its stage alone.
LEMMA CountedFold ==
  ASSUME NEW k \in Nat, NEW m \in FoldsOf(k), NEW e, NEW s \in Stages, NEW i \in Units,
         e.stage = s, e.item = i, NEW r, r = Counted(m, e)
  PROVE  /\ r \in FoldsOf(k)
         /\ r.status = m.status /\ r.total = m.total /\ r.active = m.active
         /\ \A t \in Stages \ {s} : r.units[t] = m.units[t] /\ r.done[t] = m.done[t]
         /\ i # NoItem => OneMore(r, m, s, i)
<1> DEFINE u == m.units[s] \cup {i}
           n == Cardinality(u)
<1>1. m = [status |-> m.status, done |-> m.done, total |-> m.total, units |-> m.units,
           active |-> m.active]
  BY DEF FoldsOf
<1>2. m.done \in [Stages -> Nat] /\ m.total \in [Stages -> Nat] /\ m.units \in [Stages -> SUBSET Units]
      /\ m.status \in [Stages -> {"pending", "running", "completed"}]
  BY DEF FoldsOf
<1>3. u \in SUBSET Units /\ n \in Nat
  <2>1. u \in SUBSET Units
    BY <1>2
  <2> QED
    BY <2>1, UnitsAreFinite
<1>4. CASE i = NoItem /\ m.total[s] > 1
  <2>1. r = [m EXCEPT !.done[s] = m.total[s]]
    BY <1>4 DEF Counted
  <2>2. r = [status |-> m.status, done |-> [m.done EXCEPT ![s] = m.total[s]], total |-> m.total,
             units |-> m.units, active |-> m.active]
    BY <2>1, <1>1
  <2>3. r \in FoldsOf(k)
    <3>1. [m.done EXCEPT ![s] = m.total[s]] \in [Stages -> Nat]
      BY <1>2
    <3> QED
      BY <2>2, <3>1 DEF FoldsOf
  <2>4. \A t \in Stages \ {s} : r.units[t] = m.units[t] /\ r.done[t] = m.done[t]
    BY <2>2, <1>2
  <2> QED
    BY <2>2, <2>3, <2>4, <1>4
<1>5. CASE ~(i = NoItem /\ m.total[s] > 1)
  <2>1. r = [m EXCEPT !.units[s] = u, !.done[s] = n]
    BY <1>5 DEF Counted
  <2> HIDE DEF u, n
  <2> DEFINE q == [m EXCEPT !.units[s] = u]
  <2>2. q = [status |-> m.status, done |-> m.done, total |-> m.total,
             units |-> [m.units EXCEPT ![s] = u], active |-> m.active]
    BY <1>1
  <2>3. r = [q EXCEPT !.done[s] = n]
    BY <2>1, <1>1
  <2> HIDE DEF q
  <2>4. r = [status |-> m.status, done |-> [m.done EXCEPT ![s] = n], total |-> m.total,
             units |-> [m.units EXCEPT ![s] = u], active |-> m.active]
    BY <2>2, <2>3
  <2>5. r \in FoldsOf(k)
    <3>1. /\ [m.done EXCEPT ![s] = n] \in [Stages -> Nat]
          /\ [m.units EXCEPT ![s] = u] \in [Stages -> SUBSET Units]
      BY <1>2, <1>3
    <3> QED
      BY <2>4, <3>1 DEF FoldsOf
  <2>6. \A t \in Stages \ {s} : r.units[t] = m.units[t] /\ r.done[t] = m.done[t]
    BY <2>4, <1>2
  <2>7. r.units[s] = u /\ r.done[s] = n
    BY <2>4, <1>2
  <2> QED
    BY <2>4, <2>5, <2>6, <2>7 DEF u, n, OneMore
<1> QED
  BY <1>4, <1>5

LEMMA PoppedFold ==
  ASSUME NEW k \in Nat, NEW m \in FoldsOf(k), NEW A \in SUBSET m.active
  PROVE  LET r == [m EXCEPT !.active = A] IN
         /\ r \in FoldsOf(k)
         /\ r.status = m.status /\ r.done = m.done /\ r.total = m.total /\ r.units = m.units
         /\ r.active = A
BY DEF FoldsOf

\* An end closes its own operation and no other, and counts what has passed.
LEMMA EndFold ==
  ASSUME NEW k \in Nat, NEW m \in FoldsOf(k), NEW P, FoldIsTrue(m, P),
         NEW node \in DOMAIN NodeStage, NEW i \in Units,
         \/ node \in Drafting /\ i = NoItem
         \/ node \in ItemNodes \cup {"process_item"} /\ i \in Items,
         NEW e, e.life = "completed", e.node = node, e.stage = NodeStage[node],
         e.op = <<node, i, k>>, e.item = i
  PROVE  /\ Apply(m, e) \in FoldsOf(k)
         /\ FoldIsTrue(Apply(m, e),
                       P \cup (IF Terminal(node) THEN {<<NodeStage[node], i>>} ELSE {}))
         /\ Apply(m, e).active = Others(m, <<node, i, k>>)
<1> DEFINE s == NodeStage[node]
           A == Others(m, <<node, i, k>>)
           p == [m EXCEPT !.active = A]
           r == Apply(m, e)
           Q == P \cup (IF Terminal(node) THEN {<<s, i>>} ELSE {})
<1>1. r = IF Terminal(node) THEN Counted(p, e) ELSE p
  BY DEF Apply
<1>2. A \in SUBSET m.active
  BY DEF Others
<1>3. /\ p \in FoldsOf(k) /\ p.status = m.status /\ p.done = m.done /\ p.total = m.total
      /\ p.units = m.units /\ p.active = A
  <2> HIDE DEF A
  <2> QED BY <1>2, PoppedFold
<1>4. s \in Stages
  BY NodesOfStages
<1> HIDE DEF p, r
<1>5. /\ r \in FoldsOf(k) /\ r.status = m.status /\ r.total = m.total /\ r.active = A
      /\ \A t \in Stages \ {s} : r.units[t] = m.units[t] /\ r.done[t] = m.done[t]
      /\ ~Terminal(node) => r.units = m.units /\ r.done = m.done
      /\ Terminal(node) /\ i # NoItem => OneMore(r, m, s, i)
  <2>1. CASE Terminal(node)
    <3>1. r = Counted(p, e)
      BY <1>1, <2>1
    <3>2. e.stage = s
      BY DEF s
    <3> HIDE DEF s, A, Q
    <3>3. /\ r \in FoldsOf(k) /\ r.status = p.status /\ r.total = p.total /\ r.active = p.active
      BY <3>1, <3>2, <1>3, <1>4, CountedFold
    <3>4. \A t \in Stages \ {s} : r.units[t] = p.units[t] /\ r.done[t] = p.done[t]
      BY <3>1, <3>2, <1>3, <1>4, CountedFold
    <3>5. i # NoItem => OneMore(r, p, s, i)
      BY <3>1, <3>2, <1>3, <1>4, CountedFold
    <3> QED
      BY <3>3, <3>4, <3>5, <1>3, <2>1 DEF OneMore
  <2>2. CASE ~Terminal(node)
    BY <1>1, <1>3, <2>2
  <2> QED
    BY <2>1, <2>2
<1>6. ItemStages \subseteq Stages /\ DraftStages \subseteq Stages
  BY Topology DEF DraftStages
<1>7. ASSUME NEW a \in m.active, a.stage # s
      PROVE  a \in A
  <2>1. PICK n \in DOMAIN NodeStage, j \in Units, h \in 0..k :
          a.op = <<n, j, h>> /\ a.stage = NodeStage[n]
    BY OperationNames
  <2>2. a.op # <<node, i, k>>
    BY <1>7, <2>1
  <2> QED
    BY <2>2 DEF Others
<1>8. /\ s \in DraftStages => node \in Drafting /\ i = NoItem /\ Terminal(node)
      /\ s \in ItemStages => i \in Items /\ i # NoItem
  BY NodesOfStages, Topology, ProgressAssumption DEF DraftStages, ItemStages
<1> HIDE DEF s, A
<1>9. FoldIsTrue(r, Q)
  <2>1. ASSUME NEW t \in ItemStages
        PROVE  /\ r.units[t] = {j \in Items : <<t, j>> \in Q}
               /\ r.done[t] = Cardinality(r.units[t])
               /\ r.total[t] = Cardinality(Items)
               /\ r.status[t] # "completed"
    <3>1. /\ m.units[t] = {j \in Items : <<t, j>> \in P}
          /\ m.done[t] = Cardinality(m.units[t])
          /\ m.total[t] = Cardinality(Items) /\ m.status[t] # "completed"
      BY DEF FoldIsTrue
    <3>2. CASE t = s /\ Terminal(node)
      <4>1. r.units[t] = m.units[t] \cup {i} /\ r.done[t] = Cardinality(r.units[t])
        BY <1>5, <1>8, <3>2 DEF OneMore
      <4>2. \A j \in Items : <<t, j>> \in Q <=> <<t, j>> \in P \/ j = i
        BY <3>2
      <4>3. i \in Items
        BY <1>8, <3>2
      <4> QED
        BY <3>1, <4>1, <4>2, <4>3, <1>5
    <3>3. CASE ~(t = s /\ Terminal(node))
      <4>1. r.units[t] = m.units[t] /\ r.done[t] = m.done[t]
        BY <1>5, <1>6, <3>3
      <4>2. \A j \in Items : <<t, j>> \in Q <=> <<t, j>> \in P
        BY <3>3
      <4> QED
        BY <3>1, <4>1, <4>2, <1>5
    <3> QED
      BY <3>2, <3>3
  <2>2. ASSUME NEW t \in DraftStages
        PROVE  \/ \E a \in r.active : a.stage = t
               \/ <<t, NoItem>> \in Q
               \/ r.done[t] = 0 /\ r.status[t] = "pending"
    <3>1. CASE t = s
      <4>1. i = NoItem /\ Terminal(node)
        BY <3>1, <1>8
      <4> QED
        BY <3>1, <4>1
    <3>2. CASE t # s
      <4>1. r.done[t] = m.done[t] /\ r.status[t] = m.status[t]
        BY <3>2, <1>5, <1>6
      <4>2. \A a \in m.active : a.stage = t => a \in r.active
        BY <1>5, <1>7, <3>2
      <4>3. \/ \E a \in m.active : a.stage = t
            \/ <<t, NoItem>> \in P
            \/ m.done[t] = 0 /\ m.status[t] = "pending"
        BY DEF FoldIsTrue
      <4> QED
        BY <4>1, <4>2, <4>3
    <3> QED
      BY <3>1, <3>2
  <2> HIDE DEF Q
  <2> QED
    BY <2>1, <2>2 DEF FoldIsTrue
<1> QED
  BY <1>5, <1>9 DEF r, A, s

\* r is m but for stage s.
AgreeOff(r, m, s) ==
  \A t \in Stages \ {s} : /\ r.status[t] = m.status[t] /\ r.done[t] = m.done[t]
                          /\ r.total[t] = m.total[t] /\ r.units[t] = m.units[t]

\* What is reported of a drafting stage while a node of it executes changes no truth.
LEMMA OpenStageIsFree ==
  ASSUME NEW k \in Nat, NEW m, NEW P, FoldIsTrue(m, P), NEW node \in Drafting,
         Operation(node, NoItem, k) \in m.active, NEW r, r.active = m.active,
         AgreeOff(r, m, NodeStage[node])
  PROVE  FoldIsTrue(r, P)
<1> DEFINE s == NodeStage[node]
<1>1. s \in DraftStages /\ s \notin ItemStages /\ ItemStages \subseteq Stages /\ DraftStages \subseteq Stages
  BY NodesOfStages, Topology DEF DraftStages
<1>2. Operation(node, NoItem, k).stage = s
  BY DEF Operation
<1> HIDE DEF s
<1>3. ASSUME NEW t \in ItemStages
      PROVE  /\ r.units[t] = {i \in Items : <<t, i>> \in P}
             /\ r.done[t] = Cardinality(r.units[t])
             /\ r.total[t] = Cardinality(Items)
             /\ r.status[t] # "completed"
  <2>1. t \in Stages \ {s}
    BY <1>1
  <2>2. /\ r.status[t] = m.status[t] /\ r.done[t] = m.done[t]
        /\ r.total[t] = m.total[t] /\ r.units[t] = m.units[t]
    BY <2>1 DEF AgreeOff, s
  <2> QED
    BY <2>2 DEF FoldIsTrue
<1>4. ASSUME NEW t \in DraftStages
      PROVE  \/ \E a \in r.active : a.stage = t
             \/ <<t, NoItem>> \in P
             \/ r.done[t] = 0 /\ r.status[t] = "pending"
  <2>1. CASE t = s
    BY <2>1, <1>2
  <2>2. CASE t # s
    <3>1. r.status[t] = m.status[t] /\ r.done[t] = m.done[t]
      BY <2>2, <1>1 DEF AgreeOff, s
    <3> QED
      BY <3>1 DEF FoldIsTrue
  <2> QED
    BY <2>1, <2>2
<1> QED
  BY <1>3, <1>4 DEF FoldIsTrue

\* A chain inside a node leaves the node's operation open.
LEMMA InnerFold ==
  ASSUME NEW k \in Nat, NEW m \in FoldsOf(k), NEW P, FoldIsTrue(m, P), NEW node \in Drafting,
         Operation(node, NoItem, k) \in m.active,
         NEW op, op = <<node, NoItem, k, "inner">>,
         NEW e, e.life = "started", e.stage = NodeStage[node], e.op = op,
         NEW f, f.life = "completed", f.node = node, f.stage = NodeStage[node], f.op = op,
         f.item = NoItem
  PROVE  /\ Apply(Apply(m, e), f) \in FoldsOf(k)
         /\ FoldIsTrue(Apply(Apply(m, e), f), P)
         /\ Apply(Apply(m, e), f).active = m.active
<1> DEFINE s == NodeStage[node]
           x == [op |-> op, stage |-> s, item |-> e.item]
           A == Others(m, op) \cup {x}
           st == [m.status EXCEPT ![s] = "running"]
           m1 == Apply(m, e)
           p == [m1 EXCEPT !.active = Others(m1, op)]
           r == Apply(m1, f)
<1>1. s \in Stages /\ s \in DraftStages /\ Terminal(node) /\ node \in DOMAIN NodeStage
  BY NodesOfStages, Topology DEF DraftStages
<1>2. \A a \in m.active : a.op # op
  <2> SUFFICES ASSUME NEW a \in m.active, a.op = op
               PROVE  FALSE
    OBVIOUS
  <2>1. PICK n \in DOMAIN NodeStage, j \in Units, h \in 0..k : a.op = <<n, j, h>>
    BY OperationNames
  <2> QED
    BY <2>1
<1>3. m1 = [status |-> st, done |-> m.done, total |-> m.total, units |-> m.units, active |-> A]
  <2>1. m = [status |-> m.status, done |-> m.done, total |-> m.total, units |-> m.units,
             active |-> m.active]
    BY DEF FoldsOf
  <2>2. m1 = [m EXCEPT !.status[s] = "running", !.active = A]
    BY DEF Apply
  <2> HIDE DEF A, s, m1
  <2> DEFINE q == [m EXCEPT !.status[s] = "running"]
  <2>3. q = [status |-> st, done |-> m.done, total |-> m.total, units |-> m.units,
             active |-> m.active]
    BY <2>1
  <2>4. m1 = [q EXCEPT !.active = A]
    BY <2>1, <2>2
  <2> HIDE DEF q, st
  <2> QED
    BY <2>3, <2>4
<1> HIDE DEF m1
<1>4. Others(m1, op) = m.active
  <2>1. m1.active = A
    BY <1>3
  <2>2. x.op = op
    OBVIOUS
  <2> HIDE DEF x
  <2> QED
    BY <2>1, <2>2, <1>2 DEF Others
<1>5. p = [status |-> st, done |-> m.done, total |-> m.total, units |-> m.units, active |-> m.active]
  <2> HIDE DEF A, st
  <2> QED BY <1>3, <1>4
<1>6. p \in FoldsOf(k)
  <2>1. st \in [Stages -> {"pending", "running", "completed"}]
    BY <1>1 DEF FoldsOf
  <2> HIDE DEF st, p
  <2> QED BY <1>5, <2>1 DEF FoldsOf
<1>7. r = Counted(p, f)
  BY <1>1 DEF Apply
<1> HIDE DEF p, r
<1>8. NoItem \in Units /\ f.stage = s
  BY DEF Units
<1> HIDE DEF s
<1>9. r \in FoldsOf(k) /\ r.status = p.status /\ r.total = p.total /\ r.active = p.active
  BY <1>1, <1>6, <1>7, <1>8, CountedFold
<1>10. \A t \in Stages \ {s} : r.units[t] = p.units[t] /\ r.done[t] = p.done[t]
  BY <1>1, <1>6, <1>7, <1>8, CountedFold
<1>11. p.status = st /\ p.done = m.done /\ p.total = m.total /\ p.units = m.units /\ p.active = m.active
  BY <1>5
<1>12. \A t \in Stages \ {s} : st[t] = m.status[t]
  BY DEF FoldsOf
<1>13. AgreeOff(r, m, s) /\ r.active = m.active
  BY <1>9, <1>10, <1>11, <1>12 DEF AgreeOff
<1> QED
  BY <1>9, <1>13, OpenStageIsFree DEF r, m1, s

\* creative_progress reports of the stage of the node that executes.
LEMMA ReportFold ==
  ASSUME NEW k \in Nat, NEW m \in FoldsOf(k), NEW P, FoldIsTrue(m, P), NEW node \in Drafting,
         Operation(node, NoItem, k) \in m.active,
         NEW n \in Nat, NEW z \in Nat,
         NEW e, e.life = "progress", e.stage = NodeStage[node], e.done = n, e.total = z
  PROVE  /\ Apply(m, e) \in FoldsOf(k)
         /\ FoldIsTrue(Apply(m, e), P)
         /\ Apply(m, e).active = m.active
<1> DEFINE s == NodeStage[node]
           v == IF n >= z THEN "completed" ELSE "running"
           r == Apply(m, e)
           dn == [m.done EXCEPT ![s] = n]
           tt == [m.total EXCEPT ![s] = z]
           st == [m.status EXCEPT ![s] = v]
<1>1. s \in Stages
  BY NodesOfStages, Topology DEF DraftStages
<1>2. r = [m EXCEPT !.done[s] = n, !.total[s] = z, !.status[s] = v]
  BY DEF Apply
<1>3. m = [status |-> m.status, done |-> m.done, total |-> m.total, units |-> m.units,
           active |-> m.active]
  BY DEF FoldsOf
<1> HIDE DEF r, s
<1>4. v \in {"running", "completed"}
  OBVIOUS
<1> HIDE DEF v
<1>5. r = [status |-> st, done |-> dn, total |-> tt, units |-> m.units, active |-> m.active]
  <2> DEFINE q1 == [m EXCEPT !.done[s] = n]
             q2 == [q1 EXCEPT !.total[s] = z]
  <2>1. q1 = [status |-> m.status, done |-> dn, total |-> m.total, units |-> m.units,
              active |-> m.active]
    BY <1>3
  <2>2. r = [q2 EXCEPT !.status[s] = v]
    BY <1>2, <1>3
  <2> HIDE DEF q1, dn
  <2>3. q2 = [status |-> m.status, done |-> dn, total |-> tt, units |-> m.units,
              active |-> m.active]
    BY <2>1
  <2> HIDE DEF q2, tt
  <2> QED
    BY <2>2, <2>3
<1>6. /\ m.done \in [Stages -> Nat] /\ m.total \in [Stages -> Nat]
      /\ m.status \in [Stages -> {"pending", "running", "completed"}]
  BY DEF FoldsOf
<1>7. /\ dn \in [Stages -> Nat] /\ tt \in [Stages -> Nat]
      /\ st \in [Stages -> {"pending", "running", "completed"}]
  BY <1>4, <1>6
<1>8. \A t \in Stages \ {s} : dn[t] = m.done[t] /\ tt[t] = m.total[t] /\ st[t] = m.status[t]
  BY <1>6
<1> HIDE DEF dn, tt, st
<1>9. r \in FoldsOf(k)
  BY <1>5, <1>7 DEF FoldsOf
<1>10. AgreeOff(r, m, s) /\ r.active = m.active
  BY <1>5, <1>8 DEF AgreeOff
<1> QED
  BY <1>9, <1>10, OpenStageIsFree DEF r, s

\* The translator names the item of an operation: from the event, or else from its start.
LEMMA IdentityIs ==
  ASSUME NEW k \in Nat, NEW M \in MemosOf(k), NEW node \in DOMAIN NodeStage, NEW i \in Units,
         NEW op, op = <<node, i, k>>
  PROVE  /\ Identity(M, op, i) = i
         /\ Remembered(node, i, k) \in M => Identity(M, op, NoItem) = i
<1>1. ASSUME NEW x \in M
      PROVE  \E n \in DOMAIN NodeStage, j \in Units, h \in 0..k : x.op = <<n, j, h>> /\ x.item = j
  BY DEF MemosOf, Remembered
<1>2. \A x \in M : x.op = op => x.item = i
  <2> SUFFICES ASSUME NEW x \in M, x.op = <<node, i, k>>
               PROVE  x.item = i
    OBVIOUS
  <2>1. PICK n \in DOMAIN NodeStage, j \in Units, h \in 0..k : x.op = <<n, j, h>> /\ x.item = j
    BY <1>1
  <2> QED
    BY <2>1
<1>3. (\E x \in M : x.op = op) => /\ (CHOOSE x \in M : x.op = op) \in M
                                 /\ (CHOOSE x \in M : x.op = op).op = op
  OBVIOUS
<1>4. (\E x \in M : x.op = op) => (CHOOSE x \in M : x.op = op).item = i
  BY <1>2, <1>3
<1>5. Remembered(node, i, k).op = op
  BY DEF Remembered
<1> QED
  BY <1>4, <1>5 DEF Identity

\* It knows nothing of the chains inside a node.
LEMMA InnerIdentity ==
  ASSUME NEW k \in Nat, NEW M \in MemosOf(k), NEW node, NEW op, op = <<node, NoItem, k, "inner">>
  PROVE  Identity(M, op, NoItem) = NoItem
<1>1. ASSUME NEW x \in M
      PROVE  \E n \in DOMAIN NodeStage, j \in Units, h \in 0..k : x.op = <<n, j, h>>
  BY DEF MemosOf, Remembered
<1>2. \A x \in M : x.op # op
  <2> SUFFICES ASSUME NEW x \in M, x.op = <<node, NoItem, k, "inner">>
               PROVE  FALSE
    OBVIOUS
  <2>1. PICK n \in DOMAIN NodeStage, j \in Units, h \in 0..k : x.op = <<n, j, h>>
    BY <1>1
  <2> QED
    BY <2>1
<1> QED
  BY <1>2 DEF Identity

\* The memory after a start and after an end.
LEMMA MemoStep ==
  ASSUME NEW k \in Nat, NEW M \in MemosOf(k), NEW node \in DOMAIN NodeStage, NEW i \in Units,
         NEW op, op = <<node, i, k>>
  PROVE  /\ Remember(M, op, i) \in MemosOf(k)
         /\ Forget(M, op) \in MemosOf(k)
         /\ i # NoItem => Remembered(node, i, k) \in Remember(M, op, i)
         /\ \A n, j : j # i /\ Remembered(n, j, k) \in M =>
              Remembered(n, j, k) \in Remember(M, op, i) \cap Forget(M, op)
<1>1. Remembered(node, i, k) = [op |-> op, item |-> i]
  BY DEF Remembered
<1>2. \A n, j : Remembered(n, j, k).op = <<n, j, k>>
  BY DEF Remembered
<1>3. \A n, j : j # i => <<n, j, k>> # op
  OBVIOUS
<1>4. {x \in M : x.op # op} \in MemosOf(k)
  BY DEF MemosOf
<1>5. {Remembered(node, i, k)} \in MemosOf(k)
  BY DEF MemosOf
<1> QED
  BY <1>1, <1>2, <1>3, <1>4, <1>5 DEF Remember, Forget, MemosOf

\* An item's node leaves it sound, whatever the node does.
LEMMA ItemStepSound ==
  ASSUME NEW x \in ItemStates, x.node \in ItemNodes, ItemIsSound(x), NEW y \in ItemStep(x)
  PROVE  /\ [y EXCEPT !.on = FALSE] \in ItemStates
         /\ ItemIsSound([y EXCEPT !.on = FALSE])
<1>1. x = [node |-> x.node, on |-> x.on, err |-> x.err, att |-> x.att, end |-> x.end]
      /\ x.on \in BOOLEAN /\ x.att \in Nat
      /\ x.err \in {"none", "plain", "talking_head", "product_demo"}
      /\ x.end \in {"none", "assembled", "dropped"}
  BY DEF ItemStates
<1>2. CASE x.node = "voiceover"
  <2>1. PICK e \in {"none", "plain"} : y = [x EXCEPT !.node = "ltx", !.err = e]
    BY <1>2 DEF ItemStep, SelectTier, Tiers
  <2>2. y = [node |-> "ltx", on |-> x.on, err |-> e, att |-> x.att, end |-> x.end]
    BY <1>1, <2>1
  <2>3. x.end = "none"
    BY <1>2 DEF ItemIsSound
  <2> QED
    BY <1>1, <2>2, <2>3 DEF ItemStates, ItemIsSound, ItemNodes
<1>3. CASE x.node \in {"ltx", "kling"}
  <2>1. \/ y = [x EXCEPT !.node = IF x.err = "none" THEN "product_demo" ELSE "over"]
        \/ y = [x EXCEPT !.node = "over", !.err = "talking_head"]
    BY <1>3 DEF ItemStep
  <2>2. x.err \in {"none", "plain"} /\ x.end = "none"
    BY <1>3 DEF ItemIsSound
  <2>3. \/ y = [node |-> "product_demo", on |-> x.on, err |-> "none", att |-> x.att, end |-> "none"]
        \/ y = [node |-> "over", on |-> x.on, err |-> "plain", att |-> x.att, end |-> "none"]
        \/ y = [node |-> "over", on |-> x.on, err |-> "talking_head", att |-> x.att, end |-> "none"]
    BY <1>1, <2>1, <2>2
  <2>6. CASE y = [node |-> "product_demo", on |-> x.on, err |-> "none", att |-> x.att, end |-> "none"]
    BY <1>1, <2>6 DEF ItemStates, ItemIsSound, ItemNodes, Outcome
  <2>7. CASE y = [node |-> "over", on |-> x.on, err |-> "plain", att |-> x.att, end |-> "none"]
    BY <1>1, <2>7 DEF ItemStates, ItemIsSound, ItemNodes, Outcome
  <2>8. CASE y = [node |-> "over", on |-> x.on, err |-> "talking_head", att |-> x.att, end |-> "none"]
    BY <1>1, <2>8 DEF ItemStates, ItemIsSound, ItemNodes, Outcome
  <2> QED
    BY <2>3, <2>6, <2>7, <2>8
<1>4. CASE x.node = "product_demo"
  <2>1. \/ y = [x EXCEPT !.node = "qc"]
        \/ y = [x EXCEPT !.node = "over", !.err = "product_demo"]
    BY <1>4 DEF ItemStep
  <2>2. x.err = "none" /\ x.end = "none"
    BY <1>4 DEF ItemIsSound
  <2>3. \/ y = [node |-> "qc", on |-> x.on, err |-> "none", att |-> x.att, end |-> "none"]
        \/ y = [node |-> "over", on |-> x.on, err |-> "product_demo", att |-> x.att, end |-> "none"]
    BY <1>1, <2>1, <2>2
  <2>6. CASE y = [node |-> "qc", on |-> x.on, err |-> "none", att |-> x.att, end |-> "none"]
    BY <1>1, <2>6 DEF ItemStates, ItemIsSound, ItemNodes, Outcome
  <2>7. CASE y = [node |-> "over", on |-> x.on, err |-> "product_demo", att |-> x.att, end |-> "none"]
    BY <1>1, <2>7 DEF ItemStates, ItemIsSound, ItemNodes, Outcome
  <2> QED
    BY <2>3, <2>6, <2>7
<1>5. CASE x.node = "qc"
  <2> DEFINE next == IF x.att + 1 < MaxQc THEN SelectTier(x.att + 1) ELSE "drop"
  <2>1. \/ y = [x EXCEPT !.node = "assembly"]
        \/ y = [x EXCEPT !.att = @ + 1, !.node = next]
    BY <1>5 DEF ItemStep
  <2>2. x.err = "none" /\ x.end = "none"
    BY <1>5 DEF ItemIsSound
  <2>3. next \in {"ltx", "drop"}
    BY DEF SelectTier, Tiers
  <2> HIDE DEF next
  <2>4. \/ y = [node |-> "assembly", on |-> x.on, err |-> "none", att |-> x.att, end |-> "none"]
        \/ y = [node |-> next, on |-> x.on, err |-> "none", att |-> x.att + 1, end |-> "none"]
    BY <1>1, <2>1, <2>2
  <2>5. x.att + 1 \in Nat
    BY <1>1
  <2>6. CASE y = [node |-> "assembly", on |-> x.on, err |-> "none", att |-> x.att, end |-> "none"]
    BY <1>1, <2>3, <2>5, <2>6 DEF ItemStates, ItemIsSound, ItemNodes
  <2>7. CASE y = [node |-> next, on |-> x.on, err |-> "none", att |-> x.att + 1, end |-> "none"]
    BY <1>1, <2>3, <2>5, <2>7 DEF ItemStates, ItemIsSound, ItemNodes
  <2> QED
    BY <2>4, <2>6, <2>7
<1>6. CASE x.node = "assembly"
  <2>1. \/ y = [x EXCEPT !.node = "upscale", !.end = "assembled"]
        \/ y = [x EXCEPT !.node = "upscale", !.err = "plain"]
    BY <1>6 DEF ItemStep
  <2>2. x.err = "none" /\ x.end = "none"
    BY <1>6 DEF ItemIsSound
  <2>3. \/ y = [node |-> "upscale", on |-> x.on, err |-> "none", att |-> x.att, end |-> "assembled"]
        \/ y = [node |-> "upscale", on |-> x.on, err |-> "plain", att |-> x.att, end |-> "none"]
    BY <1>1, <2>1, <2>2
  <2>6. CASE y = [node |-> "upscale", on |-> x.on, err |-> "none", att |-> x.att, end |-> "assembled"]
    BY <1>1, <2>6 DEF ItemStates, ItemIsSound, ItemNodes
  <2>7. CASE y = [node |-> "upscale", on |-> x.on, err |-> "plain", att |-> x.att, end |-> "none"]
    BY <1>1, <2>7 DEF ItemStates, ItemIsSound, ItemNodes
  <2> QED
    BY <2>3, <2>6, <2>7
<1>7. CASE x.node = "upscale"
  <2>1. y = [x EXCEPT !.node = "over"]
    BY <1>7 DEF ItemStep
  <2>2. y = [node |-> "over", on |-> x.on, err |-> x.err, att |-> x.att, end |-> x.end]
    BY <1>1, <2>1
  <2>3. Outcome(x.err, x.end)
    BY <1>7 DEF ItemIsSound, Outcome
  <2> QED
    BY <1>1, <2>2, <2>3 DEF ItemStates, ItemIsSound
<1>8. CASE x.node = "drop"
  <2>1. y = [x EXCEPT !.node = "over", !.end = "dropped"]
    BY <1>8 DEF ItemStep
  <2>2. x.err = "none"
    BY <1>8 DEF ItemIsSound
  <2>3. y = [node |-> "over", on |-> x.on, err |-> "none", att |-> x.att, end |-> "dropped"]
    BY <1>1, <2>1, <2>2
  <2> QED
    BY <1>1, <2>3 DEF ItemStates, ItemIsSound, Outcome
<1> QED
  BY <1>2, <1>3, <1>4, <1>5, <1>6, <1>7, <1>8 DEF ItemNodes

-------------------------------------------------------------------------------
(* The steps of a durable run                                              *)

LEMMA LaterAttempts ==
  ASSUME NEW k \in Nat
  PROVE  FoldsOf(k) \subseteq FoldsOf(k + 1) /\ MemosOf(k) \subseteq MemosOf(k + 1)
<1>1. 0..k \subseteq 0..(k + 1)
  OBVIOUS
<1>2. {Operation(node, i, h) : node \in DOMAIN NodeStage, i \in Units, h \in 0..k}
        \subseteq {Operation(node, i, h) : node \in DOMAIN NodeStage, i \in Units, h \in 0..(k + 1)}
  BY <1>1
<1>3. {Remembered(node, i, h) : node \in DOMAIN NodeStage, i \in Units, h \in 0..k}
        \subseteq {Remembered(node, i, h) : node \in DOMAIN NodeStage, i \in Units, h \in 0..(k + 1)}
  BY <1>1
<1> QED
  BY <1>2, <1>3 DEF FoldsOf, MemosOf

\* Items are in production only while the batch graph is at their node.
LEMMA NothingOn ==
  ASSUME GraphTypeOK, GraphInv, ~Producing
  PROVE  \A i \in Items : ~it[i].on
BY DEF GraphInv, ExecutingIsOpen

LEMMA NewItemSound == NewItem \in ItemStates /\ ItemIsSound(NewItem) /\ ~NewItem.on
BY DEF NewItem, ItemStates, ItemIsSound, ItemNodes

\* A step that reports nothing and leaves no node executing.
LEMMA QuietStep ==
  ASSUME GraphTypeOK, GraphInv,
         UNCHANGED <<fold, passed, results>>, attempt' \in {attempt, attempt + 1},
         memo' \in {memo, {}},
         at' \in Places, at'.is # "on", RoutesAreKnown',
         job' \in Answers \cup {"execute_run"}, held' \in Answers \cup {"none"},
         it' \in [Items -> ItemStates],
         \A i \in Items : ItemIsSound(it'[i]) /\ ~it'[i].on
  PROVE  GraphTypeOK' /\ GraphInv'
<1>1. attempt \in Nat /\ fold \in FoldsOf(attempt) /\ memo \in MemosOf(attempt)
  BY DEF GraphTypeOK, MemosOf
<1>2. attempt' \in Nat /\ fold' \in FoldsOf(attempt') /\ memo' \in MemosOf(attempt')
  <2>1. {} \in MemosOf(attempt')
    BY DEF MemosOf
  <2>2. FoldsOf(attempt) \subseteq FoldsOf(attempt') /\ MemosOf(attempt) \subseteq MemosOf(attempt')
    <3>1. CASE attempt' = attempt
      BY <3>1
    <3>2. CASE attempt' = attempt + 1
      BY <1>1, <3>2, LaterAttempts
    <3> QED
      BY <3>1, <3>2
  <2>3. attempt' \in Nat /\ fold' = fold
    BY <1>1
  <2> QED
    BY <1>1, <2>1, <2>2, <2>3
<1>3. GraphTypeOK'
  BY <1>2 DEF GraphTypeOK, Places, MemosOf
<1>4. ResultsAreOutcomes' /\ FoldIsTrue(fold, passed)'
  BY DEF GraphInv, ResultsAreOutcomes, FoldIsTrue
<1>5. ExecutingIsOpen'
  BY DEF ExecutingIsOpen
<1> QED
  BY <1>3, <1>4, <1>5 DEF GraphInv

\* A step of a drafting node.
LEMMA DraftStep ==
  ASSUME GraphTypeOK, GraphInv, ~Producing,
         UNCHANGED <<job, attempt, held, it, results>>,
         at' \in Places, RoutesAreKnown', fold' \in FoldsOf(attempt), memo' \in SUBSET memo,
         FoldIsTrue(fold', passed'),
         at'.is = "on" => at'.node \in Drafting /\ Operation(at'.node, NoItem, attempt) \in fold'.active
  PROVE  GraphTypeOK' /\ GraphInv'
<1>1. \A i \in Items : ~it[i].on
  BY NothingOn
<1>2. GraphTypeOK'
  BY DEF GraphTypeOK, MemosOf
<1>3. \A i \in Items : ItemIsSound(it'[i])
  BY DEF GraphInv
<1>4. ResultsAreOutcomes'
  BY DEF GraphInv, ResultsAreOutcomes
<1>5. ExecutingIsOpen'
  BY <1>1 DEF ExecutingIsOpen
<1> QED
  BY <1>2, <1>3, <1>4, <1>5 DEF GraphInv

\* A step of one item: the operations of the other items stay open and remembered.
LEMMA OneItemStep ==
  ASSUME GraphTypeOK, GraphInv, Producing, NEW i \in Items, NEW y \in ItemStates,
         UNCHANGED <<job, attempt, held, at, results>>,
         it' = [it EXCEPT ![i] = y], ItemIsSound(y),
         fold' \in FoldsOf(attempt), memo' \in MemosOf(attempt), FoldIsTrue(fold', passed'),
         y.on => /\ y.node \in ItemNodes
                 /\ Operation(y.node, i, attempt) \in fold'.active
                 /\ Remembered(y.node, i, attempt) \in memo',
         \A n, j : j \in Items \ {i} =>
           /\ Operation(n, j, attempt) \in fold.active => Operation(n, j, attempt) \in fold'.active
           /\ Remembered(n, j, attempt) \in memo => Remembered(n, j, attempt) \in memo'
  PROVE  GraphTypeOK' /\ GraphInv'
<1>1. it \in [Items -> ItemStates]
  BY DEF GraphTypeOK
<1>2. it' \in [Items -> ItemStates] /\ it'[i] = y /\ \A j \in Items \ {i} : it'[j] = it[j]
  BY <1>1
<1>3. GraphTypeOK'
  BY <1>2 DEF GraphTypeOK, MemosOf
<1>4. \A j \in Items : ItemIsSound(it'[j])
  BY <1>2 DEF GraphInv
<1>5. ResultsAreOutcomes'
  BY DEF GraphInv, ResultsAreOutcomes
<1>6. ExecutingIsOpen'
  <2>1. at'.is # "on" /\ Producing'
    BY DEF Producing
  <2>2. ASSUME NEW j \in Items, it'[j].on
        PROVE  /\ it'[j].node \in ItemNodes
               /\ Operation(it'[j].node, j, attempt') \in fold'.active
               /\ Remembered(it'[j].node, j, attempt') \in memo'
    <3>1. CASE j = i
      BY <2>2, <3>1, <1>2
    <3>2. CASE j # i
      <4>1. it'[j] = it[j]
        BY <3>2, <1>2
      <4>2. /\ it[j].node \in ItemNodes
            /\ Operation(it[j].node, j, attempt) \in fold.active
            /\ Remembered(it[j].node, j, attempt) \in memo
        BY <2>2, <4>1 DEF GraphInv, ExecutingIsOpen
      <4> QED
        BY <3>2, <4>1, <4>2
    <3> QED
      BY <3>1, <3>2
  <2> QED
    BY <2>1, <2>2 DEF ExecutingIsOpen
<1>7. RoutesAreKnown'
  BY DEF RoutesAreKnown, Producing
<1> QED
  BY <1>3, <1>4, <1>5, <1>6, <1>7 DEF GraphInv

\* The steps that report nothing.
LEMMA QuietActions ==
  ASSUME GraphTypeOK, GraphInv,
         \/ Invoke \/ Interrupt \/ Advance \/ SaveAndGate \/ CancelRun
         \/ (\E a \in Answers : Answer(a))
         \/ SaveDone \/ CompleteJob \/ FailRun \/ CrashAttempt
  PROVE  GraphTypeOK' /\ GraphInv'
<1>1. /\ at \in Places /\ job \in Answers \cup {"execute_run"} /\ held \in Answers \cup {"none"}
      /\ it \in [Items -> ItemStates]
  BY DEF GraphTypeOK, Places
<1>2. at = [node |-> at.node, is |-> at.is, n |-> at.n]
      /\ at.node \in Drafting \cup {"items", "end"} /\ at.n \in Nat
  BY <1>1 DEF Places
<1>3. \A i \in Items : ItemIsSound(it[i])
  BY DEF GraphInv
<1>4. \A i \in Items : ~Producing => ~it[i].on
  BY NothingOn
<1>5. CASE Invoke
  <2>1. at' = [node |-> at.node, is |-> "ready", n |-> at.n]
    BY <1>2, <1>5 DEF Invoke
  <2>2. at' \in Places /\ at'.is # "on" /\ RoutesAreKnown'
    BY <1>2, <2>1 DEF Places, RoutesAreKnown
  <2>3. ~Producing
    BY <1>5 DEF Invoke, Producing
  <2>4. held' \in Answers \cup {"none"}
    BY <1>1, <1>5 DEF Invoke
  <2>5. /\ UNCHANGED <<fold, passed, results>> /\ attempt' = attempt + 1 /\ memo' = memo
        /\ job' = job /\ it' = it
    BY <1>5 DEF Invoke, eventVars
  <2> QED
    BY <1>1, <1>3, <1>4, <2>2, <2>3, <2>4, <2>5, QuietStep
<1>6. CASE Interrupt
  <2>1. at' = [node |-> at.node, is |-> "asking", n |-> at.n]
    BY <1>2, <1>6 DEF Interrupt
  <2>2. at' \in Places /\ at'.is # "on" /\ RoutesAreKnown'
    BY <1>2, <2>1 DEF Places, RoutesAreKnown
  <2>3. ~Producing
    BY <1>6 DEF Interrupt, Producing
  <2>4. /\ UNCHANGED <<fold, passed, results>> /\ attempt' = attempt /\ memo' = {}
        /\ job' = job /\ it' = it /\ held' = held
    BY <1>6 DEF Interrupt
  <2> QED
    BY <1>1, <1>3, <1>4, <2>2, <2>3, <2>4, QuietStep
<1>7. CASE Advance
  <2> DEFINE n == IF at.node = "review" THEN Routed ELSE After[at.node]
  <2>1. at' = [node |-> n, is |-> "ready", n |-> 0]
    BY <1>7 DEF Advance
  <2>2. n \in Drafting \cup {"items", "end"}
    <3>1. at.node \in Drafting /\ (at.node = "review" => ~reviewed \/ held # "none")
      BY <1>7 DEF Advance, GraphInv, RoutesAreKnown
    <3>2. CASE at.node = "review"
      <4>1. n = Routed
        BY <3>2
      <4>2. CASE ~reviewed \/ held = "approve"
        BY <4>1, <4>2 DEF Routed
      <4>3. CASE reviewed /\ held = "voices"
        BY <4>1, <4>3 DEF Routed, Drafting
      <4>4. CASE ~(~reviewed \/ held = "approve") /\ ~(reviewed /\ held = "voices")
        <5>1. Routed = held
          BY <4>4 DEF Routed
        <5>2. held \in {"concepts", "scripts", "creator_profiles"}
          BY <1>1, <3>1, <3>2, <4>4 DEF Answers
        <5> QED
          BY <4>1, <5>1, <5>2 DEF Drafting
      <4> QED
        BY <4>2, <4>3, <4>4
    <3>3. CASE at.node # "review"
      BY <3>1, <3>3 DEF Drafting, After
    <3> QED
      BY <3>2, <3>3
  <2> HIDE DEF n
  <2>3. at' \in Places /\ at'.is # "on" /\ RoutesAreKnown'
    BY <2>1, <2>2 DEF Places, RoutesAreKnown
  <2>4. /\ UNCHANGED <<fold, passed, results>> /\ attempt' = attempt /\ memo' = memo
        /\ job' = job /\ it' = [i \in Items |-> NewItem] /\ held' = "none"
    BY <1>7 DEF Advance, eventVars
  <2>5. it' \in [Items -> ItemStates] /\ \A i \in Items : ItemIsSound(it'[i]) /\ ~it'[i].on
    BY <2>4, NewItemSound
  <2> QED
    BY <1>1, <2>3, <2>4, <2>5, QuietStep
<1>8. CASE SaveAndGate \/ CancelRun \/ \E a \in Answers : Answer(a)
  <2>1. \E w \in {"gated", "over", "queued"} : at' = [node |-> at.node, is |-> w, n |-> at.n]
    BY <1>2, <1>8 DEF SaveAndGate, CancelRun, Answer
  <2>2. at' \in Places /\ at'.is # "on" /\ RoutesAreKnown'
    BY <1>2, <2>1 DEF Places, RoutesAreKnown
  <2>3. ~Producing
    BY <1>8 DEF SaveAndGate, CancelRun, Answer, Producing
  <2>4. /\ UNCHANGED <<fold, passed, results>> /\ attempt' = attempt /\ memo' = memo
        /\ job' \in Answers \cup {"execute_run"} /\ it' = it /\ held' = held
    BY <1>1, <1>8 DEF SaveAndGate, CancelRun, Answer, eventVars
  <2> QED
    BY <1>1, <1>3, <1>4, <2>2, <2>3, <2>4, QuietStep
<1>9. CASE SaveDone \/ CompleteJob
  <2>1. \E w \in {"saved", "over"} : at' = [node |-> at.node, is |-> w, n |-> at.n]
    BY <1>2, <1>9 DEF SaveDone, CompleteJob
  <2>2. at' \in Places /\ at'.is # "on" /\ RoutesAreKnown'
    BY <1>2, <2>1 DEF Places, RoutesAreKnown
  <2>3. ~Producing
    BY <1>9 DEF SaveDone, CompleteJob, Producing
  <2>4. /\ UNCHANGED <<fold, passed, results>> /\ attempt' = attempt /\ memo' = memo
        /\ job' = job /\ it' = it /\ held' = held
    BY <1>9 DEF SaveDone, CompleteJob, eventVars
  <2> QED
    BY <1>1, <1>3, <1>4, <2>2, <2>3, <2>4, QuietStep
<1>10. CASE FailRun
  <2>1. at' = [node |-> at.node, is |-> "over", n |-> at.n]
    BY <1>2, <1>10 DEF FailRun
  <2>2. at' \in Places /\ at'.is # "on" /\ RoutesAreKnown'
    BY <1>2, <2>1 DEF Places, RoutesAreKnown
  <2>3. /\ UNCHANGED <<fold, passed, results>> /\ attempt' = attempt /\ memo' = {}
        /\ job' = job /\ it' = [i \in Items |-> NewItem] /\ held' = held
    BY <1>10 DEF FailRun
  <2>4. it' \in [Items -> ItemStates] /\ \A i \in Items : ItemIsSound(it'[i]) /\ ~it'[i].on
    BY <2>3, NewItemSound
  <2> QED
    BY <1>1, <2>2, <2>3, <2>4, QuietStep
<1>11. CASE CrashAttempt
  <2>1. \E n \in {"concepts", at.node} : at' = [node |-> n, is |-> "queued", n |-> 0]
    BY <1>11 DEF CrashAttempt
  <2>2. at' \in Places /\ at'.is # "on" /\ RoutesAreKnown'
    BY <1>2, <2>1 DEF Places, RoutesAreKnown, Drafting
  <2>3. /\ UNCHANGED <<fold, passed, results>> /\ attempt' = attempt /\ memo' = {}
        /\ job' = job /\ held' = held
        /\ it' = [i \in Items |-> IF it[i].node = "written" THEN it[i] ELSE NewItem]
    BY <1>11 DEF CrashAttempt
  <2>4. \A i \in Items : it[i].node = "written" => ~it[i].on
    BY DEF GraphInv, ExecutingIsOpen, ItemNodes
  <2>5. it' \in [Items -> ItemStates] /\ \A i \in Items : ItemIsSound(it'[i]) /\ ~it'[i].on
    BY <1>1, <1>3, <2>3, <2>4, NewItemSound
  <2> QED
    BY <1>1, <2>2, <2>3, <2>5, QuietStep
<1> QED
  BY <1>5, <1>6, <1>7, <1>8, <1>9, <1>10, <1>11

\* The steps of the drafting nodes.
LEMMA DraftActions ==
  ASSUME GraphTypeOK, GraphInv, StartNode \/ Report \/ InnerChain \/ EndNode
  PROVE  GraphTypeOK' /\ GraphInv'
<1>1. /\ at \in Places /\ attempt \in Nat /\ fold \in FoldsOf(attempt) /\ memo \in MemosOf(attempt)
  BY DEF GraphTypeOK, Places, MemosOf
<1>2. at = [node |-> at.node, is |-> at.is, n |-> at.n]
      /\ at.node \in Drafting \cup {"items", "end"} /\ at.n \in Nat
  BY <1>1 DEF Places
<1>3. FoldIsTrue(fold, passed)
  BY DEF GraphInv
<1>4. at.is = "on" => at.node \in Drafting /\ Operation(at.node, NoItem, attempt) \in fold.active
  BY DEF GraphInv, ExecutingIsOpen
<1>5. \A node \in Drafting : node \in DOMAIN NodeStage /\ Terminal(node)
  BY NodesOfStages
<1>6. NoItem \in Units
  BY DEF Units
<1>7. \A node \in Drafting : node # "items"
  BY DEF Drafting
<1> DEFINE op == <<at.node, NoItem, attempt>>
<1>8. CASE StartNode
  <2>1. at.node \in Drafting /\ ~Producing
    BY <1>7, <1>8 DEF StartNode, Producing
  <2>2. at' = [node |-> at.node, is |-> "on", n |-> 0]
    BY <1>2, <1>8 DEF StartNode
  <2>3. at' \in Places /\ RoutesAreKnown' /\ at'.node = at.node
    BY <2>1, <2>2 DEF Places, RoutesAreKnown
  <2> DEFINE e == Lifecycle(memo, at.node, "started", op, NoItem)
  <2>4. fold' = Apply(fold, e) /\ passed' = passed /\ memo' = memo
    BY <1>8 DEF StartNode, Started, Op, Remember
  <2>5. /\ e.life = "started" /\ e.stage = NodeStage[at.node] /\ e.op = op /\ e.item = NoItem
    <3>1. op = <<at.node, NoItem, attempt>>
      OBVIOUS
    <3> HIDE DEF op
    <3>2. Identity(memo, op, NoItem) = NoItem
      BY <1>1, <1>5, <1>6, <2>1, <3>1, IdentityIs
    <3> QED
      BY <3>2 DEF Lifecycle
  <2> HIDE DEF e
  <2>6. /\ fold' \in FoldsOf(attempt) /\ FoldIsTrue(fold', passed)
        /\ fold'.active = Others(fold, op) \cup {Operation(at.node, NoItem, attempt)}
    BY <1>1, <1>3, <1>5, <1>6, <2>1, <2>4, <2>5, StartFold
  <2>7. UNCHANGED <<job, attempt, held, it, results>>
    BY <1>8 DEF StartNode
  <2> QED
    BY <2>1, <2>3, <2>4, <2>6, <2>7, DraftStep
<1>9. CASE Report
  <2>1. at.is = "on" /\ at.node \in Drafting /\ ~Producing
        /\ Operation(at.node, NoItem, attempt) \in fold.active
    BY <1>4, <1>9 DEF Report, Producing
  <2>2. at' = [node |-> at.node, is |-> "on", n |-> at.n + 1]
    BY <1>2, <1>9, <2>1 DEF Report
  <2>3. at' \in Places /\ RoutesAreKnown' /\ at'.node = at.node
    BY <1>2, <2>1, <2>2 DEF Places, RoutesAreKnown
  <2> DEFINE z == Cardinality(Items)
             e == CreativeProgress(NodeStage[at.node], at.n + 1, z)
  <2>4. fold' = Apply(fold, e) /\ passed' = passed /\ memo' = memo
        /\ UNCHANGED <<job, attempt, held, it, results>>
    BY <1>9 DEF Report
  <2>5. z \in Nat /\ at.n + 1 \in Nat
    BY <1>2, ProgressAssumption, FS_CardinalityType
  <2>6. e.life = "progress" /\ e.stage = NodeStage[at.node] /\ e.done = at.n + 1 /\ e.total = z
    BY DEF CreativeProgress
  <2> HIDE DEF e, z
  <2>7. /\ fold' \in FoldsOf(attempt) /\ FoldIsTrue(fold', passed)
        /\ fold'.active = fold.active
    BY <1>1, <1>3, <2>1, <2>4, <2>5, <2>6, ReportFold
  <2> QED
    BY <2>1, <2>3, <2>4, <2>7, DraftStep
<1>10. CASE InnerChain
  <2>1. at.is = "on" /\ at.node \in Drafting /\ ~Producing
        /\ Operation(at.node, NoItem, attempt) \in fold.active
    BY <1>4, <1>10 DEF InnerChain, Producing
  <2> DEFINE inner == <<at.node, NoItem, attempt, "inner">>
             e == Lifecycle(memo, at.node, "started", inner, NoItem)
             f == Lifecycle(memo, at.node, "completed", inner, NoItem)
  <2>2. fold' = Apply(Apply(fold, e), f) /\ passed' = passed /\ memo' = memo /\ at' = at
        /\ UNCHANGED <<job, attempt, held, it, results>>
    BY <1>10 DEF InnerChain, threadVars
  <2>3. /\ e.life = "started" /\ e.stage = NodeStage[at.node] /\ e.op = inner
        /\ f.life = "completed" /\ f.node = at.node /\ f.stage = NodeStage[at.node] /\ f.op = inner
        /\ f.item = NoItem
    <3>1. inner = <<at.node, NoItem, attempt, "inner">>
      OBVIOUS
    <3> HIDE DEF inner
    <3>2. Identity(memo, inner, NoItem) = NoItem
      BY <1>1, <1>5, <1>6, <2>1, <3>1, InnerIdentity
    <3> QED
      BY <3>2 DEF Lifecycle
  <2>4. inner = <<at.node, NoItem, attempt, "inner">>
    OBVIOUS
  <2> HIDE DEF inner, e, f
  <2>5. /\ fold' \in FoldsOf(attempt) /\ FoldIsTrue(fold', passed)
        /\ fold'.active = fold.active
    BY <1>1, <1>3, <2>1, <2>2, <2>3, <2>4, InnerFold
  <2>6. RoutesAreKnown'
    BY <2>1, <2>2 DEF RoutesAreKnown
  <2> QED
    BY <1>1, <2>1, <2>2, <2>5, <2>6, DraftStep
<1>11. CASE EndNode
  <2>1. at.node \in Drafting /\ ~Producing
    BY <1>11 DEF EndNode, Producing
  <2>2. at' = [node |-> at.node, is |-> "ran", n |-> at.n]
    BY <1>2, <1>11 DEF EndNode
  <2>3. at' \in Places /\ at'.is # "on"
    BY <1>2, <2>2 DEF Places
  <2>4. RoutesAreKnown'
    BY <1>11, <2>1, <2>2 DEF EndNode, RoutesAreKnown, rowVars
  <2> DEFINE e == Lifecycle(memo, at.node, "completed", op, NoItem)
             Q == passed \cup (IF Terminal(at.node) THEN {<<NodeStage[at.node], NoItem>>} ELSE {})
  <2>5. fold' = Apply(fold, e) /\ passed' = Q /\ memo' \in SUBSET memo
        /\ UNCHANGED <<job, attempt, held, it, results>>
    BY <1>11 DEF EndNode, Ended, Op, Forget
  <2>6. /\ e.life = "completed" /\ e.node = at.node /\ e.stage = NodeStage[at.node] /\ e.op = op
        /\ e.item = NoItem
    <3>1. op = <<at.node, NoItem, attempt>>
      OBVIOUS
    <3> HIDE DEF op
    <3>2. Identity(memo, op, NoItem) = NoItem
      BY <1>1, <1>5, <1>6, <2>1, <3>1, IdentityIs
    <3> QED
      BY <3>2 DEF Lifecycle
  <2> HIDE DEF e
  <2>7. fold' \in FoldsOf(attempt) /\ FoldIsTrue(fold', Q)
    BY <1>1, <1>3, <1>5, <1>6, <2>1, <2>5, <2>6, EndFold
  <2> HIDE DEF Q
  <2> QED
    BY <2>1, <2>3, <2>4, <2>5, <2>7, DraftStep
<1> QED
  BY <1>8, <1>9, <1>10, <1>11

\* An operation is closed or reopened by its own name only.
LEMMA OthersStay ==
  ASSUME NEW m, NEW k, NEW node, NEW i, NEW op, op = <<node, i, k>>
  PROVE  \A n, j : j # i /\ Operation(n, j, k) \in m.active => Operation(n, j, k) \in Others(m, op)
BY DEF Others, Operation

\* An event of item i's node.
LEMMA ItemEvent ==
  ASSUME NEW k \in Nat, NEW M \in MemosOf(k), NEW node \in DOMAIN NodeStage, NEW i \in Items,
         NEW op, op = <<node, i, k>>, NEW life, NEW carried,
         carried = i \/ (carried = NoItem /\ Remembered(node, i, k) \in M),
         NEW e, e = Lifecycle(M, node, life, op, carried)
  PROVE  /\ e.life = life /\ e.node = node /\ e.stage = NodeStage[node] /\ e.op = op /\ e.item = i
<1>1. i \in Units
  BY DEF Units
<1>2. Identity(M, op, carried) = i
  BY <1>1, IdentityIs
<1> QED
  BY <1>2 DEF Lifecycle

LEMMA StartedRecord ==
  ASSUME NEW x, x = [node |-> x.node, on |-> x.on, err |-> x.err, att |-> x.att, end |-> x.end],
         NEW b
  PROVE  /\ [x EXCEPT !.on = b] = [node |-> x.node, on |-> b, err |-> x.err, att |-> x.att, end |-> x.end]
         /\ \A n : [x EXCEPT !.node = n, !.on = b]
                    = [node |-> n, on |-> b, err |-> x.err, att |-> x.att, end |-> x.end]
<1> DEFINE q == [x EXCEPT !.on = b]
<1>1. q = [node |-> x.node, on |-> b, err |-> x.err, att |-> x.att, end |-> x.end]
  OBVIOUS
<1>2. \A n : [x EXCEPT !.node = n, !.on = b] = [[x EXCEPT !.node = n] EXCEPT !.on = b]
  OBVIOUS
<1>3. \A n : [x EXCEPT !.node = n] = [node |-> n, on |-> x.on, err |-> x.err, att |-> x.att, end |-> x.end]
  OBVIOUS
<1>4. ASSUME NEW n
      PROVE  [x EXCEPT !.node = n, !.on = b]
               = [node |-> n, on |-> b, err |-> x.err, att |-> x.att, end |-> x.end]
  <2> DEFINE w == [x EXCEPT !.node = n]
  <2>1. w = [node |-> n, on |-> x.on, err |-> x.err, att |-> x.att, end |-> x.end]
    BY <1>3
  <2>2. [x EXCEPT !.node = n, !.on = b] = [w EXCEPT !.on = b]
    BY <1>2
  <2> HIDE DEF w
  <2> QED
    BY <2>1, <2>2
<1> QED
  BY <1>1, <1>4

\* The steps of the item subgraphs.
LEMMA ItemActions ==
  ASSUME GraphTypeOK, GraphInv, NEW i \in Items,
         StartItem(i) \/ StartItemNode(i) \/ EndItemNode(i) \/ EndItem(i)
  PROVE  GraphTypeOK' /\ GraphInv'
<1>1. /\ attempt \in Nat /\ fold \in FoldsOf(attempt) /\ memo \in MemosOf(attempt)
      /\ it \in [Items -> ItemStates]
  BY DEF GraphTypeOK, MemosOf
<1>2. FoldIsTrue(fold, passed) /\ ItemIsSound(it[i])
  BY DEF GraphInv
<1>3. it[i].on => /\ it[i].node \in ItemNodes
                  /\ Remembered(it[i].node, i, attempt) \in memo
  BY DEF GraphInv, ExecutingIsOpen
<1>4. ItemNodes \subseteq DOMAIN NodeStage /\ "process_item" \in DOMAIN NodeStage
  BY NodesOfStages
<1>5. i \in Units /\ i # NoItem
  BY ProgressAssumption DEF Units
<1> DEFINE x == it[i]
<1>6. /\ x \in ItemStates /\ x = [node |-> x.node, on |-> x.on, err |-> x.err, att |-> x.att, end |-> x.end]
      /\ x.on \in BOOLEAN
  BY <1>1 DEF ItemStates
<1>7. CASE StartItem(i)
  <2> DEFINE outer == <<"process_item", i, attempt>>
             inner == <<"voiceover", i, attempt>>
             e == Lifecycle(memo, "process_item", "started", outer, i)
             f == Lifecycle(memo, "voiceover", "started", inner, i)
             m1 == Apply(fold, e)
             M1 == Remember(memo, outer, i)
             y == [x EXCEPT !.node = "voiceover", !.on = TRUE]
  <2>1. /\ Producing /\ x.node = "new" /\ passed' = passed
        /\ memo' = Remember(M1, inner, i)
        /\ fold' = Apply(m1, f)
        /\ UNCHANGED <<job, attempt, held, at, results>>
    BY <1>7 DEF StartItem, Op
  <2>2. it' = [it EXCEPT ![i] = y]
    BY <1>1, <1>6, <1>7 DEF StartItem
  <2>3. y = [node |-> "voiceover", on |-> TRUE, err |-> x.err, att |-> x.att, end |-> x.end]
    BY <1>6, StartedRecord, Zenon
  <2>4. y \in ItemStates /\ ItemIsSound(y) /\ y.on /\ y.node = "voiceover"
    BY <1>2, <1>6, <2>1, <2>3 DEF ItemStates, ItemIsSound, ItemNodes
  <2>5. "voiceover" \in ItemNodes /\ "voiceover" \in DOMAIN NodeStage
    BY <1>4 DEF ItemNodes
  <2>6. outer = <<"process_item", i, attempt>> /\ inner = <<"voiceover", i, attempt>>
    OBVIOUS
  <2> HIDE DEF outer, inner
  <2>7. e.life = "started" /\ e.stage = NodeStage["process_item"] /\ e.op = outer /\ e.item = i
    BY <1>1, <1>4, <2>6, ItemEvent
  <2>8. f.life = "started" /\ f.stage = NodeStage["voiceover"] /\ f.op = inner /\ f.item = i
    BY <1>1, <2>5, <2>6, ItemEvent
  <2> HIDE DEF e, f
  <2>9. /\ m1 \in FoldsOf(attempt) /\ FoldIsTrue(m1, passed)
        /\ m1.active = Others(fold, outer) \cup {Operation("process_item", i, attempt)}
    BY <1>1, <1>2, <1>4, <1>5, <2>6, <2>7, StartFold
  <2>10. M1 \in MemosOf(attempt)
         /\ \A n, j : j # i /\ Remembered(n, j, attempt) \in memo => Remembered(n, j, attempt) \in M1
    BY <1>1, <1>4, <1>5, <2>6, MemoStep
  <2> HIDE DEF m1, M1
  <2>11. /\ fold' \in FoldsOf(attempt) /\ FoldIsTrue(fold', passed)
         /\ fold'.active = Others(m1, inner) \cup {Operation("voiceover", i, attempt)}
    BY <1>1, <1>5, <2>1, <2>5, <2>6, <2>8, <2>9, StartFold
  <2>12. /\ memo' \in MemosOf(attempt) /\ Remembered("voiceover", i, attempt) \in memo'
         /\ \A n, j : j # i /\ Remembered(n, j, attempt) \in M1 => Remembered(n, j, attempt) \in memo'
    BY <1>1, <1>5, <2>1, <2>5, <2>6, <2>10, MemoStep
  <2>13. \A n, j : j # i /\ Operation(n, j, attempt) \in fold.active
                    => Operation(n, j, attempt) \in fold'.active
    BY <2>6, <2>9, <2>11, OthersStay
  <2> HIDE DEF y, x
  <2> QED
    BY <2>1, <2>2, <2>4, <2>5, <2>10, <2>11, <2>12, <2>13, OneItemStep
<1>8. CASE StartItemNode(i)
  <2> DEFINE op == <<x.node, i, attempt>>
             e == Lifecycle(memo, x.node, "started", op, i)
             y == [x EXCEPT !.on = TRUE]
  <2>1. /\ Producing /\ x.node \in ItemNodes /\ passed' = passed
        /\ memo' = Remember(memo, op, i)
        /\ fold' = Apply(fold, e)
        /\ UNCHANGED <<job, attempt, held, at, results>>
    BY <1>8 DEF StartItemNode, Started, Op
  <2>2. it' = [it EXCEPT ![i] = y]
    BY <1>1, <1>6, <1>8 DEF StartItemNode
  <2>3. y = [node |-> x.node, on |-> TRUE, err |-> x.err, att |-> x.att, end |-> x.end]
    BY <1>6, StartedRecord, Zenon
  <2>4. y \in ItemStates /\ ItemIsSound(y) /\ y.on /\ y.node = x.node
    BY <1>2, <1>6, <2>3 DEF ItemStates, ItemIsSound
  <2>5. x.node \in DOMAIN NodeStage
    BY <1>4, <2>1
  <2>6. op = <<x.node, i, attempt>>
    OBVIOUS
  <2> HIDE DEF op, y, x
  <2>7. e.life = "started" /\ e.stage = NodeStage[x.node] /\ e.op = op /\ e.item = i
    BY <1>1, <2>5, <2>6, ItemEvent
  <2> HIDE DEF e
  <2>8. /\ fold' \in FoldsOf(attempt) /\ FoldIsTrue(fold', passed)
        /\ fold'.active = Others(fold, op) \cup {Operation(x.node, i, attempt)}
    BY <1>1, <1>2, <1>5, <2>1, <2>5, <2>6, <2>7, StartFold
  <2>9. /\ memo' \in MemosOf(attempt) /\ Remembered(x.node, i, attempt) \in memo'
        /\ \A n, j : j # i /\ Remembered(n, j, attempt) \in memo => Remembered(n, j, attempt) \in memo'
    BY <1>1, <1>5, <2>1, <2>5, <2>6, MemoStep
  <2>10. \A n, j : j # i /\ Operation(n, j, attempt) \in fold.active
                    => Operation(n, j, attempt) \in fold'.active
    BY <2>6, <2>8, OthersStay
  <2> QED
    BY <2>1, <2>2, <2>4, <2>8, <2>9, <2>10, OneItemStep
<1>9. CASE EndItemNode(i)
  <2> DEFINE op == <<x.node, i, attempt>>
             Q == passed \cup (IF Terminal(x.node) THEN {<<NodeStage[x.node], i>>} ELSE {})
  <2>1. Producing /\ x.on /\ UNCHANGED <<job, attempt, held, at, results>>
    BY <1>9 DEF EndItemNode
  <2>2. PICK carried \in {i, NoItem} : Ended(x.node, i, carried)
    BY <1>9 DEF EndItemNode
  <2>3. PICK z \in ItemStep(x) : it' = [it EXCEPT ![i] = [z EXCEPT !.on = FALSE]]
    BY <1>9 DEF EndItemNode
  <2> DEFINE e == Lifecycle(memo, x.node, "completed", op, carried)
             y == [z EXCEPT !.on = FALSE]
  <2>4. /\ memo' = Forget(memo, op) /\ fold' = Apply(fold, e) /\ passed' = Q
    BY <2>2 DEF Ended, Op
  <2>5. x.node \in ItemNodes /\ x.node \in DOMAIN NodeStage
        /\ Remembered(x.node, i, attempt) \in memo
    BY <1>3, <1>4, <2>1
  <2>6. op = <<x.node, i, attempt>>
    OBVIOUS
  <2>7. y \in ItemStates /\ ItemIsSound(y)
    BY <1>2, <1>6, <2>3, <2>5, ItemStepSound
  <2>8. ~y.on
    <3>1. z \in ItemStep(x) => [z EXCEPT !.on = FALSE] \in ItemStates
      BY <2>7
    <3>2. y = [z EXCEPT !.on = FALSE]
      OBVIOUS
    <3> QED
      BY <2>7, <3>2 DEF ItemStates
  <2> HIDE DEF op, y, x
  <2>9. /\ e.life = "completed" /\ e.node = x.node /\ e.stage = NodeStage[x.node] /\ e.op = op
        /\ e.item = i
    BY <1>1, <2>5, <2>6, ItemEvent
  <2> HIDE DEF e
  <2>10. /\ fold' \in FoldsOf(attempt) /\ FoldIsTrue(fold', Q)
         /\ fold'.active = Others(fold, op)
    BY <1>1, <1>2, <1>5, <2>4, <2>5, <2>6, <2>9, EndFold
  <2> HIDE DEF Q
  <2>11. /\ memo' \in MemosOf(attempt)
         /\ \A n, j : j # i /\ Remembered(n, j, attempt) \in memo => Remembered(n, j, attempt) \in memo'
    BY <1>1, <1>5, <2>4, <2>5, <2>6, MemoStep
  <2>12. \A n, j : j # i /\ Operation(n, j, attempt) \in fold.active
                    => Operation(n, j, attempt) \in fold'.active
    BY <2>6, <2>10, OthersStay
  <2>13. it' = [it EXCEPT ![i] = y]
    BY <2>3 DEF y
  <2> QED
    BY <2>1, <2>4, <2>7, <2>8, <2>10, <2>11, <2>12, <2>13, OneItemStep
<1>10. CASE EndItem(i)
  <2> DEFINE op == <<"process_item", i, attempt>>
             Q == passed \cup (IF Terminal("process_item") THEN {<<NodeStage["process_item"], i>>} ELSE {})
             e == Lifecycle(memo, "process_item", "completed", op, i)
             y == [x EXCEPT !.node = "written"]
  <2>1. /\ Producing /\ x.node = "over"
        /\ memo' = Forget(memo, op) /\ fold' = Apply(fold, e) /\ passed' = Q
        /\ UNCHANGED <<job, attempt, held, at, results>>
    BY <1>10 DEF EndItem, Ended, Op
  <2>2. it' = [it EXCEPT ![i] = y]
    BY <1>1, <1>6, <1>10 DEF EndItem
  <2>3. y = [node |-> "written", on |-> x.on, err |-> x.err, att |-> x.att, end |-> x.end]
    BY <1>6
  <2>4. y \in ItemStates /\ ItemIsSound(y)
    BY <1>2, <1>6, <2>1, <2>3 DEF ItemStates, ItemIsSound
  <2>5. ~y.on
    BY <1>3, <2>1, <2>3 DEF ItemNodes
  <2>6. op = <<"process_item", i, attempt>>
    OBVIOUS
  <2> HIDE DEF op, y, x
  <2>7. /\ e.life = "completed" /\ e.node = "process_item" /\ e.stage = NodeStage["process_item"]
        /\ e.op = op /\ e.item = i
    BY <1>1, <1>4, <2>6, ItemEvent
  <2> HIDE DEF e
  <2>8. /\ fold' \in FoldsOf(attempt) /\ FoldIsTrue(fold', Q)
        /\ fold'.active = Others(fold, op)
    BY <1>1, <1>2, <1>4, <1>5, <2>1, <2>6, <2>7, EndFold
  <2> HIDE DEF Q
  <2>9. /\ memo' \in MemosOf(attempt)
        /\ \A n, j : j # i /\ Remembered(n, j, attempt) \in memo => Remembered(n, j, attempt) \in memo'
    BY <1>1, <1>4, <1>5, <2>1, <2>6, MemoStep
  <2>10. \A n, j : j # i /\ Operation(n, j, attempt) \in fold.active
                    => Operation(n, j, attempt) \in fold'.active
    BY <2>6, <2>8, OthersStay
  <2> QED
    BY <2>1, <2>2, <2>4, <2>5, <2>8, <2>9, <2>10, OneItemStep
<1> QED
  BY <1>7, <1>8, <1>9, <1>10

\* The results of a superstep are outcomes of its items.
LEMMA JoinStep ==
  ASSUME GraphTypeOK, GraphInv, Join
  PROVE  GraphTypeOK' /\ GraphInv'
<1>1. /\ at \in Places /\ at = [node |-> at.node, is |-> at.is, n |-> at.n]
      /\ Producing /\ it' = it /\ at' = [at EXCEPT !.node = "end"]
      /\ UNCHANGED <<job, attempt, held, fold, memo, passed>>
  BY DEF GraphTypeOK, Places, Join, eventVars
<1>2. at' = [node |-> "end", is |-> "ready", n |-> at.n] /\ at.n \in Nat
  BY <1>1 DEF Producing, Places
<1>3. at' \in Places /\ at'.is # "on" /\ RoutesAreKnown'
  BY <1>2 DEF Places, RoutesAreKnown
<1>4. \A i \in Items : ~it[i].on /\ Outcome(it[i].err, it[i].end)
  BY DEF Join, GraphInv, ExecutingIsOpen, ItemIsSound, ItemNodes
<1>5. GraphTypeOK'
  BY <1>1, <1>3 DEF GraphTypeOK, Places
<1>6. ResultsAreOutcomes'
  <2> DEFINE D == DOMAIN results \cup (Items \X {attempt})
             g == [x \in D |-> IF x \in DOMAIN results THEN results[x]
                               ELSE [err |-> it[x[1]].err, end |-> it[x[1]].end]]
  <2>1. results' = g
    BY DEF Join
  <2>2. IsFiniteSet(DOMAIN results) /\ \A x \in DOMAIN results : Outcome(results[x].err, results[x].end)
    BY DEF GraphInv, ResultsAreOutcomes
  <2>3. IsFiniteSet(D)
    <3>1. IsFiniteSet(Items \X {attempt})
      BY ProgressAssumption, FS_Singleton, FS_Product
    <3> QED
      BY <2>2, <3>1, FS_Union
  <2>4. DOMAIN results' = D
    BY <2>1
  <2>5. ASSUME NEW x \in D
        PROVE  Outcome(g[x].err, g[x].end)
    <3>1. CASE x \in DOMAIN results
      <4>1. g[x] = results[x]
        BY <3>1
      <4> QED
        BY <2>2, <3>1, <4>1
    <3>2. CASE x \notin DOMAIN results
      <4>1. x[1] \in Items
        BY <3>2
      <4>2. g[x] = [err |-> it[x[1]].err, end |-> it[x[1]].end]
        BY <3>2
      <4>3. g[x].err = it[x[1]].err /\ g[x].end = it[x[1]].end
        BY <4>2
      <4> QED
        BY <1>4, <4>1, <4>3
    <3> QED
      BY <3>1, <3>2
  <2> HIDE DEF g, D
  <2> QED
    BY <2>1, <2>3, <2>4, <2>5 DEF ResultsAreOutcomes
<1>7. ExecutingIsOpen'
  BY <1>1, <1>3, <1>4 DEF ExecutingIsOpen
<1>8. \A i \in Items : ItemIsSound(it'[i])
  BY <1>1 DEF GraphInv
<1>9. FoldIsTrue(fold, passed)'
  BY <1>1 DEF GraphInv
<1> QED
  BY <1>3, <1>5, <1>6, <1>7, <1>8, <1>9 DEF GraphInv

\* A run, and a run that takes the place of a failed one, begins with nothing reported.
Begun ==
  /\ job = "execute_run" /\ attempt = 0 /\ held = "none"
  /\ at = [node |-> "concepts", is |-> "queued", n |-> 0]
  /\ it = [i \in Items |-> NewItem] /\ results = << >>
  /\ fold = Fresh /\ memo = {} /\ passed = {}

LEMMA GraphBegins == Begun => GraphTypeOK /\ GraphInv
<1> SUFFICES ASSUME Begun PROVE GraphTypeOK /\ GraphInv
  OBVIOUS
<1> USE DEF Begun
<1>1. it \in [Items -> ItemStates] /\ \A i \in Items : it[i] = NewItem
  BY NewItemSound
<1>2. at.is = "queued" /\ at.node = "concepts" /\ at.n = 0
  OBVIOUS
<1>3. GraphTypeOK
  BY <1>1, <1>2, FreshFold DEF GraphTypeOK, Drafting, Places, MemosOf
<1>4. DOMAIN results = {}
  OBVIOUS
<1>5. ResultsAreOutcomes
  BY <1>4, FS_EmptySet DEF ResultsAreOutcomes
<1>6. ExecutingIsOpen /\ RoutesAreKnown
  BY <1>1, <1>2, NewItemSound DEF ExecutingIsOpen, RoutesAreKnown
<1> QED
  BY <1>1, <1>3, <1>5, <1>6, NewItemSound, FreshFold DEF GraphInv

\* What the reports of a run say of it, for any number of items, attempts and failures.
THEOREM GraphInvariant == ApiSpec => [](GraphTypeOK /\ GraphInv)
<1>1. ApiInit => GraphTypeOK /\ GraphInv
  BY GraphBegins DEF ApiInit, GraphInit, Begun
<1>2. Begun' => GraphTypeOK' /\ GraphInv'
  BY GraphBegins, PTL
<1>3. GraphTypeOK /\ GraphInv /\ [ApiNext]_apiVars => GraphTypeOK' /\ GraphInv'
  <2> SUFFICES ASSUME GraphTypeOK, GraphInv, [ApiNext]_apiVars
               PROVE  GraphTypeOK' /\ GraphInv'
    OBVIOUS
  <2>1. CASE GraphNext
    BY <2>1, QuietActions, DraftActions, ItemActions, JoinStep DEF GraphNext
  <2>2. CASE UNCHANGED graphVars
    <3>1. UNCHANGED <<at, job, held, attempt, it, fold, memo, passed, results, reviewed>>
      BY <2>2 DEF graphVars, rowVars, threadVars, eventVars
    <3>2. GraphTypeOK'
      BY <3>1 DEF GraphTypeOK
    <3>3. /\ \A i \in Items : ItemIsSound(it'[i])
          /\ ResultsAreOutcomes' /\ RoutesAreKnown' /\ FoldIsTrue(fold, passed)'
      BY <3>1 DEF GraphInv, ResultsAreOutcomes, RoutesAreKnown
    <3>4. ExecutingIsOpen'
      BY <3>1 DEF GraphInv, ExecutingIsOpen, Producing
    <3> QED
      BY <3>2, <3>3, <3>4 DEF GraphInv
  <2>3. CASE RetryRun
    <3>1. Begun'
      BY <2>3 DEF RetryRun, Begun
    <3> QED
      BY <3>1, <1>2
  <2>4. UNCHANGED apiVars \/ StartRun \/ Local => UNCHANGED graphVars
    BY DEF apiVars, StartRun, Local
  <2>5. Durable => GraphNext
    BY DEF Durable
  <2> QED
    BY <2>1, <2>2, <2>3, <2>4, <2>5 DEF ApiNext
<1> QED
  BY <1>1, <1>3, PTL DEF ApiSpec

\* The status of a stage of a run that is not over, from its events.
LEMMA UnfinishedView ==
  ASSUME GraphTypeOK, NEW p \in {"running", "review"}, NEW st, st = Settled(fold),
         NEW sh, sh = ByPhase(st, p, results)
  PROVE  /\ \A s \in Leaves : Shown(p)[s] = sh[s]
         /\ \A s \in Stages : sh[s] = IF s = "review" /\ p = "review" THEN "waiting" ELSE st[s]
         /\ \A s \in Stages : st[s] \in {"pending", "running", "completed"}
<1>1. Leaves \subseteq Stages /\ \A s \in Leaves : Children[s] = {}
  BY Topology
<1>2. Shown(p) = [s \in Stages |-> IF Children[s] = {} THEN sh[s] ELSE OfChildren(sh, s)]
  BY DEF Shown, View, WithParents
<1>3. fold.status \in [Stages -> {"pending", "running", "completed"}]
  BY DEF GraphTypeOK, FoldsOf
<1>4. ASSUME NEW s \in Stages
      PROVE  st[s] \in {"pending", "running", "completed"}
  <2>1. \/ st[s] = "completed" \/ st[s] = "running" \/ st[s] = fold.status[s]
    BY DEF Settled
  <2> QED
    BY <1>3, <2>1
<1>5. DOMAIN st = Stages
  BY DEF Settled
<1>6. CASE p = "running"
  <2>1. sh = st
    BY <1>6 DEF ByPhase
  <2> QED
    BY <1>1, <1>2, <1>4, <1>6, <2>1
<1>7. CASE p = "review"
  <2>1. sh = [st EXCEPT !["review"] = "waiting"]
    BY <1>7 DEF ByPhase
  <2>2. \A s \in Stages : sh[s] = IF s = "review" THEN "waiting" ELSE st[s]
    BY <1>5, <2>1
  <2> QED
    BY <1>1, <1>2, <1>4, <1>7, <2>2
<1> QED
  BY <1>6, <1>7

\* What build_progress shows as completed was completed by every unit of the stage
\* (progress.py), whatever attempts died and whatever chains reported beside the nodes.
THEOREM CompletedStageIsTrueHolds == ApiSpec => []CompletedStageIsTrue
<1>1. GraphTypeOK /\ GraphInv => CompletedStageIsTrue
  <2> SUFFICES ASSUME GraphTypeOK, GraphInv, NEW p \in had \cap {"running", "review"},
                      NEW s \in Leaves, Shown(p)[s] = "completed",
                      NEW i \in (IF s \in PerItem THEN Items ELSE {NoItem})
               PROVE  <<s, i>> \in passed
    BY DEF CompletedStageIsTrue
  <2> DEFINE st == Settled(fold)
             sh == ByPhase(st, p, results)
  <2>1. s \in Stages /\ s # "setup"
    BY Topology
  <2>2. Shown(p)[s] = sh[s] /\ sh[s] = IF s = "review" /\ p = "review" THEN "waiting" ELSE st[s]
    BY <2>1, UnfinishedView
  <2>3. st[s] = "completed"
    <3> HIDE DEF st, sh
    <3> QED BY <2>2
  <2>4. /\ ~\E a \in fold.active : a.stage = s
        /\ \/ fold.done[s] > 0 /\ (fold.total[s] \in {0, 1} \/ fold.done[s] >= fold.total[s])
           \/ fold.status[s] = "completed"
    BY <2>1, <2>3 DEF Settled
  <2>5. FoldIsTrue(fold, passed) /\ fold.done[s] \in Nat
    BY <2>1 DEF GraphInv, GraphTypeOK, FoldsOf
  <2>6. CASE s \in ItemStages
    <3>1. /\ fold.units[s] = {j \in Items : <<s, j>> \in passed}
          /\ fold.done[s] = Cardinality(fold.units[s])
          /\ fold.total[s] = Cardinality(Items) /\ fold.status[s] # "completed"
      BY <2>5, <2>6 DEF FoldIsTrue
    <3>2. fold.units[s] \in SUBSET Items
      BY <3>1
    <3>3. /\ Cardinality(Items) \in Nat /\ Cardinality(fold.units[s]) <= Cardinality(Items)
          /\ Cardinality(Items) = Cardinality(fold.units[s]) => Items = fold.units[s]
      BY <3>2, ProgressAssumption, FS_CardinalityType, FS_Subset
    <3>4. fold.done[s] >= fold.total[s]
      BY <2>4, <2>5, <3>1
    <3>5. Items = fold.units[s]
      BY <2>5, <3>1, <3>3, <3>4
    <3>6. i \in Items
      BY <2>6 DEF ItemStages, PerItem
    <3> QED
      BY <3>1, <3>5, <3>6
  <2>7. CASE s \in DraftStages
    <3>1. <<s, NoItem>> \in passed
      BY <2>4, <2>5, <2>7 DEF FoldIsTrue
    <3>2. s \notin PerItem
      BY <2>7, Topology DEF DraftStages, ItemStages, PerItem
    <3> QED
      BY <3>1, <3>2
  <2> QED
    BY <2>6, <2>7 DEF DraftStages
<1> QED
  BY <1>1, GraphInvariant, PTL

\* The stage of a node that executes is shown as running, and so is the stage's parent
\* (progress.py): no other item, chain or dead attempt closes the node's operation.
THEOREM RunningIsShownHolds == ApiSpec => []RunningIsShown
<1>1. GraphTypeOK /\ GraphInv => RunningIsShown
  <2> SUFFICES ASSUME GraphTypeOK, GraphInv, NEW p \in had \cap {"running", "review"},
                      NEW s \in {NodeStage[node] : node \in Executing}
               PROVE  /\ Shown(p)[s] = "running" \/ (s = "review" /\ p = "review")
                      /\ Parent[s] # "" => Shown(p)[Parent[s]] = "running"
    BY DEF RunningIsShown
  <2> PICK node \in Executing : s = NodeStage[node]
    OBVIOUS
  <2> DEFINE st == Settled(fold)
             sh == ByPhase(st, p, results)
  <2>1. /\ node \in Drafting \cup ItemNodes
        /\ \E i \in Units : Operation(node, i, attempt) \in fold.active
    <3>1. CASE at.is = "on" /\ node = at.node
      BY <3>1 DEF GraphInv, ExecutingIsOpen, Units
    <3>2. CASE \E i \in Items : it[i].on /\ node = it[i].node
      BY <3>2 DEF GraphInv, ExecutingIsOpen, Units
    <3> QED
      BY <3>1, <3>2 DEF Executing
  <2>2. s \in Leaves /\ s \in Stages /\ s # "setup"
    BY <2>1, NodesOfStages, Topology DEF DraftStages
  <2>3. \E a \in fold.active : a.stage = s
    BY <2>1 DEF Operation
  <2>4. st[s] = "running"
    BY <2>2, <2>3 DEF Settled
  <2>5. /\ \A t \in Leaves : Shown(p)[t] = sh[t]
        /\ \A t \in Stages : sh[t] = IF t = "review" /\ p = "review" THEN "waiting" ELSE st[t]
        /\ \A t \in Stages : st[t] \in {"pending", "running", "completed"}
    BY UnfinishedView
  <2>6. Shown(p)[s] = "running" \/ (s = "review" /\ p = "review")
    <3> HIDE DEF st, sh
    <3> QED BY <2>2, <2>4, <2>5
  <2>7. ASSUME Parent[s] # "" PROVE Shown(p)[Parent[s]] = "running"
    <3> DEFINE d == Parent[s]
               kids == {sh[t] : t \in Children[d]}
    <3>1. d \in Stages /\ s \in Children[d] /\ s # "review"
      BY <2>2, <2>7, ParentStage
    <3>2. sh[s] = "running"
      <4> HIDE DEF st, sh
      <4> QED BY <2>2, <2>4, <2>5, <3>1
    <3>3. "running" \in kids
      <4> HIDE DEF sh, d
      <4> QED BY <3>1, <3>2
    <3>4. "failed" \notin kids
      <4>1. Children[d] \subseteq Stages
        BY <3>1 DEF Children
      <4> HIDE DEF st, sh, d
      <4> QED BY <2>5, <4>1
    <3>5. Children[d] # {}
      BY <3>1
    <3>6. OfChildren(sh, d) = "running"
      <4> HIDE DEF sh, d
      <4>1. kids = {sh[t] : t \in Children[d]}
        OBVIOUS
      <4> HIDE DEF kids
      <4> QED BY <3>3, <3>4, <4>1 DEF OfChildren
    <3>7. Shown(p) = [t \in Stages |-> IF Children[t] = {} THEN sh[t] ELSE OfChildren(sh, t)]
      BY DEF Shown, View, WithParents
    <3> HIDE DEF sh, d
    <3>8. Shown(p)[d] = "running"
      BY <3>1, <3>5, <3>6, <3>7
    <3> QED
      BY <3>8 DEF d
  <2> QED
    BY <2>6, <2>7
<1> QED
  BY <1>1, GraphInvariant, PTL

LEMMA DisjointUnion ==
  ASSUME NEW S, NEW T, IsFiniteSet(S), IsFiniteSet(T), S \cap T = {}
  PROVE  /\ IsFiniteSet(S \cup T)
         /\ Cardinality(S \cup T) = Cardinality(S) + Cardinality(T)
<1>1. Cardinality(S) \in Nat /\ Cardinality(T) \in Nat /\ Cardinality(S \cap T) = 0
  BY FS_CardinalityType, FS_EmptySet
<1>2. /\ IsFiniteSet(S \cup T)
      /\ Cardinality(S \cup T) = Cardinality(S) + Cardinality(T) - Cardinality(S \cap T)
  BY FS_Union
<1> QED
  BY <1>1, <1>2

\* The report of a finished run accounts for every result exactly once (progress.py), for
\* any number of items, also when the batch was delivered more than once.
THEOREM OutcomeAddsUpHolds == ApiSpec => []OutcomeAddsUp
<1>1. GraphTypeOK /\ GraphInv => OutcomeAddsUp
  <2> SUFFICES ASSUME GraphInv
               PROVE  OutcomeAddsUp
    OBVIOUS
  <2> DEFINE D == DOMAIN results
             T == FailedAt(results, "talking_head")
             P == FailedAt(results, "product_demo")
             R == Dropped(results)
             C == AssemblyCandidates(results)
             A == Assembled(results) \cap C
             F == Failing(results) \cap C
             u == DoneUnits(results)
  <2>1. IsFiniteSet(D) /\ \A x \in D : Outcome(results[x].err, results[x].end)
    BY DEF GraphInv, ResultsAreOutcomes
  <2>2. /\ \A x : x \in T <=> x \in D /\ results[x].err = "talking_head"
        /\ \A x : x \in P <=> x \in D /\ results[x].err = "product_demo"
        /\ \A x : x \in R <=> x \in D /\ results[x].end = "dropped"
        /\ \A x : x \in C <=> x \in D /\ x \notin R /\ x \notin T /\ x \notin P
        /\ \A x : x \in A <=> x \in C /\ results[x].end = "assembled"
        /\ \A x : x \in F <=> x \in C /\ results[x].err # "none"
    BY DEF FailedAt, Dropped, AssemblyCandidates, Assembled, Failing
  <2>3. /\ u.talking_failed = Cardinality(T) /\ u.product_failed = Cardinality(P)
        /\ u.qc_failed = Cardinality(R) /\ u.assembled = Cardinality(A)
        /\ u.assembly_failed = Cardinality(F) /\ u.assembly_total = Cardinality(C)
    BY DEF DoneUnits
  <2>4. Shown("done") = [s \in Stages |-> IF Children[s] = {} THEN DoneStatus(results)[s]
                                          ELSE OfChildren(DoneStatus(results), s)]
    BY DEF Shown, View, WithParents, ByPhase
  <2>5. DoneStatus(results)["assembly"] =
          IF D # {} /\ u.assembled + u.assembly_failed < u.assembly_total
          THEN "failed" ELSE "completed"
    BY Topology DEF DoneStatus
  <2> HIDE DEF D, T, P, R, C, A, F, u
  <2>6. /\ T \cap P = {} /\ (T \cup P) \cap R = {} /\ A \cap F = {}
        /\ ((T \cup P) \cup R) \cap (A \cup F) = {}
    BY <2>1, <2>2 DEF Outcome
  <2>7. C = A \cup F /\ D = ((T \cup P) \cup R) \cup (A \cup F)
    BY <2>1, <2>2 DEF Outcome
  <2>8. IsFiniteSet(T) /\ IsFiniteSet(P) /\ IsFiniteSet(R) /\ IsFiniteSet(A) /\ IsFiniteSet(F)
    <3>1. T \in SUBSET D /\ P \in SUBSET D /\ R \in SUBSET D /\ A \in SUBSET D /\ F \in SUBSET D
      BY <2>2
    <3> QED
      BY <2>1, <3>1, FS_Subset
  <2>9. IsFiniteSet(T \cup P) /\ Cardinality(T \cup P) = Cardinality(T) + Cardinality(P)
    BY <2>6, <2>8, DisjointUnion
  <2>10. /\ IsFiniteSet((T \cup P) \cup R)
         /\ Cardinality((T \cup P) \cup R) = Cardinality(T \cup P) + Cardinality(R)
    BY <2>6, <2>8, <2>9, DisjointUnion
  <2>11. IsFiniteSet(A \cup F) /\ Cardinality(A \cup F) = Cardinality(A) + Cardinality(F)
    BY <2>6, <2>8, DisjointUnion
  <2>12. Cardinality(((T \cup P) \cup R) \cup (A \cup F))
           = Cardinality((T \cup P) \cup R) + Cardinality(A \cup F)
    BY <2>6, <2>10, <2>11, DisjointUnion
  <2>13. /\ Cardinality(T) \in Nat /\ Cardinality(P) \in Nat /\ Cardinality(R) \in Nat
         /\ Cardinality(A) \in Nat /\ Cardinality(F) \in Nat
    BY <2>8, FS_CardinalityType
  <2>14. /\ Cardinality(T) + Cardinality(P) + Cardinality(R) + Cardinality(A) + Cardinality(F)
              = Cardinality(D)
         /\ Cardinality(C) = Cardinality(A) + Cardinality(F)
    <3>1. /\ Cardinality(D) = Cardinality(((T \cup P) \cup R) \cup (A \cup F))
          /\ Cardinality(C) = Cardinality(A \cup F)
      BY <2>7
    <3> HIDE DEF D
    <3> QED
      BY <3>1, <2>9, <2>10, <2>11, <2>12, <2>13
  <2>15. DoneStatus(results)["assembly"] = "completed"
    BY <2>3, <2>5, <2>13, <2>14
  <2>16. Shown("done")["assembly"] = "completed"
    <3>1. "assembly" \in Stages /\ Children["assembly"] = {}
      BY Topology
    <3> QED
      BY <2>4, <2>15, <3>1
  <2>17. u.talking_failed + u.product_failed + u.qc_failed + u.assembled + u.assembly_failed
           = Cardinality(D)
    BY <2>3, <2>14
  <2> QED
    BY <2>16, <2>17 DEF OutcomeAddsUp, u, D
<1> QED
  BY <1>1, GraphInvariant, PTL

===============================================================================
