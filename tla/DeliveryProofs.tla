---------------------------- MODULE DeliveryProofs ----------------------------
(***************************************************************************)
(* What reaches those who wait for a run.  The durable log (EventLog) and  *)
(* the stream of a run in the web process (LocalRun, as RunApi runs it)    *)
(* both implement EventFeed, and each says when a dashboard can miss an    *)
(* event; the outbox (WakeQueue) records no signal it has not sent.  For   *)
(* any number of workers, runners, dashboards, events, failures and lost   *)
(* connections.                                                            *)
(***************************************************************************)
EXTENDS EventLog, RunApi, WakeQueue, FiniteSetTheorems, SequenceTheorems, TLAPS

-------------------------------------------------------------------------------
(* Counting deliveries                                                     *)

\* The counts B after the ids R were received once each.
Once(B, R) == [n \in DOMAIN B \cup R |-> IF n \in R THEN 1 ELSE B[n]]

\* A batch that holds nothing received before is counted once, and counts nothing again.
LEMMA NewIsCountedOnce ==
  ASSUME NEW B, NEW R, B \in [DOMAIN B -> Nat], R \cap DOMAIN B = {}
  PROVE  /\ B (+) SetToBag(R) = Once(B, R)
         /\ DOMAIN (B (+) SetToBag(R)) = DOMAIN B \cup R
         /\ B (+) SetToBag(R) \in [DOMAIN B \cup R -> Nat]
<1>1. B (+) SetToBag(R) = Once(B, R)
  BY DEF (+), SetToBag, Once
<1> QED
  BY <1>1 DEF Once

\* Nothing was received yet.
LEMMA NothingIsCounted == EmptyBag = [n \in {} |-> 0] /\ DOMAIN EmptyBag = {}
                          /\ EmptyBag \in [{} -> Nat]
BY DEF EmptyBag, SetToBag

-------------------------------------------------------------------------------
(* The durable log                                                         *)

\* The numbers a transaction draws are numbers, and counting them gives one.
LEMMA DrawnNumbers ==
  ASSUME seq \in Nat, NEW n \in Nat
  PROVE  /\ seq..(seq + n - 1) \subseteq Nat
         /\ Cardinality(seq..(seq + n - 1)) \in Nat
<1>1. IsFiniteSet(seq..(seq + n - 1))
  BY FS_Interval
<1>2. Cardinality(seq..(seq + n - 1)) \in Nat
  BY <1>1, FS_CardinalityType
<1> QED
  BY <1>2

\* The rows of the transaction every appending method starts from.
LEMMA AppendsType ==
  ASSUME seq \in Nat, NEW n \in Nat
  PROVE  Appends(n).rows \subseteq Nat /\ Cardinality(Appends(n).rows) \in Nat
BY DrawnNumbers DEF Appends

\* The statements of a transaction keep the types; the committed rows and what the
\* dashboards hold do not change.
LEMMA BeginType ==
  ASSUME LogTypeOK, NEW x \in Writers, NEW t, t.rows \subseteq Nat, Cardinality(t.rows) \in Nat,
         Begin(x, t), rows' = rows, got' = got
  PROVE  LogTypeOK'
BY DEF LogTypeOK, Begin

\* What a round sends is new to the dashboard, and is counted once.
LEMMA RoundIsNew ==
  ASSUME LogTypeOK, NEW c \in Clients, NEW R \in SUBSET Unread(c),
         got' = [got EXCEPT ![c] = @ (+) SetToBag(R)]
  PROVE  /\ R \subseteq rows /\ R \cap DOMAIN got[c] = {}
         /\ got'[c] = Once(got[c], R)
         /\ DOMAIN got'[c] = DOMAIN got[c] \cup R
         /\ got'[c] \in [DOMAIN got'[c] -> Nat]
         /\ \A d \in Clients \ {c} : got'[d] = got[d]
         /\ got' = [got EXCEPT ![c] = got'[c]]
<1>1. R \subseteq rows /\ R \cap DOMAIN got[c] = {}
  BY DEF Unread, LogTypeOK
<1>2. got[c] \in [DOMAIN got[c] -> Nat]
  BY DEF LogTypeOK
<1>3. got'[c] = got[c] (+) SetToBag(R) /\ \A d \in Clients \ {c} : got'[d] = got[d]
  BY DEF LogTypeOK
<1>4. /\ got[c] (+) SetToBag(R) = Once(got[c], R)
      /\ DOMAIN (got[c] (+) SetToBag(R)) = DOMAIN got[c] \cup R
      /\ got[c] (+) SetToBag(R) \in [DOMAIN got[c] \cup R -> Nat]
  BY <1>1, <1>2, NewIsCountedOnce, Zenon
<1>5. got' = [got EXCEPT ![c] = got'[c]]
  BY <1>3
<1>6. /\ got'[c] = Once(got[c], R)
      /\ DOMAIN got'[c] = DOMAIN got[c] \cup R
      /\ got'[c] \in [DOMAIN got'[c] -> Nat]
  BY <1>3, <1>4, Zenon
<1> QED
  BY <1>1, <1>3, <1>5, <1>6, Zenon

\* So a dashboard holds committed events.
LEMMA GotType ==
  ASSUME LogTypeOK, NEW c \in Clients, NEW R \in SUBSET Unread(c), rows' = rows,
         got' = [got EXCEPT ![c] = @ (+) SetToBag(R)]
  PROVE  /\ got' = [d \in Clients |-> got'[d]]
         /\ \A d \in Clients : DOMAIN got'[d] \subseteq rows' /\ got'[d] \in [DOMAIN got'[d] -> Nat]
<1>1. got' = [d \in Clients |-> got'[d]]
  BY DEF LogTypeOK
<1> QED
  <2>1. R \subseteq rows /\ DOMAIN got'[c] = DOMAIN got[c] \cup R
        /\ got'[c] \in [DOMAIN got'[c] -> Nat] /\ \A d \in Clients \ {c} : got'[d] = got[d]
    BY RoundIsNew, Zenon
  <2> QED
    BY <1>1, <2>1 DEF LogTypeOK

\* Whatever a step does to the columns, it appends rows or it delivers some.
LEMMA StepKinds ==
  ASSUME LogTypeOK, [LogNext]_logVars
  PROVE  /\ LogTypeOK'
         /\ \/ rows' = rows /\ got' = got /\ hidden' = hidden
            \/ \E x \in Writers : Commit(x)
            \/ \E c \in Clients : ReadEvents(c)
            \/ \E c \in Clients : LoseConnection(c)
<1> USE DEF dbVars, clientVars
<1> DEFINE quiet == rows' = rows /\ got' = got /\ hidden' = hidden
<1>0. /\ seq \in Nat /\ Workers \subseteq Writers /\ {"beat", "hook", "web"} \subseteq Writers
      /\ \A n \in Nat : Appends(n).rows \subseteq Nat /\ Cardinality(Appends(n).rows) \in Nat
  BY AppendsType DEF LogTypeOK, Writers
<1>1. CASE UNCHANGED logVars
  BY <1>1 DEF logVars, LogTypeOK
<1>2. CASE EnqueueRun
  <2> DEFINE t == [Appends(2) EXCEPT !.phase = "running", !.queue = {"execute_run"}]
  <2>1. t.rows = Appends(2).rows
    BY DEF Appends
  <2>2. Begin("web", t) /\ quiet
    BY <1>2 DEF EnqueueRun
  <2> QED
    BY <2>1, <2>2, <1>0, BeginType
<1>3. CASE ResolveGate
  <2> DEFINE t == [Appends(1) EXCEPT
                     !.phase = "running", !.gate = "closed", !.queue = {"resume_run"},
                     !.locks = {"share", "update"}]
  <2>1. t.rows = Appends(1).rows
    BY DEF Appends
  <2>2. Begin("web", t) /\ quiet
    BY <1>3 DEF ResolveGate
  <2> QED
    BY <2>1, <2>2, <1>0, BeginType
<1>4. CASE CancelPending
  <2> DEFINE t == [Appends(1) EXCEPT
                     !.phase = IF phase \in EndPhases THEN "same" ELSE "cancelled",
                     !.gate = "closed", !.claim = {"execute_run", "resume_run", "cancel"},
                     !.locks = {"share", "update", "job"}]
  <2>1. t.rows = Appends(1).rows
    BY DEF Appends
  <2>2. Begin("web", t) /\ quiet
    BY <1>4 DEF CancelPending
  <2> QED
    BY <2>1, <2>2, <1>0, BeginType
<1>5. CASE PredictionUpdated
  BY <1>5, <1>0, BeginType DEF PredictionUpdated
<1>6. ASSUME NEW x \in Writers, Commit(x) PROVE LogTypeOK'
  <2>1. tx[x].rows \subseteq Nat /\ rows' = rows \cup tx[x].rows /\ got' = got
    BY <1>6 DEF Commit, LogTypeOK
  <2>2. rows' \subseteq Nat /\ rows \subseteq rows'
    BY <2>1 DEF LogTypeOK
  <2>3. tx' = [tx EXCEPT ![x] = None] /\ seq' = seq
    BY <1>6 DEF Commit
  <2> QED
    BY <2>1, <2>2, <2>3 DEF LogTypeOK
<1>7. ASSUME NEW x \in Writers, Abort(x) PROVE LogTypeOK' /\ quiet
  BY <1>7 DEF Abort, LogTypeOK
<1>8. ASSUME NEW w \in Workers, WorkerStep(w) PROVE LogTypeOK' /\ quiet
  <2>1. CASE \E kind \in {"execute_run", "resume_run"} : Claim(w, kind)
    <3>1. PICK kind \in {"execute_run", "resume_run"} : Claim(w, kind)
      BY <2>1
    <3> DEFINE t == [Appends(1) EXCEPT
                       !.claim = {kind}, !.then = "graph", !.locks = {"share", "job"}]
    <3>2. t.rows = Appends(1).rows
      BY DEF Appends
    <3>3. Begin(w, t) /\ quiet
      BY <3>1 DEF Claim
    <3> QED
      BY <3>2, <3>3, <1>0, BeginType
  <2>2. CASE PersistProgress(w)
    BY <2>2, <1>0, BeginType DEF PersistProgress
  <2>3. CASE SaveRun(w)
    BY <2>3 DEF SaveRun, LogTypeOK
  <2>4. CASE OpenGate(w)
    <3> DEFINE t == [Appends(2) EXCEPT
                       !.phase = "review", !.gate = "open", !.locks = {"exclusive"},
                       !.then = "finish"]
    <3>1. t.rows = Appends(2).rows
      BY DEF Appends
    <3>2. Begin(w, t) /\ quiet
      BY <2>4 DEF OpenGate
    <3> QED
      BY <3>1, <3>2, <1>0, BeginType
  <2>5. CASE AppendRunEnd(w)
    <3> DEFINE t == [Appends(1) EXCEPT !.then = "finish"]
    <3>1. t.rows = Appends(1).rows
      BY DEF Appends
    <3>2. Begin(w, t) /\ quiet
      BY <2>5 DEF AppendRunEnd
    <3> QED
      BY <3>1, <3>2, <1>0, BeginType
  <2>6. CASE Complete(w)
    <3> DEFINE t == [Appends(1) EXCEPT !.then = "idle", !.locks = {"share", "job"}]
    <3>1. t.rows = Appends(1).rows
      BY DEF Appends
    <3>2. Begin(w, t) /\ quiet
      BY <2>6 DEF Complete
    <3> QED
      BY <3>1, <3>2, <1>0, BeginType
  <2>7. CASE LoseLease(w)
    BY <2>7 DEF LoseLease, LogTypeOK
  <2> QED
    BY <1>8, <2>1, <2>2, <2>3, <2>4, <2>5, <2>6, <2>7 DEF WorkerStep
<1>9. ASSUME NEW w \in Workers, RenewLease(w) PROVE LogTypeOK' /\ quiet
  <2> DEFINE t == [Appends(1) EXCEPT !.locks = {"share", "job"}]
  <2>1. t.rows = Appends(1).rows
    BY DEF Appends
  <2>2. Begin("beat", t) /\ quiet
    BY <1>9 DEF RenewLease
  <2> QED
    BY <2>1, <2>2, <1>0, BeginType
<1>10. ASSUME NEW w \in Workers, Fail(w) PROVE LogTypeOK' /\ quiet
  <2> DEFINE s(k) == [Appends(1) EXCEPT
                        !.queue = {k}, !.then = "idle", !.locks = {"share", "job"}]
             t == [Appends(2) EXCEPT
                     !.phase = "error", !.then = "idle", !.locks = {"share", "update", "job"}]
  <2>1. t.rows = Appends(2).rows
    BY DEF Appends
  <2>2. quiet /\ (Begin(w, s(wk[w].kind)) \/ Begin(w, t))
    BY <1>10 DEF Fail
  <2>3. CASE Begin(w, t)
    BY <2>1, <2>2, <2>3, <1>0, BeginType
  <2>4. CASE Begin(w, s(wk[w].kind))
    <3>1. s(wk[w].kind).rows = Appends(1).rows
      BY DEF Appends
    <3> QED
      BY <3>1, <2>2, <2>4, <1>0, BeginType
  <2> QED
    BY <2>2, <2>3, <2>4
<1>11. ASSUME NEW w \in Workers, Crash(w) PROVE LogTypeOK' /\ quiet
  BY <1>11, <1>0 DEF Crash, LogTypeOK
<1>12. ASSUME NEW c \in Clients, ReaderStep(c)
       PROVE LogTypeOK' /\ (quiet \/ ReadEvents(c))
  <2>1. CASE OpenStream(c)
    BY <2>1 DEF OpenStream, LogTypeOK
  <2>2. CASE ReadEvents(c)
    <3>1. rows' = rows /\ got' = [got EXCEPT ![c] = @ (+) SetToBag(Unread(c))]
      BY <2>2 DEF ReadEvents
    <3>2. got' = [d \in Clients |-> got'[d]]
          /\ \A d \in Clients : DOMAIN got'[d] \subseteq rows' /\ got'[d] \in [DOMAIN got'[d] -> Nat]
      BY <3>1, GotType
    <3> QED
      BY <2>2, <3>2 DEF ReadEvents, LogTypeOK
  <2>3. CASE ReadPhase(c)
    BY <2>3 DEF ReadPhase, LogTypeOK
  <2> QED
    BY <1>12, <2>1, <2>2, <2>3 DEF ReaderStep
<1>13. ASSUME NEW c \in Clients, LoseConnection(c) PROVE LogTypeOK'
  <2>1. PICK n \in Unread(c) \cup {0} :
          got' = [got EXCEPT ![c] = @ (+) SetToBag({m \in Unread(c) : stream[c] = "on" /\ m <= n})]
    BY <1>13 DEF LoseConnection
  <2> DEFINE R == {m \in Unread(c) : stream[c] = "on" /\ m <= n}
  <2>2. R \in SUBSET Unread(c) /\ rows' = rows
    BY <1>13 DEF LoseConnection
  <2>3. got' = [d \in Clients |-> got'[d]]
        /\ \A d \in Clients : DOMAIN got'[d] \subseteq rows' /\ got'[d] \in [DOMAIN got'[d] -> Nat]
    <3> HIDE DEF R
    <3> QED
      BY <2>1, <2>2, GotType DEF R
  <2> QED
    BY <1>13, <2>3 DEF LoseConnection, LogTypeOK
<1> QED
  BY <1>1, <1>2, <1>3, <1>4, <1>5, <1>6, <1>7, <1>8, <1>9, <1>10, <1>11, <1>12, <1>13
     DEF LogNext

\* What a round of the stream, complete or cut short, adds to a dashboard: unread
\* events, and with each of them every unread event below it.
LEMMA RoundIsPrefix ==
  ASSUME LogTypeOK, NEW c \in Clients, ReadEvents(c) \/ LoseConnection(c)
  PROVE  \E R \in SUBSET Unread(c) :
           /\ got' = [got EXCEPT ![c] = @ (+) SetToBag(R)]
           /\ rows' = rows /\ hidden' = hidden
           /\ \A m \in R, n \in Unread(c) : n < m => n \in R
<1> USE DEF dbVars
<1>1. CASE ReadEvents(c)
  <2> WITNESS Unread(c) \in SUBSET Unread(c)
  <2> QED
    BY <1>1 DEF ReadEvents
<1>2. CASE LoseConnection(c)
  <2>1. PICK k \in Unread(c) \cup {0} :
          got' = [got EXCEPT ![c] = @ (+) SetToBag({m \in Unread(c) : stream[c] = "on" /\ m <= k})]
    BY <1>2 DEF LoseConnection
  <2>2. Unread(c) \subseteq Nat /\ k \in Nat
    BY DEF Unread, LogTypeOK
  <2> DEFINE R == {m \in Unread(c) : stream[c] = "on" /\ m <= k}
  <2>3. \A m \in R, n \in Unread(c) : n < m => n \in R
    BY <2>2
  <2> WITNESS R \in SUBSET Unread(c)
  <2> QED
    BY <1>2, <2>1, <2>3 DEF LoseConnection
<1> QED
  BY <1>1, <1>2

\* The types are kept by every step: committed numbers are numbers, and a dashboard
\* holds only committed events.
THEOREM LogTypeCorrect == LogSpec => []LogTypeOK
<1>1. LogInit => LogTypeOK
  BY NothingIsCounted DEF LogInit, LogTypeOK
<1>2. LogTypeOK /\ [LogNext]_logVars => LogTypeOK'
  BY StepKinds
<1> QED
  BY <1>1, <1>2, PTL DEF LogSpec

\* Only the order of commits makes the stream skip an event (append_event draws its
\* number before it commits, list_events reads past it).
THEOREM MissedWasHiddenHolds == LogSpec => []MissedWasHidden
<1>1. LogInit => MissedWasHidden
  BY NothingIsCounted DEF LogInit, MissedWasHidden
<1>2. LogTypeOK /\ MissedWasHidden /\ [LogNext]_logVars => MissedWasHidden'
  <2> SUFFICES ASSUME LogTypeOK, MissedWasHidden, [LogNext]_logVars,
                      NEW d \in Clients, NEW n \in rows' \ DOMAIN got'[d],
                      NEW m \in DOMAIN got'[d], n < m
               PROVE  n \in hidden'
    BY DEF MissedWasHidden
  <2>1. CASE rows' = rows /\ got' = got /\ hidden' = hidden
    BY <2>1 DEF MissedWasHidden
  <2>2. ASSUME NEW x \in Writers, Commit(x) PROVE n \in hidden'
    <3>1. got' = got /\ rows' = rows \cup tx[x].rows
          /\ hidden' = hidden \cup Overtaken(tx[x].rows) /\ DOMAIN got[d] \subseteq rows
      BY <2>2 DEF Commit, clientVars, LogTypeOK
    <3> QED
      BY <3>1 DEF MissedWasHidden, Overtaken
  <2>3. ASSUME NEW c \in Clients, ReadEvents(c) \/ LoseConnection(c) PROVE n \in hidden'
    <3>1. PICK R \in SUBSET Unread(c) :
            /\ got' = [got EXCEPT ![c] = @ (+) SetToBag(R)]
            /\ rows' = rows /\ hidden' = hidden
            /\ \A i \in R, j \in Unread(c) : j < i => j \in R
      BY <2>3, RoundIsPrefix
    <3>0. DOMAIN got'[c] = DOMAIN got[c] \cup R /\ \A e \in Clients \ {c} : got'[e] = got[e]
      BY <3>1, RoundIsNew
    <3>2. CASE m \in DOMAIN got[d]
      BY <3>0, <3>1, <3>2 DEF MissedWasHidden, LogTypeOK
    <3>3. CASE m \notin DOMAIN got[d]
      <4>1. d = c /\ m \in R /\ n \in rows \ DOMAIN got[c] /\ n \notin R
        BY <3>0, <3>1, <3>3 DEF LogTypeOK
      <4>2. PICK k \in DOMAIN got[c] : ~(k < n)
        BY <3>1, <4>1 DEF Unread
      <4>3. n < k
        BY <4>1, <4>2 DEF LogTypeOK
      <4> QED
        BY <3>1, <4>1, <4>3 DEF MissedWasHidden
    <3> QED
      BY <3>2, <3>3
  <2> QED
    BY <2>1, <2>2, <2>3, StepKinds
<1> QED
  BY <1>1, <1>2, LogTypeCorrect, PTL DEF LogSpec

\* The durable stream implements the event feed: committed events stay, and each
\* dashboard is told them in increasing order and never twice.
THEOREM FeedSpecHolds == LogSpec => FeedSpec
<1>1. LogInit => Feed!Init
  BY NothingIsCounted DEF LogInit, Feed!Init
<1>2. LogTypeOK /\ [LogNext]_logVars => [Feed!Next]_(Feed!vars)
  <2> SUFFICES ASSUME LogTypeOK, [LogNext]_logVars PROVE [Feed!Next]_(Feed!vars)
    OBVIOUS
  <2>1. CASE rows' = rows /\ got' = got /\ hidden' = hidden
    BY <2>1 DEF Feed!vars
  <2>2. ASSUME NEW x \in Writers, Commit(x) PROVE Feed!Publish
    <3>1. LogTypeOK'
      BY StepKinds
    <3> QED
      BY <2>2, <3>1 DEF Commit, clientVars, Feed!Publish, LogTypeOK
  <2>3. ASSUME NEW c \in Clients, ReadEvents(c) \/ LoseConnection(c) PROVE Feed!Deliver(c)
    <3>1. PICK R \in SUBSET Unread(c) :
            got' = [got EXCEPT ![c] = @ (+) SetToBag(R)] /\ rows' = rows
      BY <2>3, RoundIsPrefix
    <3>2. /\ R \subseteq rows /\ R \cap DOMAIN got[c] = {}
          /\ got'[c] = Once(got[c], R)
          /\ DOMAIN got'[c] = DOMAIN got[c] \cup R
          /\ got' = [got EXCEPT ![c] = got'[c]]
      BY <3>1, RoundIsNew, Zenon
    <3>3. \A n \in R, m \in DOMAIN got[c] : m < n
      BY DEF Unread
    <3>4. DOMAIN got'[c] \ DOMAIN got[c] = R
      BY <3>2
    <3> QED
      BY <3>1, <3>2, <3>3, <3>4 DEF Feed!Deliver, Once
  <2> QED
    BY <2>1, <2>2, <2>3, StepKinds DEF Feed!Next
<1> QED
  BY <1>1, <1>2, LogTypeCorrect, PTL DEF LogSpec, FeedSpec, Feed!Spec

-------------------------------------------------------------------------------
(* The stream of a run in the web process                                  *)

\* What Put adds to a queue: the ids n .. m in order, all of them if there is room.
LEMMA PutIs ==
  ASSUME NEW q \in Seq(Nat), Len(q) <= QueueMax, NEW n \in Nat \ {0}, NEW m \in Nat, n <= m
  PROVE  LET r == Put(q, n, m) IN
         /\ r \in Seq(Nat)
         /\ Len(q) <= Len(r) /\ Len(r) <= QueueMax
         /\ \A k \in 1..Len(q) : r[k] = q[k]
         /\ \A k \in (Len(q) + 1)..Len(r) : r[k] = n + (k - Len(q)) - 1 /\ r[k] <= m
         /\ m - n + 1 <= Room(q) => Len(r) = Len(q) + (m - n + 1)
<1> DEFINE size == IF m < n THEN 0 ELSE IF m - n + 1 < Room(q) THEN m - n + 1 ELSE Room(q)
           t == [k \in 1..size |-> n + k - 1]
<1>0. Len(q) \in Nat
  BY LenProperties
<1>9. Room(q) \in Nat /\ m - n + 1 \in Nat /\ ~(m < n)
  BY <1>0, LocalAssumption DEF Room
<1>1. size \in Nat /\ size <= Room(q) /\ size <= m - n + 1
      /\ (m - n + 1 <= Room(q) => size = m - n + 1)
  BY <1>9
<1>2. Put(q, n, m) = q \o t
  BY DEF Put
<1>3. t \in Seq(Nat) /\ Len(t) = size /\ \A k \in 1..size : t[k] = n + k - 1
  <2> HIDE DEF size
  <2>1. \A k \in 1..size : n + k - 1 \in Nat
    BY <1>1
  <2>2. t \in [1..size -> Nat]
    BY <2>1
  <2>3. t \in Seq(Nat)
    BY <1>1, <2>1, IsASeq
  <2> QED
    BY <1>1, <2>2, <2>3, LenProperties
<1> HIDE DEF t, size
<1>4. /\ q \o t \in Seq(Nat) /\ Len(q \o t) = Len(q) + size
      /\ \A k \in 1..(Len(q) + size) : (q \o t)[k] = IF k <= Len(q) THEN q[k] ELSE t[k - Len(q)]
  BY <1>3, ConcatProperties
<1>5. Len(q) \in Nat /\ Len(q) + size <= QueueMax
  BY <1>1, LenProperties, LocalAssumption DEF Room
<1>6. \A k \in (Len(q) + 1)..(Len(q) + size) : (q \o t)[k] = n + (k - Len(q)) - 1
                                              /\ n + (k - Len(q)) - 1 <= m
  BY <1>1, <1>3, <1>4, <1>5
<1>7. \A k \in 1..Len(q) : (q \o t)[k] = q[k]
  BY <1>1, <1>4, <1>5
<1>8. Len(q) <= Len(q \o t) /\ Len(q \o t) <= QueueMax
  BY <1>1, <1>4, <1>5
<1> QED
  BY <1>1, <1>2, <1>4, <1>6, <1>7, <1>8

\* The ids in q follow each other, above those in H and not above N.
Ahead(q, N, H) ==
  \A k \in 1..Len(q) : /\ q[k] # 0 /\ q[k] <= N
                       /\ \A n \in H : n < q[k]
                       /\ \A j \in 1..(k - 1) : q[j] < q[k]

\* Put of the next L events keeps a queue ahead, and loses none if there is room.
LEMMA PutAhead ==
  ASSUME NEW q \in Seq(Nat), Len(q) <= QueueMax, NEW N \in Nat, NEW L \in Nat \ {0},
         NEW H \in SUBSET (1..N), Ahead(q, N, H)
  PROVE  LET r == Put(q, N + 1, N + L) IN
         /\ r \in Seq(Nat) /\ Len(q) <= Len(r) /\ Len(r) <= QueueMax
         /\ Ahead(r, N + L, H)
         /\ \A k \in 1..Len(q) : r[k] = q[k]
         /\ L <= Room(q) => \A n \in (N + 1)..(N + L) : \E k \in 1..Len(r) : r[k] = n
<1> DEFINE r == Put(q, N + 1, N + L)
<1>1. /\ r \in Seq(Nat)
      /\ Len(q) <= Len(r) /\ Len(r) <= QueueMax
      /\ \A k \in 1..Len(q) : r[k] = q[k]
      /\ \A k \in (Len(q) + 1)..Len(r) : r[k] = (N + 1) + (k - Len(q)) - 1 /\ r[k] <= N + L
      /\ (N + L) - (N + 1) + 1 <= Room(q) => Len(r) = Len(q) + ((N + L) - (N + 1) + 1)
  <2>1. N + 1 \in Nat \ {0} /\ N + L \in Nat /\ N + 1 <= N + L
    OBVIOUS
  <2> QED
    BY <2>1, PutIs
<1> HIDE DEF r
<1>2. Len(q) \in Nat /\ Len(r) \in Nat
  BY <1>1, LenProperties
<1>3. /\ \A k \in (Len(q) + 1)..Len(r) : r[k] = N + (k - Len(q)) /\ r[k] <= N + L
      /\ L <= Room(q) => Len(r) = Len(q) + L
  BY <1>1, <1>2
<1>4. \A k \in 1..Len(q) : q[k] \in Nat
  BY <1>2, ElementOfSeq
<1>5. ASSUME NEW k \in 1..Len(r)
      PROVE  /\ r[k] # 0 /\ r[k] <= N + L
             /\ \A n \in H : n < r[k]
             /\ \A j \in 1..(k - 1) : r[j] < r[k]
  <2>1. CASE k \in 1..Len(q)
    <3>1. r[k] = q[k] /\ q[k] \in Nat /\ q[k] # 0 /\ q[k] <= N /\ (\A n \in H : n < q[k])
      BY <2>1, <1>1, <1>4 DEF Ahead
    <3>2. \A j \in 1..(k - 1) : r[j] = q[j] /\ q[j] < q[k]
      BY <2>1, <1>1, <1>2 DEF Ahead
    <3> QED
      BY <3>1, <3>2
  <2>2. CASE k \notin 1..Len(q)
    <3>1. k \in (Len(q) + 1)..Len(r)
      BY <2>2, <1>2
    <3>2. r[k] = N + (k - Len(q)) /\ r[k] <= N + L /\ N < r[k]
      BY <3>1, <1>2, <1>3
    <3>3. ASSUME NEW j \in 1..(k - 1) PROVE r[j] < r[k]
      <4>1. CASE j \in 1..Len(q)
        <5>1. r[j] = q[j] /\ q[j] \in Nat /\ q[j] <= N
          BY <4>1, <1>1, <1>4 DEF Ahead
        <5>2. r[k] \in Nat
          BY <3>1, <3>2, <1>2
        <5> QED
          BY <5>1, <5>2, <3>2
      <4>2. CASE j \notin 1..Len(q)
        <5>1. j \in (Len(q) + 1)..Len(r)
          BY <4>2, <1>2
        <5> QED
          BY <5>1, <3>2, <1>2, <1>3
      <4> QED
        BY <4>1, <4>2
    <3> QED
      BY <3>2, <3>3
  <2> QED
    BY <2>1, <2>2
<1>6. ASSUME L <= Room(q), NEW n \in (N + 1)..(N + L) PROVE \E k \in 1..Len(r) : r[k] = n
  <2>1. PICK k \in (Len(q) + 1)..Len(r) : k - Len(q) = n - N
    <3>1. Len(q) + (n - N) \in (Len(q) + 1)..Len(r) /\ (Len(q) + (n - N)) - Len(q) = n - N
      BY <1>2, <1>3, <1>6
    <3> QED
      BY <3>1
  <2>2. k \in 1..Len(r) /\ r[k] = N + (n - N) /\ N + (n - N) = n
    BY <2>1, <1>2, <1>3
  <2> QED
    BY <2>1, <2>2
<1> QED
  BY <1>1, <1>5, <1>6 DEF r, Ahead

\* The queue of an open connection, while the run goes on, takes the next L events.
LEMMA NextEvents ==
  ASSUME LocalTypeOK, LocalInv, ~Done, NEW c \in Registered, NEW L \in Nat \ {0}
  PROVE  LET r == Put(pipe[c], Len(buffer) + 1, Len(buffer) + L) IN
         /\ c \in Screens /\ link[c] = "on"
         /\ r \in Seq(Nat) /\ Len(r) \in Nat /\ Len(r) <= QueueMax
         /\ Ahead(r, Len(buffer) + L, DOMAIN heard[c])
         /\ L <= Room(pipe[c]) /\ ~full[c] =>
              \A n \in 1..(Len(buffer) + L) : n \in DOMAIN heard[c] \/ \E k \in 1..Len(r) : r[k] = n
<1> DEFINE q == pipe[c]
           N == Len(buffer)
           H == DOMAIN heard[c]
           r == Put(q, N + 1, N + L)
<1>1. c \in Screens /\ link[c] = "on"
  BY DEF Registered, LocalTypeOK, LocalInv, StreamsAreOpen
<1>2. q \in Seq(Nat) /\ N \in Nat /\ Len(q) \in Nat /\ DOMAIN q = 1..Len(q)
  BY <1>1, LenProperties DEF LocalTypeOK
<1>3. Len(q) <= QueueMax /\ H \in SUBSET (1..N) /\ Ahead(q, N, H)
  BY <1>1, <1>2 DEF LocalInv, PipeIsAhead, HeardIsWhole, Ahead
<1>4. ~full[c] => \A n \in 1..N : n \in H \/ \E k \in 1..Len(q) : q[k] = n
  BY <1>1, <1>2 DEF LocalInv, HeardIsWhole
<1> HIDE DEF q, N, H
<1>5. /\ r \in Seq(Nat) /\ Len(q) <= Len(r) /\ Len(r) <= QueueMax
      /\ Ahead(r, N + L, H)
      /\ \A k \in 1..Len(q) : r[k] = q[k]
      /\ L <= Room(q) => \A n \in (N + 1)..(N + L) : \E k \in 1..Len(r) : r[k] = n
  BY <1>2, <1>3, PutAhead
<1> HIDE DEF r
<1>6. Len(r) \in Nat
  BY <1>5, LenProperties
<1>7. ASSUME L <= Room(q), ~full[c], NEW n \in 1..(N + L)
      PROVE  n \in H \/ \E k \in 1..Len(r) : r[k] = n
  <2>1. CASE n \in 1..N
    <3>1. CASE n \in H
      BY <3>1
    <3>2. CASE n \notin H
      <4>1. PICK k \in 1..Len(q) : q[k] = n
        BY <1>4, <1>7, <2>1, <3>2
      <4>2. k \in 1..Len(r) /\ r[k] = n
        BY <4>1, <1>2, <1>5, <1>6
      <4> QED
        BY <4>2
    <3> QED
      BY <3>1, <3>2
  <2>2. CASE n \notin 1..N
    <3>1. n \in (N + 1)..(N + L)
      BY <2>2, <1>2
    <3> QED
      BY <3>1, <1>5, <1>7
  <2> QED
    BY <2>1, <2>2
<1> QED
  BY <1>1, <1>5, <1>6, <1>7 DEF q, N, H, r

\* An event that is not the last keeps the invariant.
LEMMA EmitStep ==
  ASSUME LocalTypeOK, LocalInv, ~Done, ~Done', NEW events \in Seq(Events),
         Len(events) \in Nat \ {0}, Emit(events), UNCHANGED <<link, heard, screen>>
  PROVE  /\ buffer' \in Seq(Events) /\ queues' \in Seq(Screens)
         /\ pipe' \in [Screens -> Seq(Nat)] /\ full' \in [Screens -> BOOLEAN]
         /\ LocalInv'
<1> DEFINE L == Len(events)
           N == Len(buffer)
           R(c) == Put(pipe[c], N + 1, N + L)
<1>1. N \in Nat /\ buffer' \in Seq(Events) /\ Len(buffer') = N + L
  BY LenProperties, ConcatProperties DEF Emit, LocalTypeOK
<1>2. /\ pipe' = [c \in Screens |-> IF c \in Registered THEN R(c) ELSE pipe[c]]
      /\ full' = [c \in Screens |-> full[c] \/ (c \in Registered /\ Room(pipe[c]) < L)]
      /\ queues' = queues /\ Registered' = Registered
  BY DEF Emit, Registered
<1>3. \A c \in Registered :
         /\ c \in Screens /\ link[c] = "on"
         /\ R(c) \in Seq(Nat) /\ Len(R(c)) \in Nat /\ Len(R(c)) <= QueueMax
         /\ Ahead(R(c), N + L, DOMAIN heard[c])
         /\ L <= Room(pipe[c]) /\ ~full[c] =>
              \A n \in 1..(N + L) : n \in DOMAIN heard[c] \/ \E k \in 1..Len(R(c)) : R(c)[k] = n
  BY NextEvents
<1> HIDE DEF L, N, R
<1>4. pipe' \in [Screens -> Seq(Nat)] /\ full' \in [Screens -> BOOLEAN] /\ queues' \in Seq(Screens)
  BY <1>2, <1>3 DEF LocalTypeOK
<1>5. StreamsAreOpen'
  BY <1>2 DEF LocalInv, StreamsAreOpen
<1>6. ASSUME NEW c \in Screens PROVE PipeIsAhead(c)' /\ HeardIsWhole(c)'
  <2>1. DOMAIN heard[c] \subseteq 1..N /\ DOMAIN heard'[c] = DOMAIN heard[c] /\ link'[c] = link[c] /\ L \in Nat
    BY DEF LocalInv, HeardIsWhole, N, L
  <2>2. DOMAIN heard[c] \subseteq 1..(N + L)
    BY <2>1, <1>1
  <2>3. CASE c \in Registered
    <3>1. pipe'[c] = R(c) /\ DOMAIN pipe'[c] = 1..Len(R(c)) /\ link[c] = "on"
      BY <2>3, <1>2, <1>3, LenProperties
    <3>2. PipeIsAhead(c)'
      <4>1. Ahead(R(c), N + L, DOMAIN heard'[c]) /\ Len(R(c)) <= QueueMax
        BY <2>1, <2>3, <1>3
      <4> QED
        BY <3>1, <4>1, <1>1 DEF PipeIsAhead, Ahead
    <3>3. ~full'[c] => ~full[c] /\ L <= Room(pipe[c])
      <4>1. Room(pipe[c]) \in Int
        BY LenProperties, LocalAssumption DEF Room, LocalTypeOK
      <4>2. full'[c] = (full[c] \/ Room(pipe[c]) < L)
        BY <2>3, <1>2
      <4>3. ~full'[c] => ~full[c] /\ ~(Room(pipe[c]) < L)
        BY <4>2, Zenon
      <4>4. ~(Room(pipe[c]) < L) => L <= Room(pipe[c])
        BY <4>1, <2>1
      <4> QED
        BY <4>3, <4>4, Zenon
    <3>4. DOMAIN heard[c] = {} \/ \E last \in DOMAIN heard[c] : \A n \in DOMAIN heard[c] : n <= last
      BY DEF LocalInv, HeardIsWhole
    <3> QED
      BY <3>1, <3>2, <3>3, <3>4, <2>1, <2>2, <2>3, <1>1, <1>3 DEF HeardIsWhole
  <2>4. CASE c \notin Registered
    <3>1. link[c] \notin {"on", "ended"} /\ pipe[c] = << >> /\ pipe'[c] = << >>
          /\ full'[c] = full[c]
      BY <2>4, <1>2 DEF LocalInv, StreamsAreOpen, LocalTypeOK
    <3>2. PipeIsAhead(c)'
      BY <3>1, LocalAssumption DEF PipeIsAhead
    <3> QED
      BY <3>1, <3>2, <2>1, <2>2, <1>1 DEF LocalInv, HeardIsWhole
  <2> QED
    BY <2>3, <2>4
<1>7. OutcomeIsLast'
  BY DEF OutcomeIsLast
<1> QED
  BY <1>1, <1>4, <1>5, <1>6, <1>7 DEF LocalInv

\* The last event and the sentinels keep the invariant, whichever queues are full.
LEMMA EmitLastStep ==
  ASSUME LocalTypeOK, LocalInv, ~Done, NEW event \in Events, EmitLast(event),
         exec'.pc \in {"done", "error"},
         event = (IF exec'.pc = "done" THEN "run_end" ELSE "error"),
         UNCHANGED <<link, heard, screen>>
  PROVE  /\ buffer' \in Seq(Events) /\ queues' \in Seq(Screens)
         /\ pipe' \in [Screens -> Seq(Nat)] /\ full' \in [Screens -> BOOLEAN]
         /\ LocalInv'
<1> DEFINE N == Len(buffer)
           R(c) == Put(pipe[c], N + 1, N + 1)
           last == [c \in Screens |-> IF c \in Registered THEN R(c) ELSE pipe[c]]
           P(c) == Append(R(c), 0)
<1>1. N \in Nat /\ buffer' \in Seq(Events) /\ Len(buffer') = N + 1 /\ buffer'[N + 1] = event
  BY AppendProperties, LenProperties DEF EmitLast, LocalTypeOK
<1>2. /\ pipe' = [c \in Screens |-> IF c \in Closing(last) THEN Append(last[c], 0) ELSE last[c]]
      /\ full' = [c \in Screens |->
                    full[c] \/ (c \in Registered /\ (Room(pipe[c]) = 0 \/ c \notin Closing(last)))]
      /\ queues' = queues /\ Registered' = Registered
  BY DEF EmitLast, Registered
<1>3. \A c \in Registered :
         /\ c \in Screens /\ link[c] = "on"
         /\ R(c) \in Seq(Nat) /\ Len(R(c)) \in Nat /\ Len(R(c)) <= QueueMax
         /\ Ahead(R(c), N + 1, DOMAIN heard[c])
         /\ 1 <= Room(pipe[c]) /\ ~full[c] =>
              \A n \in 1..(N + 1) : n \in DOMAIN heard[c] \/ \E k \in 1..Len(R(c)) : R(c)[k] = n
  BY NextEvents
<1>4. \A c \in Closing(last) : c \in Registered /\ Len(R(c)) < QueueMax
  <2> SUFFICES ASSUME NEW c \in Closing(last) PROVE c \in Registered /\ Len(R(c)) < QueueMax
    OBVIOUS
  <2>1. PICK k \in DOMAIN queues :
          queues[k] = c /\ \A h \in 1..k : Len(last[queues[h]]) < QueueMax
    BY DEF Closing
  <2>2. c \in Registered /\ k \in 1..k
    BY <2>1, LenProperties DEF Registered, LocalTypeOK
  <2>3. last[c] = R(c)
    BY <2>2, <1>3
  <2> HIDE DEF last, R
  <2> QED
    BY <2>1, <2>2, <2>3
<1>5. \A c \in Registered : last[c] = R(c)
  BY <1>3
<1>6. \A c \in Registered :
         /\ P(c) \in Seq(Nat) /\ Len(P(c)) = Len(R(c)) + 1
         /\ \A k \in 1..Len(R(c)) : P(c)[k] = R(c)[k]
         /\ P(c)[Len(R(c)) + 1] = 0
  <2> HIDE DEF R
  <2> QED
    BY <1>3, AppendProperties
<1> DEFINE closed == Closing(last)
<1>7. \A c \in Screens :
         /\ c \in closed => pipe'[c] = P(c)
         /\ c \in Registered \ closed => pipe'[c] = R(c)
         /\ c \notin Registered => pipe'[c] = pipe[c]
  BY <1>2, <1>4, <1>5
<1>8. \A c \in closed : c \in Registered /\ Len(R(c)) < QueueMax
  BY <1>4
<1>9. \A c \in Screens :
         full'[c] = (full[c] \/ (c \in Registered /\ (Room(pipe[c]) = 0 \/ c \notin closed)))
  BY <1>2
<1>10. DOMAIN pipe' = Screens /\ pipe' = [c \in Screens |-> pipe'[c]]
       /\ full' \in [Screens -> BOOLEAN] /\ queues' \in Seq(Screens)
  BY <1>2 DEF LocalTypeOK
<1> HIDE DEF N, R, last, closed, P
<1>11. pipe' \in [Screens -> Seq(Nat)]
  <2>1. ASSUME NEW c \in Screens PROVE pipe'[c] \in Seq(Nat)
    <3>1. CASE c \in closed
      BY <3>1, <1>6, <1>7, <1>8
    <3>2. CASE c \in Registered \ closed
      BY <3>2, <1>3, <1>7
    <3>3. CASE c \notin Registered
      BY <3>3, <1>7 DEF LocalTypeOK
    <3> QED
      BY <3>1, <3>2, <3>3
  <2> QED
    BY <2>1, <1>10
<1>12. Done'
  BY DEF Done
<1>13. StreamsAreOpen'
  <2>1. \A c \in Screens : link'[c] # "on" => pipe'[c] = << >>
    BY <1>3, <1>7 DEF LocalInv, StreamsAreOpen
  <2> QED
    BY <2>1, <1>2, <1>12 DEF LocalInv, StreamsAreOpen
<1>14. ASSUME NEW c \in Screens PROVE PipeIsAhead(c)' /\ HeardIsWhole(c)'
  <2>1. DOMAIN heard[c] \subseteq 1..N /\ DOMAIN heard'[c] = DOMAIN heard[c] /\ link'[c] = link[c]
    BY DEF LocalInv, HeardIsWhole, N
  <2>2. DOMAIN heard[c] \subseteq 1..(N + 1)
    BY <2>1, <1>1
  <2>3. DOMAIN heard[c] = {} \/ \E n \in DOMAIN heard[c] : \A m \in DOMAIN heard[c] : m <= n
    BY DEF LocalInv, HeardIsWhole
  <2>4. CASE c \in closed
    <3>1. /\ c \in Registered /\ link[c] = "on" /\ pipe'[c] = P(c)
          /\ Len(R(c)) \in Nat /\ Len(P(c)) = Len(R(c)) + 1
          /\ DOMAIN P(c) = 1..(Len(R(c)) + 1)
      BY <2>4, <1>3, <1>6, <1>7, <1>8, LenProperties
    <3>2. PipeIsAhead(c)'
      <4> SUFFICES ASSUME NEW k \in 1..(Len(R(c)) + 1)
                   PROVE  IF P(c)[k] = 0 THEN k = Len(R(c)) + 1
                          ELSE /\ P(c)[k] <= N + 1
                               /\ \A n \in DOMAIN heard[c] : n < P(c)[k]
                               /\ \A j \in 1..(k - 1) : P(c)[j] < P(c)[k]
        BY <3>1, <2>1, <1>1, <1>8, <1>12, <2>4, LocalAssumption DEF PipeIsAhead
      <4>1. CASE k = Len(R(c)) + 1
        BY <4>1, <3>1, <1>6
      <4>2. CASE k # Len(R(c)) + 1
        <5>1. k \in 1..Len(R(c)) /\ \A j \in 1..(k - 1) : j \in 1..Len(R(c))
          BY <4>2, <3>1
        <5>2. P(c)[k] = R(c)[k] /\ \A j \in 1..(k - 1) : P(c)[j] = R(c)[j]
          BY <5>1, <3>1, <1>6
        <5>3. R(c)[k] # 0 /\ R(c)[k] <= N + 1 /\ (\A n \in DOMAIN heard[c] : n < R(c)[k])
              /\ \A j \in 1..(k - 1) : R(c)[j] < R(c)[k]
          BY <5>1, <3>1, <1>3 DEF Ahead
        <5> QED
          BY <5>2, <5>3, <4>2
      <4> QED
        BY <4>1, <4>2
    <3>3. ~full'[c] => \A n \in 1..(N + 1) : n \in DOMAIN heard[c] \/ \E k \in DOMAIN P(c) : P(c)[k] = n
      <4>1. ~full'[c] => ~full[c] /\ Room(pipe[c]) # 0
        BY <1>9, <3>1, Zenon
      <4>2. Room(pipe[c]) \in Nat
        BY LenProperties, LocalAssumption DEF Room, LocalTypeOK, LocalInv, PipeIsAhead
      <4>3. Room(pipe[c]) # 0 => 1 <= Room(pipe[c])
        BY <4>2
      <4>4. ~full'[c] =>
              \A n \in 1..(N + 1) : n \in DOMAIN heard[c] \/ \E k \in 1..Len(R(c)) : R(c)[k] = n
        BY <4>1, <4>3, <3>1, <1>3
      <4>5. \A k \in 1..Len(R(c)) : k \in DOMAIN P(c) /\ P(c)[k] = R(c)[k]
        BY <3>1, <1>6
      <4> QED
        BY <4>4, <4>5
    <3> QED
      BY <3>1, <3>2, <3>3, <2>1, <2>2, <2>3, <1>1 DEF HeardIsWhole
  <2>5. CASE c \in Registered \ closed
    <3>1. link[c] = "on" /\ pipe'[c] = R(c) /\ DOMAIN R(c) = 1..Len(R(c)) /\ full'[c]
      BY <2>5, <1>3, <1>7, <1>9, LenProperties
    <3>2. PipeIsAhead(c)'
      <4>1. Len(R(c)) <= QueueMax /\ Ahead(R(c), N + 1, DOMAIN heard[c])
        BY <2>5, <1>3
      <4> QED
        BY <4>1, <3>1, <2>1, <1>1 DEF PipeIsAhead, Ahead
    <3> QED
      BY <3>1, <3>2, <2>1, <2>2, <2>3, <1>1 DEF HeardIsWhole
  <2>6. CASE c \notin Registered
    <3>1. link[c] \notin {"on", "ended"} /\ pipe[c] = << >> /\ pipe'[c] = << >>
      BY <2>6, <1>7 DEF LocalInv, StreamsAreOpen
    <3>2. ~full'[c] => ~full[c]
      BY <1>9, Zenon
    <3>3. PipeIsAhead(c)'
      BY <3>1, LocalAssumption DEF PipeIsAhead
    <3> QED
      BY <3>1, <3>2, <3>3, <2>1, <2>2, <1>1 DEF LocalInv, HeardIsWhole
  <2> QED
    BY <2>4, <2>5, <2>6, <1>8
<1>15. OutcomeIsLast'
  <2>1. \A c \in Screens : N + 1 \notin DOMAIN heard'[c]
    BY <1>1 DEF LocalInv, HeardIsWhole, N
  <2> QED
    BY <2>1, <1>1 DEF OutcomeIsLast
<1> QED
  BY <1>1, <1>10, <1>11, <1>13, <1>14, <1>15 DEF LocalInv

\* What is left when a queue is removed: every other one, each once.
LEMMA UnregisterIs ==
  ASSUME queues \in Seq(Screens), NEW c \in Screens,
         \A j, k \in DOMAIN queues : queues[j] = queues[k] => j = k
  PROVE  LET u == Unregister(c) IN
         /\ u \in Seq(Screens)
         /\ \A j, k \in DOMAIN u : u[j] = u[k] => j = k
         /\ \A d : d \in {u[k] : k \in DOMAIN u} <=> d \in Registered /\ d # c
<1> DEFINE n == Len(queues)
<1>1. n \in Nat /\ DOMAIN queues = 1..n
  BY LenProperties
<1>2. CASE c \notin Registered
  BY <1>2 DEF Unregister, Registered
<1>3. CASE c \in Registered
  <2> DEFINE here == CHOOSE k \in DOMAIN queues : queues[k] = c
             from(k) == IF k < here THEN k ELSE k + 1
             u == [k \in 1..(n - 1) |-> queues[from(k)]]
  <2>1. here \in 1..n /\ queues[here] = c
    BY <1>1, <1>3 DEF Registered
  <2>2. Unregister(c) = u
    BY <1>3 DEF Unregister
  <2> HIDE DEF here, n
  <2>3. n - 1 \in Nat /\ \A k \in 1..(n - 1) : from(k) \in 1..n /\ from(k) # here
    BY <1>1, <2>1
  <2>4. \A i, k \in 1..(n - 1) : from(i) = from(k) => i = k
    BY <1>1, <2>1
  <2>5. \A i \in 1..n : i # here => \E k \in 1..(n - 1) : from(k) = i
    <3> TAKE i \in 1..n
    <3>1. CASE i < here
      BY <3>1, <1>1, <2>1
    <3>2. CASE here < i
      <4>1. i - 1 \in 1..(n - 1) /\ from(i - 1) = i
        BY <3>2, <1>1, <2>1
      <4> QED
        BY <4>1
    <3> QED
      BY <3>1, <3>2, <1>1, <2>1
  <2>6. \A k \in 1..n : queues[k] \in Screens
    BY <1>1, ElementOfSeq DEF n
  <2> HIDE DEF from
  <2>7. DOMAIN u = 1..(n - 1) /\ \A k \in 1..(n - 1) : u[k] = queues[from(k)]
    OBVIOUS
  <2>8. u \in Seq(Screens)
    BY <2>3, <2>6, IsASeq
  <2>9. \A i, k \in DOMAIN u : u[i] = u[k] => i = k
    BY <2>3, <2>4, <2>7, <1>1
  <2>10. ASSUME NEW d PROVE d \in {u[k] : k \in DOMAIN u} <=> d \in Registered /\ d # c
    <3>1. ASSUME NEW k \in DOMAIN u PROVE u[k] \in Registered /\ u[k] # c
      BY <3>1, <2>1, <2>3, <2>7, <1>1 DEF Registered
    <3>2. ASSUME d \in Registered, d # c PROVE \E k \in DOMAIN u : u[k] = d
      <4>1. PICK i \in 1..n : queues[i] = d
        BY <3>2, <1>1 DEF Registered
      <4> QED
        BY <4>1, <3>2, <2>1, <2>5, <2>7
    <3> HIDE DEF u
    <3> QED
      BY <3>1, <3>2
  <2> QED
    BY <2>2, <2>8, <2>9, <2>10
<1> QED
  BY <1>2, <1>3

\* An event that the dashboard did not have is counted once.
LEMMA HeardGrows ==
  ASSUME LocalTypeOK, NEW c \in Screens, NEW n, n \notin DOMAIN heard[c],
         heard' = [heard EXCEPT ![c] = @ (+) SetToBag({n})]
  PROVE  /\ heard' = [d \in Screens |-> heard'[d]]
         /\ heard'[c] = Once(heard[c], {n})
         /\ DOMAIN heard'[c] = DOMAIN heard[c] \cup {n} /\ heard'[c] \in [DOMAIN heard'[c] -> Nat]
         /\ \A d \in Screens \ {c} : heard'[d] = heard[d]
         /\ heard' = [heard EXCEPT ![c] = heard'[c]]
<1>1. heard[c] \in [DOMAIN heard[c] -> Nat] /\ {n} \cap DOMAIN heard[c] = {}
  BY DEF LocalTypeOK
<1>2. /\ heard'[c] = heard[c] (+) SetToBag({n}) /\ \A d \in Screens \ {c} : heard'[d] = heard[d]
      /\ heard' = [d \in Screens |-> heard'[d]]
  BY DEF LocalTypeOK
<1>3. /\ heard[c] (+) SetToBag({n}) = Once(heard[c], {n})
      /\ DOMAIN (heard[c] (+) SetToBag({n})) = DOMAIN heard[c] \cup {n}
      /\ heard[c] (+) SetToBag({n}) \in [DOMAIN heard[c] \cup {n} -> Nat]
  BY <1>1, NewIsCountedOnce, Zenon
<1>4. heard' = [heard EXCEPT ![c] = heard'[c]]
  BY <1>2
<1>5. /\ heard'[c] = Once(heard[c], {n})
      /\ DOMAIN heard'[c] = DOMAIN heard[c] \cup {n} /\ heard'[c] \in [DOMAIN heard'[c] -> Nat]
  BY <1>2, <1>3, Zenon
<1> QED
  BY <1>2, <1>4, <1>5, Zenon

\* A dashboard whose columns do not change, while the server stands still, keeps its part.
LEMMA ScreenStays ==
  ASSUME LocalInv, NEW d \in Screens, UNCHANGED <<buffer, exec>>, pipe'[d] = pipe[d],
         DOMAIN heard'[d] = DOMAIN heard[d], link'[d] = link[d], full'[d] = full[d]
  PROVE  PipeIsAhead(d)' /\ HeardIsWhole(d)'
BY DEF LocalInv, PipeIsAhead, HeardIsWhole, Done

\* A connection that opens is sent what the dashboard has not received, or is refused.
LEMMA ConnectStep ==
  ASSUME LocalTypeOK, LocalInv, NEW c \in Screens, Connect(c)
  PROVE  LocalTypeOK' /\ LocalInv'
<1> DEFINE N == Len(buffer)
           H == DOMAIN heard[c]
           top == IF H = {} THEN 0 ELSE CHOOSE n \in H : \A m \in H : m <= n
           more == [k \in 1..(N - top) |-> top + k]
           q == more \o (IF Done THEN <<0>> ELSE << >>)
<1>1. N \in Nat /\ link[c] = "off" /\ pipe[c] = << >> /\ c \notin Registered
      /\ UNCHANGED <<serverVars, full, heard, detail, screen, losses>>
  BY LenProperties DEF Connect, LocalTypeOK, LocalInv, StreamsAreOpen
<1>2. H \subseteq 1..N /\ (H = {} \/ \E n \in H : \A m \in H : m <= n)
      /\ (~full[c] => \A n \in H : 1..n \subseteq H)
  BY <1>1 DEF LocalInv, HeardIsWhole
<1> USE DEF serverVars
<1>3. Replay(c) = more
  BY DEF Replay
<1>4. top \in 0..N /\ (\A m \in H : m <= top) /\ (top # 0 => top \in H)
  BY <1>1, <1>2
<1>5. CASE Len(q) > QueueMax
  <2>1. link' = [link EXCEPT ![c] = "refused"] /\ UNCHANGED <<queues, pipe>>
    BY <1>3, <1>5 DEF Connect
  <2>2. LocalTypeOK'
    BY <1>1, <2>1 DEF LocalTypeOK
  <2>3. StreamsAreOpen'
    BY <1>1, <2>1 DEF LocalTypeOK, LocalInv, StreamsAreOpen, Registered, Done
  <2>4. PipeIsAhead(c)' /\ HeardIsWhole(c)'
    <3>1. /\ pipe'[c] = << >> /\ link'[c] = "refused" /\ Len(buffer') = N
          /\ DOMAIN heard'[c] = H /\ full'[c] = full[c]
      BY <1>1, <2>1 DEF LocalTypeOK
    <3> QED
      BY <3>1, <1>2, LocalAssumption DEF PipeIsAhead, HeardIsWhole
  <2>5. \A d \in Screens \ {c} : PipeIsAhead(d)' /\ HeardIsWhole(d)'
    BY <1>1, <2>1, ScreenStays DEF LocalTypeOK
  <2> QED
    BY <1>1, <2>2, <2>3, <2>4, <2>5 DEF LocalInv, OutcomeIsLast, Done
<1>6. CASE ~(Len(q) > QueueMax)
  <2>1. /\ link' = [link EXCEPT ![c] = "on"] /\ pipe' = [pipe EXCEPT ![c] = q]
        /\ queues' = IF Done THEN queues ELSE Append(queues, c)
    BY <1>3, <1>6 DEF Connect
  <2> HIDE DEF top
  <2>2. more \in Seq(Nat) /\ Len(more) = N - top /\ N - top \in Nat
        /\ \A k \in 1..(N - top) : more[k] = top + k
    <3>1. N - top \in Nat /\ \A k \in 1..(N - top) : top + k \in Nat
      BY <1>1, <1>4
    <3>2. more \in Seq(Nat)
      BY <3>1, IsASeq
    <3>3. more \in [1..(N - top) -> Nat]
      BY <3>1
    <3> QED
      BY <3>1, <3>2, <3>3, LenProperties
  <2> HIDE DEF more
  <2>3. /\ q \in Seq(Nat) /\ DOMAIN q = 1..Len(q) /\ Len(q) \in Nat
        /\ Len(q) = (N - top) + (IF Done THEN 1 ELSE 0)
        /\ \A k \in 1..(N - top) : q[k] = top + k
        /\ Done => q[N - top + 1] = 0
    <3>1. CASE Done
      <4>1. <<0>> \in Seq(Nat) /\ Len(<<0>>) = 1 /\ q = more \o <<0>>
        BY <3>1
      <4>2. q \in Seq(Nat) /\ Len(q) = (N - top) + 1
            /\ \A k \in 1..((N - top) + 1) :
                 q[k] = IF k <= N - top THEN more[k] ELSE <<0>>[k - (N - top)]
        BY <4>1, <2>2, ConcatProperties
      <4> HIDE DEF q
      <4> QED
        BY <4>2, <3>1, <2>2, LenProperties
    <3>2. CASE ~Done
      <4>1. q = more
        BY <3>2, <2>2, ConcatEmptySeq
      <4> QED
        BY <4>1, <3>2, <2>2, LenProperties
    <3> QED
      BY <3>1, <3>2
  <2> HIDE DEF q
  <2>4. LocalTypeOK'
    BY <1>1, <2>1, <2>3, AppendProperties DEF LocalTypeOK
  <2>5. StreamsAreOpen'
    <3>1. CASE Done
      BY <3>1, <1>1, <2>1 DEF LocalTypeOK, LocalInv, StreamsAreOpen, Registered, Done
    <3>2. CASE ~Done
      <4>1. queues' = Append(queues, c) /\ ~Done'
        BY <3>2, <1>1, <2>1 DEF Done
      <4>2. /\ Len(queues) \in Nat /\ DOMAIN queues = 1..Len(queues)
            /\ DOMAIN queues' = 1..(Len(queues) + 1)
            /\ \A k \in 1..Len(queues) : queues'[k] = queues[k] /\ queues[k] # c
            /\ queues'[Len(queues) + 1] = c
        BY <4>1, <1>1, AppendProperties, LenProperties DEF LocalTypeOK, Registered
      <4>3. \A i, k \in DOMAIN queues' : queues'[i] = queues'[k] => i = k
        BY <4>2 DEF LocalInv, StreamsAreOpen
      <4>4. Registered' = Registered \cup {c}
        BY <4>2 DEF Registered
      <4> QED
        BY <4>1, <4>3, <4>4, <1>1, <2>1, <3>2 DEF LocalTypeOK, LocalInv, StreamsAreOpen
    <3> QED
      BY <3>1, <3>2
  <2>6. pipe'[c] = q /\ link'[c] = "on" /\ Len(buffer') = N /\ DOMAIN heard'[c] = H /\ (Done' <=> Done)
        /\ full'[c] = full[c]
    BY <1>1, <2>1 DEF LocalTypeOK, Done
  <2>7. PipeIsAhead(c)'
    <3> SUFFICES ASSUME NEW k \in 1..Len(q)
                 PROVE  IF q[k] = 0 THEN Done /\ k = Len(q)
                        ELSE /\ q[k] <= N
                             /\ \A n \in H : n < q[k]
                             /\ \A j \in 1..(k - 1) : q[j] < q[k]
      BY <1>6, <2>3, <2>6, LocalAssumption DEF PipeIsAhead
    <3>1. CASE k \in 1..(N - top)
      <4>1. q[k] = top + k /\ \A j \in 1..(k - 1) : q[j] = top + j
        BY <3>1, <2>2, <2>3
      <4>2. k \in Nat \ {0} /\ top \in Nat /\ N \in Nat /\ k <= N - top
        BY <3>1, <1>1, <1>4, <2>2
      <4>3. q[k] # 0 /\ q[k] <= N
        BY <4>1, <4>2
      <4>4. \A n \in H : n < q[k]
        BY <4>1, <4>2, <1>1, <1>2, <1>4
      <4>5. \A j \in 1..(k - 1) : q[j] < q[k]
        BY <4>1, <4>2
      <4> QED
        BY <4>3, <4>4, <4>5
    <3>2. CASE k \notin 1..(N - top)
      BY <3>2, <2>2, <2>3
    <3> QED
      BY <3>1, <3>2
  <2>8. HeardIsWhole(c)'
    <3>1. ASSUME ~full[c], NEW n \in 1..N PROVE n \in H \/ \E k \in 1..Len(q) : q[k] = n
      <4>1. CASE n <= top
        BY <4>1, <3>1, <1>1, <1>2, <1>4
      <4>2. CASE top < n
        <5>1. n - top \in 1..(N - top) /\ top + (n - top) = n
          BY <4>2, <1>1, <1>4
        <5>2. n - top \in 1..Len(q) /\ q[n - top] = top + (n - top)
          BY <5>1, <2>2, <2>3
        <5> QED
          BY <5>1, <5>2
      <4> QED
        BY <4>1, <4>2, <1>4, <1>1
    <3> QED
      BY <3>1, <1>2, <2>3, <2>6 DEF HeardIsWhole
  <2>9. \A d \in Screens \ {c} : PipeIsAhead(d)' /\ HeardIsWhole(d)'
    BY <1>1, <2>1, ScreenStays DEF LocalTypeOK
  <2> QED
    BY <1>1, <2>4, <2>5, <2>7, <2>8, <2>9 DEF LocalInv, OutcomeIsLast, Done
<1> QED
  BY <1>5, <1>6

\* Removing the queue of a connection that closes.
LEMMA CloseStep ==
  ASSUME LocalTypeOK, LocalInv, NEW c \in Screens, queues' = Unregister(c),
         link'[c] # "on", link'[c] = "ended" => Done, pipe'[c] = << >>, UNCHANGED exec,
         \A d \in Screens \ {c} : link'[d] = link[d] /\ pipe'[d] = pipe[d]
  PROVE  queues' \in Seq(Screens) /\ StreamsAreOpen'
<1>1. /\ queues' \in Seq(Screens)
      /\ \A i, k \in DOMAIN queues' : queues'[i] = queues'[k] => i = k
      /\ \A d : d \in Registered' <=> d \in Registered /\ d # c
  <2> DEFINE u == Unregister(c)
  <2>1. /\ u \in Seq(Screens)
        /\ \A i, k \in DOMAIN u : u[i] = u[k] => i = k
        /\ \A d : d \in {u[k] : k \in DOMAIN u} <=> d \in Registered /\ d # c
    BY UnregisterIs DEF LocalTypeOK, LocalInv, StreamsAreOpen
  <2>2. queues' = u /\ Registered' = {queues'[k] : k \in DOMAIN queues'}
    BY DEF Registered
  <2> HIDE DEF u
  <2> QED
    BY <2>1, <2>2
<1>2. Registered \subseteq Screens /\ (Done' <=> Done)
  BY DEF Registered, LocalTypeOK, Done
<1> QED
  BY <1>1, <1>2 DEF LocalInv, StreamsAreOpen

\* What reaches a dashboard, and what the end of the stream finds.
LEMMA ReceiveStep ==
  ASSUME LocalTypeOK, LocalInv, NEW c \in Screens, Receive(c)
  PROVE  LocalTypeOK' /\ LocalInv'
<1> DEFINE N == Len(buffer)
           H == DOMAIN heard[c]
           q == pipe[c]
           n == Head(q)
           t == Tail(q)
<1>1. /\ N \in Nat /\ link[c] = "on" /\ pipe' = [pipe EXCEPT ![c] = t]
      /\ UNCHANGED <<exec, failed, review, buffer, full, detail, losses>>
  BY LenProperties DEF Receive, LocalTypeOK, serverVars
<1>2. /\ q \in Seq(Nat) /\ Len(q) \in Nat \ {0} /\ DOMAIN q = 1..Len(q)
      /\ n = q[1] /\ n \in Nat /\ 1 \in 1..Len(q)
      /\ t \in Seq(Nat) /\ Len(t) = Len(q) - 1 /\ DOMAIN t = 1..Len(t)
      /\ \A k \in 1..Len(t) : t[k] = q[k + 1]
  <2>1. q \in Seq(Nat) /\ q # << >>
    BY DEF Receive, LocalTypeOK
  <2> HIDE DEF q
  <2> QED
    BY <2>1, HeadTailProperties, LenProperties, EmptySeq
<1>3. /\ Len(q) <= QueueMax
      /\ \A k \in 1..Len(q) :
           IF q[k] = 0 THEN Done /\ k = Len(q)
           ELSE /\ q[k] <= N
                /\ \A m \in H : m < q[k]
                /\ \A j \in 1..(k - 1) : q[j] < q[k]
  BY <1>2 DEF LocalInv, PipeIsAhead
<1>4. H \subseteq 1..N
      /\ (~full[c] => \A m \in 1..N : m \in H \/ \E k \in 1..Len(q) : q[k] = m)
  BY <1>1, <1>2 DEF LocalInv, HeardIsWhole
<1>5. full'[c] = full[c] /\ Len(buffer') = N /\ (Done' <=> Done) /\ pipe'[c] = t
  BY <1>1 DEF LocalTypeOK, Done
<1>0. DOMAIN heard[c] = H /\ Len(buffer) = N
  OBVIOUS
<1> HIDE DEF n, t, q, N, H
<1>8. Len(q) \in Nat \ {0} /\ n = q[1] /\ n \in Nat
  BY <1>2
<1>9. \A k \in 1..Len(q) : q[k] # 0 => /\ q[k] <= N
                                       /\ \A m \in H : m < q[k]
                                       /\ \A j \in 1..(k - 1) : q[j] < q[k]
  BY <1>3
<1>10. \A k \in 1..Len(q) : q[k] = 0 => Done /\ k = Len(q)
  BY <1>3
<1>11. Len(t) = Len(q) - 1 /\ \A k \in 1..Len(t) : t[k] = q[k + 1] /\ k + 1 \in 1..Len(q)
  BY <1>2
<1>12. \A k \in 1..Len(q) : q[k] \in Nat
  BY <1>2, ElementOfSeq
<1>6. CASE n = 0
  <2>1. /\ link' = [link EXCEPT ![c] = "ended"] /\ queues' = Unregister(c)
        /\ UNCHANGED <<heard, screen>>
    BY <1>6 DEF Receive, n, q
  <2>2. Done /\ Len(q) = 1
    BY <1>2, <1>3, <1>6
  <2>3. t = << >>
    BY <1>2, <2>2, EmptySeq
  <2>4. link'[c] = "ended" /\ DOMAIN heard'[c] = H
    BY <1>0, <2>1 DEF LocalTypeOK
  <2>5. queues' \in Seq(Screens) /\ StreamsAreOpen'
    BY <1>1, <1>5, <2>1, <2>2, <2>3, <2>4, CloseStep DEF LocalTypeOK
  <2>6. LocalTypeOK'
    BY <1>1, <1>2, <2>1, <2>5 DEF LocalTypeOK
  <2>7. PipeIsAhead(c)'
    BY <1>5, <2>3, LocalAssumption DEF PipeIsAhead
  <2>8. \A k \in 1..Len(q) : q[k] = 0
    BY <1>6, <1>8, <2>2
  <2>9. HeardIsWhole(c)'
    <3>1. DOMAIN heard[c] = {} \/ \E last \in DOMAIN heard[c] : \A m \in DOMAIN heard[c] : m <= last
      BY DEF LocalInv, HeardIsWhole
    <3> QED
      BY <1>0, <1>4, <1>5, <2>4, <2>8, <3>1 DEF HeardIsWhole
  <2>10. \A d \in Screens \ {c} : PipeIsAhead(d)' /\ HeardIsWhole(d)'
    BY <1>1, <2>1, ScreenStays DEF LocalTypeOK
  <2> QED
    BY <1>1, <2>1, <2>5, <2>6, <2>7, <2>9, <2>10 DEF LocalInv, OutcomeIsLast, Done
<1>7. CASE n # 0
  <2>1. /\ heard' = [heard EXCEPT ![c] = @ (+) SetToBag({n})]
        /\ screen' = [screen EXCEPT ![c] = Reduce(@, buffer[n])]
        /\ UNCHANGED <<link, queues>>
    BY <1>7 DEF Receive, n, q
  <2>2. n \in 1..N /\ \A m \in H : m < n
    <3>1. 1 \in 1..Len(q)
      BY <1>8
    <3> QED
      BY <3>1, <1>1, <1>7, <1>8, <1>9
  <2>0. /\ heard' = [d \in Screens |-> heard'[d]]
        /\ DOMAIN heard'[c] = DOMAIN heard[c] \cup {n} /\ heard'[c] \in [DOMAIN heard'[c] -> Nat]
        /\ \A d \in Screens \ {c} : heard'[d] = heard[d]
    <3>1. n \notin DOMAIN heard[c]
      BY <1>0, <1>1, <1>4, <2>2
    <3> QED
      BY <2>1, <3>1, HeardGrows
  <2>3. buffer[n] \in Events
    BY <1>0, <2>2, ElementOfSeq DEF LocalTypeOK
  <2>4. LocalTypeOK'
    <3>1. Reduce(screen[c], buffer[n]) \in Phases
      BY <2>3 DEF Reduce, Events, Phases, LocalTypeOK
    <3>2. heard' = [d \in Screens |-> heard'[d]]
          /\ \A d \in Screens : DOMAIN heard'[d] \subseteq Nat /\ heard'[d] \in [DOMAIN heard'[d] -> Nat]
      <4>1. n \in Nat /\ DOMAIN heard[c] \subseteq Nat
        BY <1>2 DEF LocalTypeOK
      <4>2. \A d \in Screens \ {c} : DOMAIN heard'[d] \subseteq Nat /\ heard'[d] \in [DOMAIN heard'[d] -> Nat]
        BY <2>0 DEF LocalTypeOK
      <4> QED
        BY <2>0, <4>1, <4>2
    <3> QED
      BY <1>1, <1>2, <2>1, <3>1, <3>2 DEF LocalTypeOK
  <2>5. StreamsAreOpen'
    BY <1>1, <2>1 DEF LocalTypeOK, LocalInv, StreamsAreOpen, Registered, Done
  <2>6. DOMAIN heard'[c] = H \cup {n} /\ link'[c] = "on"
    BY <2>0, <1>0, <1>1, <2>1 DEF LocalTypeOK
  <2>7. PipeIsAhead(c)'
    <3> SUFFICES ASSUME NEW k \in 1..Len(t)
                 PROVE  IF t[k] = 0 THEN Done /\ k = Len(t)
                        ELSE /\ t[k] <= N
                             /\ \A m \in H \cup {n} : m < t[k]
                             /\ \A j \in 1..(k - 1) : t[j] < t[k]
      <4>1. Len(t) <= QueueMax /\ DOMAIN t = 1..Len(t)
        <5>1. DOMAIN t = 1..Len(t) /\ Len(q) <= QueueMax
          BY <1>2, <1>3
        <5> QED
          BY <5>1, <1>8, <1>11, LocalAssumption
      <4> QED
        BY <4>1, <1>5, <2>6 DEF PipeIsAhead
    <3>1. k + 1 \in 1..Len(q) /\ t[k] = q[k + 1]
      BY <1>11
    <3>2. CASE t[k] = 0
      BY <3>1, <3>2, <1>8, <1>10, <1>11
    <3>3. CASE t[k] # 0
      <4>1. t[k] <= N /\ (\A m \in H : m < t[k]) /\ \A j \in 1..k : q[j] < t[k]
        <5>1. k \in Nat /\ (k + 1) - 1 = k
          OBVIOUS
        <5> QED
          BY <5>1, <3>1, <3>3, <1>9
      <4>2. n < t[k]
        BY <4>1, <1>8
      <4>3. ASSUME NEW j \in 1..(k - 1) PROVE t[j] < t[k]
        <5>1. j \in 1..Len(t) /\ j + 1 \in 1..k
          BY <1>8, <1>11
        <5> QED
          BY <5>1, <4>1, <1>11
      <4> QED
        BY <3>3, <4>1, <4>2, <4>3
    <3> QED
      BY <3>2, <3>3
  <2>8. HeardIsWhole(c)'
    <3>1. n \in H \cup {n} /\ \A m \in H \cup {n} : m <= n
      BY <1>4, <2>2
    <3>2. ASSUME ~full[c], NEW m \in 1..N, m \notin H \cup {n} PROVE \E k \in 1..Len(t) : t[k] = m
      <4>1. PICK k \in 1..Len(q) : q[k] = m
        BY <1>4, <3>2
      <4>2. k - 1 \in 1..Len(t) /\ (k - 1) + 1 = k
        BY <4>1, <1>2, <3>2
      <4>3. t[k - 1] = m
        BY <4>1, <4>2, <1>2
      <4> QED
        BY <4>2, <4>3
    <3> QED
      BY <1>2, <1>4, <1>5, <2>2, <2>6, <3>1, <3>2 DEF HeardIsWhole
  <2>9. \A d \in Screens \ {c} : PipeIsAhead(d)' /\ HeardIsWhole(d)'
    BY <1>1, <2>1, ScreenStays DEF LocalTypeOK
  <2>10. OutcomeIsLast'
    <3> SUFFICES ASSUME Done PROVE
           /\ N > 0 /\ buffer[N] = IF exec.pc = "done" THEN "run_end" ELSE "error"
           /\ \A d \in Screens : N \in DOMAIN heard'[d] => screen'[d] = exec.pc
      BY <1>0, <1>1, <1>5 DEF OutcomeIsLast
    <3>1. /\ N > 0 /\ buffer[N] = IF exec.pc = "done" THEN "run_end" ELSE "error"
          /\ \A d \in Screens : N \in DOMAIN heard[d] => screen[d] = exec.pc
      BY <1>0 DEF LocalInv, OutcomeIsLast
    <3>2. \A d \in Screens \ {c} : DOMAIN heard'[d] = DOMAIN heard[d] /\ screen'[d] = screen[d]
      BY <2>1 DEF LocalTypeOK
    <3>3. N \in DOMAIN heard'[c] => n = N
      BY <1>1, <1>2, <2>2, <2>6
    <3>4. Reduce(screen[c], buffer[N]) = exec.pc
      BY <3>1 DEF Reduce, Done
    <3>5. n = N => screen'[c] = exec.pc
      BY <2>1, <3>4 DEF LocalTypeOK
    <3> QED
      BY <3>1, <3>2, <3>3, <3>5
  <2> QED
    BY <2>4, <2>5, <2>7, <2>8, <2>9, <2>10 DEF LocalInv
<1> QED
  BY <1>6, <1>7

\* A lost connection loses its queue, and so no more than a replay brings back.
LEMMA LoseStep ==
  ASSUME LocalTypeOK, LocalInv, NEW c \in Screens, LoseLink(c)
  PROVE  LocalTypeOK' /\ LocalInv'
<1>1. /\ link[c] = "on" /\ link' = [link EXCEPT ![c] = "off"]
      /\ pipe' = [pipe EXCEPT ![c] = << >>] /\ queues' = Unregister(c)
      /\ UNCHANGED <<exec, buffer, full, heard, detail, screen>>
  BY DEF LoseLink, serverVars
<1>2. link'[c] = "off" /\ pipe'[c] = << >> /\ full'[c] = full[c] /\ DOMAIN heard'[c] = DOMAIN heard[c]
  BY <1>1 DEF LocalTypeOK
<1>3. queues' \in Seq(Screens) /\ StreamsAreOpen'
  BY <1>1, <1>2, CloseStep DEF LocalTypeOK
<1>4. LocalTypeOK'
  BY <1>1, <1>3, EmptySeq DEF LocalTypeOK
<1>5. PipeIsAhead(c)'
  BY <1>2, LocalAssumption DEF PipeIsAhead
<1>6. HeardIsWhole(c)'
  <2>1. /\ DOMAIN heard[c] \subseteq 1..Len(buffer)
        /\ DOMAIN heard[c] = {} \/ \E last \in DOMAIN heard[c] : \A n \in DOMAIN heard[c] : n <= last
        /\ ~full[c] => \A n \in 1..Len(buffer) :
                         n \in DOMAIN heard[c] \/ \E k \in DOMAIN pipe[c] : pipe[c][k] = n
    BY <1>1 DEF LocalInv, HeardIsWhole
  <2>2. ASSUME ~full[c], NEW n \in DOMAIN heard[c], NEW m \in 1..n PROVE m \in DOMAIN heard[c]
    <3>1. m \in 1..Len(buffer) /\ m \in Nat \ {0} /\ n \in Nat /\ m <= n
      BY <2>1, LenProperties DEF LocalTypeOK
    <3>2. ASSUME NEW k \in DOMAIN pipe[c], pipe[c][k] = m PROVE FALSE
      <4>1. n < pipe[c][k]
        BY <3>1, <3>2 DEF LocalInv, PipeIsAhead
      <4> QED
        BY <4>1, <3>1, <3>2
    <3> QED
      BY <2>1, <2>2, <3>1, <3>2
  <2> QED
    BY <1>1, <1>2, <2>1, <2>2 DEF HeardIsWhole
<1>7. \A d \in Screens \ {c} : PipeIsAhead(d)' /\ HeardIsWhole(d)'
  BY <1>1, ScreenStays DEF LocalTypeOK
<1> QED
  BY <1>1, <1>3, <1>4, <1>5, <1>6, <1>7 DEF LocalInv, OutcomeIsLast, Done

\* An answer of /api/state changes nothing of a dashboard that knows the outcome.
LEMMA StateStep ==
  ASSUME LocalTypeOK, LocalInv, NEW c \in Screens, FetchState(c) \/ Hydrate(c)
  PROVE  LocalTypeOK' /\ LocalInv'
<1>1. UNCHANGED <<exec, buffer, queues, pipe, full, link, heard>>
  BY DEF FetchState, Hydrate, serverVars, streamVars
<1>2. LocalTypeOK' /\ (Done => \A d \in Screens : screen[d] = exec.pc => screen'[d] = exec.pc)
  <2>1. CASE FetchState(c)
    <3>1. RuntimePhase \in Phases
      BY DEF RuntimePhase, Phases
    <3> QED
      BY <2>1, <1>1, <3>1 DEF FetchState, LocalTypeOK
  <2>2. CASE Hydrate(c)
    <3>1. detail[c] \in Phases /\ screen[c] \in Phases
      BY <2>2 DEF Hydrate, LocalTypeOK
    <3>2. Hydrated(screen[c], detail[c]) \in Phases
      BY <3>1 DEF Hydrated
    <3>3. Done /\ screen[c] = exec.pc => Hydrated(screen[c], detail[c]) = exec.pc
      BY DEF Hydrated, Done
    <3>4. screen' = [screen EXCEPT ![c] = Hydrated(@, detail[c])]
          /\ detail' = [detail EXCEPT ![c] = "used"]
      BY <2>2 DEF Hydrate
    <3> QED
      BY <1>1, <3>2, <3>3, <3>4 DEF LocalTypeOK
  <2> QED
    BY <2>1, <2>2
<1>3. StreamsAreOpen'
  BY <1>1 DEF LocalInv, StreamsAreOpen, Registered, Done
<1>4. \A d \in Screens : PipeIsAhead(d)' /\ HeardIsWhole(d)'
  BY <1>1, ScreenStays
<1>5. OutcomeIsLast'
  BY <1>1, <1>2 DEF LocalInv, OutcomeIsLast, Done
<1> QED
  BY <1>2, <1>3, <1>4, <1>5 DEF LocalInv

\* Every step of the executor, the streams and the browser keeps the invariant.
LEMMA LocalInvStep ==
  ASSUME LocalTypeOK, LocalInv, [LocalNext]_localVars
  PROVE  LocalTypeOK' /\ LocalInv'
<1> USE DEF serverVars, browserVars
<1>1. CASE UNCHANGED localVars
  <2>1. UNCHANGED <<exec, buffer, queues, pipe, full, link, heard, detail, screen>>
    BY <1>1 DEF localVars, streamVars
  <2>2. \A d \in Screens : PipeIsAhead(d)' /\ HeardIsWhole(d)'
    BY <2>1, ScreenStays
  <2> QED
    BY <2>1, <2>2 DEF LocalTypeOK, LocalInv, StreamsAreOpen, Registered, OutcomeIsLast, Done
<1>2. CASE BeginRun
  <2> DEFINE events == <<"run_start">>
  <2>1. events \in Seq(Events) /\ Len(events) \in Nat \ {0}
    BY DEF Events
  <2>2. Emit(events) /\ UNCHANGED <<link, heard, detail, screen>> /\ ~Done /\ ~Done'
        /\ exec' \in [pc : {"queued", "graph", "asked", "done", "error"}, n : Nat, asks : Nat]
    BY <1>2 DEF BeginRun, Done, LocalTypeOK
  <2> HIDE DEF events
  <2> QED
    BY <2>1, <2>2, EmitStep DEF LocalTypeOK
<1>3. CASE GraphStep
  <2>1. PICK events \in {<<"plain">>, <<"plain", "resume">>} : Emit(events)
    BY <1>3 DEF GraphStep
  <2>2. events \in Seq(Events) /\ Len(events) \in Nat \ {0}
    <3>1. /\ <<"plain">> \in Seq(Events) /\ Len(<<"plain">>) = 1
          /\ <<"plain", "resume">> \in Seq(Events) /\ Len(<<"plain", "resume">>) = 2
      BY DEF Events
    <3>2. CASE events = <<"plain">>
      BY <3>1, <3>2
    <3>3. CASE events = <<"plain", "resume">>
      BY <3>1, <3>3
    <3> QED
      BY <3>2, <3>3
  <2>3. UNCHANGED <<link, heard, detail, screen>> /\ ~Done /\ ~Done'
        /\ exec' \in [pc : {"queued", "graph", "asked", "done", "error"}, n : Nat, asks : Nat]
    <3>1. /\ exec.pc = "graph" /\ exec' = [exec EXCEPT !.n = @ + 1]
          /\ UNCHANGED <<link, heard, detail, screen>>
      BY <1>3 DEF GraphStep
    <3>2. exec \in [pc : {"queued", "graph", "asked", "done", "error"}, n : Nat, asks : Nat]
      BY DEF LocalTypeOK
    <3> QED
      BY <3>1, <3>2 DEF Done
  <2> QED
    BY <2>1, <2>2, <2>3, EmitStep DEF LocalTypeOK
<1>4. CASE AskReview
  <2> DEFINE events == <<"awaiting_review">>
  <2>1. events \in Seq(Events) /\ Len(events) \in Nat \ {0}
    BY DEF Events
  <2>2. Emit(events) /\ UNCHANGED <<link, heard, detail, screen>> /\ ~Done /\ ~Done'
        /\ exec' \in [pc : {"queued", "graph", "asked", "done", "error"}, n : Nat, asks : Nat]
    <3>1. /\ exec.pc = "graph" /\ exec' = [exec EXCEPT !.pc = "asked", !.asks = @ + 1]
          /\ Emit(events) /\ UNCHANGED <<link, heard, detail, screen>>
      BY <1>4 DEF AskReview
    <3>2. exec \in [pc : {"queued", "graph", "asked", "done", "error"}, n : Nat, asks : Nat]
      BY DEF LocalTypeOK
    <3>3. exec' = [pc |-> "asked", n |-> exec.n, asks |-> exec.asks + 1]
      BY <3>1, <3>2
    <3> QED
      BY <3>1, <3>2, <3>3 DEF Done
  <2> HIDE DEF events
  <2> QED
    BY <2>1, <2>2, EmitStep DEF LocalTypeOK
<1>5. CASE AnswerReview \/ ResumeGraph
  <2>1. UNCHANGED <<buffer, queues, pipe, full, link, heard, detail, screen>> /\ (Done' <=> Done)
        /\ (Done => UNCHANGED exec)
        /\ exec' \in [pc : {"queued", "graph", "asked", "done", "error"}, n : Nat, asks : Nat]
    <3>1. /\ UNCHANGED <<buffer, queues, pipe, full, link, heard, detail, screen>>
          /\ exec' = exec \/ (exec.pc = "asked" /\ exec' = [exec EXCEPT !.pc = "graph", !.n = 0])
      BY <1>5 DEF AnswerReview, ResumeGraph, streamVars
    <3>2. exec \in [pc : {"queued", "graph", "asked", "done", "error"}, n : Nat, asks : Nat]
      BY DEF LocalTypeOK
    <3>3. exec' = exec \/ (exec.pc = "asked" /\ exec' = [pc |-> "graph", n |-> 0, asks |-> exec.asks])
      BY <3>1, <3>2
    <3> QED
      BY <3>1, <3>2, <3>3 DEF Done
  <2>2. \A d \in Screens : PipeIsAhead(d)' /\ HeardIsWhole(d)'
    BY <2>1 DEF LocalInv, PipeIsAhead, HeardIsWhole
  <2> QED
    BY <2>1, <2>2 DEF LocalTypeOK, LocalInv, StreamsAreOpen, Registered, OutcomeIsLast
<1>6. CASE EndRun \/ FailLocalRun
  <2>1. PICK event \in {"run_end", "error"} :
          EmitLast(event) /\ event = IF exec'.pc = "done" THEN "run_end" ELSE "error"
    BY <1>6 DEF EndRun, FailLocalRun, LocalTypeOK
  <2>2. UNCHANGED <<link, heard, detail, screen>> /\ ~Done /\ exec'.pc \in {"done", "error"}
        /\ exec' \in [pc : {"queued", "graph", "asked", "done", "error"}, n : Nat, asks : Nat]
    BY <1>6 DEF EndRun, FailLocalRun, Done, LocalTypeOK
  <2>3. event \in Events
    BY DEF Events
  <2> QED
    BY <2>1, <2>2, <2>3, EmitLastStep DEF LocalTypeOK
<1> QED
  BY <1>1, <1>2, <1>3, <1>4, <1>5, <1>6, ConnectStep, ReceiveStep, LoseStep, StateStep DEF LocalNext

\* The API starts a run in the web process only without a database, and then it is
\* LocalRun's; with one, LocalRun stands still (start_run).
LEMMA ApiRunsLocal == ApiSpec => LocalSpec
<1>1. ApiInit => LocalInit
  BY DEF ApiInit
<1>2. [ApiNext]_apiVars => [LocalNext]_localVars
  <2>1. UNCHANGED apiVars => UNCHANGED localVars
    BY DEF apiVars
  <2>2. StartRun \/ Durable \/ RetryRun => UNCHANGED localVars
    BY DEF StartRun, Durable, RetryRun
  <2>3. Local => LocalNext
    BY DEF Local
  <2> QED
    BY <2>1, <2>2, <2>3 DEF ApiNext
<1> QED
  BY <1>1, <1>2, PTL DEF ApiSpec, LocalSpec

\* Where the streams, the queues and the dashboards of a run in the web process stand to
\* each other, for any queue size and any number of dashboards, reviews and lost connections.
THEOREM LocalInvariant == ApiSpec => [](LocalTypeOK /\ LocalInv)
<1>1. LocalInit => LocalTypeOK /\ LocalInv
  <2> SUFFICES ASSUME LocalInit PROVE LocalTypeOK /\ LocalInv
    OBVIOUS
  <2>1. Len(<< >>) = 0
    OBVIOUS
  <2>2. LocalTypeOK
    BY EmptySeq, NothingIsCounted DEF LocalInit, LocalTypeOK, Phases
  <2>3. StreamsAreOpen
    BY DEF LocalInit, StreamsAreOpen, Registered
  <2>4. \A c \in Screens : PipeIsAhead(c) /\ HeardIsWhole(c)
    BY LocalAssumption, NothingIsCounted DEF LocalInit, PipeIsAhead, HeardIsWhole
  <2> QED
    BY <2>2, <2>3, <2>4 DEF LocalInit, LocalInv, OutcomeIsLast, Done
<1>2. LocalTypeOK /\ LocalInv /\ [LocalNext]_localVars => (LocalTypeOK /\ LocalInv)'
  BY LocalInvStep
<1>3. LocalSpec => [](LocalTypeOK /\ LocalInv)
  BY <1>1, <1>2, PTL DEF LocalSpec
<1> QED
  BY <1>3, ApiRunsLocal, PTL

\* A dashboard told that the stream has ended misses no event, unless one did not fit in its
\* queue, wherever it connected, was lost and came back (routes_runs.py, run_executor.py).
THEOREM MissedWasFullHolds == ApiSpec => []MissedWasFull
<1>1. LocalTypeOK /\ LocalInv => MissedWasFull
  <2> SUFFICES ASSUME LocalTypeOK, LocalInv, NEW c \in Screens, link[c] = "ended", ~full[c]
               PROVE  DOMAIN heard[c] = 1..Len(buffer)
    BY DEF MissedWasFull
  <2>1. pipe[c] = << >>
    BY DEF LocalInv, StreamsAreOpen
  <2>2. DOMAIN pipe[c] = {}
    BY <2>1
  <2>3. /\ DOMAIN heard[c] \subseteq 1..Len(buffer)
        /\ \A n \in 1..Len(buffer) : n \in DOMAIN heard[c] \/ \E k \in DOMAIN pipe[c] : pipe[c][k] = n
    BY DEF LocalInv, HeardIsWhole
  <2> QED
    BY <2>2, <2>3
<1> QED
  BY <1>1, LocalInvariant, PTL

\* A dashboard whose stream has ended shows how the run ended; no late answer of /api/state
\* covers it (useRunStream.ts).
THEOREM DashboardShowsOutcomeHolds == ApiSpec => []DashboardShowsOutcome
<1>1. LocalTypeOK /\ LocalInv /\ MissedWasFull => DashboardShowsOutcome
  <2> SUFFICES ASSUME LocalTypeOK, LocalInv, MissedWasFull,
                      NEW c \in Screens, link[c] = "ended", ~full[c]
               PROVE  screen[c] = exec.pc
    BY DEF DashboardShowsOutcome
  <2>1. Done /\ Len(buffer) > 0 /\ Len(buffer) \in Nat
    BY LenProperties DEF LocalTypeOK, LocalInv, StreamsAreOpen, OutcomeIsLast
  <2>2. Len(buffer) \in DOMAIN heard[c]
    BY <2>1 DEF MissedWasFull
  <2> QED
    BY <2>1, <2>2 DEF LocalInv, OutcomeIsLast
<1> QED
  BY <1>1, LocalInvariant, MissedWasFullHolds, PTL

\* The in-memory stream implements the event feed as the durable one does.
THEOREM LocalFeedSpecHolds == ApiSpec => LocalFeedSpec
<1>1. LocalInit => LocalFeed!Init
  BY NothingIsCounted DEF LocalInit, LocalFeed!Init
<1>2. LocalTypeOK /\ LocalInv /\ [LocalNext]_localVars => [LocalFeed!Next]_(LocalFeed!vars)
  <2> SUFFICES ASSUME LocalTypeOK, LocalInv, [LocalNext]_localVars
               PROVE  [LocalFeed!Next]_(LocalFeed!vars)
    OBVIOUS
  <2> DEFINE N == Len(buffer)
  <2>0. N \in Nat
    BY LenProperties DEF LocalTypeOK
  <2>1. ASSUME Len(buffer') \in Nat, N <= Len(buffer'), heard' = heard
        PROVE  [LocalFeed!Next]_(LocalFeed!vars)
    BY <2>0, <2>1 DEF LocalFeed!Next, LocalFeed!Publish
  <2>2. CASE UNCHANGED localVars
    BY <2>2 DEF localVars, serverVars, browserVars, LocalFeed!vars
  <2>3. ASSUME NEW events \in Seq(Events), Emit(events), heard' = heard
        PROVE  [LocalFeed!Next]_(LocalFeed!vars)
    BY <2>0, <2>1, <2>3, LenProperties, ConcatProperties DEF Emit, LocalTypeOK
  <2>4. ASSUME NEW event \in Events, EmitLast(event), heard' = heard
        PROVE  [LocalFeed!Next]_(LocalFeed!vars)
    BY <2>0, <2>1, <2>4, AppendProperties DEF EmitLast, LocalTypeOK
  <2>5. ASSUME NEW c \in Screens, Receive(c) PROVE [LocalFeed!Next]_(LocalFeed!vars)
    <3> DEFINE n == Head(pipe[c])
    <3>1. pipe[c] \in Seq(Nat) /\ pipe[c] # << >> /\ UNCHANGED buffer
      BY <2>5 DEF Receive, serverVars, LocalTypeOK
    <3>2. n = pipe[c][1] /\ n \in Nat /\ 1 \in DOMAIN pipe[c]
      BY <3>1, HeadTailProperties, LenProperties, EmptySeq
    <3>3. CASE n = 0
      BY <2>5, <3>1, <3>3 DEF Receive, LocalFeed!vars
    <3>4. CASE n # 0
      <4>1. heard' = [heard EXCEPT ![c] = @ (+) SetToBag({n})]
        BY <2>5, <3>4 DEF Receive
      <4>2. n <= N /\ \A m \in DOMAIN heard[c] : m < n
        BY <3>2, <3>4 DEF LocalInv, PipeIsAhead
      <4>3. DOMAIN heard[c] \subseteq 1..N
        BY DEF LocalInv, HeardIsWhole
      <4> HIDE DEF n
      <4>4. n \in 1..N /\ n \notin DOMAIN heard[c]
        BY <2>0, <3>2, <3>4, <4>2, <4>3
      <4>5. /\ heard'[c] = Once(heard[c], {n})
            /\ DOMAIN heard'[c] = DOMAIN heard[c] \cup {n}
            /\ heard' = [heard EXCEPT ![c] = heard'[c]]
        BY <4>1, <4>4, HeardGrows
      <4>6. DOMAIN heard'[c] \ DOMAIN heard[c] = {n}
        BY <4>4, <4>5
      <4>8. LocalFeed!Deliver(c)
        BY <3>1, <4>2, <4>4, <4>5, <4>6 DEF LocalFeed!Deliver, Once
      <4> QED
        BY <4>8 DEF LocalFeed!Next
    <3> QED
      BY <3>3, <3>4
  <2>6. CASE BeginRun \/ AskReview \/ GraphStep
    <3>1. PICK events \in {<<"run_start">>, <<"awaiting_review">>, <<"plain">>, <<"plain", "resume">>} :
            Emit(events) /\ heard' = heard
      BY <2>6 DEF BeginRun, AskReview, GraphStep, browserVars
    <3>2. {<<"run_start">>, <<"awaiting_review">>, <<"plain">>, <<"plain", "resume">>}
            \subseteq Seq(Events)
      BY DEF Events
    <3> QED
      BY <3>1, <3>2, <2>3
  <2>7. CASE EndRun \/ FailLocalRun
    <3>1. "run_end" \in Events /\ "error" \in Events
      BY DEF Events
    <3> QED
      BY <3>1, <2>4, <2>7 DEF EndRun, FailLocalRun, browserVars
  <2>8. CASE AnswerReview \/ ResumeGraph
    BY <2>8 DEF AnswerReview, ResumeGraph, browserVars, LocalFeed!vars
  <2>9. ASSUME NEW c \in Screens, Connect(c) \/ LoseLink(c) \/ FetchState(c) \/ Hydrate(c)
        PROVE  [LocalFeed!Next]_(LocalFeed!vars)
    BY <2>9 DEF Connect, LoseLink, FetchState, Hydrate, serverVars, LocalFeed!vars
  <2> QED
    BY <2>2, <2>5, <2>6, <2>7, <2>8, <2>9 DEF LocalNext
<1> QED
  BY <1>1, <1>2, LocalInvariant, ApiRunsLocal, PTL DEF LocalSpec, LocalFeedSpec, LocalFeed!Spec

-------------------------------------------------------------------------------
(* The outbox                                                              *)

\* The places of a cycle and what each holds there.
LEMMA WakeTypeStep ==
  ASSUME WakeTypeOK, [Next]_vars
  PROVE  WakeTypeOK'
<1> USE WakeAssumption DEF WakeTypeOK, Go, Then, Released, outboxVars, jobVars
<1>1. CASE UNCHANGED vars
  BY <1>1 DEF vars
<1>2. ASSUME NEW j \in Jobs, Enqueue(j) \/ Elapse(j) \/ JobDue(j) \/ Stall(j) PROVE WakeTypeOK'
  BY <1>2 DEF Enqueue, Elapse, JobDue, Stall
<1>3. ASSUME NEW p \in Runners, ClaimOutbox(p) PROVE WakeTypeOK'
  BY <1>3 DEF ClaimOutbox
<1>4. ASSUME NEW p \in Runners, Publish(p) PROVE WakeTypeOK'
  BY <1>4 DEF Publish
<1>5. ASSUME NEW p \in Runners, MarkPublished(p) PROVE WakeTypeOK'
  BY <1>5 DEF MarkPublished
<1>6. ASSUME NEW p \in Runners, FailOutbox(p) PROVE WakeTypeOK'
  BY <1>6 DEF FailOutbox
<1>7. ASSUME NEW p \in Runners, Answered(p) \/ ReceiveFails(p) \/ ClaimJob(p) PROVE WakeTypeOK'
  BY <1>7 DEF Answered, ReceiveFails, ClaimJob
<1>8. ASSUME NEW p \in Runners, EndJob(p) \/ RunnerDies(p) PROVE WakeTypeOK'
  BY <1>8 DEF EndJob, RunnerDies
<1> QED
  BY <1>1, <1>2, <1>3, <1>4, <1>5, <1>6, <1>7, <1>8 DEF Next, Cycle

\* Only Publish brings a runner to its mark, and only MarkPublished publishes.
LEMMA SentStep ==
  ASSUME WakeTypeOK, SentBeforeMark, PublishedWasSent, [Next]_vars
  PROVE  SentBeforeMark' /\ PublishedWasSent'
<1> USE WakeAssumption DEF WakeTypeOK, SentBeforeMark, PublishedWasSent, Go, Then, Released,
        outboxVars, jobVars
<1>1. CASE UNCHANGED vars
  BY <1>1 DEF vars
<1>2. ASSUME NEW j \in Jobs, Enqueue(j) \/ Elapse(j) \/ JobDue(j) \/ Stall(j)
      PROVE  SentBeforeMark' /\ PublishedWasSent'
  BY <1>2 DEF Enqueue, Elapse, JobDue, Stall
<1>3. ASSUME NEW p \in Runners, ClaimOutbox(p) PROVE SentBeforeMark' /\ PublishedWasSent'
  BY <1>3 DEF ClaimOutbox
<1>4. ASSUME NEW p \in Runners, Publish(p) PROVE SentBeforeMark' /\ PublishedWasSent'
  BY <1>4 DEF Publish
<1>5. ASSUME NEW p \in Runners, MarkPublished(p) PROVE SentBeforeMark' /\ PublishedWasSent'
  BY <1>5 DEF MarkPublished
<1>6. ASSUME NEW p \in Runners, FailOutbox(p) PROVE SentBeforeMark' /\ PublishedWasSent'
  BY <1>6 DEF FailOutbox
<1>7. ASSUME NEW p \in Runners, Answered(p) \/ ReceiveFails(p) \/ ClaimJob(p)
      PROVE  SentBeforeMark' /\ PublishedWasSent'
  BY <1>7 DEF Answered, ReceiveFails, ClaimJob
<1>8. ASSUME NEW p \in Runners, EndJob(p) \/ RunnerDies(p)
      PROVE  SentBeforeMark' /\ PublishedWasSent'
  BY <1>8 DEF EndJob, RunnerDies
<1> QED
  BY <1>1, <1>2, <1>3, <1>4, <1>5, <1>6, <1>7, <1>8 DEF Next, Cycle

\* Delivery to the broker is at least once: a published entry has been sent, whatever
\* publishers share a worker id and lose their leases.
THEOREM PublishedWasSentHolds == Spec => []PublishedWasSent
<1>1. Init => WakeTypeOK /\ SentBeforeMark /\ PublishedWasSent
  BY WakeAssumption DEF Init, WakeTypeOK, SentBeforeMark, PublishedWasSent
<1>2. WakeTypeOK /\ SentBeforeMark /\ PublishedWasSent /\ [Next]_vars
      => (WakeTypeOK /\ SentBeforeMark /\ PublishedWasSent)'
  BY WakeTypeStep, SentStep
<1> QED
  BY <1>1, <1>2, PTL DEF Spec

===============================================================================
