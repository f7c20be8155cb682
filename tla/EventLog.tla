------------------------------- MODULE EventLog -------------------------------
(***************************************************************************)
(* The durable event stream of one run: the run_events table (db/jobs.py), *)
(* every method that appends to it, and the SSE endpoint that replays it   *)
(* by sequence number (web/routes_runs.py).                                *)
(*                                                                         *)
(* An identity column numbers a row when it is inserted; the row becomes   *)
(* readable when its transaction commits.  So a method that appends an     *)
(* event is two steps here: its statements, which draw the numbers and     *)
(* take the row locks, and the commit, which publishes the rows together   *)
(* with the method's other changes.  A dead process rolls its transaction  *)
(* back and leaves a gap in the numbers.                                   *)
(*                                                                         *)
(* The jobs are reduced to what orders the events; leases, attempts and    *)
(* gate versions are the subject of JobQueue.  An event is its number:     *)
(* what the events say is the subject of GraphEvents and Progress.         *)
(***************************************************************************)
EXTENDS Naturals, FiniteSets, Bags

CONSTANTS
  Workers,      \* worker processes
  Clients,      \* dashboards that read the stream
  None,         \* no open transaction
  MaxProgress,  \* bound: progress events of one attempt
  MaxUpsets,    \* bound: deaths, failures, aborts, renewals, webhooks
  MaxCancels,   \* bound: cancellations
  MaxDrops      \* bound: connections lost

Writers == Workers \cup {"beat", "hook", "web"}

ASSUME LogAssumption ==
  /\ None \notin Workers
  /\ MaxProgress \in Nat /\ MaxUpsets \in Nat /\ MaxCancels \in Nat /\ MaxDrops \in Nat

VARIABLES
  phase,   \* runs.phase
  todo,    \* the kinds of job a worker may claim
  gate,    \* a review gate is pending
  rows,    \* the numbers of the committed run_events
  seq,     \* the next value of the identity column
  tx,      \* the open transaction of each writer
  wk,      \* the workers: program counter, claimed job, whether it is still theirs, events sent
  stream,  \* the connection of each dashboard
  got,     \* how often each dashboard has received each id (a bag)
  hidden,  \* history: ids committed after a higher id
  cancels, \* history: how often cancel_pending_test_runs took the run's jobs
  upsets, drops

dbVars == <<phase, todo, gate, rows, hidden, cancels>>
clientVars == <<stream, got, drops>>
logVars == <<dbVars, seq, tx, wk, clientVars, upsets>>

Idle == [pc |-> "idle", kind |-> "none", owns |-> FALSE, sent |-> 0]
EndPhases == {"done", "error", "cancelled"}

LogInit ==
  /\ phase = "absent"
  /\ todo = {}
  /\ gate = FALSE
  /\ rows = {}
  /\ seq = 1
  /\ tx = [x \in Writers |-> None]
  /\ wk = [w \in Workers |-> Idle]
  /\ stream = [c \in Clients |-> "off"]
  /\ got = [c \in Clients |-> EmptyBag]
  /\ hidden = {}
  /\ cancels = 0
  /\ upsets = 0
  /\ drops = 0

-------------------------------------------------------------------------------
(* Transactions                                                            *)

\* A transaction that appends n events and changes nothing else.
\* The foreign key to runs makes each INSERT lock the run row FOR KEY SHARE.
Appends(n) ==
  [rows |-> seq..(seq + n - 1), phase |-> "same", gate |-> "same", queue |-> {},
   claim |-> {}, then |-> "same", locks |-> {"share"}]

\* Job rows are locked by UPDATE; open_gate takes the run row FOR UPDATE, which
\* even a key share excludes; other updates of the run row exclude each other.
Conflict(s, t) ==
  \/ s \cap t \cap {"job", "update"} # {}
  \/ "exclusive" \in s \cup t

Free(x, locks) == \A y \in Writers \ {x} : tx[y] # None => ~Conflict(locks, tx[y].locks)

\* The statements of a transaction: writer x has drawn its numbers, not committed.
Begin(x, t) ==
  /\ tx[x] = None
  /\ Free(x, t.locks)
  /\ tx' = [tx EXCEPT ![x] = t]
  /\ seq' = seq + Cardinality(t.rows)

\* Ids that a reader of the committed rows may already have passed.
Overtaken(R) == {n \in R : \E m \in rows : n < m}

\* COMMIT: the rows become readable, with everything else the method changed.
Commit(x) ==
  /\ tx[x] # None
  /\ rows' = rows \cup tx[x].rows
  /\ hidden' = hidden \cup Overtaken(tx[x].rows)
  /\ phase' = IF tx[x].phase = "same" THEN phase ELSE tx[x].phase
  /\ gate' = IF tx[x].gate = "same" THEN gate ELSE tx[x].gate = "open"
  /\ todo' = (todo \ tx[x].claim) \cup tx[x].queue
  /\ cancels' = IF "cancel" \in tx[x].claim THEN cancels + 1 ELSE cancels
  /\ wk' = [w \in Workers |->
              CASE w # x /\ "cancel" \in tx[x].claim -> [wk[w] EXCEPT !.owns = FALSE]
                [] w = x /\ tx[x].then = "idle" -> Idle
                [] w = x /\ tx[x].then # "same" -> [wk[w] EXCEPT !.pc = tx[x].then]
                [] OTHER -> wk[w]]
  /\ tx' = [tx EXCEPT ![x] = None]
  /\ UNCHANGED <<seq, clientVars, upsets>>

Upset == upsets < MaxUpsets /\ upsets' = upsets + 1

\* The API process or its connection fails before COMMIT.
Abort(x) ==
  /\ x \notin Workers
  /\ tx[x] # None
  /\ Upset
  /\ tx' = [tx EXCEPT ![x] = None]
  /\ UNCHANGED <<dbVars, seq, wk, clientVars>>

-------------------------------------------------------------------------------
(* The web API and the provider's webhook                                  *)

\* start_run, start_run_v2, enqueue_run: the run, its job and two events.
EnqueueRun ==
  /\ phase = "absent"
  /\ Begin("web", [Appends(2) EXCEPT
                     !.phase = "running", !.queue = {"execute_run"}])
  /\ UNCHANGED <<dbVars, wk, clientVars, upsets>>

\* review_run_v2, resolve_gate: closes the gate and queues the job that resumes.
ResolveGate ==
  /\ gate
  /\ Begin("web", [Appends(1) EXCEPT
                     !.phase = "running", !.gate = "closed", !.queue = {"resume_run"},
                     !.locks = {"share", "update"}])
  /\ UNCHANGED <<dbVars, wk, clientVars, upsets>>

\* cancel_pending_test_runs: the gate, the run and every unfinished job.
CancelPending ==
  /\ gate
  /\ cancels < MaxCancels
  /\ Begin("web", [Appends(1) EXCEPT
                     !.phase = IF phase \in EndPhases THEN "same" ELSE "cancelled",
                     !.gate = "closed", !.claim = {"execute_run", "resume_run", "cancel"},
                     !.locks = {"share", "update", "job"}])
  /\ UNCHANGED <<dbVars, wk, clientVars, upsets>>

\* replicate_prediction_webhook: a late verdict of a provider, at any time.
PredictionUpdated ==
  /\ phase # "absent"
  /\ Upset
  /\ Begin("hook", Appends(1))
  /\ UNCHANGED <<dbVars, wk, clientVars>>

-------------------------------------------------------------------------------
(* The worker                                                              *)

Claim(w, kind) ==
  /\ wk[w].pc = "idle"
  /\ kind \in todo
  /\ Begin(w, [Appends(1) EXCEPT
                 !.claim = {kind}, !.then = "graph", !.locks = {"share", "job"}])
  /\ wk' = [wk EXCEPT ![w].kind = kind, ![w].owns = TRUE]
  /\ UNCHANGED <<dbVars, clientVars, upsets>>

\* The row a cancellation took from the worker is no longer its own.
Owns(w) == wk[w].owns

\* renew: the heartbeat task appends beside the worker's own events.
RenewLease(w) ==
  /\ wk[w].pc # "idle" /\ Owns(w)
  /\ Upset
  /\ Begin("beat", [Appends(1) EXCEPT !.locks = {"share", "job"}])
  /\ UNCHANGED <<dbVars, wk, clientVars>>

\* persist_progress: what the graph reports while it runs.
PersistProgress(w) ==
  /\ wk[w].pc = "graph"
  /\ wk[w].sent < MaxProgress
  /\ Begin(w, Appends(1))
  /\ wk' = [wk EXCEPT ![w].sent = @ + 1]
  /\ UNCHANGED <<dbVars, clientVars, upsets>>

\* The graph stops at the review or at its end, as the job it executes says, whoever owns
\* that job by now; runs.save writes the run row, over a cancellation too, before
\* open_gate or before the run_end event.
SaveRun(w) ==
  /\ wk[w].pc = "graph" /\ tx[w] = None
  /\ wk[w].sent = MaxProgress
  /\ Free(w, {"share", "update"})
  /\ LET interrupted == wk[w].kind = "execute_run" IN
       /\ phase' = IF interrupted THEN "running" ELSE "done"
       /\ wk' = [wk EXCEPT ![w].pc = IF interrupted THEN "gating" ELSE "ending"]
  /\ UNCHANGED <<todo, gate, rows, hidden, cancels, seq, tx, clientVars, upsets>>

OpenGate(w) ==
  /\ wk[w].pc = "gating"
  /\ Begin(w, [Appends(2) EXCEPT
                 !.phase = "review", !.gate = "open", !.locks = {"exclusive"},
                 !.then = "finish"])
  /\ UNCHANGED <<dbVars, wk, clientVars, upsets>>

AppendRunEnd(w) ==
  /\ wk[w].pc = "ending"
  /\ Begin(w, [Appends(1) EXCEPT !.then = "finish"])
  /\ UNCHANGED <<dbVars, wk, clientVars, upsets>>

Complete(w) ==
  /\ wk[w].pc = "finish" /\ Owns(w)
  /\ Begin(w, [Appends(1) EXCEPT !.then = "idle", !.locks = {"share", "job"}])
  /\ UNCHANGED <<dbVars, wk, clientVars, upsets>>

\* Faulty variant: a job that will be retried is not queued again.
FailForgetting(w) ==
  /\ wk[w].pc \in {"graph", "gating", "ending"} /\ Owns(w)
  /\ Upset
  /\ Begin(w, [Appends(1) EXCEPT !.then = "idle", !.locks = {"share", "job"}])
  /\ wk' = [wk EXCEPT ![w].pc = "failing"]
  /\ UNCHANGED <<dbVars, clientVars>>

\* fail: the job goes back to the queue, or ends the run with its error event.
Fail(w) ==
  /\ wk[w].pc \in {"graph", "gating", "ending"} /\ Owns(w)
  /\ Upset
  /\ \/ Begin(w, [Appends(1) EXCEPT
                    !.queue = {wk[w].kind}, !.then = "idle", !.locks = {"share", "job"}])
     \/ Begin(w, [Appends(2) EXCEPT
                    !.phase = "error", !.then = "idle", !.locks = {"share", "update", "job"}])
  /\ wk' = [wk EXCEPT ![w].pc = "failing"]
  /\ UNCHANGED <<dbVars, clientVars>>

\* LeaseLostError, from the heartbeat, complete or fail: the attempt is dropped.
LoseLease(w) ==
  /\ wk[w].pc # "idle" /\ tx[w] = None /\ ~Owns(w)
  /\ wk' = [wk EXCEPT ![w] = Idle]
  /\ UNCHANGED <<dbVars, seq, tx, clientVars, upsets>>

\* The process dies: its transaction is rolled back and its lease will expire.
Crash(w) ==
  /\ wk[w] # Idle
  /\ Upset
  /\ todo' = IF wk[w].pc # "idle" /\ Owns(w) THEN todo \cup {wk[w].kind} ELSE todo
  /\ wk' = [wk EXCEPT ![w] = Idle]
  /\ tx' = [tx EXCEPT ![w] = None]
  /\ UNCHANGED <<phase, gate, rows, hidden, cancels, seq, clientVars>>

-------------------------------------------------------------------------------
(* GET /api/stream/{run_id}                                                *)

\* Faulty variant: every poll lists the table from its start.
UnreadFromStart(c) == rows

\* list_events(after_seq = Last-Event-ID).
Unread(c) == {n \in rows : \A m \in DOMAIN got[c] : m < n}

OpenStream(c) ==
  /\ phase # "absent"
  /\ stream[c] = "off"
  /\ stream' = [stream EXCEPT ![c] = "on"]
  /\ UNCHANGED <<dbVars, seq, tx, wk, got, drops, upsets>>

\* One round of generate_persisted: every unread event, in order.
ReadEvents(c) ==
  /\ stream[c] = "on"
  /\ got' = [got EXCEPT ![c] = @ (+) SetToBag(Unread(c))]
  /\ stream' = [stream EXCEPT ![c] = "read"]
  /\ UNCHANGED <<dbVars, seq, tx, wk, drops, upsets>>

\* Faulty variant: only a successful run ends its stream.
ReadPhaseUntilDone(c) ==
  /\ stream[c] = "read"
  /\ stream' = [stream EXCEPT ![c] = IF phase = "done" THEN "ended" ELSE "on"]
  /\ UNCHANGED <<dbVars, seq, tx, wk, got, drops, upsets>>

\* Then the phase: a finished run ends the stream, and the dashboard closes it.
ReadPhase(c) ==
  /\ stream[c] = "read"
  /\ stream' = [stream EXCEPT ![c] = IF phase \in EndPhases THEN "ended" ELSE "on"]
  /\ UNCHANGED <<dbVars, seq, tx, wk, got, drops, upsets>>

\* Faulty variant: list_events does not order the rows.
LoseConnectionUnordered(c) ==
  /\ stream[c] \in {"on", "read"}
  /\ drops < MaxDrops
  /\ drops' = drops + 1
  /\ stream' = [stream EXCEPT ![c] = "off"]
  /\ \E R \in SUBSET {n \in Unread(c) : stream[c] = "on"} :
       got' = [got EXCEPT ![c] = @ (+) SetToBag(R)]
  /\ UNCHANGED <<dbVars, seq, tx, wk, upsets>>

\* The connection or the database fails, perhaps within a round of events.
LoseConnection(c) ==
  /\ stream[c] \in {"on", "read"}
  /\ drops < MaxDrops
  /\ drops' = drops + 1
  /\ stream' = [stream EXCEPT ![c] = "off"]
  /\ \E n \in Unread(c) \cup {0} :
       got' = [got EXCEPT ![c] =
                 @ (+) SetToBag({m \in Unread(c) : stream[c] = "on" /\ m <= n})]
  /\ UNCHANGED <<dbVars, seq, tx, wk, upsets>>

-------------------------------------------------------------------------------
WorkerStep(w) ==
  \/ \E kind \in {"execute_run", "resume_run"} : Claim(w, kind)
  \/ PersistProgress(w) \/ SaveRun(w) \/ OpenGate(w) \/ AppendRunEnd(w)
  \/ Complete(w) \/ LoseLease(w)

ReaderStep(c) == OpenStream(c) \/ ReadEvents(c) \/ ReadPhase(c)

LogNext ==
  \/ EnqueueRun \/ ResolveGate \/ CancelPending \/ PredictionUpdated
  \/ \E x \in Writers : Commit(x) \/ Abort(x)
  \/ \E w \in Workers : WorkerStep(w) \/ RenewLease(w) \/ Fail(w) \/ Crash(w)
  \/ \E c \in Clients : ReaderStep(c) \/ LoseConnection(c)

LogSpec == LogInit /\ [][LogNext]_logVars

\* The worker loop and the stream's polling loop run forever, EventSource connects
\* again by itself, and a transaction that nothing aborts commits.
LogFairness ==
  /\ WF_logVars(\E x \in Writers : Commit(x))
  /\ \A w \in Workers : WF_logVars(WorkerStep(w))
  /\ \A c \in Clients : WF_logVars(ReaderStep(c))

LiveLogSpec == LogSpec /\ LogFairness

-------------------------------------------------------------------------------
(* Properties                                                              *)

\* Every variable keeps its type, and a dashboard holds only committed events
\* (run_events, generate_persisted).
LogTypeOK ==
  /\ rows \subseteq Nat
  /\ seq \in Nat
  /\ tx = [x \in Writers |-> tx[x]]
  /\ \A x \in Writers : tx[x] # None => tx[x].rows \subseteq Nat
  /\ got = [c \in Clients |-> got[c]]
  /\ \A c \in Clients : DOMAIN got[c] \subseteq rows /\ got[c] \in [DOMAIN got[c] -> Nat]

Feed == INSTANCE EventFeed WITH published <- rows, told <- got, Ids <- Nat

\* The durable stream implements the event feed: a committed event stays, and however
\* often a dashboard reconnects it is told events in order and none of them twice
\* (list_events by sequence, Last-Event-ID; generate_persisted).
FeedSpec == Feed!Spec

\* An event a dashboard has been carried past was committed after one with a higher
\* number.  Nothing else makes the stream skip an event: not a lost connection, not
\* a dead worker, not a rolled back transaction (append_event, list_events).
MissedWasHidden ==
  \A c \in Clients : \A n \in rows \ DOMAIN got[c] : (\E m \in DOMAIN got[c] : n < m) => n \in hidden

\* A run that is queued or answered comes to a review or to an end, through deaths,
\* failed attempts and the row locks of everyone who appends events, unless its jobs
\* were cancelled under a worker: that worker may still save the run as running, and
\* drop the attempt before it opens the gate (worker.py).
RunSettles == (phase = "running") ~> (phase \in {"review"} \cup EndPhases \/ cancels > 0)

\* Until the stream announces its end a dashboard catches up with every event that
\* was not hidden from it, and a run that stays finished ends its stream
\* (generate_persisted).
StreamCatchesUp ==
  \A c \in Clients :
    /\ []<>(stream[c] = "ended" \/ rows \ DOMAIN got[c] \subseteq hidden)
    /\ (phase \in EndPhases) ~> (stream[c] = "ended" \/ phase \notin EndPhases)

===============================================================================
