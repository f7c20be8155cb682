------------------------------- MODULE LocalRun -------------------------------
(***************************************************************************)
(* A run without a database: _execute_run in the web process               *)
(* (web/run_executor.py), its entry in the registry (runs_registry.py),    *)
(* the SSE endpoint over bounded queues (web/routes_runs.py), and what the *)
(* dashboard makes of the stream and of /api/state (useRunStream.ts).      *)
(*                                                                         *)
(* Everything on the server runs in one event loop: what happens between   *)
(* two awaits that suspend is one step.  Event n of the buffer has the id  *)
(* local-n; 0 in a queue is the sentinel that closes the stream.  An event *)
(* is what the dashboard tells apart: "resume" stands for node_start and   *)
(* item_update, which close a review on the screen, "plain" for progress,  *)
(* node_end and tokens.                                                    *)
(***************************************************************************)
EXTENDS Naturals, Sequences, FiniteSets, Bags

CONSTANTS
  Screens,    \* open dashboards
  QueueMax,   \* maxsize of a stream's queue (500)
  MaxSteps,   \* bound: what the graph reports between two stops
  MaxAsks,    \* bound: reviews
  MaxLosses   \* bound: connections lost

ASSUME LocalAssumption ==
  QueueMax \in Nat \ {0} /\ MaxSteps \in Nat \ {0} /\ MaxAsks \in Nat /\ MaxLosses \in Nat

VARIABLES
  exec,     \* _execute_run: where it is, reports of this leg, reviews so far
  review,   \* the review future: "none", "open" or "set"
  failed,   \* state["error"] is set
  buffer,   \* state["buffer"]
  queues,   \* state["queues"]: the streams registered, in order
  pipe,     \* the queue behind each dashboard's stream
  link,     \* the EventSource: "off", "on", "ended" or "refused"
  heard,    \* how often each dashboard has received each id (a bag)
  full,     \* history: an event or the sentinel did not get into the dashboard's queue
  detail,   \* the answer of /api/state that is still on its way
  screen,   \* the phase each dashboard shows
  losses

serverVars == <<exec, review, failed, buffer>>
streamVars == <<queues, pipe, full>>
browserVars == <<link, heard, detail, screen, losses>>
localVars == <<serverVars, streamVars, browserVars>>

LocalInit ==
  /\ exec = [pc |-> "queued", n |-> 0, asks |-> 0]
  /\ review = "none"
  /\ failed = FALSE
  /\ buffer = << >>
  /\ queues = << >>
  /\ pipe = [c \in Screens |-> << >>]
  /\ link = [c \in Screens |-> "off"]
  /\ heard = [c \in Screens |-> EmptyBag]
  /\ full = [c \in Screens |-> FALSE]
  /\ detail = [c \in Screens |-> "unasked"]
  /\ screen = [c \in Screens |-> "idle"]
  /\ losses = 0

Done == exec.pc \in {"done", "error"}

\* _runtime_phase
RuntimePhase ==
  CASE failed -> "error"
    [] ~failed /\ review = "open" -> "review"
    [] ~failed /\ review # "open" /\ Done -> "done"
    [] OTHER -> "running"

-------------------------------------------------------------------------------
(* Streams                                                                 *)

Registered == {queues[k] : k \in DOMAIN queues}

Room(q) == QueueMax - Len(q)

\* The ids n .. m, as many as fit.
Put(q, n, m) ==
  q \o [k \in 1..(IF m < n THEN 0 ELSE IF m - n + 1 < Room(q) THEN m - n + 1 ELSE Room(q))
         |-> n + k - 1]

\* _emit_sync, once per event: each goes to the buffer and to every registered queue
\* that has room.
Emit(events) ==
  LET n == Len(buffer) + 1
      m == Len(buffer) + Len(events)
  IN /\ buffer' = buffer \o events
     /\ pipe' = [c \in Screens |-> IF c \in Registered THEN Put(pipe[c], n, m) ELSE pipe[c]]
     /\ full' = [c \in Screens |->
                   full[c] \/ (c \in Registered /\ Room(pipe[c]) < Len(events))]
     /\ UNCHANGED queues

\* The queues that receive the sentinel: put_nowait raises at the first full one, and
\* the streams registered after it are never told.
Closing(pipes) ==
  {queues[k] : k \in {j \in DOMAIN queues : \A h \in 1..j : Len(pipes[queues[h]]) < QueueMax}}

\* Faulty variant: the streams are closed before the last event is emitted.
EmitLastClosed(event) ==
  /\ buffer' = Append(buffer, event)
  /\ pipe' = [c \in Screens |-> IF c \in Closing(pipe) THEN Append(pipe[c], 0) ELSE pipe[c]]
  /\ full' = [c \in Screens |-> full[c] \/ (c \in Registered /\ c \notin Closing(pipe))]
  /\ UNCHANGED queues

\* The last event, then `finally`: done and the sentinels.
EmitLast(event) ==
  LET n == Len(buffer) + 1
      last == [c \in Screens |-> IF c \in Registered THEN Put(pipe[c], n, n) ELSE pipe[c]]
  IN /\ buffer' = Append(buffer, event)
     /\ pipe' = [c \in Screens |->
                   IF c \in Closing(last) THEN Append(last[c], 0) ELSE last[c]]
     /\ full' = [c \in Screens |->
                   full[c] \/ (c \in Registered /\ (Room(pipe[c]) = 0 \/ c \notin Closing(last)))]
     /\ UNCHANGED queues

-------------------------------------------------------------------------------
(* _execute_run                                                            *)

BeginRun ==
  /\ exec.pc = "queued"
  /\ exec' = [exec EXCEPT !.pc = "graph"]
  /\ Emit(<<"run_start">>)
  /\ UNCHANGED <<review, failed, browserVars>>

\* An event of astream_events.  A leg of the graph opens with the start of a node.
GraphStep ==
  /\ exec.pc = "graph" /\ exec.n < MaxSteps
  /\ exec' = [exec EXCEPT !.n = @ + 1]
  /\ \E events \in {<<"plain">>, <<"plain", "resume">>} :
       (exec.n = 0 => events = <<"plain", "resume">>) /\ Emit(events)
  /\ UNCHANGED <<review, failed, browserVars>>

\* The graph stopped at the review: the event, then the future.
AskReview ==
  /\ exec.pc = "graph" /\ exec.n > 0 /\ exec.asks < MaxAsks
  /\ exec' = [exec EXCEPT !.pc = "asked", !.asks = @ + 1]
  /\ review' = "open"
  /\ Emit(<<"awaiting_review">>)
  /\ UNCHANGED <<failed, browserVars>>

\* review_run_v2 and reroll_creator_voice; a second answer is refused.
AnswerReview ==
  /\ review = "open"
  /\ review' = "set"
  /\ UNCHANGED <<exec, failed, buffer, streamVars, browserVars>>

\* The executor wakes up, records the approved creators and resumes the graph.
ResumeGraph ==
  /\ exec.pc = "asked" /\ review = "set"
  /\ exec' = [exec EXCEPT !.pc = "graph", !.n = 0]
  /\ UNCHANGED <<review, failed, buffer, streamVars, browserVars>>

EndRun ==
  /\ exec.pc = "graph" /\ exec.n > 0
  /\ exec' = [exec EXCEPT !.pc = "done"]
  /\ EmitLast("run_end")
  /\ UNCHANGED <<review, failed, browserVars>>

\* An exception of the setup, the graph or the creator repository.
FailLocalRun ==
  /\ exec.pc \in {"queued", "graph"} \/ (exec.pc = "asked" /\ review = "set")
  /\ exec' = [exec EXCEPT !.pc = "error"]
  /\ failed' = TRUE
  /\ EmitLast("error")
  /\ UNCHANGED <<review, browserVars>>

-------------------------------------------------------------------------------
(* GET /api/stream/{run_id} and the browser                                *)

\* Faulty variant: the cursor counts the events received.
ReplayByCount(c) ==
  [k \in 1..(Len(buffer) - Cardinality(DOMAIN heard[c])) |-> Cardinality(DOMAIN heard[c]) + k]

\* The events after Last-Event-ID.
Replay(c) ==
  LET last == IF DOMAIN heard[c] = {} THEN 0
             ELSE CHOOSE n \in DOMAIN heard[c] : \A m \in DOMAIN heard[c] : m <= n
  IN [k \in 1..(Len(buffer) - last) |-> last + k]

\* The EventSource connects, or reconnects by itself.  A replay that does not fit is an
\* exception of the handler: the browser gives up on a response that is not 200.
Connect(c) ==
  LET q == Replay(c) \o (IF Done THEN <<0>> ELSE << >>) IN
  /\ link[c] = "off"
  /\ IF Len(q) > QueueMax
     THEN /\ link' = [link EXCEPT ![c] = "refused"]
          /\ UNCHANGED <<queues, pipe>>
     ELSE /\ link' = [link EXCEPT ![c] = "on"]
          /\ pipe' = [pipe EXCEPT ![c] = q]
          /\ queues' = IF Done THEN queues ELSE Append(queues, c)
  /\ UNCHANGED <<serverVars, full, heard, detail, screen, losses>>

\* reduceRunStreamEvent
Reduce(phase, event) ==
  CASE event = "run_start" -> "running"
    [] event = "awaiting_review" -> "review"
    [] event = "run_end" -> "done"
    [] event = "error" -> "error"
    [] event = "resume" -> IF phase = "review" THEN "running" ELSE phase
    [] event = "plain" -> phase

\* qs.remove(q), if the queue is registered.
Unregister(c) ==
  IF c \notin Registered THEN queues
  ELSE LET here == CHOOSE k \in DOMAIN queues : queues[k] = c
       IN [k \in 1..(Len(queues) - 1) |-> queues[IF k < here THEN k ELSE k + 1]]

\* The generator takes from the queue and the browser reduces what it yields; the
\* sentinel becomes stream_end, which closes the EventSource.
Receive(c) ==
  LET n == Head(pipe[c]) IN
  /\ link[c] = "on" /\ pipe[c] # << >>
  /\ pipe' = [pipe EXCEPT ![c] = Tail(@)]
  /\ IF n = 0
     THEN /\ link' = [link EXCEPT ![c] = "ended"]
          /\ queues' = Unregister(c)
          /\ UNCHANGED <<heard, screen>>
     ELSE /\ heard' = [heard EXCEPT ![c] = @ (+) SetToBag({n})]
          /\ screen' = [screen EXCEPT ![c] = Reduce(@, buffer[n])]
          /\ UNCHANGED <<link, queues>>
  /\ UNCHANGED <<serverVars, full, detail, losses>>

\* The connection is lost, with what was queued for it.
LoseLink(c) ==
  /\ link[c] = "on"
  /\ losses < MaxLosses
  /\ losses' = losses + 1
  /\ link' = [link EXCEPT ![c] = "off"]
  /\ pipe' = [pipe EXCEPT ![c] = << >>]
  /\ queues' = Unregister(c)
  /\ UNCHANGED <<serverVars, full, heard, detail, screen>>

\* GET /api/state, whose answer the browser may use at any later time.
FetchState(c) ==
  /\ detail[c] = "unasked"
  /\ detail' = [detail EXCEPT ![c] = RuntimePhase]
  /\ UNCHANGED <<serverVars, streamVars, link, heard, screen, losses>>

\* Faulty variant: the answer of /api/state is believed whatever the stream has said.
HydratedAlways(phase, d) == d

\* hydrate
Hydrated(phase, d) ==
  IF phase = "idle" \/ (phase = "running" /\ d # "idle") THEN d ELSE phase

Hydrate(c) ==
  /\ detail[c] \notin {"unasked", "used"}
  /\ screen' = [screen EXCEPT ![c] = Hydrated(@, detail[c])]
  /\ detail' = [detail EXCEPT ![c] = "used"]
  /\ UNCHANGED <<serverVars, streamVars, link, heard, losses>>

LocalNext ==
  \/ BeginRun \/ GraphStep \/ AskReview \/ AnswerReview \/ ResumeGraph \/ EndRun
  \/ FailLocalRun
  \/ \E c \in Screens :
       Connect(c) \/ Receive(c) \/ LoseLink(c) \/ FetchState(c) \/ Hydrate(c)

LocalSpec == LocalInit /\ [][LocalNext]_localVars

-------------------------------------------------------------------------------

LocalFeed == INSTANCE EventFeed
  WITH Clients <- Screens, Ids <- Nat \ {0}, published <- 1..Len(buffer), told <- heard

\* Every event of the buffer reaches a dashboard at most once and in order, however often
\* it reconnects and whatever its queue refused: the in-memory stream implements
\* EventFeed as the durable one does.
LocalFeedSpec == LocalFeed!Spec

\* A dashboard that was told the stream has ended has received every event of the run,
\* unless one did not fit in its queue: the sentinel is behind everything the executor
\* emitted, also for a stream that connected late or was lost and came back.
MissedWasFull ==
  \A c \in Screens : link[c] = "ended" /\ ~full[c] => DOMAIN heard[c] = 1..Len(buffer)

\* A dashboard whose stream has ended shows how the run ended, whatever answer of
\* /api/state arrives afterwards: a stale phase never covers the outcome.
DashboardShowsOutcome ==
  \A c \in Screens : link[c] = "ended" /\ ~full[c] => screen[c] = exec.pc

-------------------------------------------------------------------------------
(* Why they hold.                                                          *)

Phases == {"idle", "running", "review", "done", "error"}
Events == {"run_start", "plain", "resume", "awaiting_review", "run_end", "error"}

\* Every variable keeps its type.
LocalTypeOK ==
  /\ exec \in [pc : {"queued", "graph", "asked", "done", "error"}, n : Nat, asks : Nat]
  /\ buffer \in Seq(Events)
  /\ queues \in Seq(Screens)
  /\ pipe \in [Screens -> Seq(Nat)]
  /\ link \in [Screens -> {"off", "on", "ended", "refused"}]
  /\ heard = [c \in Screens |-> heard[c]]
  /\ \A c \in Screens : DOMAIN heard[c] \subseteq Nat /\ heard[c] \in [DOMAIN heard[c] -> Nat]
  /\ full \in [Screens -> BOOLEAN]
  /\ detail \in [Screens -> Phases \cup {"unasked", "used"}]
  /\ screen \in [Screens -> Phases]

\* While the run goes on, the registered queues are those of the open connections, each
\* once; a connection that is not open has nothing queued, and only a finished run ends one.
StreamsAreOpen ==
  /\ \A j, k \in DOMAIN queues : queues[j] = queues[k] => j = k
  /\ \A c \in Registered : link[c] = "on"
  /\ \A c \in Screens :
       /\ link[c] = "on" => c \in Registered \/ Done
       /\ link[c] # "on" => pipe[c] = << >>
       /\ link[c] = "ended" => Done

\* A queue holds events in order, above all the dashboard has received, and the sentinel
\* of a finished run at its end.
PipeIsAhead(c) ==
  /\ Len(pipe[c]) <= QueueMax
  /\ \A k \in DOMAIN pipe[c] :
       IF pipe[c][k] = 0 THEN Done /\ k = Len(pipe[c])
       ELSE /\ pipe[c][k] <= Len(buffer)
            /\ \A n \in DOMAIN heard[c] : n < pipe[c][k]
            /\ \A j \in 1..(k - 1) : pipe[c][j] < pipe[c][k]

\* What a dashboard received is in the buffer and has a last event, and, unless one did
\* not fit, misses nothing below it that is not in the queue; nothing at all while the
\* connection is open.
HeardIsWhole(c) ==
  /\ DOMAIN heard[c] \subseteq 1..Len(buffer)
  /\ DOMAIN heard[c] = {} \/ \E last \in DOMAIN heard[c] : \A n \in DOMAIN heard[c] : n <= last
  /\ ~full[c] =>
       IF link[c] \in {"on", "ended"}
       THEN \A n \in 1..Len(buffer) : n \in DOMAIN heard[c] \/ \E k \in DOMAIN pipe[c] : pipe[c][k] = n
       ELSE \A n \in DOMAIN heard[c] : 1..n \subseteq DOMAIN heard[c]

\* The last event of a finished run says how it ended, and a dashboard that received it
\* shows that.
OutcomeIsLast ==
  Done => LET n == Len(buffer) IN
    /\ n > 0
    /\ buffer[n] = IF exec.pc = "done" THEN "run_end" ELSE "error"
    /\ \A c \in Screens : n \in DOMAIN heard[c] => screen[c] = exec.pc

LocalInv ==
  /\ StreamsAreOpen
  /\ \A c \in Screens : PipeIsAhead(c) /\ HeardIsWhole(c)
  /\ OutcomeIsLast

===============================================================================
