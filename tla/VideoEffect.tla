------------------------------ MODULE VideoEffect ------------------------------
(***************************************************************************)
(* _durable_prediction_lifecycle (tools/video.py) and the Replicate        *)
(* webhook (replicate_webhook.apply_replicate_event): a video prediction   *)
(* is submitted once, bound to its effect by the worker or by the webhook, *)
(* polled until it ends or the deadline passes, and recorded.  Worker      *)
(* calls for the same key overlap after lost leases and retries; webhooks  *)
(* arrive late, twice, out of order or never; a process may die between    *)
(* any two transactions.                                                   *)
(***************************************************************************)
EXTENDS EffectLedger

CONSTANTS
  Procs,     \* concurrent calls of the lifecycle
  Hooks,     \* concurrent webhook requests
  MaxCalls,  \* bound: calls made, replays included
  MaxHooks   \* bound: webhook deliveries, duplicates included

ASSUME VideoAssumption ==
  /\ MaxCalls \in Nat /\ MaxHooks \in Nat
  /\ None \notin Keys \cup PredictionStatus

VARIABLES
  pc, key, pid, seen, result,  \* the calls: prediction id and last status read
  hpc, hkey, hpid, hst,        \* the webhook requests and their event
  calls, hooks,                \* how many there were
  sends,                       \* submissions per key
  prov, predKey                \* the provider's predictions (external)

callVars == <<pc, key, pid, seen, result, calls>>
hookVars == <<hpc, hkey, hpid, hst, hooks>>
provVars == <<sends, prov, predKey>>
videoVars == <<ledgerVars, callVars, hookVars, provVars>>

VideoInit ==
  /\ LedgerInit
  /\ pc = [p \in Procs |-> "idle"]
  /\ key = [p \in Procs |-> None]
  /\ pid = [p \in Procs |-> None]
  /\ seen = [p \in Procs |-> None]
  /\ result = [p \in Procs |-> None]
  /\ hpc = [h \in Hooks |-> "idle"]
  /\ hkey = [h \in Hooks |-> None]
  /\ hpid = [h \in Hooks |-> None]
  /\ hst = [h \in Hooks |-> None]
  /\ calls = 0 /\ hooks = 0
  /\ sends = [k \in Keys |-> 0]
  /\ prov = [o \in PredIds |-> "none"]
  /\ predKey = [o \in PredIds |-> None]

-----------------------------------------------------------------------------
(* The provider (external).                                                *)

\* Some unused id becomes a prediction for key k.
CreatePrediction(k, o) ==
  /\ prov[o] = "none"
  /\ prov' = [prov EXCEPT ![o] = "starting"]
  /\ predKey' = [predKey EXCEPT ![o] = k]

Advance(o) ==
  /\ \/ prov[o] = "starting" /\ prov' = [prov EXCEPT ![o] = "processing"]
     \/ prov[o] = "processing"
        /\ \E s \in {"succeeded", "failed"} : prov' = [prov EXCEPT ![o] = s]
  /\ UNCHANGED <<ledgerVars, callVars, hookVars, sends, predKey>>

-----------------------------------------------------------------------------
(* The worker's call.                                                      *)

Goto(p, next) ==
  /\ pc' = [pc EXCEPT ![p] = next]
  /\ UNCHANGED <<key, pid, result, calls>>

\* The artifact is returned ("returned"), the item fails ("VideoEffectError"), or
\* another exception leaves the item's node.
End(p, r) ==
  /\ pc' = [pc EXCEPT ![p] = "idle"]
  /\ key' = [key EXCEPT ![p] = None]
  /\ pid' = [pid EXCEPT ![p] = None]
  /\ seen' = [seen EXCEPT ![p] = None]
  /\ result' = [result EXCEPT ![p] = r]
  /\ UNCHANGED calls

\* The call learns the effect's operation id and waits for one if there is none.
Resume(p, k) ==
  /\ pid' = [pid EXCEPT ![p] = op[k]]
  /\ pc' = [pc EXCEPT ![p] = IF op[k] = None THEN "wait" ELSE "poll"]

\* Faulty variant: whoever finds the effect reserved submits it.
MaySubmitReserved(out) == out \in {"created", "reserved"}

\* Only the call that created the reservation submits.
MaySubmit(out) == out = "created"

\* ledger.reserve
Start(p, k) ==
  /\ pc[p] = "idle" /\ calls < MaxCalls
  /\ calls' = calls + 1
  /\ \E out \in Outcomes :
       /\ Reserve(k, out)
       /\ \/ /\ out \in {"succeeded", "QuotaExceededError"}
             /\ result' = [result EXCEPT ![p] = IF out = "succeeded" THEN "returned" ELSE out]
             /\ UNCHANGED <<pc, key, pid>>
          \/ /\ out \notin {"succeeded", "QuotaExceededError"}
             /\ key' = [key EXCEPT ![p] = k]
             /\ result' = [result EXCEPT ![p] = None]
             /\ IF MaySubmit(out) \/ out = "UncertainEffectError"
                THEN /\ pc' = [pc EXCEPT ![p] = IF MaySubmit(out) THEN "submit" ELSE "get"]
                     /\ UNCHANGED pid
                ELSE Resume(p, k)
  /\ UNCHANGED <<seen, hookVars, provVars>>

\* ledger.get after UncertainEffectError: another transaction, other values.
Get(p) ==
  /\ pc[p] = "get"
  /\ IF est[key[p]] = "succeeded"
     THEN End(p, "returned")
     ELSE Resume(p, key[p]) /\ UNCHANGED <<key, seen, result, calls>>
  /\ UNCHANGED <<ledgerVars, hookVars, provVars>>

\* submit_fn: accepted, refused before anything was created (connection errors and
\* 4xx), or unclear (5xx and the ambiguous transport errors); _webhook_url may raise
\* before anything is sent.
Submit(p) ==
  /\ pc[p] = "submit"
  /\ \/ /\ sends' = [sends EXCEPT ![key[p]] = @ + 1]
        /\ \E o \in PredIds :
             /\ CreatePrediction(key[p], o)
             /\ \/ /\ pid' = [pid EXCEPT ![p] = o]
                   /\ pc' = [pc EXCEPT ![p] = "bind"]
                   /\ UNCHANGED <<key, result, calls>>
                \/ Goto(p, "unclear")
        /\ UNCHANGED seen
     \/ /\ sends' = [sends EXCEPT ![key[p]] = @ + 1]
        /\ Goto(p, "refused") \/ Goto(p, "unclear")
        /\ UNCHANGED <<seen, prov, predKey>>
     \/ End(p, "RuntimeError") /\ UNCHANGED provVars
  /\ UNCHANGED <<ledgerVars, hookVars>>

Refused(p) ==
  /\ pc[p] = "refused"
  /\ \E out \in Outcomes :
       /\ MarkFailed(key[p], TRUE, out)
       /\ End(p, IF out = "ok" THEN "VideoEffectError" ELSE out)
  /\ UNCHANGED <<hookVars, provVars>>

\* Faulty variant: an unclear submission gives the quota back.
UnclearReleases(p) ==
  /\ pc[p] = "unclear"
  /\ \E out \in Outcomes : MarkFailed(key[p], TRUE, out) /\ End(p, out)
  /\ UNCHANGED <<hookVars, provVars>>

Unclear(p) ==
  /\ pc[p] = "unclear"
  /\ MarkUncertain(key[p])
  /\ Goto(p, "wait")
  /\ UNCHANGED <<seen, hookVars, provVars>>

\* bind_provider_operation with the status the submission returned.
BindOwn(p) ==
  /\ pc[p] = "bind"
  /\ \E out \in Outcomes :
       /\ Bind(key[p], pid[p], "starting", out)
       /\ IF out = "ok" THEN Goto(p, "poll") /\ UNCHANGED seen ELSE End(p, out)
  /\ UNCHANGED <<hookVars, provVars>>

\* Faulty variant: no deadline.
WaitForever(p) ==
  /\ pc[p] = "wait" /\ op[key[p]] # None
  /\ Resume(p, key[p])
  /\ UNCHANGED <<key, seen, result, calls, ledgerVars, hookVars, provVars>>

\* wait_for_provider_operation: the webhook bound an id in time, or it did not.
Wait(p) ==
  /\ pc[p] = "wait"
  /\ IF op[key[p]] = None
     THEN End(p, "VideoEffectError")
     ELSE Resume(p, key[p]) /\ UNCHANGED <<key, seen, result, calls>>
  /\ UNCHANGED <<ledgerVars, hookVars, provVars>>

\* One query of the prediction: a status, or an error after the adapter's retries.
Poll(p) ==
  /\ pc[p] = "poll"
  /\ \/ seen' = [seen EXCEPT ![p] = prov[pid[p]]] /\ Goto(p, "polled")
     \/ Goto(p, "lost") /\ UNCHANGED seen
  /\ UNCHANGED <<ledgerVars, hookVars, provVars>>

\* A poll that failed, or a deadline without a terminal answer: mark_uncertain.
Lost(p) ==
  /\ pc[p] = "lost"
  /\ MarkUncertain(key[p])
  /\ End(p, "VideoEffectError")
  /\ UNCHANGED <<hookVars, provVars>>

\* Faulty variant: every terminal status is taken for a success.
AfterTerminal(s, q) == IF s \in TerminalPrediction THEN "artifact" ELSE q

\* Where a status leads: recorded failure, artifact, or back to q.
After(s, q) ==
  CASE s \in {"failed", "canceled"} -> "provider_failed"
    [] s = "succeeded" -> "artifact"
    [] OTHER -> q

\* update_provider_status with what the poll returned.
Polled(p) ==
  /\ pc[p] = "polled"
  /\ UpdateStatus(key[p], seen[p])
  /\ Goto(p, After(seen[p], "poll"))
  /\ UNCHANGED <<seen, hookVars, provVars>>

\* The deadline: the prediction is cancelled, found ended, still running, or the
\* provider does not answer.
Expire(p) ==
  /\ pc[p] = "poll"
  /\ \/ /\ prov[pid[p]] \notin TerminalPrediction
        /\ prov' = [prov EXCEPT ![pid[p]] = "canceled"]
        /\ seen' = [seen EXCEPT ![p] = "canceled"]
        /\ Goto(p, "canceled")
     \/ /\ seen' = [seen EXCEPT ![p] = prov[pid[p]]]
        /\ Goto(p, "canceled")
        /\ UNCHANGED prov
     \/ Goto(p, "lost") /\ UNCHANGED <<seen, prov>>
  /\ UNCHANGED <<ledgerVars, hookVars, sends, predKey>>

Canceled(p) ==
  /\ pc[p] = "canceled"
  /\ UpdateStatus(key[p], seen[p])
  /\ Goto(p, After(seen[p], "lost"))
  /\ UNCHANGED <<seen, hookVars, provVars>>

\* mark_failed without release: the prediction existed.
ProviderFailed(p) ==
  /\ pc[p] = "provider_failed"
  /\ \E out \in Outcomes :
       /\ MarkFailed(key[p], FALSE, out)
       /\ End(p, IF out = "ok" THEN "VideoEffectError" ELSE out)
  /\ UNCHANGED <<hookVars, provVars>>

\* artifact_fn and persist_fn: an invalid output is a failure, a storage error
\* leaves the call.
MakeArtifact(p) ==
  /\ pc[p] = "artifact"
  /\ \/ (Goto(p, "store") \/ Goto(p, "provider_failed")) /\ UNCHANGED seen
     \/ End(p, "StorageError")
  /\ UNCHANGED <<ledgerVars, hookVars, provVars>>

Store(p) ==
  /\ pc[p] = "store"
  /\ \E out \in Outcomes :
       /\ MarkSucceeded(key[p], out)
       /\ End(p, IF out = "ok" THEN "returned" ELSE out)
  /\ UNCHANGED <<hookVars, provVars>>

\* The worker dies, or its task is cancelled.
Die(p) ==
  /\ pc[p] # "idle"
  /\ End(p, "died")
  /\ UNCHANGED <<ledgerVars, hookVars, provVars>>

-----------------------------------------------------------------------------
(* The webhook: get, bind or update, and perhaps mark_failed, as separate  *)
(* transactions.                                                           *)

HookEnd(h) ==
  /\ hpc' = [hpc EXCEPT ![h] = "idle"]
  /\ hkey' = [hkey EXCEPT ![h] = None]
  /\ hpid' = [hpid EXCEPT ![h] = None]
  /\ hst' = [hst EXCEPT ![h] = None]
  /\ UNCHANGED hooks

\* A start or completed event of prediction o is delivered (again); ledger.get.
\* An event whose prediction is not the bound one is refused.
HookGet(h, o, s) ==
  LET k == predKey[o] IN
  /\ hpc[h] = "idle" /\ hooks < MaxHooks
  /\ prov[o] # "none"
  /\ s = "starting" \/ (s = prov[o] /\ s \in TerminalPrediction)
  /\ op[k] \in {None, o}
  /\ hooks' = hooks + 1
  /\ hpc' = [hpc EXCEPT ![h] = IF op[k] = None THEN "bind" ELSE "update"]
  /\ hkey' = [hkey EXCEPT ![h] = k]
  /\ hpid' = [hpid EXCEPT ![h] = o]
  /\ hst' = [hst EXCEPT ![h] = s]
  /\ UNCHANGED <<ledgerVars, callVars, provVars>>

\* The row as the transaction left it decides whether mark_failed follows.
HookNext(h) ==
  IF pst'[hkey[h]] \in {"failed", "canceled"} /\ est'[hkey[h]] # "failed"
  THEN hpc' = [hpc EXCEPT ![h] = "fail"] /\ UNCHANGED <<hkey, hpid, hst, hooks>>
  ELSE HookEnd(h)

HookApply(h) ==
  /\ \/ /\ hpc[h] = "bind"
        /\ \E out \in Outcomes :
             /\ Bind(hkey[h], hpid[h], hst[h], out)
             /\ IF out = "ok" THEN HookNext(h) ELSE HookEnd(h)
     \/ /\ hpc[h] = "update"
        /\ UpdateStatus(hkey[h], hst[h])
        /\ HookNext(h)
  /\ UNCHANGED <<callVars, provVars>>

\* mark_failed; its UncertainEffectError ends the request with a 500.
HookFail(h) ==
  /\ hpc[h] = "fail"
  /\ \E out \in Outcomes : MarkFailed(hkey[h], FALSE, out)
  /\ HookEnd(h)
  /\ UNCHANGED <<callVars, provVars>>

-----------------------------------------------------------------------------
CallStep(p) ==
  \/ Get(p) \/ Submit(p) \/ Refused(p) \/ Unclear(p) \/ BindOwn(p) \/ Wait(p) \/ Poll(p)
  \/ Lost(p) \/ Polled(p) \/ Canceled(p) \/ ProviderFailed(p) \/ MakeArtifact(p) \/ Store(p)

VideoNext ==
  \/ \E n \in Limits : SetQuota(n) /\ UNCHANGED <<callVars, hookVars, provVars>>
  \/ \E o \in PredIds : Advance(o)
  \/ \E p \in Procs, k \in Keys : Start(p, k)
  \/ \E p \in Procs : CallStep(p) \/ Expire(p) \/ Die(p)
  \/ \E h \in Hooks, o \in PredIds, s \in PredictionStatus : HookGet(h, o, s)
  \/ \E h \in Hooks : HookApply(h) \/ HookFail(h)

VideoSpec == VideoInit /\ [][VideoNext]_videoVars

\* A live call keeps running, and its deadline is a monotonic clock that the polling
\* loop tests on every round.  The provider and the webhooks owe nothing.
VideoFairness == \A p \in Procs : WF_videoVars(CallStep(p)) /\ SF_videoVars(Expire(p))

LiveVideoSpec == VideoSpec /\ VideoFairness

-----------------------------------------------------------------------------
\* A video is submitted to the provider at most once per effect, however the job is
\* replayed and however many workers run it.
SubmittedOnce == \A k \in Keys : sends[k] <= 1

\* The ledger never contradicts the provider: an effect is bound to its own
\* prediction, a terminal status is that prediction's, and a success is a success.
LedgerFollowsProvider ==
  \A k \in Keys :
    /\ op[k] # None => predKey[op[k]] = k
    /\ pst[k] \in TerminalPrediction => op[k] # None /\ prov[op[k]] = pst[k]
    /\ est[k] = "succeeded" => op[k] # None /\ prov[op[k]] = "succeeded"

\* Quota comes back only for an effect of which the provider has no prediction.
ReleasedWasNotSubmitted == \A k \in released : \A o \in PredIds : predKey[o] # k

\* DECISIONS.md D45: duplicated or reordered events do not regress the state, and a
\* terminal provider status does not change.
StatusNeverRegresses ==
  [][\A k \in Keys :
       /\ pst[k] \in TerminalPrediction => pst'[k] = pst[k]
       /\ pst[k] = "processing" => pst'[k] # "starting"]_videoVars

\* Every call ends by itself: lost webhooks and predictions that never finish do not
\* hold a worker for ever.
CallsEnd == \A p \in Procs : pc[p] # "idle" ~> pc[p] = "idle"

(* The inductive invariant behind these properties.                        *)

\* A call and a webhook request between two steps know their key, whose row exists.
KeysAreKnown ==
  /\ \A p \in Procs : pc[p] # "idle" => key[p] \in Keys /\ est[key[p]] # "none"
  /\ \A h \in Hooks : hpc[h] # "idle" => hkey[h] \in Keys /\ est[hkey[h]] # "none"

\* A submission belongs to the one call that created the reservation and is the first of
\* its key.
OneSubmitter ==
  /\ \A p \in Procs : pc[p] = "submit" => sends[key[p]] = 0
  /\ \A p, q \in Procs : pc[p] = "submit" /\ pc[q] = "submit" /\ key[p] = key[q] => p = q
  /\ \A k \in Keys : est[k] = "none" => sends[k] = 0

\* Predictions come from submissions; a refused one left none, and will not.
Unpredicted(k) == \A o \in PredIds : predKey[o] # k

PredictionsWereSent ==
  /\ \A o \in PredIds : prov[o] = "none" <=> predKey[o] = None
  /\ \A k \in Keys : sends[k] = 0 => Unpredicted(k)
  /\ \A p \in Procs : pc[p] = "refused" => sends[key[p]] = 1 /\ Unpredicted(key[p])
  /\ \A k \in released : sends[k] = 1 /\ Unpredicted(k)

\* Status s was reported for prediction o: if it is final, it still is the truth.
Reported(o, s) == s \in PredictionStatus /\ (s \in TerminalPrediction => prov[o] = s)

\* What a call or a webhook request knows of its prediction, from the moment it has one.
PredictionsAreKnown ==
  /\ \A p \in Procs :
       /\ pc[p] = "bind" => pid[p] \in PredIds /\ predKey[pid[p]] = key[p]
       /\ pc[p] \in {"poll", "polled", "canceled", "artifact", "store"} =>
            pid[p] \in PredIds /\ op[key[p]] = pid[p]
       /\ pc[p] \in {"polled", "canceled"} => Reported(pid[p], seen[p])
       /\ pc[p] \in {"artifact", "store"} => prov[pid[p]] = "succeeded"
  /\ \A h \in Hooks : hpc[h] # "idle" =>
       /\ hpid[h] \in PredIds /\ predKey[hpid[h]] = hkey[h]
       /\ Reported(hpid[h], hst[h])
       /\ hpc[h] = "update" => op[hkey[h]] = hpid[h]

VideoInv ==
  /\ KeysAreKnown /\ OneSubmitter /\ PredictionsWereSent /\ PredictionsAreKnown
  /\ SubmittedOnce /\ LedgerFollowsProvider

CallStates == {"idle", "get", "submit", "refused", "unclear", "bind", "wait", "poll", "polled",
               "canceled", "lost", "provider_failed", "artifact", "store"}

\* The calls, the webhook requests and the provider's side have their types.
VideoTypeOK ==
  /\ pc \in [Procs -> CallStates]
  /\ key \in [Procs -> Keys \cup {None}]
  /\ pid \in [Procs -> PredIds \cup {None}]
  /\ seen \in [Procs -> PredictionStatus \cup {None}]
  /\ hpc \in [Hooks -> {"idle", "bind", "update", "fail"}]
  /\ hkey \in [Hooks -> Keys \cup {None}]
  /\ hpid \in [Hooks -> PredIds \cup {None}]
  /\ hst \in [Hooks -> PredictionStatus \cup {None}]
  /\ sends \in [Keys -> Nat]
  /\ prov \in [PredIds -> PredictionStatus \cup {"none"}]
  /\ predKey \in [PredIds -> Keys \cup {None}]

===============================================================================
