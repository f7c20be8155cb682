------------------------------ MODULE PaidEffect ------------------------------
(***************************************************************************)
(* execute_paid_effect (tools/base.py): creator images, voice design and   *)
(* finalisation, voiceovers and upscales.  Each call is a process that     *)
(* reserves, runs the operation and records what came of it; calls for the *)
(* same key overlap when a lease expires under a live worker or a job is   *)
(* retried, and a process may die between any two steps.                   *)
(***************************************************************************)
EXTENDS EffectLedger

CONSTANTS
  Callers,       \* concurrent calls
  Reconcilable,  \* the keys whose caller passes a reconcile callback
  NameOf,        \* the name a key's effect has at the provider; keys may share one
  MaxPaid        \* bound: calls made, replays included

ASSUME PaidAssumption == Reconcilable \subseteq Keys /\ MaxPaid \in Nat

VARIABLES
  phase, ekey,  \* the calls: where each is, and its key
  ended,        \* how each process's last call ended
  made,         \* calls made so far
  started,      \* how often the operation of a key was started
  billed        \* the keys the provider executed and billed (external)

clientVars == <<phase, ekey, ended, made, started, billed>>
paidVars == <<ledgerVars, clientVars>>

PaidInit ==
  /\ LedgerInit
  /\ phase = [p \in Callers |-> "idle"]
  /\ ekey = [p \in Callers |-> None]
  /\ ended = [p \in Callers |-> None]
  /\ made = 0
  /\ started = [k \in Keys |-> 0]
  /\ billed = {}

-----------------------------------------------------------------------------
\* The call returns or raises; r says which.
Finish(p, r) ==
  /\ phase' = [phase EXCEPT ![p] = "idle"]
  /\ ekey' = [ekey EXCEPT ![p] = None]
  /\ ended' = [ended EXCEPT ![p] = r]

Proceed(p, next) ==
  /\ phase' = [phase EXCEPT ![p] = next]
  /\ UNCHANGED <<ekey, ended>>

\* Faulty variant: a reservation found in status reserved is run again.
AfterReserveRerun(k, out) ==
  CASE out \in {"created", "reserved"} -> "operate"
    [] out = "UncertainEffectError" /\ k \in Reconcilable -> "reconcile"
    [] out = "failed" -> "ambiguous"
    [] OTHER -> "end"

\* What the outcome of reserve leads to: only a reservation this call created runs
\* the operation.
AfterReserve(k, out) ==
  CASE out = "created" -> "operate"
    [] out = "UncertainEffectError" /\ k \in Reconcilable -> "reconcile"
    [] out \in {"reserved", "failed"} -> "ambiguous"
    [] OTHER -> "end"

\* A call starts with ledger.reserve; a succeeded effect returns its stored result.
Call(p, k) ==
  /\ phase[p] = "idle" /\ made < MaxPaid
  /\ made' = made + 1
  /\ \E out \in Outcomes :
       /\ Reserve(k, out)
       /\ IF AfterReserve(k, out) = "end"
          THEN /\ ended' = [ended EXCEPT ![p] = out]
               /\ UNCHANGED <<phase, ekey>>
          ELSE /\ phase' = [phase EXCEPT ![p] = AfterReserve(k, out)]
               /\ ekey' = [ekey EXCEPT ![p] = k]
               /\ ended' = [ended EXCEPT ![p] = None]
  /\ UNCHANGED <<started, billed>>

\* A replay without a completed result: mark_uncertain, then RuntimeError.
Ambiguous(p) ==
  /\ phase[p] = "ambiguous"
  /\ MarkUncertain(ekey[p])
  /\ Finish(p, "RuntimeError")
  /\ UNCHANGED <<made, started, billed>>

\* operation(): it returns, fails before anything could be billed
\* (_definitely_not_billed), or fails without saying whether it was.
Operate(p) ==
  /\ phase[p] = "operate"
  /\ started' = [started EXCEPT ![ekey[p]] = @ + 1]
  /\ \/ billed' = billed \cup {ekey[p]} /\ Proceed(p, "succeeded")
     \/ billed' = billed /\ Proceed(p, "not_billed")
     \/ billed' \in {billed, billed \cup {ekey[p]}} /\ Proceed(p, "unknown")
  /\ UNCHANGED <<ledgerVars, made>>

\* The result is recorded; the call raises when the row is no longer reserved.
RecordSuccess(p) ==
  /\ phase[p] = "succeeded"
  /\ \E out \in Outcomes : MarkSucceeded(ekey[p], out) /\ Finish(p, out)
  /\ UNCHANGED <<made, started, billed>>

RecordNotBilled(p) ==
  /\ phase[p] = "not_billed"
  /\ \E out \in Outcomes : MarkFailed(ekey[p], TRUE, out) /\ Finish(p, out)
  /\ UNCHANGED <<made, started, billed>>

\* Faulty variant: an unclear failure is recorded as not billed.
RecordUnknownAsFailed(p) ==
  /\ phase[p] = "unknown"
  /\ \E out \in Outcomes : MarkFailed(ekey[p], TRUE, out) /\ Finish(p, out)
  /\ UNCHANGED <<made, started, billed>>

RecordUnknown(p) ==
  /\ phase[p] = "unknown"
  /\ MarkUncertain(ekey[p])
  /\ Finish(p, "raised")
  /\ UNCHANGED <<made, started, billed>>

\* What the provider has under the name of k.  That of a voice is made of organization,
\* creator and description, so runs and candidates share it.
Namesakes(k) == {other \in billed : NameOf[other] = NameOf[k]}

\* Faulty variant: a name nobody has is taken for a match.
ReconcileUnmatched(p) ==
  /\ phase[p] = "reconcile"
  /\ Proceed(p, "reconciled") \/ Finish(p, "raised")
  /\ UNCHANGED <<ledgerVars, made, started, billed>>

\* reconcile() looks for the effect by its name; without a unique match, and when the
\* request itself fails, it raises.
Reconcile(p) ==
  /\ phase[p] = "reconcile"
  /\ \/ (\E match \in Keys : Namesakes(ekey[p]) = {match}) /\ Proceed(p, "reconciled")
     \/ Finish(p, "raised")
  /\ UNCHANGED <<ledgerVars, made, started, billed>>

RecordReconciled(p) ==
  /\ phase[p] = "reconciled"
  /\ \E out \in Outcomes : MarkReconciled(ekey[p], out) /\ Finish(p, out)
  /\ UNCHANGED <<made, started, billed>>

\* The process dies, or its task is cancelled, between two transactions.
CallDies(p) ==
  /\ phase[p] # "idle"
  /\ Finish(p, "died")
  /\ UNCHANGED <<ledgerVars, made, started, billed>>

PaidNext ==
  \/ \E n \in Limits : SetQuota(n) /\ UNCHANGED clientVars
  \/ \E p \in Callers, k \in Keys : Call(p, k)
  \/ \E p \in Callers :
       \/ Ambiguous(p) \/ Operate(p) \/ RecordSuccess(p) \/ RecordNotBilled(p)
       \/ RecordUnknown(p) \/ Reconcile(p) \/ RecordReconciled(p) \/ CallDies(p)

PaidSpec == PaidInit /\ [][PaidNext]_paidVars

-----------------------------------------------------------------------------
PcStates == {"idle", "operate", "succeeded", "not_billed", "unknown", "ambiguous",
             "reconcile", "reconciled"}

\* The calls and the provider's side have their types.
PaidTypeOK ==
  /\ phase \in [Callers -> PcStates]
  /\ ekey \in [Callers -> Keys \cup {None}]
  /\ ended \in [Callers -> Outcomes \cup {"RuntimeError", "raised", "died", None}]
  /\ made \in Nat
  /\ started \in [Keys -> Nat]
  /\ billed \subseteq Keys

\* A paid operation is started at most once per effect key, whatever is replayed,
\* retried or run twice at the same time: no second charge.
ChargedOnce == \A k \in Keys : started[k] <= 1

\* An effect that was billed is never recorded as a definitive failure, so its
\* units are never given back.
FailedWasNotBilled == \A k \in Keys : est[k] = "failed" => k \notin billed

\* The provider executed the effect, or, where reconcile_voice looks for it, has another
\* one of the same name.
Delivered(k) == k \in billed \/ (k \in Reconcilable /\ Namesakes(k) # {})

\* A success is one the provider delivered.  A reconciled voice need not be the one this
\* very request asked for: reconcile_voice compares names, which runs share.
SuccessWasBilled == \A k \in Keys : est[k] = "succeeded" => Delivered(k)

(* The inductive invariant behind the three properties above.              *)

\* A process between two steps knows its key, whose row exists.
CallsHaveKeys ==
  \A p \in Callers : phase[p] # "idle" => ekey[p] \in Keys /\ est[ekey[p]] # "none"

\* The operation of a key belongs to the one process that created the reservation.
OneOperator ==
  /\ \A p \in Callers : phase[p] = "operate" => started[ekey[p]] = 0
  /\ \A p, q \in Callers : phase[p] = "operate" /\ phase[q] = "operate" /\ ekey[p] = ekey[q] => p = q
  /\ \A k \in Keys : est[k] = "none" => started[k] = 0

\* Only an operation bills; its process still knows how it ended.
BillingKnown ==
  /\ \A k \in Keys : started[k] = 0 => k \notin billed
  /\ \A p \in Callers : phase[p] = "not_billed" => started[ekey[p]] = 1 /\ ekey[p] \notin billed
  /\ \A p \in Callers : phase[p] = "succeeded" => ekey[p] \in billed
  /\ \A p \in Callers : phase[p] = "reconcile" => ekey[p] \in Reconcilable
  /\ \A p \in Callers : phase[p] = "reconciled" => Delivered(ekey[p])
  /\ \A k \in Keys : est[k] = "failed" => started[k] = 1

PaidInv ==
  /\ CallsHaveKeys /\ OneOperator /\ BillingKnown
  /\ ChargedOnce /\ FailedWasNotBilled /\ SuccessWasBilled

===============================================================================
