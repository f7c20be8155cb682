----------------------------- MODULE EffectLedger -----------------------------
(***************************************************************************)
(* PostgresEffectLedger (db/effects.py): the rows of external_effects and  *)
(* the provider's row of provider_quotas.  Every method is one transaction *)
(* and one action here, with its outcome as the last argument: "ok" when   *)
(* it returns, the name of its exception otherwise (the ValueError for a   *)
(* key without a row is left out: callers reserve first).  This module's   *)
(* own specification lets any caller call any method at any time; the      *)
(* callers (PaidEffect, VideoEffect) extend it.                            *)
(*                                                                         *)
(* All keys belong to one tenant and one provider, since every statement   *)
(* touches one quota row.  A missing quota row refuses new reservations    *)
(* exactly as a row with limit 0 does, and is represented by it.           *)
(***************************************************************************)
EXTENDS Integers, FiniteSets

CONSTANTS
  Keys,      \* effect keys
  Units,     \* the units each key asks for
  Limits,    \* the limits an operator may set
  PredIds,   \* provider operation ids
  None       \* SQL NULL

\* Every reservation asks for a positive number of units (reserve's first test).
ASSUME LedgerAssumption ==
  /\ Units \in [Keys -> Nat \ {0}]
  /\ Limits \subseteq Nat
  /\ None \notin PredIds

EffectStatus == {"none", "reserved", "uncertain", "succeeded", "failed"}
TerminalPrediction == {"succeeded", "failed", "canceled"}
PredictionStatus == {"starting", "processing"} \cup TerminalPrediction

VARIABLES
  est,       \* status of each row ("none": no row)
  op,        \* provider_operation_id
  pst,       \* provider_status
  used,      \* used_units
  limit,     \* limit_units
  released   \* history: the keys whose units were given back

ledgerVars == <<est, op, pst, used, limit, released>>

LedgerInit ==
  /\ est = [k \in Keys |-> "none"]
  /\ op = [k \in Keys |-> None]
  /\ pst = [k \in Keys |-> None]
  /\ used = 0
  /\ limit = 0
  /\ released = {}

-----------------------------------------------------------------------------
\* Faulty variant: the last event wins.
LastStatus(current, incoming) == incoming

\* _merge_provider_status: terminal statuses stay, the others only advance.
MergeStatus(current, incoming) ==
  IF \/ current \in TerminalPrediction
     \/ current = "processing" /\ incoming = "starting"
  THEN current ELSE incoming

\* set_quota: the limit may not drop below what is already used.
SetQuota(n) ==
  /\ used <= n
  /\ limit' = n
  /\ UNCHANGED <<est, op, pst, used, released>>

\* used_units + units > limit_units is refused.
Fits(k) == used + Units[k] <= limit

\* Faulty variant: a replayed reservation takes its units again.
ReserveCountingAgain(k, out) ==
  \/ /\ est[k] \in {"none", "reserved"} /\ Fits(k)
     /\ out = IF est[k] = "none" THEN "created" ELSE "reserved"
     /\ est' = [est EXCEPT ![k] = "reserved"]
     /\ used' = used + Units[k]
     /\ UNCHANGED <<op, pst, limit, released>>
  \/ /\ est[k] = "none" /\ ~Fits(k) /\ out = "QuotaExceededError"
     /\ UNCHANGED ledgerVars
  \/ /\ est[k] = "uncertain" /\ out = "UncertainEffectError"
     /\ UNCHANGED ledgerVars
  \/ /\ est[k] \in {"succeeded", "failed"} /\ out = est[k]
     /\ UNCHANGED ledgerVars

\* reserve creates the row and takes its units, or returns the existing one.
Reserve(k, out) ==
  \/ /\ est[k] = "none" /\ Fits(k) /\ out = "created"
     /\ est' = [est EXCEPT ![k] = "reserved"]
     /\ used' = used + Units[k]
     /\ UNCHANGED <<op, pst, limit, released>>
  \/ /\ est[k] = "none" /\ ~Fits(k) /\ out = "QuotaExceededError"
     /\ UNCHANGED ledgerVars
  \/ /\ est[k] = "uncertain" /\ out = "UncertainEffectError"
     /\ UNCHANGED ledgerVars
  \/ /\ est[k] \in {"reserved", "succeeded", "failed"} /\ out = est[k]
     /\ UNCHANGED ledgerVars

\* Faulty variant: whatever the row says, it becomes uncertain.
MarkUncertainAny(k) ==
  /\ est[k] # "none"
  /\ est' = [est EXCEPT ![k] = "uncertain"]
  /\ UNCHANGED <<op, pst, used, limit, released>>

\* mark_uncertain: only a reserved row changes, and no other row is refused.
MarkUncertain(k) ==
  /\ est[k] # "none"
  /\ est' = [est EXCEPT ![k] = IF @ = "reserved" THEN "uncertain" ELSE @]
  /\ UNCHANGED <<op, pst, used, limit, released>>

\* The effect has another operation, or another effect has this one.
Clashes(k, o) == op[k] \notin {None, o} \/ \E l \in Keys \ {k} : op[l] = o

\* What bind_provider_operation makes of the status.
Reopened(status) == IF status = "uncertain" THEN "reserved" ELSE status

\* bind_provider_operation: one operation per effect, one effect per operation;
\* an uncertain row is reopened.
Bind(k, o, s, out) ==
  /\ est[k] # "none"
  /\ \/ /\ Clashes(k, o) /\ out = "ValueError"
        /\ UNCHANGED ledgerVars
     \/ /\ ~Clashes(k, o) /\ out = "ok"
        /\ op' = [op EXCEPT ![k] = o]
        /\ pst' = [pst EXCEPT ![k] = MergeStatus(@, s)]
        /\ est' = [est EXCEPT ![k] = Reopened(@)]
        /\ UNCHANGED <<used, limit, released>>

\* update_provider_status
UpdateStatus(k, s) ==
  /\ est[k] # "none"
  /\ pst' = [pst EXCEPT ![k] = MergeStatus(@, s)]
  /\ UNCHANGED <<est, op, used, limit, released>>

\* mark_succeeded: from reserved only; a second call is accepted.
MarkSucceeded(k, out) ==
  \/ /\ est[k] = "reserved" /\ out = "ok"
     /\ est' = [est EXCEPT ![k] = "succeeded"]
     /\ pst' = [pst EXCEPT ![k] = "succeeded"]
     /\ UNCHANGED <<op, used, limit, released>>
  \/ /\ est[k] = "succeeded" /\ out = "ok"
     /\ UNCHANGED ledgerVars
  \/ /\ est[k] \in {"uncertain", "failed"} /\ out = "UncertainEffectError"
     /\ UNCHANGED ledgerVars

\* mark_failed: from reserved only, giving the units back when nothing was billed;
\* a second call is accepted and changes nothing.
MarkFailed(k, release, out) ==
  \/ /\ est[k] = "reserved" /\ out = "ok"
     /\ est' = [est EXCEPT ![k] = "failed"]
     /\ used' = IF release THEN used - Units[k] ELSE used
     /\ released' = IF release THEN released \cup {k} ELSE released
     /\ UNCHANGED <<op, pst, limit>>
  \/ /\ est[k] = "failed" /\ out = "ok"
     /\ UNCHANGED ledgerVars
  \/ /\ est[k] \in {"uncertain", "succeeded"} /\ out = "UncertainEffectError"
     /\ UNCHANGED ledgerVars

\* mark_reconciled: from uncertain only.
MarkReconciled(k, out) ==
  \/ /\ est[k] = "uncertain" /\ out = "ok"
     /\ est' = [est EXCEPT ![k] = "succeeded"]
     /\ pst' = [pst EXCEPT ![k] = "succeeded"]
     /\ UNCHANGED <<op, used, limit, released>>
  \/ /\ est[k] \in {"reserved", "succeeded", "failed"} /\ out = "UncertainEffectError"
     /\ UNCHANGED ledgerVars

-----------------------------------------------------------------------------
Outcomes == {"ok", "created", "reserved", "succeeded", "failed",
             "QuotaExceededError", "UncertainEffectError", "ValueError"}

LedgerNext ==
  \/ \E n \in Limits : SetQuota(n)
  \/ \E k \in Keys, out \in Outcomes :
       \/ Reserve(k, out) \/ MarkSucceeded(k, out) \/ MarkReconciled(k, out)
       \/ \E release \in BOOLEAN : MarkFailed(k, release, out)
       \/ \E o \in PredIds, s \in PredictionStatus : Bind(k, o, s, out)
  \/ \E k \in Keys : MarkUncertain(k)
  \/ \E k \in Keys, s \in PredictionStatus : UpdateStatus(k, s)

LedgerSpec == LedgerInit /\ [][LedgerNext]_ledgerVars

-----------------------------------------------------------------------------
\* The rows have their types.
LedgerTypeOK ==
  /\ est \in [Keys -> EffectStatus]
  /\ op \in [Keys -> PredIds \cup {None}]
  /\ pst \in [Keys -> PredictionStatus \cup {None}]
  /\ used \in Int
  /\ limit \in Nat
  /\ released \subseteq Keys

\* The units a key holds, as a set of tokens: their number is the sum of the units.
Tokens(S) == UNION {{k} \X (1..Units[k]) : k \in S}

\* The keys that hold quota.
Holding == {k \in Keys : est[k] # "none"} \ released

\* used_units is exactly the units of the effects that hold quota: no path of
\* retries, replays and repeated failures leaks units or gives them back twice.
QuotaExact == used = Cardinality(Tokens(Holding))

\* The check constraint of provider_quotas: the decrement in mark_failed cannot
\* make the usage negative and no reservation or new limit lets it pass the limit.
QuotaWithinLimit == 0 <= used /\ used <= limit

\* Units come back only from effects that definitively failed, and for ever.
ReleasedOnlyFailed == \A k \in released : est[k] = "failed"

\* Two effects never claim the same provider operation (the partial unique index).
OneEffectPerOperation ==
  \A k, l \in Keys : op[k] # None /\ op[k] = op[l] => k = l

\* The inductive invariant behind the quota accounting.
LedgerInv ==
  /\ LedgerTypeOK
  /\ ReleasedOnlyFailed
  /\ IsFiniteSet(Tokens(Holding))
  /\ QuotaExact
  /\ QuotaWithinLimit
  /\ OneEffectPerOperation

\* A succeeded or failed effect never changes its status, whatever is replayed.
SettledStays ==
  [][\A k \in Keys : est[k] \in {"succeeded", "failed"} => est'[k] = est[k]]_ledgerVars

===============================================================================
