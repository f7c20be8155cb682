------------------------------ MODULE EffectProofs ------------------------------
(***************************************************************************)
(* The paid effects of a run, for every set of effects, every assignment   *)
(* of units and every number of calls, predictions and webhook requests:   *)
(* the quota accounting of the ledger, execute_paid_effect and the life    *)
(* cycle of a video prediction.  The last two use the ledger only through  *)
(* its methods, so that the ledger's theorems are theorems about both.     *)
(***************************************************************************)
EXTENDS PaidEffect, VideoEffect, FiniteSetTheorems, TLAPS

-------------------------------------------------------------------------------
(* EffectLedger                                                            *)

\* The tokens of one key number its units.
LEMMA TokensOfOne ==
  ASSUME NEW k \in Keys
  PROVE  IsFiniteSet({k} \X (1..Units[k])) /\ Cardinality({k} \X (1..Units[k])) = Units[k]
<1>1. Units[k] \in Nat \ {0}
  BY LedgerAssumption
<1>2. IsFiniteSet(1..Units[k]) /\ Cardinality(1..Units[k]) = Units[k]
  BY <1>1, FS_Interval
<1>3. IsFiniteSet({k}) /\ Cardinality({k}) = 1
  BY FS_Singleton
<1>4. /\ IsFiniteSet({k} \X (1..Units[k]))
      /\ Cardinality({k} \X (1..Units[k])) = Cardinality({k}) * Cardinality(1..Units[k])
  BY <1>2, <1>3, FS_Product
<1> QED
  BY <1>1, <1>2, <1>3, <1>4

\* A key that joins the holders adds its units to theirs.
LEMMA TokensAdd ==
  ASSUME NEW S \in SUBSET Keys, NEW k \in Keys \ S, IsFiniteSet(Tokens(S))
  PROVE  /\ IsFiniteSet(Tokens(S \cup {k}))
         /\ Cardinality(Tokens(S \cup {k})) = Cardinality(Tokens(S)) + Units[k]
<1> DEFINE T == {k} \X (1..Units[k])
<1>1. Tokens(S \cup {k}) = Tokens(S) \cup T
  BY DEF Tokens
<1>2. Tokens(S) \cap T = {}
  BY DEF Tokens
<1>3. IsFiniteSet(T) /\ Cardinality(T) = Units[k]
  BY TokensOfOne
<1>4. /\ IsFiniteSet(Tokens(S) \cup T)
      /\ Cardinality(Tokens(S) \cup T)
           = Cardinality(Tokens(S)) + Cardinality(T) - Cardinality(Tokens(S) \cap T)
  BY <1>3, FS_Union
<1>5. Cardinality(Tokens(S) \cap T) = 0
  BY <1>2, FS_EmptySet
<1>6. Cardinality(Tokens(S)) \in Nat /\ Units[k] \in Nat
  BY FS_CardinalityType, LedgerAssumption
<1> HIDE DEF T
<1>7. Cardinality(Tokens(S) \cup T) = Cardinality(Tokens(S)) + Units[k]
  BY <1>3, <1>4, <1>5, <1>6
<1> QED
  BY <1>1, <1>4, <1>7

\* A key that leaves the holders takes its units away, and there were that many.
LEMMA TokensRemove ==
  ASSUME NEW S \in SUBSET Keys, NEW k \in S, IsFiniteSet(Tokens(S))
  PROVE  /\ IsFiniteSet(Tokens(S \ {k}))
         /\ Cardinality(Tokens(S \ {k})) = Cardinality(Tokens(S)) - Units[k]
         /\ Cardinality(Tokens(S \ {k})) \in Nat
<1>1. Tokens(S \ {k}) \subseteq Tokens(S)
  BY DEF Tokens
<1>2. IsFiniteSet(Tokens(S \ {k}))
  BY <1>1, FS_Subset
<1>3. (S \ {k}) \cup {k} = S
  OBVIOUS
<1>4. Cardinality(Tokens(S)) = Cardinality(Tokens(S \ {k})) + Units[k]
  BY <1>2, <1>3, TokensAdd
<1>5. Cardinality(Tokens(S \ {k})) \in Nat /\ Units[k] \in Nat
  BY <1>2, FS_CardinalityType, LedgerAssumption
<1> QED
  BY <1>2, <1>4, <1>5

\* An empty ledger holds nothing.
LEMMA LedgerInvInit == LedgerInit => LedgerInv
<1> SUFFICES ASSUME LedgerInit PROVE LedgerInv
  OBVIOUS
<1>1. Holding = {}
  BY DEF LedgerInit, Holding
<1>2. Tokens(Holding) = {}
  BY <1>1 DEF Tokens
<1>3. IsFiniteSet(Tokens(Holding)) /\ Cardinality(Tokens(Holding)) = 0
  BY <1>2, FS_EmptySet
<1> QED
  BY <1>3 DEF LedgerInit, LedgerInv, LedgerTypeOK, ReleasedOnlyFailed, QuotaExact,
     QuotaWithinLimit, OneEffectPerOperation, EffectStatus

\* Steps that change neither the holders nor the quota keep the accounting.
LEMMA SameHolders ==
  ASSUME LedgerInv, LedgerTypeOK', ReleasedOnlyFailed', OneEffectPerOperation',
         Holding' = Holding, UNCHANGED <<used, limit>>
  PROVE  LedgerInv'
<1>1. Tokens(Holding)' = Tokens(Holding)
  BY DEF Tokens
<1> QED
  BY <1>1 DEF LedgerInv, QuotaExact, QuotaWithinLimit

\* The invariant without its accounting part, of rows that changed no quota.
LEMMA LedgerStep == LedgerInv /\ [LedgerNext]_ledgerVars => LedgerInv'
<1> SUFFICES ASSUME LedgerInv, [LedgerNext]_ledgerVars PROVE LedgerInv'
  OBVIOUS
<1> USE LedgerAssumption
<1>0. UNCHANGED ledgerVars => LedgerInv'
  BY SameHolders DEF ledgerVars, LedgerInv, LedgerTypeOK, ReleasedOnlyFailed,
     OneEffectPerOperation, Holding
<1>1. ASSUME NEW n \in Limits, SetQuota(n) PROVE LedgerInv'
  <2>1. Holding' = Holding
    BY <1>1 DEF SetQuota, Holding
  <2>2. Tokens(Holding)' = Tokens(Holding)
    BY <2>1 DEF Tokens
  <2> QED
    BY <1>1, <2>2 DEF SetQuota, LedgerInv, LedgerTypeOK, QuotaExact, QuotaWithinLimit,
       ReleasedOnlyFailed, OneEffectPerOperation
<1>2. ASSUME NEW k \in Keys, NEW out, Reserve(k, out) PROVE LedgerInv'
  <2>1. CASE UNCHANGED ledgerVars
    BY <2>1, <1>0
  <2>2. CASE /\ est[k] = "none" /\ Fits(k)
             /\ est' = [est EXCEPT ![k] = "reserved"]
             /\ used' = used + Units[k]
             /\ UNCHANGED <<op, pst, limit, released>>
    <3>1. k \notin Holding /\ k \notin released /\ Holding \in SUBSET Keys
      BY <2>2 DEF Holding, LedgerInv, ReleasedOnlyFailed
    <3>2. Holding' = Holding \cup {k}
      BY <2>2, <3>1 DEF Holding, LedgerInv, LedgerTypeOK
    <3>3. /\ IsFiniteSet(Tokens(Holding \cup {k}))
          /\ Cardinality(Tokens(Holding \cup {k})) = Cardinality(Tokens(Holding)) + Units[k]
      BY <3>1, TokensAdd DEF LedgerInv
    <3>4. Tokens(Holding)' = Tokens(Holding \cup {k})
      BY <3>2 DEF Tokens
    <3>5. IsFiniteSet(Tokens(Holding))' /\ QuotaExact'
      BY <2>2, <3>3, <3>4 DEF LedgerInv, QuotaExact
    <3>6. QuotaWithinLimit'
      BY <2>2 DEF Fits, LedgerInv, LedgerTypeOK, QuotaWithinLimit
    <3>7. LedgerTypeOK' /\ ReleasedOnlyFailed' /\ OneEffectPerOperation'
      BY <2>2, <3>1 DEF LedgerInv, LedgerTypeOK, EffectStatus, ReleasedOnlyFailed,
         OneEffectPerOperation
    <3> QED
      BY <3>5, <3>6, <3>7 DEF LedgerInv
  <2> QED
    BY <1>2, <2>1, <2>2 DEF Reserve
<1>3. ASSUME NEW k \in Keys, MarkUncertain(k) PROVE LedgerInv'
  <2>1. Holding' = Holding
    BY <1>3 DEF MarkUncertain, Holding, LedgerInv, LedgerTypeOK
  <2>2. LedgerTypeOK' /\ ReleasedOnlyFailed' /\ OneEffectPerOperation'
    BY <1>3 DEF MarkUncertain, LedgerInv, LedgerTypeOK, EffectStatus, ReleasedOnlyFailed,
       OneEffectPerOperation
  <2> QED
    BY <1>3, <2>1, <2>2, SameHolders DEF MarkUncertain
<1>4. ASSUME NEW k \in Keys, NEW o \in PredIds, NEW s \in PredictionStatus, NEW out,
             Bind(k, o, s, out)
      PROVE  LedgerInv'
  <2>1. CASE Clashes(k, o)
    BY <1>4, <2>1, <1>0 DEF Bind
  <2>2. CASE ~Clashes(k, o)
    <3>1. /\ est[k] # "none"
          /\ op' = [op EXCEPT ![k] = o]
          /\ pst' = [pst EXCEPT ![k] = MergeStatus(pst[k], s)]
          /\ est' = [est EXCEPT ![k] = Reopened(est[k])]
          /\ UNCHANGED <<used, limit, released>>
      BY <1>4, <2>2 DEF Bind
    <3>2. /\ Reopened(est[k]) \in EffectStatus \ {"none"}
          /\ est[k] = "failed" => Reopened(est[k]) = "failed"
      BY <3>1 DEF Reopened, LedgerInv, LedgerTypeOK, EffectStatus
    <3>3. MergeStatus(pst[k], s) \in PredictionStatus
      BY DEF MergeStatus, LedgerInv, LedgerTypeOK, PredictionStatus
    <3>4. Holding' = Holding
      BY <3>1, <3>2 DEF Holding, LedgerInv, LedgerTypeOK
    <3>5. LedgerTypeOK' /\ ReleasedOnlyFailed'
      BY <3>1, <3>2, <3>3 DEF LedgerInv, LedgerTypeOK, ReleasedOnlyFailed
    <3>6. OneEffectPerOperation'
      BY <2>2, <3>1 DEF Clashes, LedgerInv, LedgerTypeOK, OneEffectPerOperation
    <3> QED
      BY <3>1, <3>4, <3>5, <3>6, SameHolders
  <2> QED
    BY <2>1, <2>2
<1>5. ASSUME NEW k \in Keys, NEW s \in PredictionStatus, UpdateStatus(k, s) PROVE LedgerInv'
  <2>1. MergeStatus(pst[k], s) \in PredictionStatus
    BY DEF MergeStatus, LedgerInv, LedgerTypeOK, PredictionStatus
  <2>2. Holding' = Holding
    BY <1>5 DEF UpdateStatus, Holding
  <2>3. LedgerTypeOK' /\ ReleasedOnlyFailed' /\ OneEffectPerOperation'
    BY <1>5, <2>1 DEF UpdateStatus, LedgerInv, LedgerTypeOK, ReleasedOnlyFailed,
       OneEffectPerOperation
  <2> QED
    BY <1>5, <2>2, <2>3, SameHolders DEF UpdateStatus
<1>6. ASSUME NEW k \in Keys, est[k] \in {"reserved", "uncertain"},
             est' = [est EXCEPT ![k] = "succeeded"],
             pst' = [pst EXCEPT ![k] = "succeeded"],
             UNCHANGED <<op, used, limit, released>>
      PROVE  LedgerInv'
  <2>1. Holding' = Holding
    BY <1>6 DEF Holding, LedgerInv, LedgerTypeOK
  <2>2. LedgerTypeOK' /\ ReleasedOnlyFailed' /\ OneEffectPerOperation'
    BY <1>6 DEF LedgerInv, LedgerTypeOK, EffectStatus, PredictionStatus, TerminalPrediction,
       ReleasedOnlyFailed, OneEffectPerOperation
  <2> QED
    BY <1>6, <2>1, <2>2, SameHolders
<1>7. ASSUME NEW k \in Keys, NEW out, MarkSucceeded(k, out) \/ MarkReconciled(k, out)
      PROVE  LedgerInv'
  BY <1>0, <1>6, <1>7 DEF MarkSucceeded, MarkReconciled
<1>8. ASSUME NEW k \in Keys, NEW release \in BOOLEAN, NEW out, MarkFailed(k, release, out)
      PROVE  LedgerInv'
  <2>1. CASE UNCHANGED ledgerVars
    BY <2>1, <1>0
  <2>2. CASE /\ est[k] = "reserved"
             /\ est' = [est EXCEPT ![k] = "failed"]
             /\ used' = IF release THEN used - Units[k] ELSE used
             /\ released' = IF release THEN released \cup {k} ELSE released
             /\ UNCHANGED <<op, pst, limit>>
    <3>1. k \in Holding /\ Holding \in SUBSET Keys
      BY <2>2 DEF Holding, LedgerInv, ReleasedOnlyFailed
    <3>2. LedgerTypeOK' /\ ReleasedOnlyFailed' /\ OneEffectPerOperation'
      BY <2>2 DEF LedgerInv, LedgerTypeOK, EffectStatus, ReleasedOnlyFailed,
         OneEffectPerOperation
    <3>3. CASE ~release
      <4>1. Holding' = Holding
        BY <2>2, <3>3 DEF Holding, LedgerInv, LedgerTypeOK
      <4> QED
        BY <2>2, <3>2, <3>3, <4>1, SameHolders
    <3>4. CASE release
      <4>1. Holding' = Holding \ {k}
        BY <2>2, <3>4 DEF Holding, LedgerInv, LedgerTypeOK
      <4>2. Tokens(Holding)' = Tokens(Holding \ {k})
        BY <4>1 DEF Tokens
      <4>3. /\ IsFiniteSet(Tokens(Holding \ {k}))
            /\ Cardinality(Tokens(Holding \ {k})) = Cardinality(Tokens(Holding)) - Units[k]
            /\ Cardinality(Tokens(Holding \ {k})) \in Nat
        BY <3>1, TokensRemove DEF LedgerInv
      <4>4. IsFiniteSet(Tokens(Holding))' /\ QuotaExact'
        BY <2>2, <3>4, <4>2, <4>3 DEF LedgerInv, QuotaExact
      <4>5. Units[k] \in Nat
        OBVIOUS
      <4>6. QuotaWithinLimit'
        BY <2>2, <3>4, <4>3, <4>5 DEF LedgerInv, LedgerTypeOK, QuotaExact, QuotaWithinLimit
      <4> QED
        BY <3>2, <4>4, <4>6 DEF LedgerInv
    <3> QED
      BY <3>3, <3>4
  <2> QED
    BY <1>8, <2>1, <2>2 DEF MarkFailed
<1> QED
  BY <1>0, <1>1, <1>2, <1>3, <1>4, <1>5, <1>7, <1>8 DEF LedgerNext

\* Whatever its callers do, used_units is exactly the units of the effects that hold
\* quota, so it never goes negative and never passes the limit; units come back only
\* from failed effects; no two effects share a provider operation.
THEOREM LedgerInvariant == LedgerSpec => []LedgerInv
BY LedgerInvInit, LedgerStep, PTL DEF LedgerSpec

\* No quota is leaked and none is given back twice.
THEOREM QuotaExactHolds == LedgerSpec => []QuotaExact
BY LedgerInvariant, PTL DEF LedgerInv

\* The check constraint on provider_quotas never fires in mark_failed.
THEOREM QuotaWithinLimitHolds == LedgerSpec => []QuotaWithinLimit
BY LedgerInvariant, PTL DEF LedgerInv

\* A provider operation is bound to one effect, whoever binds it and when.
THEOREM OneEffectPerOperationHolds == LedgerSpec => []OneEffectPerOperation
BY LedgerInvariant, PTL DEF LedgerInv

\* The status of a succeeded or failed effect is final.
THEOREM SettledStaysHolds == LedgerSpec => SettledStays
<1>1. LedgerInv /\ [LedgerNext]_ledgerVars
      => [\A k \in Keys : est[k] \in {"succeeded", "failed"} => est'[k] = est[k]]_ledgerVars
  BY DEF LedgerInv, LedgerTypeOK, LedgerNext, ledgerVars, SetQuota, Reserve, MarkUncertain,
     Bind, Reopened, UpdateStatus, MarkSucceeded, MarkFailed, MarkReconciled
<1> QED
  BY <1>1, LedgerInvariant, PTL DEF LedgerSpec, SettledStays

-------------------------------------------------------------------------------
(* PaidEffect                                                              *)

\* Every step of the callers is a step of the ledger or leaves it alone.
LEMMA PaidStepsAreLedgerSteps ==
  ASSUME CallsHaveKeys, [PaidNext]_paidVars
  PROVE  [LedgerNext]_ledgerVars
<1>1. CASE UNCHANGED paidVars
  BY <1>1 DEF paidVars
<1>2. ASSUME NEW n \in Limits, SetQuota(n) PROVE LedgerNext
  BY <1>2 DEF LedgerNext
<1>3. ASSUME NEW p \in Callers, NEW k \in Keys, Call(p, k) PROVE LedgerNext
  <2>1. \E out \in Outcomes : Reserve(k, out)
    BY <1>3 DEF Call
  <2> QED
    BY <2>1 DEF LedgerNext
<1>4. ASSUME NEW p \in Callers, Ambiguous(p) \/ RecordUnknown(p) PROVE LedgerNext
  <2>1. ekey[p] \in Keys /\ MarkUncertain(ekey[p])
    BY <1>4 DEF CallsHaveKeys, Ambiguous, RecordUnknown
  <2> QED
    BY <2>1 DEF LedgerNext
<1>5. ASSUME NEW p \in Callers, RecordSuccess(p) PROVE LedgerNext
  <2>1. ekey[p] \in Keys /\ \E out \in Outcomes : MarkSucceeded(ekey[p], out)
    BY <1>5 DEF CallsHaveKeys, RecordSuccess
  <2> QED
    BY <2>1 DEF LedgerNext
<1>6. ASSUME NEW p \in Callers, RecordNotBilled(p) PROVE LedgerNext
  <2>1. ekey[p] \in Keys
    BY <1>6 DEF CallsHaveKeys, RecordNotBilled
  <2>2. \E out \in Outcomes, release \in BOOLEAN : MarkFailed(ekey[p], release, out)
    BY <1>6, Zenon DEF RecordNotBilled
  <2> QED
    BY <2>1, <2>2 DEF LedgerNext
<1>7. ASSUME NEW p \in Callers, RecordReconciled(p) PROVE LedgerNext
  <2>1. ekey[p] \in Keys /\ \E out \in Outcomes : MarkReconciled(ekey[p], out)
    BY <1>7 DEF CallsHaveKeys, RecordReconciled
  <2> QED
    BY <2>1 DEF LedgerNext
<1>8. ASSUME NEW p \in Callers, Operate(p) \/ Reconcile(p) \/ CallDies(p)
      PROVE  UNCHANGED ledgerVars
  BY <1>8 DEF Operate, Reconcile, CallDies
<1> QED
  BY <1>1, <1>2, <1>3, <1>4, <1>5, <1>6, <1>7, <1>8 DEF PaidNext

\* The invariant at the start.
LEMMA PaidInvInit == PaidInit => PaidTypeOK /\ PaidInv
BY DEF PaidInit, LedgerInit, PaidTypeOK, PaidInv, CallsHaveKeys, OneOperator, BillingKnown,
   ChargedOnce, FailedWasNotBilled, SuccessWasBilled, PcStates

\* The callers' own variables keep their types.
LEMMA PaidTypeStep ==
  ASSUME PaidTypeOK, CallsHaveKeys, [PaidNext]_paidVars
  PROVE  PaidTypeOK'
<1> USE DEF PaidTypeOK, PcStates, Finish, Proceed
<1>1. CASE UNCHANGED paidVars
  BY <1>1 DEF paidVars, clientVars
<1>2. CASE UNCHANGED clientVars
  BY <1>2 DEF clientVars
<1>3. ASSUME NEW p \in Callers, NEW k \in Keys, Call(p, k) PROVE PaidTypeOK'
  <2>1. PICK out \in Outcomes :
          IF AfterReserve(k, out) = "end"
          THEN /\ ended' = [ended EXCEPT ![p] = out]
               /\ UNCHANGED <<phase, ekey>>
          ELSE /\ phase' = [phase EXCEPT ![p] = AfterReserve(k, out)]
               /\ ekey' = [ekey EXCEPT ![p] = k]
               /\ ended' = [ended EXCEPT ![p] = None]
    BY <1>3 DEF Call
  <2>2. AfterReserve(k, out) \in {"operate", "reconcile", "ambiguous", "end"}
    BY DEF AfterReserve
  <2>3. made' \in Nat /\ UNCHANGED <<started, billed>>
    BY <1>3 DEF Call
  <2> QED
    BY <2>1, <2>2, <2>3
<1>4. ASSUME NEW p \in Callers, Ambiguous(p) \/ RecordUnknown(p) \/ CallDies(p) PROVE PaidTypeOK'
  BY <1>4 DEF Ambiguous, RecordUnknown, CallDies
<1>5. ASSUME NEW p \in Callers, Operate(p) PROVE PaidTypeOK'
  BY <1>5 DEF Operate, CallsHaveKeys
<1>6. ASSUME NEW p \in Callers, RecordSuccess(p) \/ RecordNotBilled(p) \/ RecordReconciled(p)
      PROVE  PaidTypeOK'
  BY <1>6 DEF RecordSuccess, RecordNotBilled, RecordReconciled
<1>7. ASSUME NEW p \in Callers, Reconcile(p) PROVE PaidTypeOK'
  BY <1>7 DEF Reconcile
<1> HIDE DEF PaidTypeOK
<1> QED
  BY <1>1, <1>2, <1>3, <1>4, <1>5, <1>6, <1>7 DEF PaidNext

\* A status change that an ending call may make: rows stay, a new failure was sent
\* and not billed, a new success was delivered.
FairChange ==
  \A k \in Keys :
    \/ est'[k] = est[k]
    \/ /\ est[k] # "none" /\ est'[k] # "none"
       /\ est'[k] = "failed" => started[k] = 1 /\ k \notin billed
       /\ est'[k] = "succeeded" => Delivered(k)

\* A call that ends after such a change keeps the invariant.
LEMMA FinishKeepsInv ==
  ASSUME PaidTypeOK, PaidInv, NEW p \in Callers, NEW r, Finish(p, r), FairChange,
         UNCHANGED <<started, billed>>
  PROVE  PaidInv'
<1>1. /\ phase'[p] = "idle"
      /\ \A q \in Callers : q # p => phase'[q] = phase[q] /\ ekey'[q] = ekey[q]
  BY DEF Finish, PaidTypeOK
<1>2. \A q \in Callers : phase'[q] # "idle" => q # p /\ phase'[q] = phase[q] /\ ekey'[q] = ekey[q]
  BY <1>1
<1>0. \A k \in Keys : Delivered(k)' <=> Delivered(k)
  BY DEF Delivered, Namesakes
<1>3. CallsHaveKeys'
  BY <1>2 DEF PaidInv, CallsHaveKeys, FairChange
<1>4. OneOperator'
  BY <1>2 DEF PaidInv, OneOperator, FairChange
<1>5. BillingKnown'
  BY <1>0, <1>2 DEF PaidInv, CallsHaveKeys, BillingKnown, FairChange
<1>6. ChargedOnce' /\ FailedWasNotBilled' /\ SuccessWasBilled'
  BY <1>0 DEF PaidInv, ChargedOnce, FailedWasNotBilled, SuccessWasBilled, FairChange
<1> QED
  BY <1>3, <1>4, <1>5, <1>6 DEF PaidInv

\* A move inside a call that touches neither the ledger nor the provider.
LEMMA ProceedKeepsInv ==
  ASSUME PaidTypeOK, PaidInv, NEW p \in Callers, NEW next \in PcStates, Proceed(p, next),
         phase[p] # "idle", next # "operate", next # "not_billed",
         next # "succeeded", next # "reconcile", next = "reconciled" => Delivered(ekey[p]),
         UNCHANGED <<est, started, billed>>
  PROVE  PaidInv'
<1>1. \A q \in Callers : ekey'[q] = ekey[q] /\ phase'[q] = IF q = p THEN next ELSE phase[q]
  BY DEF Proceed, PaidTypeOK
<1>2. \A k : Delivered(k)' <=> Delivered(k)
  BY DEF Delivered, Namesakes
<1> QED
  BY <1>1, <1>2 DEF PaidInv, CallsHaveKeys, OneOperator, BillingKnown, ChargedOnce,
     FailedWasNotBilled, SuccessWasBilled

\* The call that creates the reservation is the only one that will operate on it.
LEMMA PaidCallKeepsInv ==
  ASSUME PaidTypeOK, LedgerTypeOK, PaidInv, NEW p \in Callers, NEW k \in Keys, Call(p, k)
  PROVE  PaidInv'
<1>1. PICK out \in Outcomes :
        /\ Reserve(k, out)
        /\ IF AfterReserve(k, out) = "end"
           THEN /\ ended' = [ended EXCEPT ![p] = out]
                /\ UNCHANGED <<phase, ekey>>
           ELSE /\ phase' = [phase EXCEPT ![p] = AfterReserve(k, out)]
                /\ ekey' = [ekey EXCEPT ![p] = k]
                /\ ended' = [ended EXCEPT ![p] = None]
  BY DEF Call
<1>2. phase[p] = "idle" /\ UNCHANGED <<started, billed>>
  BY DEF Call
<1>5. \A l : Delivered(l)' <=> Delivered(l)
  BY <1>2 DEF Delivered, Namesakes
<1>3. CASE out = "created"
  <2>1. est[k] = "none" /\ est' = [est EXCEPT ![k] = "reserved"]
    BY <1>1, <1>3 DEF Reserve
  <2>2. phase' = [phase EXCEPT ![p] = "operate"] /\ ekey' = [ekey EXCEPT ![p] = k]
    BY <1>1, <1>3 DEF AfterReserve
  <2>3. \A q \in Callers : phase[q] # "idle" => ekey[q] # k
    BY <2>1 DEF PaidInv, CallsHaveKeys
  <2>4. started[k] = 0
    BY <2>1 DEF PaidInv, OneOperator
  <2>5. CallsHaveKeys'
    BY <2>1, <2>2 DEF PaidInv, CallsHaveKeys, PaidTypeOK, LedgerTypeOK
  <2>6. OneOperator'
    BY <1>2, <2>1, <2>2, <2>3, <2>4 DEF PaidInv, OneOperator, PaidTypeOK, LedgerTypeOK
  <2>7. BillingKnown'
    BY <1>2, <1>5, <2>1, <2>2 DEF PaidInv, BillingKnown, PaidTypeOK, LedgerTypeOK
  <2>8. ChargedOnce' /\ FailedWasNotBilled' /\ SuccessWasBilled'
    BY <1>2, <1>5, <2>1 DEF PaidInv, ChargedOnce, FailedWasNotBilled, SuccessWasBilled, LedgerTypeOK
  <2> QED
    BY <2>5, <2>6, <2>7, <2>8 DEF PaidInv
<1>4. CASE out # "created"
  <2>1. est' = est
    BY <1>1, <1>4 DEF Reserve, ledgerVars
  <2>2. CASE AfterReserve(k, out) = "end"
    BY <1>1, <1>2, <1>5, <2>1, <2>2 DEF PaidInv, CallsHaveKeys, OneOperator, BillingKnown,
       ChargedOnce, FailedWasNotBilled, SuccessWasBilled
  <2>3. CASE AfterReserve(k, out) # "end"
    <3>1. /\ AfterReserve(k, out) \in {"reconcile", "ambiguous"} /\ est[k] # "none"
          /\ AfterReserve(k, out) = "reconcile" => k \in Reconcilable
      BY <1>1, <1>4, <2>3 DEF AfterReserve, Reserve
    <3>2. \A q \in Callers : /\ phase'[q] = IF q = p THEN AfterReserve(k, out) ELSE phase[q]
                           /\ ekey'[q] = IF q = p THEN k ELSE ekey[q]
      BY <1>1, <2>3 DEF PaidTypeOK
    <3> QED
      BY <1>2, <1>5, <2>1, <3>1, <3>2 DEF PaidInv, CallsHaveKeys, OneOperator, BillingKnown,
         ChargedOnce, FailedWasNotBilled, SuccessWasBilled
  <2> QED
    BY <2>2, <2>3
<1> QED
  BY <1>3, <1>4

\* The operation is started by its only owner, and for the first time.
LEMMA OperateKeepsInv ==
  ASSUME PaidTypeOK, PaidInv, NEW p \in Callers, Operate(p)
  PROVE  PaidInv'
<1> DEFINE k == ekey[p]
<1>1. k \in Keys /\ est[k] # "none" /\ started[k] = 0 /\ k \notin billed
  BY DEF Operate, PaidInv, CallsHaveKeys, OneOperator, BillingKnown
<1>2. UNCHANGED <<est, ekey>> /\ started' = [started EXCEPT ![k] = 1]
  BY <1>1 DEF Operate, Proceed, ledgerVars, PaidTypeOK
<1>3. PICK next \in {"succeeded", "not_billed", "unknown"} :
        /\ phase' = [phase EXCEPT ![p] = next]
        /\ billed' \in {billed, billed \cup {k}}
        /\ next = "succeeded" => k \in billed'
        /\ next = "not_billed" => k \notin billed'
  BY <1>1 DEF Operate, Proceed
<1>0. \A l : Delivered(l) => Delivered(l)'
  BY <1>3 DEF Delivered, Namesakes
<1>4. \A q \in Callers : phase[q] = "operate" /\ ekey[q] = k => q = p
  BY DEF Operate, PaidInv, OneOperator
<1>5. \A q \in Callers : phase[q] = "not_billed" => ekey[q] # k
  BY <1>1 DEF PaidInv, BillingKnown
<1>6. CallsHaveKeys'
  BY <1>1, <1>2, <1>3 DEF PaidInv, CallsHaveKeys, PaidTypeOK
<1>7. OneOperator'
  BY <1>1, <1>2, <1>3, <1>4 DEF PaidInv, OneOperator, CallsHaveKeys, PaidTypeOK
<1>8. BillingKnown'
  <2>1. \A l \in Keys : started'[l] = 0 => l \notin billed'
    BY <1>1, <1>2, <1>3 DEF PaidInv, BillingKnown, PaidTypeOK
  <2>2. \A q \in Callers : phase'[q] = "not_billed" => started'[ekey'[q]] = 1 /\ ekey'[q] \notin billed'
    BY <1>1, <1>2, <1>3, <1>5 DEF PaidInv, BillingKnown, CallsHaveKeys, PaidTypeOK
  <2>3. \A q \in Callers :
          /\ phase'[q] = "succeeded" => ekey'[q] \in billed'
          /\ phase'[q] = "reconcile" => ekey'[q] \in Reconcilable
          /\ phase'[q] = "reconciled" => Delivered(ekey[q])' /\ ekey'[q] = ekey[q]
    BY <1>0, <1>1, <1>2, <1>3 DEF PaidInv, BillingKnown, PaidTypeOK
  <2>4. \A l \in Keys : est'[l] = "failed" => started'[l] = 1
    BY <1>1, <1>2 DEF PaidInv, BillingKnown, PaidTypeOK
  <2> QED
    BY <2>1, <2>2, <2>3, <2>4 DEF BillingKnown
<1>9. ChargedOnce'
  BY <1>1, <1>2 DEF PaidInv, ChargedOnce, PaidTypeOK
<1>10. est[k] # "failed"
  BY <1>1 DEF PaidInv, BillingKnown
<1>11. FailedWasNotBilled' /\ SuccessWasBilled'
  BY <1>0, <1>1, <1>2, <1>3, <1>10 DEF PaidInv, FailedWasNotBilled, SuccessWasBilled
<1> QED
  BY <1>6, <1>7, <1>8, <1>9, <1>11 DEF PaidInv

\* Every step keeps the invariant.
LEMMA PaidInvStep ==
  ASSUME PaidTypeOK, LedgerTypeOK, PaidInv, [PaidNext]_paidVars
  PROVE  PaidInv'
<1>1. (UNCHANGED <<est, phase, ekey, started, billed>>) => PaidInv'
  BY DEF PaidInv, CallsHaveKeys, OneOperator, BillingKnown, ChargedOnce, FailedWasNotBilled,
     SuccessWasBilled, Delivered, Namesakes
<1>2. CASE UNCHANGED paidVars
  BY <1>1, <1>2 DEF paidVars, ledgerVars, clientVars
<1>3. ASSUME NEW n \in Limits, SetQuota(n), UNCHANGED clientVars PROVE PaidInv'
  BY <1>1, <1>3 DEF SetQuota, clientVars
<1>4. ASSUME NEW p \in Callers, Ambiguous(p) \/ RecordUnknown(p) PROVE PaidInv'
  <2>1. FairChange
    BY <1>4 DEF FairChange, Ambiguous, RecordUnknown, MarkUncertain, LedgerTypeOK
  <2>2. \E r : Finish(p, r)
    BY <1>4 DEF Ambiguous, RecordUnknown
  <2> QED
    BY <1>4, <2>1, <2>2, FinishKeepsInv DEF Ambiguous, RecordUnknown
<1>5. ASSUME NEW p \in Callers, RecordSuccess(p) PROVE PaidInv'
  <2>1. ekey[p] \in billed
    BY <1>5 DEF RecordSuccess, PaidInv, BillingKnown
  <2>2. FairChange
    BY <1>5, <2>1 DEF FairChange, Delivered, RecordSuccess, MarkSucceeded, ledgerVars, LedgerTypeOK
  <2>3. \E r : Finish(p, r)
    BY <1>5 DEF RecordSuccess
  <2> QED
    BY <1>5, <2>2, <2>3, FinishKeepsInv DEF RecordSuccess
<1>6. ASSUME NEW p \in Callers, RecordNotBilled(p) PROVE PaidInv'
  <2>1. ekey[p] \notin billed /\ started[ekey[p]] = 1
    BY <1>6 DEF RecordNotBilled, PaidInv, BillingKnown
  <2>2. FairChange
    BY <1>6, <2>1 DEF FairChange, RecordNotBilled, MarkFailed, ledgerVars, LedgerTypeOK
  <2>3. \E r : Finish(p, r)
    BY <1>6, Zenon DEF RecordNotBilled
  <2> QED
    BY <1>6, <2>2, <2>3, FinishKeepsInv DEF RecordNotBilled
<1>7. ASSUME NEW p \in Callers, RecordReconciled(p) PROVE PaidInv'
  <2>1. Delivered(ekey[p])
    BY <1>7 DEF RecordReconciled, PaidInv, BillingKnown
  <2>2. FairChange
    BY <1>7, <2>1 DEF FairChange, RecordReconciled, MarkReconciled, ledgerVars, LedgerTypeOK
  <2>3. \E r : Finish(p, r)
    BY <1>7 DEF RecordReconciled
  <2> QED
    BY <1>7, <2>2, <2>3, FinishKeepsInv DEF RecordReconciled
<1>8. ASSUME NEW p \in Callers, Reconcile(p) PROVE PaidInv'
  <2>1. CASE (\E match \in Keys : Namesakes(ekey[p]) = {match}) /\ Proceed(p, "reconciled")
    <3>1. Delivered(ekey[p])
      BY <1>8, <2>1 DEF Reconcile, Delivered, PaidInv, BillingKnown
    <3> QED
      BY <1>8, <2>1, <3>1, ProceedKeepsInv DEF Reconcile, ledgerVars, PcStates
  <2>2. CASE Finish(p, "raised")
    <3>1. FairChange
      BY <1>8 DEF FairChange, Reconcile, ledgerVars
    <3> QED
      BY <1>8, <2>2, <3>1, FinishKeepsInv DEF Reconcile
  <2> QED
    BY <1>8, <2>1, <2>2 DEF Reconcile
<1>9. ASSUME NEW p \in Callers, CallDies(p) PROVE PaidInv'
  <2>1. FairChange
    BY <1>9 DEF FairChange, CallDies, ledgerVars
  <2> QED
    BY <1>9, <2>1, FinishKeepsInv DEF CallDies
<1> QED
  BY <1>2, <1>3, <1>4, <1>5, <1>6, <1>7, <1>8, <1>9, PaidCallKeepsInv, OperateKeepsInv
  DEF PaidNext

\* The inductive invariant of execute_paid_effect together with the ledger's.
THEOREM PaidInvariant == PaidSpec => [](PaidTypeOK /\ PaidInv /\ LedgerInv)
<1> DEFINE Inv == PaidTypeOK /\ PaidInv /\ LedgerInv
<1>1. PaidInit => Inv
  BY PaidInvInit, LedgerInvInit DEF PaidInit
<1>2. Inv /\ [PaidNext]_paidVars => Inv'
  <2> SUFFICES ASSUME Inv, [PaidNext]_paidVars PROVE Inv'
    OBVIOUS
  <2>1. LedgerInv'
    BY PaidStepsAreLedgerSteps, LedgerStep DEF PaidInv
  <2>2. PaidTypeOK'
    BY PaidTypeStep DEF PaidInv
  <2>3. PaidInv'
    BY PaidInvStep DEF LedgerInv
  <2> QED
    BY <2>1, <2>2, <2>3
<1> QED
  BY <1>1, <1>2, PTL DEF PaidSpec

\* The callers use the ledger only through its methods: execute_paid_effect
\* implements the most general caller of the ledger.
THEOREM PaidImplementsLedger == PaidSpec => LedgerSpec
<1>1. PaidInit => LedgerInit
  BY DEF PaidInit
<1>2. PaidInv /\ [PaidNext]_paidVars => [LedgerNext]_ledgerVars
  BY PaidStepsAreLedgerSteps DEF PaidInv
<1> QED
  BY <1>1, <1>2, PaidInvariant, PTL DEF PaidSpec, LedgerSpec

\* No effect key is ever charged twice.
THEOREM ChargedOnceHolds == PaidSpec => []ChargedOnce
BY PaidInvariant, PTL DEF PaidInv

\* No billed effect is recorded as a definitive failure and gets its quota back.
THEOREM FailedWasNotBilledHolds == PaidSpec => []FailedWasNotBilled
BY PaidInvariant, PTL DEF PaidInv

\* No success is recorded that the provider did not deliver.
THEOREM SuccessWasBilledHolds == PaidSpec => []SuccessWasBilled
BY PaidInvariant, PTL DEF PaidInv

-------------------------------------------------------------------------------
(* VideoEffect                                                             *)

-------------------------------------------------------------------------------
(* The life cycle uses the ledger only through its methods.                *)

\* Every step of a call or of a webhook request is a step of the ledger or leaves it alone.
LEMMA VideoStepsAreLedgerSteps ==
  ASSUME VideoTypeOK, VideoInv, [VideoNext]_videoVars
  PROVE  [LedgerNext]_ledgerVars
<1>1. CASE UNCHANGED videoVars
  BY <1>1 DEF videoVars
<1>2. ASSUME NEW n \in Limits, SetQuota(n) PROVE LedgerNext
  BY <1>2 DEF LedgerNext
<1>3. ASSUME NEW p \in Procs, NEW k \in Keys, Start(p, k) PROVE LedgerNext
  <2>1. \E out \in Outcomes : Reserve(k, out)
    BY <1>3 DEF Start
  <2> QED
    BY <2>1 DEF LedgerNext
<1>4. ASSUME NEW p \in Procs, Unclear(p) \/ Lost(p) PROVE LedgerNext
  <2>1. key[p] \in Keys /\ MarkUncertain(key[p])
    BY <1>4 DEF VideoInv, KeysAreKnown, Unclear, Lost
  <2> QED
    BY <2>1 DEF LedgerNext
<1>5. ASSUME NEW p \in Procs, Refused(p) \/ ProviderFailed(p) PROVE LedgerNext
  <2>1. key[p] \in Keys
    BY <1>5 DEF VideoInv, KeysAreKnown, Refused, ProviderFailed
  <2>2. \E out \in Outcomes, release \in BOOLEAN : MarkFailed(key[p], release, out)
    BY <1>5, Zenon DEF Refused, ProviderFailed
  <2> QED
    BY <2>1, <2>2 DEF LedgerNext
<1>6. ASSUME NEW p \in Procs, BindOwn(p) PROVE LedgerNext
  <2>1. key[p] \in Keys /\ pid[p] \in PredIds
    BY <1>6 DEF VideoInv, KeysAreKnown, PredictionsAreKnown, BindOwn
  <2>2. \E out \in Outcomes : Bind(key[p], pid[p], "starting", out)
    BY <1>6 DEF BindOwn
  <2> QED
    BY <2>1, <2>2 DEF LedgerNext, PredictionStatus
<1>7. ASSUME NEW p \in Procs, Polled(p) \/ Canceled(p) PROVE LedgerNext
  <2>1. key[p] \in Keys /\ seen[p] \in PredictionStatus /\ UpdateStatus(key[p], seen[p])
    BY <1>7 DEF VideoInv, KeysAreKnown, PredictionsAreKnown, Reported, Polled, Canceled
  <2> QED
    BY <2>1 DEF LedgerNext
<1>8. ASSUME NEW p \in Procs, Store(p) PROVE LedgerNext
  <2>1. key[p] \in Keys /\ \E out \in Outcomes : MarkSucceeded(key[p], out)
    BY <1>8 DEF VideoInv, KeysAreKnown, Store
  <2> QED
    BY <2>1 DEF LedgerNext
<1>9. ASSUME NEW h \in Hooks, HookApply(h) PROVE LedgerNext
  <2>1. hkey[h] \in Keys /\ hpid[h] \in PredIds /\ hst[h] \in PredictionStatus
    BY <1>9 DEF VideoInv, KeysAreKnown, PredictionsAreKnown, Reported, HookApply
  <2>2. \/ \E out \in Outcomes : Bind(hkey[h], hpid[h], hst[h], out)
        \/ UpdateStatus(hkey[h], hst[h])
    BY <1>9 DEF HookApply
  <2> QED
    BY <2>1, <2>2 DEF LedgerNext
<1>10. ASSUME NEW h \in Hooks, HookFail(h) PROVE LedgerNext
  <2>1. hkey[h] \in Keys
    BY <1>10 DEF VideoInv, KeysAreKnown, HookFail
  <2>2. \E out \in Outcomes, release \in BOOLEAN : MarkFailed(hkey[h], release, out)
    BY <1>10, Zenon DEF HookFail
  <2> QED
    BY <2>1, <2>2 DEF LedgerNext
<1>11. ASSUME NEW o \in PredIds, Advance(o) PROVE UNCHANGED ledgerVars
  BY <1>11 DEF Advance
<1>12. ASSUME NEW p \in Procs,
              Get(p) \/ Submit(p) \/ Wait(p) \/ Poll(p) \/ MakeArtifact(p) \/ Expire(p) \/ Die(p)
       PROVE  UNCHANGED ledgerVars
  BY <1>12 DEF Get, Submit, Wait, Poll, MakeArtifact, Expire, Die
<1>13. ASSUME NEW h \in Hooks, NEW o \in PredIds, NEW s \in PredictionStatus, HookGet(h, o, s)
       PROVE  UNCHANGED ledgerVars
  BY <1>13 DEF HookGet
<1> QED
  BY <1>1, <1>2, <1>3, <1>4, <1>5, <1>6, <1>7, <1>8, <1>9, <1>10, <1>11, <1>12, <1>13
  DEF VideoNext, CallStep

-------------------------------------------------------------------------------
(* Types                                                                   *)

\* The invariant at the start.
LEMMA VideoInvInit == VideoInit => VideoTypeOK /\ VideoInv /\ ReleasedWasNotSubmitted
<1> SUFFICES ASSUME VideoInit PROVE VideoTypeOK /\ VideoInv /\ ReleasedWasNotSubmitted
  OBVIOUS
<1> USE VideoAssumption DEF VideoInit, LedgerInit
<1>1. VideoTypeOK
  BY DEF VideoTypeOK, CallStates
<1>2. KeysAreKnown /\ OneSubmitter /\ PredictionsAreKnown /\ SubmittedOnce
  BY DEF KeysAreKnown, OneSubmitter, PredictionsAreKnown, SubmittedOnce
<1>3. PredictionsWereSent /\ ReleasedWasNotSubmitted
  BY DEF PredictionsWereSent, Unpredicted, ReleasedWasNotSubmitted
<1>4. LedgerFollowsProvider
  BY DEF LedgerFollowsProvider, PredictionStatus, TerminalPrediction
<1> QED
  BY <1>1, <1>2, <1>3, <1>4 DEF VideoInv

\* The variables of the calls, the requests and the provider keep their types.
LEMMA VideoTypeStep ==
  ASSUME VideoTypeOK, LedgerTypeOK, VideoInv, [VideoNext]_videoVars
  PROVE  VideoTypeOK'
<1> USE DEF VideoTypeOK, CallStates, End, Goto
<1>1. CASE UNCHANGED <<callVars, hookVars, provVars>>
  BY <1>1 DEF callVars, hookVars, provVars
<1>2. ASSUME NEW o \in PredIds, Advance(o) PROVE VideoTypeOK'
  BY <1>2 DEF Advance, callVars, hookVars, PredictionStatus, TerminalPrediction
<1>3. ASSUME NEW p \in Procs, NEW k \in Keys, Start(p, k) PROVE VideoTypeOK'
  <2>1. /\ UNCHANGED <<seen, hookVars, provVars>>
        /\ pc' = pc \/ \E s \in {"submit", "get", "wait", "poll"} : pc' = [pc EXCEPT ![p] = s]
        /\ key' = key \/ key' = [key EXCEPT ![p] = k]
        /\ pid' = pid \/ pid' = [pid EXCEPT ![p] = op[k]]
    BY <1>3 DEF Start, Resume
  <2> QED
    BY <2>1 DEF LedgerTypeOK, hookVars, provVars
<1>4. ASSUME NEW p \in Procs, Get(p) \/ Wait(p) PROVE VideoTypeOK'
  <2>1. key[p] \in Keys /\ op[key[p]] \in PredIds \cup {None}
    BY <1>4 DEF Get, Wait, VideoInv, KeysAreKnown, LedgerTypeOK
  <2> QED
    BY <1>4, <2>1 DEF Get, Wait, Resume, hookVars, provVars
<1>5. ASSUME NEW p \in Procs, Submit(p) PROVE VideoTypeOK'
  <2>1. key[p] \in Keys
    BY <1>5 DEF Submit, VideoInv, KeysAreKnown
  <2>2. UNCHANGED <<hookVars>>
    BY <1>5 DEF Submit
  <2>3. /\ sends' = sends \/ sends' = [sends EXCEPT ![key[p]] = @ + 1]
        /\ \/ prov' = prov /\ predKey' = predKey
           \/ \E o \in PredIds : /\ prov' = [prov EXCEPT ![o] = "starting"]
                                 /\ predKey' = [predKey EXCEPT ![o] = key[p]]
    BY <1>5 DEF Submit, CreatePrediction, provVars
  <2>4. /\ \E s \in CallStates : pc' = [pc EXCEPT ![p] = s]
        /\ key' = key \/ key' = [key EXCEPT ![p] = None]
        /\ \E o \in PredIds \cup {None} : pid' = pid \/ pid' = [pid EXCEPT ![p] = o]
        /\ seen' = seen \/ seen' = [seen EXCEPT ![p] = None]
    BY <1>5 DEF Submit
  <2> QED
    BY <2>1, <2>2, <2>3, <2>4 DEF hookVars, PredictionStatus
<1>6. ASSUME NEW p \in Procs, Refused(p) \/ Unclear(p) \/ BindOwn(p) PROVE VideoTypeOK'
  BY <1>6 DEF Refused, Unclear, BindOwn, hookVars, provVars
<1>7. ASSUME NEW p \in Procs, Lost(p) \/ ProviderFailed(p) \/ MakeArtifact(p) \/ Store(p) \/ Die(p)
      PROVE  VideoTypeOK'
  <2>1. UNCHANGED <<hookVars, provVars>>
    BY <1>7 DEF Lost, ProviderFailed, MakeArtifact, Store, Die
  <2>2. ASSUME NEW r, End(p, r) PROVE VideoTypeOK'
    BY <2>1, <2>2 DEF hookVars, provVars
  <2>3. CASE MakeArtifact(p)
    BY <2>3 DEF MakeArtifact, hookVars, provVars
  <2> QED
    BY <1>7, <2>2, <2>3, Zenon DEF Lost, ProviderFailed, Store, Die
<1>8. ASSUME NEW p \in Procs, Poll(p) \/ Expire(p) PROVE VideoTypeOK'
  <2>1. pid[p] \in PredIds /\ key[p] \in Keys /\ predKey[pid[p]] # None
    BY <1>8, VideoAssumption, LedgerAssumption
    DEF Poll, Expire, VideoInv, PredictionsAreKnown, KeysAreKnown, LedgerFollowsProvider
  <2>2. prov[pid[p]] \in PredictionStatus
    BY <2>1 DEF VideoInv, PredictionsWereSent
  <2> QED
    BY <1>8, <2>1, <2>2
    DEF Poll, Expire, hookVars, provVars, PredictionStatus, TerminalPrediction
<1>9. ASSUME NEW p \in Procs, Polled(p) \/ Canceled(p) PROVE VideoTypeOK'
  BY <1>9 DEF Polled, Canceled, After, hookVars, provVars
<1>10. ASSUME NEW h \in Hooks, NEW o \in PredIds, NEW s \in PredictionStatus, HookGet(h, o, s)
       PROVE  VideoTypeOK'
  BY <1>10 DEF HookGet, callVars, provVars
<1>11. ASSUME NEW h \in Hooks, HookApply(h) \/ HookFail(h) PROVE VideoTypeOK'
  BY <1>11 DEF HookApply, HookNext, HookFail, HookEnd, callVars, provVars
<1> HIDE DEF VideoTypeOK
<1> QED
  BY <1>1, <1>2, <1>3, <1>4, <1>5, <1>6, <1>7, <1>8, <1>9, <1>10, <1>11
  DEF VideoNext, CallStep, videoVars

-------------------------------------------------------------------------------
(* The invariant                                                           *)

\* What no step takes back: a row, a bound operation, the owner and the end of a
\* prediction.
Grows ==
  /\ \A k \in Keys : /\ est[k] # "none" => est'[k] # "none"
                     /\ op[k] # None => op'[k] = op[k]
  /\ \A o \in PredIds : /\ predKey[o] # None => predKey'[o] = predKey[o]
                        /\ prov[o] \in TerminalPrediction => prov'[o] = prov[o]

\* The ledger neither deletes a row nor rebinds an operation.
LEMMA LedgerGrows ==
  ASSUME LedgerTypeOK, [LedgerNext]_ledgerVars, NEW k \in Keys
  PROVE  (est[k] # "none" => est'[k] # "none") /\ (op[k] # None => op'[k] = op[k])
<1> USE DEF LedgerTypeOK
<1>1. CASE UNCHANGED ledgerVars
  BY <1>1 DEF ledgerVars
<1>2. ASSUME NEW n \in Limits, SetQuota(n) PROVE UNCHANGED <<est, op>>
  BY <1>2 DEF SetQuota
<1>3. ASSUME NEW l \in Keys, NEW out \in Outcomes,
             Reserve(l, out) \/ MarkSucceeded(l, out) \/ MarkReconciled(l, out)
      PROVE  op' = op /\ (est' = est \/ \E s \in EffectStatus \ {"none"} : est' = [est EXCEPT ![l] = s])
  BY <1>3 DEF Reserve, MarkSucceeded, MarkReconciled, ledgerVars, EffectStatus
<1>4. ASSUME NEW l \in Keys, NEW out \in Outcomes, NEW release \in BOOLEAN,
             MarkFailed(l, release, out)
      PROVE  op' = op /\ (est' = est \/ est' = [est EXCEPT ![l] = "failed"])
  BY <1>4 DEF MarkFailed, ledgerVars
<1>5. ASSUME NEW l \in Keys, NEW out \in Outcomes, NEW o \in PredIds, NEW s \in PredictionStatus,
             Bind(l, o, s, out)
      PROVE  (est[k] # "none" => est'[k] # "none") /\ (op[k] # None => op'[k] = op[k])
  BY <1>5 DEF Bind, Clashes, Reopened, ledgerVars
<1>6. ASSUME NEW l \in Keys, MarkUncertain(l)
      PROVE  op' = op /\ (est[k] # "none" => est'[k] # "none")
  BY <1>6 DEF MarkUncertain
<1>7. ASSUME NEW l \in Keys, NEW s \in PredictionStatus, UpdateStatus(l, s)
      PROVE  UNCHANGED <<est, op>>
  BY <1>7 DEF UpdateStatus
<1> QED
  BY <1>1, <1>2, <1>3, <1>4, <1>5, <1>6, <1>7 DEF LedgerNext, EffectStatus

\* The provider gives an id to one key, and a prediction ends once.
LEMMA ProviderGrows ==
  ASSUME VideoTypeOK, VideoInv, [VideoNext]_videoVars, NEW o \in PredIds
  PROVE  /\ predKey[o] # None => predKey'[o] = predKey[o]
         /\ prov[o] \in TerminalPrediction => prov'[o] = prov[o]
<1> USE DEF VideoTypeOK
<1>1. CASE UNCHANGED provVars
  BY <1>1 DEF provVars
<1>2. ASSUME NEW x \in PredIds, Advance(x)
      PROVE  predKey' = predKey /\ (prov[o] \in TerminalPrediction => prov'[o] = prov[o])
  BY <1>2 DEF Advance, TerminalPrediction
<1>3. ASSUME NEW p \in Procs, Expire(p)
      PROVE  predKey' = predKey /\ (prov[o] \in TerminalPrediction => prov'[o] = prov[o])
  BY <1>3 DEF Expire, Goto
<1>4. ASSUME NEW p \in Procs, NEW x \in PredIds, CreatePrediction(key[p], x)
      PROVE  /\ predKey[o] # None => predKey'[o] = predKey[o]
             /\ prov[o] \in TerminalPrediction => prov'[o] = prov[o]
  BY <1>4 DEF CreatePrediction, TerminalPrediction, VideoInv, PredictionsWereSent
<1>5. ASSUME NEW p \in Procs, Submit(p)
      PROVE  UNCHANGED <<prov, predKey>> \/ \E x \in PredIds : CreatePrediction(key[p], x)
  BY <1>5 DEF Submit, provVars
<1>6. CASE UNCHANGED <<prov, predKey>>
  BY <1>6
<1> QED
  <2>1. \/ UNCHANGED provVars
        \/ \E x \in PredIds : Advance(x)
        \/ \E p \in Procs : Expire(p) \/ Submit(p)
    BY DEF VideoNext, CallStep, videoVars, Start, Get, Refused, Unclear, BindOwn, Wait, Poll, Lost,
       Polled, Canceled, ProviderFailed, MakeArtifact, Store, Die, HookGet, HookApply, HookFail
  <2> QED
    BY <1>1, <1>2, <1>3, <1>4, <1>5, <1>6, <2>1

\* The invariant as seen by one call, by one webhook request, and by nobody.
CallFacts(p) ==
  /\ pc[p] # "idle" => key[p] \in Keys /\ est[key[p]] # "none"
  /\ pc[p] = "submit" => sends[key[p]] = 0
  /\ pc[p] = "refused" => sends[key[p]] = 1 /\ Unpredicted(key[p])
  /\ pc[p] = "bind" => pid[p] \in PredIds /\ predKey[pid[p]] = key[p]
  /\ pc[p] \in {"poll", "polled", "canceled", "artifact", "store"} =>
       pid[p] \in PredIds /\ op[key[p]] = pid[p]
  /\ pc[p] \in {"polled", "canceled"} => Reported(pid[p], seen[p])
  /\ pc[p] \in {"artifact", "store"} => prov[pid[p]] = "succeeded"

HookFacts(h) ==
  hpc[h] # "idle" =>
    /\ hkey[h] \in Keys /\ est[hkey[h]] # "none"
    /\ hpid[h] \in PredIds /\ predKey[hpid[h]] = hkey[h]
    /\ Reported(hpid[h], hst[h])
    /\ hpc[h] = "update" => op[hkey[h]] = hpid[h]

SharedFacts ==
  /\ \A p, q \in Procs : pc[p] = "submit" /\ pc[q] = "submit" /\ key[p] = key[q] => p = q
  /\ \A k \in Keys : est[k] = "none" => sends[k] = 0
  /\ \A o \in PredIds : prov[o] = "none" <=> predKey[o] = None
  /\ \A k \in Keys : sends[k] = 0 => Unpredicted(k)
  /\ \A k \in released : sends[k] = 1 /\ Unpredicted(k)
  /\ SubmittedOnce
  /\ LedgerFollowsProvider

\* The invariant, read per caller and per webhook.
LEMMA FactsAreInv ==
  LET Facts == (\A p \in Procs : CallFacts(p)) /\ (\A h \in Hooks : HookFacts(h)) /\ SharedFacts
  IN (VideoInv <=> Facts) /\ (VideoInv' <=> Facts')
BY DEF VideoInv, CallFacts, HookFacts, SharedFacts, KeysAreKnown, OneSubmitter,
   PredictionsWereSent, PredictionsAreKnown

\* A call that does not move keeps its facts, if nobody submits its key.
LEMMA CallStays ==
  ASSUME VideoTypeOK, NEW q \in Procs, CallFacts(q), Grows,
         pc'[q] = pc[q], key'[q] = key[q], pid'[q] = pid[q], seen'[q] = seen[q],
         pc[q] \in {"submit", "refused"} =>
           sends'[key[q]] = sends[key[q]] /\ (Unpredicted(key[q]) => Unpredicted(key[q])')
  PROVE  CallFacts(q)'
BY LedgerAssumption, VideoAssumption
DEF CallFacts, Grows, VideoTypeOK, Reported, TerminalPrediction

\* A webhook request that does not move keeps its facts.
LEMMA HookStays ==
  ASSUME VideoTypeOK, NEW g \in Hooks, HookFacts(g), Grows,
         hpc'[g] = hpc[g], hkey'[g] = hkey[g], hpid'[g] = hpid[g], hst'[g] = hst[g]
  PROVE  HookFacts(g)'
BY LedgerAssumption, VideoAssumption
DEF HookFacts, Grows, VideoTypeOK, Reported, TerminalPrediction

\* A change of the ledger that the provider bears out.
TrueChange ==
  /\ \A k \in Keys :
       /\ op'[k] = op[k] \/ (op'[k] \in PredIds /\ predKey[op'[k]] = k)
       /\ \/ pst'[k] = pst[k]
          \/ pst'[k] \notin TerminalPrediction
          \/ op'[k] \in PredIds /\ prov[op'[k]] = pst'[k]
       /\ \/ est'[k] = est[k]
          \/ est'[k] # "succeeded"
          \/ op'[k] \in PredIds /\ prov[op'[k]] = "succeeded"
  /\ \A k \in released' : k \in released \/ (sends[k] = 1 /\ Unpredicted(k))

\* Such a change, with the provider left alone and no new submitter, keeps what is shared.
LEMMA SharedStays ==
  ASSUME SharedFacts, Grows, TrueChange, UNCHANGED provVars,
         \A q \in Procs : pc'[q] = "submit" => pc[q] = "submit" /\ key'[q] = key[q]
  PROVE  SharedFacts'
<1> USE DEF provVars
<1>1. LedgerFollowsProvider'
  BY LedgerAssumption DEF SharedFacts, LedgerFollowsProvider, Grows, TrueChange
<1>2. \A k \in released' : sends'[k] = 1 /\ Unpredicted(k)'
  BY DEF SharedFacts, TrueChange, Unpredicted
<1> QED
  BY <1>1, <1>2 DEF SharedFacts, Grows, SubmittedOnce, Unpredicted

\* The calls other than p stand still, and so do the requests.
OthersStay(p) ==
  /\ \A q \in Procs \ {p} :
       pc'[q] = pc[q] /\ key'[q] = key[q] /\ pid'[q] = pid[q] /\ seen'[q] = seen[q]
  /\ UNCHANGED <<hookVars, provVars>>

\* A step of a call that makes a true change and leaves the call with its facts.
LEMMA CallMoves ==
  ASSUME VideoTypeOK, VideoInv, Grows, NEW p \in Procs, OthersStay(p), TrueChange,
         pc'[p] # "submit", CallFacts(p)'
  PROVE  VideoInv'
<1>1. \A q \in Procs : CallFacts(q) /\ (q # p => CallFacts(q)')
  BY CallStays, FactsAreInv DEF OthersStay, provVars, Unpredicted
<1>2. \A h \in Hooks : HookFacts(h)'
  BY HookStays, FactsAreInv DEF OthersStay, hookVars
<1>3. SharedFacts'
  BY SharedStays, FactsAreInv DEF OthersStay
<1> QED
  BY <1>1, <1>2, <1>3, FactsAreInv

\* A call that ends after a true change.
LEMMA EndKeepsInv ==
  ASSUME VideoTypeOK, VideoInv, Grows, TrueChange, NEW p \in Procs, NEW r, End(p, r),
         UNCHANGED <<hookVars, provVars>>
  PROVE  VideoInv'
<1>1. OthersStay(p) /\ pc'[p] = "idle"
  BY DEF End, OthersStay, VideoTypeOK
<1> QED
  BY <1>1, CallMoves DEF CallFacts

\* An unchanged ledger is a true change of it.
LEMMA NothingChanged == UNCHANGED ledgerVars => TrueChange
BY DEF ledgerVars, TrueChange

\* A call that finds an operation bound to its key, or none.
LEMMA ResumeKeepsInv ==
  ASSUME VideoTypeOK, LedgerTypeOK, VideoInv, Grows, NEW p \in Procs, NEW k \in Keys,
         Resume(p, k), est[k] # "none", key'[p] = k,
         \A q \in Procs \ {p} : key'[q] = key[q],
         UNCHANGED <<ledgerVars, seen, hookVars, provVars>>
  PROVE  VideoInv'
<1>1. /\ OthersStay(p)
      /\ pid'[p] = op[k] /\ pc'[p] = IF op[k] = None THEN "wait" ELSE "poll"
  BY DEF Resume, OthersStay, VideoTypeOK
<1>2. CallFacts(p)'
  BY <1>1 DEF CallFacts, LedgerTypeOK, ledgerVars
<1>3. pc'[p] # "submit"
  BY <1>1
<1> QED
  BY <1>1, <1>2, <1>3, CallMoves, NothingChanged

\* reserve: the call that creates the row will submit, and is the only one.
LEMMA StartKeepsInv ==
  ASSUME VideoTypeOK, LedgerTypeOK, VideoInv, Grows, NEW p \in Procs, NEW k \in Keys, Start(p, k)
  PROVE  VideoInv'
<1>1. PICK out \in Outcomes :
        /\ Reserve(k, out)
        /\ \/ /\ out \in {"succeeded", "QuotaExceededError"}
              /\ UNCHANGED <<pc, key, pid>>
           \/ /\ out \notin {"succeeded", "QuotaExceededError"}
              /\ key' = [key EXCEPT ![p] = k]
              /\ IF MaySubmit(out) \/ out = "UncertainEffectError"
                 THEN /\ pc' = [pc EXCEPT ![p] = IF MaySubmit(out) THEN "submit" ELSE "get"]
                      /\ UNCHANGED pid
                 ELSE Resume(p, k)
  BY DEF Start
<1>2. UNCHANGED <<seen, hookVars, provVars>> /\ pc[p] = "idle"
  BY DEF Start
<1>3. CASE out = "created"
  <2>1. /\ est[k] = "none" /\ est' = [est EXCEPT ![k] = "reserved"]
        /\ UNCHANGED <<op, pst, released>>
    BY <1>1, <1>3 DEF Reserve
  <2>2. pc' = [pc EXCEPT ![p] = "submit"] /\ key' = [key EXCEPT ![p] = k] /\ pid' = pid
    BY <1>1, <1>3 DEF MaySubmit
  <2>3. OthersStay(p) /\ pc'[p] = "submit" /\ key'[p] = k
    BY <1>2, <2>2 DEF OthersStay, VideoTypeOK
  <2>4. sends[k] = 0 /\ \A q \in Procs : pc[q] # "idle" => key[q] # k
    BY <2>1 DEF VideoInv, OneSubmitter, KeysAreKnown
  <2>5. \A q \in Procs : CallFacts(q) /\ (q # p => CallFacts(q)')
    BY <2>3, CallStays, FactsAreInv DEF OthersStay, provVars, Unpredicted
  <2>6. CallFacts(p)'
    BY <1>2, <2>1, <2>3, <2>4 DEF CallFacts, LedgerTypeOK, provVars
  <2>7. \A h \in Hooks : HookFacts(h)'
    BY <2>3, HookStays, FactsAreInv DEF OthersStay, hookVars
  <2>8. SharedFacts'
    <3>1. SharedFacts
      BY FactsAreInv
    <3>2. \A q, w \in Procs : pc'[q] = "submit" /\ pc'[w] = "submit" /\ key'[q] = key'[w] => q = w
      BY <2>3, <2>4, <3>1 DEF SharedFacts, OthersStay
    <3>3. LedgerFollowsProvider'
      BY <1>2, <2>1, <3>1 DEF SharedFacts, LedgerFollowsProvider, LedgerTypeOK, provVars
    <3> QED
      BY <1>2, <2>1, <3>1, <3>2, <3>3
      DEF SharedFacts, LedgerTypeOK, provVars, SubmittedOnce, Unpredicted
  <2> QED
    BY <2>5, <2>6, <2>7, <2>8, FactsAreInv
<1>4. CASE out # "created"
  <2>1. UNCHANGED ledgerVars /\ (out # "QuotaExceededError" => est[k] # "none")
    BY <1>1, <1>4 DEF Reserve
  <2>2. CASE UNCHANGED <<pc, key, pid>>
    <3>1. OthersStay(p) /\ pc'[p] = "idle"
      BY <1>2, <2>2 DEF OthersStay
    <3> QED
      BY <2>1, <3>1, CallMoves, NothingChanged DEF CallFacts
  <2>3. CASE out = "UncertainEffectError"
    <3>1. OthersStay(p) /\ pc'[p] = "get" /\ key'[p] = k
      BY <1>1, <1>2, <2>3 DEF OthersStay, VideoTypeOK, MaySubmit
    <3>2. CallFacts(p)'
      BY <2>1, <2>3, <3>1 DEF CallFacts, ledgerVars
    <3> QED
      BY <2>1, <3>1, <3>2, CallMoves, NothingChanged
  <2>4. CASE Resume(p, k) /\ key' = [key EXCEPT ![p] = k] /\ out # "QuotaExceededError"
    <3>1. key'[p] = k /\ \A q \in Procs \ {p} : key'[q] = key[q]
      BY <2>4 DEF VideoTypeOK
    <3> QED
      BY <1>2, <2>1, <2>4, <3>1, ResumeKeepsInv
  <2> QED
    BY <1>1, <1>4, <2>2, <2>3, <2>4 DEF MaySubmit
<1> QED
  BY <1>3, <1>4

\* submit_fn: the first submission of its key, and the only one there will be.
LEMMA SubmitKeepsInv ==
  ASSUME VideoTypeOK, LedgerTypeOK, VideoInv, Grows, NEW p \in Procs, Submit(p)
  PROVE  VideoInv'
<1> DEFINE k == key[p]
<1>1. CASE End(p, "RuntimeError") /\ UNCHANGED provVars
  BY <1>1, EndKeepsInv, NothingChanged DEF Submit
<1>2. CASE ~(End(p, "RuntimeError") /\ UNCHANGED provVars)
  <2>1. /\ UNCHANGED <<ledgerVars, hookVars, key, seen>>
        /\ sends' = [sends EXCEPT ![k] = @ + 1]
        /\ \/ /\ UNCHANGED <<prov, predKey>>
              /\ pc' = [pc EXCEPT ![p] = "refused"] \/ pc' = [pc EXCEPT ![p] = "unclear"]
              /\ pid' = pid
           \/ \E o \in PredIds :
                /\ CreatePrediction(k, o)
                /\ \/ pc' = [pc EXCEPT ![p] = "bind"] /\ pid' = [pid EXCEPT ![p] = o]
                   \/ pc' = [pc EXCEPT ![p] = "unclear"] /\ pid' = pid
    BY <1>2 DEF Submit, Goto
  <2>2. /\ k \in Keys /\ est[k] # "none" /\ sends[k] = 0 /\ Unpredicted(k)
        /\ \A q \in Procs : pc[q] = "submit" /\ key[q] = k => q = p
        /\ \A q \in Procs : pc[q] = "refused" => key[q] # k
        /\ \A l \in released : l # k
    BY DEF Submit, VideoInv, KeysAreKnown, OneSubmitter, PredictionsWereSent
  <2>3. \A q \in Procs \ {p} :
          pc'[q] = pc[q] /\ key'[q] = key[q] /\ pid'[q] = pid[q] /\ seen'[q] = seen[q]
    BY <2>1 DEF VideoTypeOK
  <2>4. \A l \in Keys \ {k} : sends'[l] = sends[l] /\ (Unpredicted(l) => Unpredicted(l)')
    BY <2>1, <2>2 DEF VideoTypeOK, Unpredicted, CreatePrediction
  <2>5. \A q \in Procs : CallFacts(q)
    BY FactsAreInv
  <2>6. \A q \in Procs \ {p} : CallFacts(q)'
    <3> TAKE q \in Procs \ {p}
    <3>1. pc[q] \in {"submit", "refused"} => key[q] \in Keys \ {k}
      BY <2>2, <2>5 DEF CallFacts
    <3> QED
      BY <2>3, <2>4, <2>5, <3>1, CallStays
  <2>7. CallFacts(p)'
    <3>1. key'[p] = k /\ sends'[k] = 1 /\ est'[k] # "none"
      BY <2>1, <2>2 DEF VideoTypeOK, ledgerVars
    <3>2. CASE UNCHANGED <<prov, predKey>> /\ pc'[p] \in {"refused", "unclear"}
      BY <2>2, <3>1, <3>2 DEF CallFacts, Unpredicted
    <3>3. CASE pc'[p] = "unclear"
      BY <2>2, <3>1, <3>3 DEF CallFacts
    <3>4. CASE \E o \in PredIds : pc'[p] = "bind" /\ pid'[p] = o /\ predKey'[o] = k
      BY <2>2, <3>1, <3>4 DEF CallFacts
    <3> QED
      BY <2>1, <3>2, <3>3, <3>4 DEF VideoTypeOK, CreatePrediction
  <2>8. \A h \in Hooks : HookFacts(h)'
    BY <2>1, HookStays, FactsAreInv DEF hookVars
  <2>9. SharedFacts'
    <3>1. SharedFacts
      BY FactsAreInv
    <3>2. \A q, w \in Procs : pc'[q] = "submit" /\ pc'[w] = "submit" /\ key'[q] = key'[w] => q = w
      BY <2>1, <3>1 DEF SharedFacts, VideoTypeOK
    <3>3. \A l \in Keys : est'[l] = "none" => sends'[l] = 0
      BY <2>1, <2>2, <2>4, <3>1 DEF SharedFacts, ledgerVars
    <3>4. \A o \in PredIds : prov'[o] = "none" <=> predKey'[o] = None
      BY <2>1, <2>2, <3>1, VideoAssumption DEF SharedFacts, CreatePrediction, VideoTypeOK
    <3>5. \A l \in Keys : sends'[l] = 0 => Unpredicted(l)'
      BY <2>1, <2>2, <2>4, <3>1 DEF SharedFacts, VideoTypeOK
    <3>6. \A l \in released' : sends'[l] = 1 /\ Unpredicted(l)'
      BY <2>1, <2>2, <2>4, <3>1 DEF SharedFacts, LedgerTypeOK, ledgerVars
    <3>7. SubmittedOnce'
      BY <2>1, <2>2, <2>4, <3>1 DEF SharedFacts, SubmittedOnce, VideoTypeOK
    <3>8. LedgerFollowsProvider'
      <4>1. \A l \in Keys : op[l] # None => prov'[op[l]] = prov[op[l]] /\ predKey'[op[l]] = predKey[op[l]]
        <5> SUFFICES ASSUME NEW l \in Keys, op[l] # None
                     PROVE  prov'[op[l]] = prov[op[l]] /\ predKey'[op[l]] = predKey[op[l]]
          OBVIOUS
        <5>1. op[l] \in PredIds /\ predKey[op[l]] # None
          BY <3>1, VideoAssumption DEF SharedFacts, LedgerFollowsProvider, LedgerTypeOK
        <5>2. prov[op[l]] # "none"
          BY <3>1, <5>1 DEF SharedFacts
        <5> QED
          BY <2>1, <5>1, <5>2 DEF CreatePrediction, VideoTypeOK
      <4> QED
        BY <2>1, <3>1, <4>1 DEF SharedFacts, LedgerFollowsProvider, ledgerVars
    <3> QED
      BY <3>2, <3>3, <3>4, <3>5, <3>6, <3>7, <3>8 DEF SharedFacts
  <2> QED
    BY <2>6, <2>7, <2>8, <2>9, FactsAreInv
<1> QED
  BY <1>1, <1>2

\* The provider moves a prediction on, or is asked to cancel it, and nobody else moves.
LEMMA ProviderMoves ==
  ASSUME VideoTypeOK, LedgerTypeOK, VideoInv, Grows, NEW x \in PredIds,
         NEW s \in PredictionStatus, prov[x] # "none", prov[x] \notin TerminalPrediction,
         prov' = [prov EXCEPT ![x] = s], UNCHANGED <<ledgerVars, sends, predKey>>,
         \A q \in Procs : pc'[q] = "submit" => pc[q] = "submit" /\ key'[q] = key[q]
  PROVE  SharedFacts'
<1>1. SharedFacts
  BY FactsAreInv
<1>2. \A o \in PredIds : (prov'[o] = "none" <=> prov[o] = "none")
                         /\ (prov[o] \in TerminalPrediction => prov'[o] = prov[o])
  BY DEF VideoTypeOK, PredictionStatus, TerminalPrediction
<1>3. LedgerFollowsProvider'
  BY <1>1, <1>2 DEF SharedFacts, LedgerFollowsProvider, LedgerTypeOK, ledgerVars, TerminalPrediction
<1> QED
  BY <1>1, <1>2, <1>3 DEF SharedFacts, ledgerVars, SubmittedOnce, Unpredicted

\* The methods of the ledger make true changes when they are called with the truth.
LEMMA TrueMethods ==
  ASSUME LedgerTypeOK, NEW k \in Keys, NEW o \in PredIds, NEW s, NEW out, Reported(o, s)
  PROVE  /\ MarkUncertain(k) => TrueChange
         /\ MarkFailed(k, FALSE, out) => TrueChange
         /\ MarkFailed(k, TRUE, out) /\ sends[k] = 1 /\ Unpredicted(k) => TrueChange
         /\ Bind(k, o, s, out) /\ predKey[o] = k => TrueChange
         /\ UpdateStatus(k, s) /\ op[k] = o => TrueChange
         /\ MarkSucceeded(k, out) /\ op[k] = o /\ prov[o] = "succeeded" => TrueChange
<1> USE DEF LedgerTypeOK, ledgerVars, TrueChange
<1>1. MarkUncertain(k) => TrueChange
  BY DEF MarkUncertain
<1>2. MarkFailed(k, FALSE, out) => TrueChange
  BY DEF MarkFailed
<1>3. MarkFailed(k, TRUE, out) /\ sends[k] = 1 /\ Unpredicted(k) => TrueChange
  BY DEF MarkFailed
<1>4. Bind(k, o, s, out) /\ predKey[o] = k => TrueChange
  BY DEF Bind, MergeStatus, Reopened, Reported
<1>5. UpdateStatus(k, s) /\ op[k] = o => TrueChange
  BY DEF UpdateStatus, MergeStatus, Reported
<1>6. MarkSucceeded(k, out) /\ op[k] = o /\ prov[o] = "succeeded" => TrueChange
  BY DEF MarkSucceeded
<1> QED
  BY <1>1, <1>2, <1>3, <1>4, <1>5, <1>6

\* A call that goes on, after a true change.
LEMMA GotoKeepsInv ==
  ASSUME VideoTypeOK, VideoInv, Grows, TrueChange, NEW p \in Procs, NEW next,
         pc[p] # "idle", Goto(p, next), UNCHANGED <<seen, hookVars, provVars>>,
         next \notin {"submit", "refused", "bind", "polled", "canceled"},
         next \in {"poll", "artifact", "store"} => pid[p] \in PredIds /\ op'[key[p]] = pid[p],
         next \in {"artifact", "store"} => prov[pid[p]] = "succeeded"
  PROVE  VideoInv'
<1>1. OthersStay(p) /\ pc'[p] = next /\ key'[p] = key[p] /\ pid'[p] = pid[p] /\ prov' = prov
  BY DEF Goto, OthersStay, VideoTypeOK, provVars
<1>2. CallFacts(p)
  BY FactsAreInv
<1>3. CallFacts(p)'
  BY <1>1, <1>2 DEF CallFacts, Grows
<1> QED
  BY <1>1, <1>3, CallMoves

\* What a prediction of a polling call is.
LEMMA PolledPrediction ==
  ASSUME VideoTypeOK, VideoInv, NEW p \in Procs,
         pc[p] \in {"poll", "polled", "canceled", "artifact", "store"}
  PROVE  /\ key[p] \in Keys /\ pid[p] \in PredIds /\ op[key[p]] = pid[p]
         /\ prov[pid[p]] \in PredictionStatus
<1>1. key[p] \in Keys /\ pid[p] \in PredIds /\ op[key[p]] = pid[p]
  BY DEF VideoInv, KeysAreKnown, PredictionsAreKnown
<1>2. predKey[pid[p]] # None
  BY <1>1, LedgerAssumption, VideoAssumption DEF VideoInv, LedgerFollowsProvider
<1> QED
  BY <1>1, <1>2 DEF VideoInv, PredictionsWereSent, VideoTypeOK

\* A poll, or the answer to a cancellation.
LEMMA PollKeepsInv ==
  ASSUME VideoTypeOK, LedgerTypeOK, VideoInv, Grows, NEW p \in Procs, Poll(p) \/ Expire(p)
  PROVE  VideoInv'
<1>1. /\ pc[p] = "poll" /\ key[p] \in Keys /\ pid[p] \in PredIds /\ op[key[p]] = pid[p]
      /\ prov[pid[p]] \in PredictionStatus /\ est[key[p]] # "none"
  BY PolledPrediction DEF Poll, Expire, VideoInv, KeysAreKnown
<1>2. UNCHANGED <<ledgerVars, hookVars, key, pid, sends, predKey>>
  BY DEF Poll, Expire, Goto, provVars
<1>3. CASE Goto(p, "lost") /\ UNCHANGED <<seen, prov>>
  BY <1>1, <1>2, <1>3, GotoKeepsInv, NothingChanged DEF provVars
<1>4. CASE \E next \in {"polled", "canceled"} :
             pc' = [pc EXCEPT ![p] = next] /\ seen' = [seen EXCEPT ![p] = prov[pid[p]]]
             /\ UNCHANGED prov
  <2>1. OthersStay(p) /\ pc'[p] \in {"polled", "canceled"} /\ seen'[p] = prov[pid[p]]
    BY <1>2, <1>4 DEF OthersStay, VideoTypeOK, provVars
  <2>2. CallFacts(p)'
    BY <1>1, <1>2, <1>4, <2>1 DEF CallFacts, Reported, ledgerVars
  <2> QED
    BY <1>2, <2>1, <2>2, CallMoves, NothingChanged
<1>5. CASE /\ prov[pid[p]] \notin TerminalPrediction
           /\ prov' = [prov EXCEPT ![pid[p]] = "canceled"]
           /\ seen' = [seen EXCEPT ![p] = "canceled"]
           /\ pc' = [pc EXCEPT ![p] = "canceled"]
  <2>1. /\ \A q \in Procs \ {p} :
             pc'[q] = pc[q] /\ key'[q] = key[q] /\ pid'[q] = pid[q] /\ seen'[q] = seen[q]
        /\ pc'[p] = "canceled" /\ seen'[p] = "canceled" /\ prov'[pid[p]] = "canceled"
    BY <1>1, <1>2, <1>5 DEF VideoTypeOK
  <2>2. \A q \in Procs : CallFacts(q) /\ (q # p => CallFacts(q)')
    BY <1>2, <2>1, CallStays, FactsAreInv DEF Unpredicted
  <2>3. CallFacts(p)'
    BY <1>1, <1>2, <2>1 DEF CallFacts, Reported, PredictionStatus, TerminalPrediction, ledgerVars
  <2>4. \A h \in Hooks : HookFacts(h)'
    BY <1>2, HookStays, FactsAreInv DEF hookVars
  <2>5. SharedFacts'
    <3>1. "canceled" \in PredictionStatus /\ prov[pid[p]] # "none"
      BY <1>1 DEF PredictionStatus, TerminalPrediction
    <3>2. \A q \in Procs : pc'[q] = "submit" => pc[q] = "submit" /\ key'[q] = key[q]
      BY <1>2, <2>1
    <3> QED
      BY <1>1, <1>2, <1>5, <3>1, <3>2, ProviderMoves
  <2> QED
    BY <2>2, <2>3, <2>4, <2>5, FactsAreInv
<1> QED
  BY <1>3, <1>4, <1>5 DEF Poll, Expire, Goto, provVars

\* Every other step of a call.
LEMMA CallKeepsInv ==
  ASSUME VideoTypeOK, LedgerTypeOK, VideoInv, Grows, NEW p \in Procs, CallStep(p) \/ Die(p)
  PROVE  VideoInv'
<1> USE DEF VideoInv, KeysAreKnown
<1>1. CASE Die(p)
  BY <1>1, EndKeepsInv, NothingChanged DEF Die
<1>2. CASE Get(p) \/ Wait(p)
  <2>1. UNCHANGED <<ledgerVars, hookVars, provVars>> /\ key[p] \in Keys /\ est[key[p]] # "none"
    BY <1>2 DEF Get, Wait
  <2>2. ASSUME NEW r, End(p, r) PROVE VideoInv'
    BY <2>1, <2>2, EndKeepsInv, NothingChanged
  <2>3. CASE Resume(p, key[p]) /\ UNCHANGED <<key, seen>>
    BY <2>1, <2>3, ResumeKeepsInv
  <2> QED
    BY <1>2, <2>2, <2>3 DEF Get, Wait
<1>3. CASE Refused(p)
  <2>1. key[p] \in Keys /\ sends[key[p]] = 1 /\ Unpredicted(key[p])
    BY <1>3 DEF Refused, PredictionsWereSent
  <2>2. \E out, r : MarkFailed(key[p], TRUE, out) /\ End(p, r)
    BY <1>3, Zenon DEF Refused
  <2>3. TrueChange
    BY <2>1, <2>2 DEF MarkFailed, TrueChange, ledgerVars, LedgerTypeOK
  <2> QED
    BY <1>3, <2>2, <2>3, EndKeepsInv DEF Refused
<1>4. CASE Unclear(p) \/ Lost(p)
  <2>1. key[p] \in Keys /\ TrueChange
    BY <1>4 DEF Unclear, Lost, MarkUncertain, TrueChange, LedgerTypeOK
  <2>2. CASE Unclear(p)
    BY <2>1, <2>2, GotoKeepsInv DEF Unclear
  <2>3. CASE Lost(p)
    BY <2>1, <2>3, EndKeepsInv DEF Lost
  <2> QED
    BY <1>4, <2>2, <2>3
<1>5. CASE BindOwn(p)
  <2>1. key[p] \in Keys /\ pid[p] \in PredIds /\ predKey[pid[p]] = key[p] /\ pc[p] = "bind"
    BY <1>5 DEF BindOwn, PredictionsAreKnown
  <2>2. PICK out \in Outcomes :
          /\ Bind(key[p], pid[p], "starting", out)
          /\ IF out = "ok" THEN Goto(p, "poll") /\ UNCHANGED seen ELSE End(p, out)
    BY <1>5 DEF BindOwn
  <2>3. Reported(pid[p], "starting")
    BY DEF Reported, PredictionStatus, TerminalPrediction
  <2>4. TrueChange
    BY <2>1, <2>2, <2>3, TrueMethods
  <2>5. UNCHANGED <<hookVars, provVars>>
    BY <1>5 DEF BindOwn
  <2>6. CASE out = "ok"
    <3>1. op'[key[p]] = pid[p]
      BY <2>1, <2>2, <2>6 DEF Bind, LedgerTypeOK
    <3> QED
      BY <2>1, <2>2, <2>4, <2>5, <2>6, <3>1, GotoKeepsInv
  <2>7. CASE out # "ok"
    BY <2>2, <2>4, <2>5, <2>7, EndKeepsInv
  <2> QED
    BY <2>6, <2>7
<1>6. CASE Polled(p) \/ Canceled(p)
  <2>1. /\ pc[p] \in {"polled", "canceled"} /\ UpdateStatus(key[p], seen[p])
        /\ UNCHANGED <<seen, hookVars, provVars>>
        /\ \E q \in {"poll", "lost"} : Goto(p, After(seen[p], q))
    BY <1>6 DEF Polled, Canceled
  <2>2. /\ key[p] \in Keys /\ pid[p] \in PredIds /\ op[key[p]] = pid[p]
        /\ Reported(pid[p], seen[p])
    BY <2>1 DEF PredictionsAreKnown
  <2>3. TrueChange /\ op' = op
    BY <2>1, <2>2, TrueMethods DEF UpdateStatus
  <2>4. \A q \in {"poll", "lost"} :
          /\ After(seen[p], q) \in {"poll", "lost", "provider_failed", "artifact"}
          /\ After(seen[p], q) = "artifact" => prov[pid[p]] = "succeeded"
    BY <2>2 DEF After, Reported, TerminalPrediction
  <2> QED
    BY <2>1, <2>2, <2>3, <2>4, GotoKeepsInv
<1>7. CASE ProviderFailed(p)
  <2>1. key[p] \in Keys
    BY <1>7 DEF ProviderFailed
  <2>2. \E out, r : MarkFailed(key[p], FALSE, out) /\ End(p, r)
    BY <1>7, Zenon DEF ProviderFailed
  <2>3. TrueChange
    BY <2>1, <2>2 DEF MarkFailed, TrueChange, ledgerVars, LedgerTypeOK
  <2> QED
    BY <1>7, <2>2, <2>3, EndKeepsInv DEF ProviderFailed
<1>8. CASE MakeArtifact(p)
  <2>1. /\ pc[p] = "artifact" /\ UNCHANGED <<ledgerVars, hookVars, provVars>>
        /\ pid[p] \in PredIds /\ op[key[p]] = pid[p] /\ prov[pid[p]] = "succeeded"
    BY <1>8 DEF MakeArtifact, PredictionsAreKnown
  <2>2. op' = op
    BY <2>1 DEF ledgerVars
  <2>3. CASE End(p, "StorageError")
    BY <2>1, <2>3, EndKeepsInv, NothingChanged
  <2>4. CASE (Goto(p, "store") \/ Goto(p, "provider_failed")) /\ UNCHANGED seen
    BY <2>1, <2>2, <2>4, GotoKeepsInv, NothingChanged
  <2> QED
    BY <1>8, <2>3, <2>4 DEF MakeArtifact
<1>9. CASE Store(p)
  <2>1. /\ key[p] \in Keys /\ pid[p] \in PredIds /\ op[key[p]] = pid[p]
        /\ prov[pid[p]] = "succeeded"
    BY <1>9 DEF Store, PredictionsAreKnown
  <2>2. PICK out \in Outcomes : MarkSucceeded(key[p], out) /\ \E r : End(p, r)
    BY <1>9, Zenon DEF Store
  <2>3. Reported(pid[p], "succeeded")
    BY <2>1 DEF Reported, PredictionStatus, TerminalPrediction
  <2>4. TrueChange
    BY <2>1, <2>2, <2>3, TrueMethods
  <2> QED
    BY <1>9, <2>2, <2>4, EndKeepsInv DEF Store
<1> QED
  BY <1>1, <1>2, <1>3, <1>4, <1>5, <1>6, <1>7, <1>8, <1>9, SubmitKeepsInv, PollKeepsInv DEF CallStep

\* A step of a webhook request that makes a true change and leaves it with its facts.
LEMMA HookMoves ==
  ASSUME VideoTypeOK, VideoInv, Grows, TrueChange, NEW h \in Hooks,
         \A g \in Hooks \ {h} :
           hpc'[g] = hpc[g] /\ hkey'[g] = hkey[g] /\ hpid'[g] = hpid[g] /\ hst'[g] = hst[g],
         UNCHANGED <<callVars, provVars>>, HookFacts(h)'
  PROVE  VideoInv'
<1>1. \A q \in Procs : CallFacts(q)'
  BY CallStays, FactsAreInv DEF callVars, provVars, Unpredicted
<1>2. \A g \in Hooks : HookFacts(g)'
  BY HookStays, FactsAreInv
<1>3. SharedFacts'
  BY SharedStays, FactsAreInv DEF callVars
<1> QED
  BY <1>1, <1>2, <1>3, FactsAreInv

\* The webhook: get, bind or update, and mark_failed.
LEMMA HookKeepsInv ==
  ASSUME VideoTypeOK, LedgerTypeOK, VideoInv, Grows, NEW h \in Hooks,
         \/ \E o \in PredIds, s \in PredictionStatus : HookGet(h, o, s)
         \/ HookApply(h) \/ HookFail(h)
  PROVE  VideoInv'
<1> DEFINE Others == \A g \in Hooks \ {h} :
             hpc'[g] = hpc[g] /\ hkey'[g] = hkey[g] /\ hpid'[g] = hpid[g] /\ hst'[g] = hst[g]
<1>1. ASSUME NEW o \in PredIds, NEW s \in PredictionStatus, HookGet(h, o, s) PROVE VideoInv'
  <2>1. /\ predKey[o] \in Keys /\ est[predKey[o]] # "none"
        /\ s \in TerminalPrediction => prov[o] = s
    BY <1>1 DEF HookGet, VideoInv, PredictionsWereSent, OneSubmitter, Unpredicted, VideoTypeOK,
       TerminalPrediction
  <2>2. /\ Others
        /\ hpc'[h] = IF op[predKey[o]] = None THEN "bind" ELSE "update"
        /\ hkey'[h] = predKey[o] /\ hpid'[h] = o /\ hst'[h] = s
        /\ op[predKey[o]] \in {None, o}
        /\ UNCHANGED <<ledgerVars, callVars, provVars>>
    BY <1>1 DEF HookGet, VideoTypeOK
  <2>3. HookFacts(h)'
    BY <2>1, <2>2 DEF HookFacts, Reported, ledgerVars, provVars
  <2> QED
    BY <2>2, <2>3, HookMoves, NothingChanged
<1>2. ASSUME HookEnd(h), TrueChange, UNCHANGED <<callVars, provVars>> PROVE VideoInv'
  <2>1. Others /\ hpc'[h] = "idle"
    BY <1>2 DEF HookEnd, VideoTypeOK
  <2> QED
    BY <1>2, <2>1, HookMoves DEF HookFacts
<1>3. ASSUME hpc[h] # "idle", hpc' = [hpc EXCEPT ![h] = "fail"], UNCHANGED <<hkey, hpid, hst>>,
             TrueChange, UNCHANGED <<callVars, provVars>>
      PROVE  VideoInv'
  <2>1. Others /\ hpc'[h] = "fail" /\ UNCHANGED <<hkey, hpid, hst>>
    BY <1>3 DEF VideoTypeOK
  <2>2. HookFacts(h)
    BY FactsAreInv
  <2>3. HookFacts(h)'
    BY <1>3, <2>1, <2>2 DEF HookFacts, Grows, Reported, provVars
  <2> QED
    BY <1>3, <2>1, <2>3, HookMoves
<1>4. CASE HookApply(h)
  <2>1. /\ hpc[h] # "idle" /\ hkey[h] \in Keys /\ hpid[h] \in PredIds
        /\ predKey[hpid[h]] = hkey[h] /\ Reported(hpid[h], hst[h])
        /\ hpc[h] = "update" => op[hkey[h]] = hpid[h]
    BY <1>4 DEF HookApply, VideoInv, KeysAreKnown, PredictionsAreKnown
  <2>2. /\ UNCHANGED <<callVars, provVars>>
        /\ HookNext(h) \/ HookEnd(h)
        /\ \/ \E out \in Outcomes : Bind(hkey[h], hpid[h], hst[h], out)
           \/ hpc[h] = "update" /\ UpdateStatus(hkey[h], hst[h])
    BY <1>4 DEF HookApply
  <2>3. TrueChange
    BY <2>1, <2>2, TrueMethods
  <2> QED
    BY <1>2, <1>3, <2>1, <2>2, <2>3 DEF HookNext
<1>5. CASE HookFail(h)
  <2>1. hkey[h] \in Keys /\ UNCHANGED <<callVars, provVars>> /\ HookEnd(h)
    BY <1>5 DEF HookFail, VideoInv, KeysAreKnown
  <2>2. \E out : MarkFailed(hkey[h], FALSE, out)
    BY <1>5, Zenon DEF HookFail
  <2>3. TrueChange
    BY <2>1, <2>2 DEF MarkFailed, TrueChange, ledgerVars, LedgerTypeOK
  <2> QED
    BY <1>2, <2>1, <2>3
<1> QED
  BY <1>1, <1>4, <1>5

\* Every step keeps the invariant.
LEMMA VideoInvStep ==
  ASSUME VideoTypeOK, LedgerTypeOK, VideoInv, [VideoNext]_videoVars
  PROVE  VideoInv'
<1>1. Grows
  BY VideoStepsAreLedgerSteps, LedgerGrows, ProviderGrows DEF Grows
<1>2. CASE UNCHANGED <<est, op, pst, released, callVars, hookVars, provVars>>
  BY <1>2 DEF callVars, hookVars, provVars, VideoInv, KeysAreKnown, OneSubmitter,
     PredictionsWereSent, PredictionsAreKnown, Unpredicted, Reported, SubmittedOnce,
     LedgerFollowsProvider
<1>3. ASSUME NEW n \in Limits, SetQuota(n), UNCHANGED <<callVars, hookVars, provVars>>
      PROVE  VideoInv'
  BY <1>2, <1>3 DEF SetQuota
<1>4. ASSUME NEW x \in PredIds, Advance(x) PROVE VideoInv'
  <2>1. PICK s \in {"processing", "succeeded", "failed"} :
          /\ prov[x] \in {"starting", "processing"}
          /\ prov' = [prov EXCEPT ![x] = s]
          /\ UNCHANGED <<ledgerVars, callVars, hookVars, sends, predKey>>
    BY <1>4 DEF Advance
  <2>2. \A q \in Procs : CallFacts(q)'
    BY <1>1, <2>1, CallStays, FactsAreInv DEF callVars, Unpredicted
  <2>3. \A h \in Hooks : HookFacts(h)'
    BY <1>1, <2>1, HookStays, FactsAreInv DEF hookVars
  <2>4. SharedFacts'
    <3>1. s \in PredictionStatus /\ prov[x] # "none" /\ prov[x] \notin TerminalPrediction
      BY <2>1 DEF PredictionStatus, TerminalPrediction
    <3>2. UNCHANGED <<pc, key>>
      BY <2>1 DEF callVars
    <3> QED
      BY <1>1, <2>1, <3>1, <3>2, ProviderMoves
  <2> QED
    BY <2>2, <2>3, <2>4, FactsAreInv
<1> QED
  BY <1>1, <1>2, <1>3, <1>4, StartKeepsInv, CallKeepsInv, PollKeepsInv, HookKeepsInv
  DEF VideoNext, videoVars, ledgerVars

-------------------------------------------------------------------------------
(* Theorems                                                                *)

\* The inductive invariant of the life cycle together with the ledger's.
THEOREM VideoInvariant == VideoSpec => [](VideoTypeOK /\ VideoInv /\ LedgerInv)
<1> DEFINE Inv == VideoTypeOK /\ VideoInv /\ LedgerInv
<1>1. VideoInit => Inv
  BY VideoInvInit, LedgerInvInit DEF VideoInit
<1>2. Inv /\ [VideoNext]_videoVars => Inv'
  <2> SUFFICES ASSUME Inv, [VideoNext]_videoVars PROVE Inv'
    OBVIOUS
  <2>1. LedgerInv'
    BY VideoStepsAreLedgerSteps, LedgerStep
  <2>2. VideoTypeOK' /\ VideoInv'
    BY VideoTypeStep, VideoInvStep DEF LedgerInv
  <2> QED
    BY <2>1, <2>2
<1> QED
  BY <1>1, <1>2, PTL DEF VideoSpec

\* _durable_prediction_lifecycle and the webhook implement the most general caller of the
\* ledger, so the quota stays exact and settled effects stay settled under them too.
THEOREM VideoImplementsLedger == VideoSpec => LedgerSpec
<1>1. VideoInit => LedgerInit
  BY DEF VideoInit
<1>2. VideoTypeOK /\ VideoInv /\ [VideoNext]_videoVars => [LedgerNext]_ledgerVars
  BY VideoStepsAreLedgerSteps
<1> QED
  BY <1>1, <1>2, VideoInvariant, PTL DEF VideoSpec, LedgerSpec

\* No video is submitted twice, however many calls and webhooks there are.
THEOREM SubmittedOnceHolds == VideoSpec => []SubmittedOnce
BY VideoInvariant, PTL DEF VideoInv

\* What the ledger says of a prediction is what the provider says of it.
THEOREM LedgerFollowsProviderHolds == VideoSpec => []LedgerFollowsProvider
BY VideoInvariant, PTL DEF VideoInv

\* The quota of a prediction that exists is never given back.
THEOREM ReleasedWasNotSubmittedHolds == VideoSpec => []ReleasedWasNotSubmitted
<1>1. VideoInv => ReleasedWasNotSubmitted
  BY DEF VideoInv, PredictionsWereSent, Unpredicted, ReleasedWasNotSubmitted
<1> QED
  BY <1>1, VideoInvariant, PTL

\* Whoever reports a status, and in whatever order: a final status stays, and a prediction
\* that was seen processing is not starting again.
THEOREM StatusNeverRegressesHolds == VideoSpec => StatusNeverRegresses
<1> DEFINE Keeps(k) == /\ pst[k] \in TerminalPrediction => pst'[k] = pst[k]
                       /\ pst[k] = "processing" => pst'[k] # "starting"
<1>1. VideoTypeOK /\ VideoInv /\ LedgerInv /\ [VideoNext]_videoVars
      => [\A k \in Keys : Keeps(k)]_videoVars
  <2> SUFFICES ASSUME VideoTypeOK, VideoInv, LedgerInv, [VideoNext]_videoVars, NEW k \in Keys
               PROVE  Keeps(k)
    OBVIOUS
  <2> USE DEF LedgerInv, LedgerTypeOK
  <2>1. CASE UNCHANGED pst
    BY <2>1 DEF TerminalPrediction
  <2>2. ASSUME NEW l \in Keys, NEW o, NEW s, NEW out, Bind(l, o, s, out) \/ UpdateStatus(l, s)
        PROVE  Keeps(k)
    BY <2>2 DEF Bind, UpdateStatus, MergeStatus, ledgerVars, TerminalPrediction
  <2>3. ASSUME NEW p \in Procs, Store(p) PROVE Keeps(k)
    <3>1. PICK out \in Outcomes : MarkSucceeded(key[p], out)
      BY <2>3 DEF Store
    <3>2. key[p] \in Keys /\ prov[op[key[p]]] = "succeeded"
      BY <2>3 DEF Store, VideoInv, KeysAreKnown, PredictionsAreKnown
    <3>3. pst[key[p]] \in TerminalPrediction => pst[key[p]] = "succeeded"
      BY <3>2 DEF VideoInv, LedgerFollowsProvider
    <3> QED
      BY <3>1, <3>2, <3>3 DEF MarkSucceeded, ledgerVars, TerminalPrediction
  <2>4. ASSUME NEW p \in Procs, Polled(p) \/ Canceled(p) \/ BindOwn(p) PROVE Keeps(k)
    <3>1. key[p] \in Keys
      BY <2>4 DEF Polled, Canceled, BindOwn, VideoInv, KeysAreKnown
    <3> QED
      BY <2>2, <2>4, <3>1 DEF Polled, Canceled, BindOwn
  <2>5. ASSUME NEW h \in Hooks, HookApply(h) PROVE Keeps(k)
    <3>1. hkey[h] \in Keys
      BY <2>5 DEF HookApply, VideoInv, KeysAreKnown
    <3> QED
      BY <2>2, <2>5, <3>1 DEF HookApply
  <2>6. \/ UNCHANGED pst
        \/ \E p \in Procs : Store(p) \/ Polled(p) \/ Canceled(p) \/ BindOwn(p)
        \/ \E h \in Hooks : HookApply(h)
    <3>1. ASSUME NEW n \in Limits, SetQuota(n) PROVE UNCHANGED pst
      BY <3>1 DEF SetQuota
    <3>2. ASSUME NEW p \in Procs, NEW l \in Keys, Start(p, l) PROVE UNCHANGED pst
      BY <3>2 DEF Start, Reserve, ledgerVars
    <3>3. ASSUME NEW p \in Procs, Refused(p) \/ ProviderFailed(p) PROVE UNCHANGED pst
      BY <3>3 DEF Refused, ProviderFailed, MarkFailed, ledgerVars
    <3>4. ASSUME NEW p \in Procs, Unclear(p) \/ Lost(p) PROVE UNCHANGED pst
      BY <3>4 DEF Unclear, Lost, MarkUncertain
    <3>5. ASSUME NEW h \in Hooks, HookFail(h) PROVE UNCHANGED pst
      BY <3>5 DEF HookFail, MarkFailed, ledgerVars
    <3>6. ASSUME NEW p \in Procs, Get(p) \/ Submit(p) \/ Wait(p) \/ Poll(p) \/ MakeArtifact(p)
                                  \/ Expire(p) \/ Die(p)
          PROVE  UNCHANGED pst
      BY <3>6 DEF Get, Submit, Wait, Poll, MakeArtifact, Expire, Die, ledgerVars
    <3> QED
      BY <3>1, <3>2, <3>3, <3>4, <3>5, <3>6
      DEF VideoNext, CallStep, videoVars, ledgerVars, Advance, HookGet
  <2> QED
    BY <2>1, <2>3, <2>4, <2>5, <2>6
<1> QED
  BY <1>1, VideoInvariant, PTL DEF VideoSpec, StatusNeverRegresses

===============================================================================
