SPECIFICATION PaidSpec
CONSTANTS
  k1 = k1
  k2 = k2
  k3 = k3
  p1 = p1
  p2 = p2
  None = None
  Keys <- MCKeys
  Units <- MCUnits
  Limits <- MCLimits
  PredIds = {}
  Callers <- MCProcs
  Reconcilable <- MCReconcilable
  NameOf <- MCNameOf
  MaxPaid = 6
INVARIANT ChargedOnce
INVARIANT FailedWasNotBilled
INVARIANT SuccessWasBilled
INVARIANT QuotaExact
 
SYMMETRY ProcSymmetry
