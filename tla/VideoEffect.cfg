SPECIFICATION LiveVideoSpec
CONSTANTS
  k1 = k1
  o1 = o1
  o2 = o2
  p1 = p1
  p2 = p2
  h1 = h1
  None = None
  Keys <- MCKeys
  Units <- MCUnits
  Limits <- MCLimits
  PredIds <- MCPredIds
  Procs <- MCProcs
  Hooks <- MCHooks
  MaxCalls = 3
  MaxHooks = 2
INVARIANT SubmittedOnce
INVARIANT LedgerFollowsProvider
INVARIANT ReleasedWasNotSubmitted
PROPERTY StatusNeverRegresses
PROPERTY CallsEnd
