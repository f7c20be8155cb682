SPECIFICATION Spec
CONSTANTS
  r1 = r1
  p1 = p1
  p2 = p2
  None = None
  Runs <- MCRuns
  Procs <- MCProcs
  WorkerIds <- MCProcs
  WorkerIdOf <- OwnId
  ReviewRuns <- MCRuns
  LeaseTicks = 2
  MaxAttempts = 2
  Stalls = FALSE
  MaxGates = 3
  MaxPlans = 5
  MaxRegens = 2
  MaxReclaims = 1
  MaxCrashes = 0
INVARIANT ApprovalMeetsItsPlan
INVARIANT OneReviewOpen
INVARIANT QuietRunIsSettled
SYMMETRY ProcSymmetry
CHECK_DEADLOCK FALSE
