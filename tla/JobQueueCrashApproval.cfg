SPECIFICATION Spec
CONSTANTS
  r1 = r1
  p1 = p1
  p2 = p2
  None = None
  Runs <- MCRuns
  Procs <- MCProcs
  WorkerIds <- MCProcs
  WorkerIdOf <- OwnId
  ReviewRuns <- MCRuns
  LeaseTicks = 2
  MaxAttempts = 2
  Stalls = FALSE
  MaxGates = 3
  MaxPlans = 4
  MaxRegens = 1
  MaxReclaims = 1
  MaxCrashes = 1
INVARIANT ApprovalMeetsItsPlan
SYMMETRY ProcSymmetry
CHECK_DEADLOCK FALSE
