SPECIFICATION Spec
CONSTANTS
  r1 = r1
  p1 = p1
  p2 = p2
  None = None
  Runs <- MCRuns
  Procs <- MCProcs
  WorkerIds <- MCProcs
  WorkerIdOf <- OwnId
  ReviewRuns <- MCRuns
  LeaseTicks = 2
  MaxAttempts = 2
  Stalls = TRUE
  MaxGates = 1
  MaxPlans = 2
  MaxRegens = 1
  MaxReclaims = 1
  MaxCrashes = 1
INVARIANT LeaseIdentifiesClaim
INVARIANT ResumeIffResolved
PROPERTY FinishedJobsStay
SYMMETRY ProcSymmetry
CHECK_DEADLOCK FALSE
