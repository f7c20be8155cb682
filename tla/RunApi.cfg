SPECIFICATION ApiSpec
CONSTANTS
  i1 = i1
  i2 = i2
  c1 = c1
  c2 = c2
  NoItem = NoItem
  Items <- MCItems
  Screens <- MCScreens
  MaxQc = 2
  MaxTurns = 2
  QueueMax = 3
  MaxSteps = 1
  MaxAsks = 1
  MaxLosses = 1
INVARIANT CompletedStageIsTrue
INVARIANT RunningIsShown
INVARIANT OutcomeAddsUp
INVARIANT MissedWasFull
INVARIANT DashboardShowsOutcome
PROPERTY LocalFeedSpec
SYMMETRY ApiSymmetry
CHECK_DEADLOCK FALSE
