SPECIFICATION LiveLogSpec
CONSTANTS
  w1 = w1
  c1 = c1
  None = None
  Workers = {w1}
  Clients = {c1}
  MaxProgress = 1
  MaxUpsets = 1
  MaxCancels = 1
  MaxDrops = 1
INVARIANT MissedWasHidden
PROPERTY FeedSpec
PROPERTY RunSettles
PROPERTY StreamCatchesUp
CHECK_DEADLOCK FALSE
