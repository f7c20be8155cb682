SPECIFICATION LiveSpec
CONSTANTS
  Items = {c1, c2}
  MaxAttempts = 2
  LipSync = "required"
  MockFallback = FALSE
  MaxTries = 2
INVARIANT DeliveredWasApproved
INVARIANT RetentionFollowsVerdict
INVARIANT OneResultPerItem
PROPERTY ProductionEnds
