CONSTANTS
  p1 = p1
  p2 = p2
  j1 = j1
  j2 = j2
  w = w
  Nothing = Nothing
  Runners <- MCRunners
  SqsRunners <- MCRunners
  Jobs <- MCJobs
  WorkerIdOf <- SharedId
  OutboxMaxAttempts = 2
  JobMaxAttempts = 2
  MaxFaults = 1
SPECIFICATION LiveSpec
INVARIANT PublishedWasSent
PROPERTY JobsFinish
