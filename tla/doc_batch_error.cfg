SPECIFICATION Spec
CONSTANTS
  w1 = w1
  w2 = w2
  m1 = m1
  m2 = m2
  m3 = m3
  p1 = p1
  p2 = p2
  None = None
  NoMessage = NoMessage
  Workers = {w1}
  Pollers = {w1}
  Host <- OwnTimer
  Messages = {m1}
  Partitions = {p1}
  HomePartition <- OneHome
  IdempotencyKey <- Own
  DedupKeys = {m1, NoKey}
  NoKey = NoKey
  DedupKey <- Own
  Schema <- RepositorySchema
  MaxAttempts = 4
  Channel <- ByEmail
  SuccessRate <- AlwaysSent
  SimulateFailure <- NothingForced
  MaxFaults = 1
  FreshGroup = FALSE
  BatchSize = 2
  MaxCopies = 1
  MaxRebalances = 0
  MaxCrashes = 0
INVARIANTS PassedIsRecorded
CHECK_DEADLOCK FALSE
