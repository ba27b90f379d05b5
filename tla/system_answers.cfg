SPECIFICATION SystemFairSpec
CONSTANTS
  w1 = w1
  w2 = w2
  m1 = m1
  m2 = m2
  p1 = p1
  p2 = p2
  None = None
  NoMessage = NoMessage
  NoId = NoId
  Workers = {w1, w2}
  Pollers = {w1, w2}
  Host <- OwnTimer
  Messages = {m1, m2}
  Partitions = {p1, p2}
  HomePartition <- TwoHomes
  Tenant <- TenantOf
  Key <- KeyOf
  Content <- Valid
  IdempotencyKey <- TenantAndKey
  DedupKeys = {m1, m2, NoKey}
  NoKey = NoKey
  DedupKey <- Own
  Schema <- RepositorySchema
  MaxAttempts = 4
  Channel <- ByEmail
  SuccessRate <- DefaultRates
  SimulateFailure <- NothingForced
  MaxFaults = 0
  FreshGroup = FALSE
  BatchSize = 2
  MaxCopies = 1
  MaxRebalances = 1
  MaxCrashes = 0
  MaxRouterFaults = 0
  MaxRouterCrashes = 1
CONSTRAINT NoneRejected
PROPERTIES AnsweredIsSent PublishedIsSent
CHECK_DEADLOCK FALSE
