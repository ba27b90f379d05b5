SPECIFICATION SystemSpec
CONSTANTS
  w1 = w1
  w2 = w2
  m1 = m1
  m2 = m2
  p1 = p1
  p2 = p2
  None = None
  NoMessage = NoMessage
  NoId = NoId
  Workers = {w1, w2}
  Pollers = {w1, w2}
  Host <- OwnTimer
  Messages = {m1, m2}
  Partitions = {p1}
  HomePartition <- OneHome
  Tenant <- TenantOf
  Key <- KeyOf
  Content <- Valid
  IdempotencyKey <- TenantAndKey
  DedupKeys = {m1, m2, NoKey}
  NoKey = NoKey
  DedupKey <- Own
  Schema <- RepositorySchema
  MaxAttempts = 4
  Channel <- ByEmail
  SuccessRate <- AlwaysSent
  SimulateFailure <- NothingForced
  MaxFaults = 1
  FreshGroup = FALSE
  BatchSize = 2
  MaxCopies = 2
  MaxRebalances = 0
  MaxCrashes = 1
  MaxRouterFaults = 1
  MaxRouterCrashes = 1
INVARIANTS AcceptedIsKept SentOncePerKey ReplaySafe
CONSTRAINTS NewToOne OnePoll
SYMMETRY Symmetry
CHECK_DEADLOCK FALSE
