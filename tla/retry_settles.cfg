SPECIFICATION FairSpec
CONSTANTS
  w1 = w1
  w2 = w2
  m1 = m1
  m2 = m2
  NoMessage = NoMessage
  Workers = {w1, w2}
  Pollers = {w1, w2}
  Host <- OwnTimer
  Messages = {m1}
  DedupKeys = {m1, NoKey}
  NoKey = NoKey
  DedupKey <- OwnKey
  Schema <- RepositorySchema
  MaxAttempts = 2
  Channel <- ByEmail
  SuccessRate <- DefaultRates
  SimulateFailure <- NothingForced
  MaxFaults = 0
  MaxOverlaps = 1
  MaxCrashes = 0
PROPERTIES EveryMessageSettles LedgerIsKept
CHECK_DEADLOCK FALSE
