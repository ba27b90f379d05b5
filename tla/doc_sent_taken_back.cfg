SPECIFICATION Spec
CONSTANTS
  w1 = w1
  w2 = w2
  m1 = m1
  m2 = m2
  NoMessage = NoMessage
  Workers = {w1}
  Pollers = {w1}
  Host <- OwnTimer
  Messages = {m1}
  DedupKeys = {m1, NoKey}
  NoKey = NoKey
  DedupKey <- OwnKey
  Schema <- RepositorySchema
  MaxAttempts = 4
  Channel <- ByEmail
  SuccessRate <- DefaultRates
  SimulateFailure <- NothingForced
  MaxFaults = 1
  MaxOverlaps = 0
  MaxCrashes = 0
PROPERTIES SentIsTerminal
CHECK_DEADLOCK FALSE
