SPECIFICATION PipelineFairSpec
CONSTANTS
  w1 = w1
  w2 = w2
  m1 = m1
  m2 = m2
  NoMessage = NoMessage
  Workers = {w1, w2}
  Pollers = {w1, w2}
  Host <- OwnTimer
  Messages = {m1, m2}
  DedupKeys = {m1, m2, NoKey}
  NoKey = NoKey
  DedupKey <- SharedContent
  Schema <- RepositorySchema
  MaxAttempts = 2
  Channel <- ByEmail
  SuccessRate <- DefaultRates
  SimulateFailure <- NothingForced
  MaxFaults = 1
  MaxOverlaps = 1
  MaxCrashes = 1
INVARIANTS PipelineTypeOK PublishedOncePerContent AttemptsFollow AcceptancesAreOwed
PROPERTIES SentIsNotResent AcceptedSettles LayeredLedgerStep
CONSTRAINT OneFailure
CHECK_DEADLOCK FALSE
