SPECIFICATION FairSpec
CONSTANTS
  MaxRecords = 3
  BatchSize = 2
  FreshGroup = FALSE
  MaxFaults = 2
  MaxCrashes = 2
INVARIANTS NoSilentGap DuplicatesBounded
PROPERTIES LogIsIndexed
CHECK_DEADLOCK FALSE
