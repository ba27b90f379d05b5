SPECIFICATION Spec
CONSTANTS
  Chars <- Letters
  Tenants <- Names
  Keys <- Words
  Fold <- CaseFold
  MaxBatch = 3
  MaxTable = 2
INVARIANTS NothingDropped NothingRepeated
CHECK_DEADLOCK FALSE
