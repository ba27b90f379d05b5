SPECIFICATION Spec
CONSTANTS
  r1 = r1
  r2 = r2
  Retries = {r1, r2}
  Delay <- Backoff
  Pollers = {1, 2}
  MaxOverlaps = 1
  MaxLatency = 1
  MaxTime = 6
  MaxFaults = 0
  MaxCrashes = 0
INVARIANTS ProcessedOnce
CHECK_DEADLOCK FALSE
