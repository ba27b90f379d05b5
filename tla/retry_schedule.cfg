SPECIFICATION FairSpec
CONSTANTS
  r1 = r1
  r2 = r2
  Retries = {r1, r2}
  Delay <- Backoff
  Pollers = {1, 2}
  MaxOverlaps = 1
  MaxLatency = 1
  MaxTime = 8
  MaxFaults = 1
  MaxCrashes = 1
INVARIANTS NothingRemovedUnread PublishedOnce
PROPERTIES NeverEarly PollsAreAtomic ScheduledIsPublished
CHECK_DEADLOCK FALSE
