SPECIFICATION Spec
CONSTANTS
  a = a
  b = b
  c = c
  d = d
  e = e
  NoId = NoId
  Requests = {a, b, c, d, e}
  Tenant <- TenantOf
  Key <- KeyOf
  Content <- ContentOf
  MaxFaults = 2
  MaxCrashes = 1
INVARIANTS AcceptedIsEnqueued DuplicateHasOriginal EnqueuedOnce
CHECK_DEADLOCK FALSE
