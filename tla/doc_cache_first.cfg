SPECIFICATION Spec
CONSTANTS
  a = a
  b = b
  c = c
  d = d
  e = e
  NoId = NoId
  Requests = {a, b}
  Tenant <- TenantOf
  Key <- KeyOf
  Content <- ContentOf
  MaxFaults = 1
  MaxCrashes = 0
INVARIANTS DuplicateIsEnqueued
CHECK_DEADLOCK FALSE
