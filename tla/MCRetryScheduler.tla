-------------------------- MODULE MCRetryScheduler --------------------------
(* Small instances of RetryScheduler.  One unit of time is the shortest    *)
(* delay's half: BACKOFF_DELAYS[1] is 2 units, a later delay 3.            *)
EXTENDS RetryScheduler

CONSTANTS r1, r2

Backoff == [r \in Retries |-> IF r = r1 THEN 2 ELSE 3]
=============================================================================
