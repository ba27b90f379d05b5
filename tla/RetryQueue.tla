------------------------------ MODULE RetryQueue ------------------------------
(***************************************************************************)
(* The ZSET "retries" as the timer of index.ts:95-112 means to use it: a   *)
(* poll takes due retries out of Redis in one step and publishes them one  *)
(* by one.  In the code a poll is two calls to Redis: RetryScheduler,      *)
(* which has their clock, implements this queue until two polls overlap,   *)
(* and RetryLoop, which has not, shares its Publish.                       *)
(*                                                                         *)
(* What is published where, and what a call that is answered or fails does *)
(* besides, the instantiating modules say.                                 *)
(***************************************************************************)

VARIABLES waiting,  \* retries in Redis
          claimed   \* taken out by each timer and not yet published

\* scheduleRetry.
Put(r) == waiting' = waiting \cup {r} /\ UNCHANGED claimed

\* getPendingRetries: read the due members, then remove them.  Should the
\* answer to the removal be lost, the caller gets [].
Claim(p, due, answered, fails) ==
  /\ claimed[p] = {}
  /\ due # {} /\ due \subseteq waiting
  /\ waiting' = waiting \ due
  /\ \/ claimed' = [claimed EXCEPT ![p] = due] /\ answered
     \/ fails /\ UNCHANGED claimed

\* publishRetryMessage in the loop of index.ts:100.  An error ends the loop:
\* the rest of the claimed retries is gone.
Publish(p, r, effect, unchanged, answered, fails) ==
  /\ r \in claimed[p]
  /\ \/ /\ effect
        /\ \/ claimed' = [claimed EXCEPT ![p] = @ \ {r}] /\ answered
           \/ claimed' = [claimed EXCEPT ![p] = {}] /\ fails
     \/ /\ unchanged
        /\ claimed' = [claimed EXCEPT ![p] = {}]
        /\ fails
  /\ UNCHANGED waiting

\* The process of the timer dies, and what it had claimed is gone.
Abandon(p) == claimed' = [claimed EXCEPT ![p] = {}] /\ UNCHANGED waiting

=============================================================================
