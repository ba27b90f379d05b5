----------------------------- MODULE RetryScheduler -----------------------------
(***************************************************************************)
(* RetrySchedulerService and the timer of index.ts with their clock: the   *)
(* Redis ZSET "retries", scored with the time a retry is due, filled by    *)
(* scheduleRetry and emptied by getPendingRetries, whose two Redis calls   *)
(* other clients interleave with.                                          *)
(*                                                                         *)
(* A poller is one run of the timer's callback.  setInterval starts the    *)
(* next run whether or not the last has ended, and every worker has its    *)
(* own timer: two pollers stand for either.                                *)
(***************************************************************************)
EXTENDS Integers, FiniteSets

CONSTANTS Retries,      \* members of the ZSET: messageId:channel:attempt
          Delay,        \* retry |-> its backoff delay
          Pollers,
          MaxLatency,   \* time between Date.now() and the zAdd it scores
          MaxTime,      \* bound: how far the clock runs
          MaxOverlaps,  \* bound: polls that start while another runs
          MaxFaults,    \* bound: Redis and Kafka calls that fail
          MaxCrashes    \* bound: pollers that die half way

ASSUME SchedulerAssumption ==
  /\ Delay \in [Retries -> Nat]
  /\ MaxLatency \in Nat /\ MaxTime \in Nat
  /\ MaxOverlaps \in Nat /\ MaxFaults \in Nat /\ MaxCrashes \in Nat

VARIABLES now,         \* Date.now(), the same on every host
          schedule,    \* where each retry's scheduleRetry is
          nextRetryAt, \* the score it computed
          zset,        \* members of "retries"
          poll,        \* where each poller is
          published,   \* records published, per retry
          overlaps,
          faults,
          crashes

limitVars == <<overlaps, faults, crashes>>
vars == <<now, schedule, nextRetryAt, zset, poll, published, limitVars>>

Idle == [stage |-> "idle", cutoff |-> 0, items |-> {}]

TypeOK ==
  /\ now \in 0 .. MaxTime
  /\ schedule \in [Retries -> {"none", "scored", "added", "failed"}]
  /\ nextRetryAt \in [Retries -> Nat]
  /\ zset \subseteq Retries
  /\ poll \in [Pollers -> [stage : {"idle", "read", "publish"},
                           cutoff : Nat, items : SUBSET Retries]]
  /\ published \in [Retries -> Nat]
  /\ overlaps \in 0 .. MaxOverlaps
  /\ faults \in 0 .. MaxFaults
  /\ crashes \in 0 .. MaxCrashes

Init ==
  /\ now = 0
  /\ schedule = [r \in Retries |-> "none"]
  /\ nextRetryAt = [r \in Retries |-> 0]
  /\ zset = {}
  /\ poll = [p \in Pollers |-> Idle]
  /\ published = [r \in Retries |-> 0]
  /\ overlaps = 0
  /\ faults = 0
  /\ crashes = 0

Fault == faults < MaxFaults /\ faults' = faults + 1

-----------------------------------------------------------------------------
\* Time passes, except that no zAdd is under way for MaxLatency already.
Tick ==
  /\ now < MaxTime
  /\ \A r \in Retries :
       schedule[r] = "scored" => now + Delay[r] < nextRetryAt[r] + MaxLatency
  /\ now' = now + 1
  /\ UNCHANGED <<schedule, nextRetryAt, zset, poll, published, limitVars>>

\* scheduleRetry reads the clock, then awaits zAdd.  Only retries that can
\* fall due before MaxTime are scheduled.
Score(r) ==
  /\ schedule[r] = "none"
  /\ now + Delay[r] + MaxLatency <= MaxTime
  /\ schedule' = [schedule EXCEPT ![r] = "scored"]
  /\ nextRetryAt' = [nextRetryAt EXCEPT ![r] = now + Delay[r]]
  /\ UNCHANGED <<now, zset, poll, published, limitVars>>

\* An error is thrown to the caller, though Redis may have the member.
Add(r) ==
  /\ schedule[r] = "scored"
  /\ \/ /\ zset' = zset \cup {r}
        /\ \/ schedule' = [schedule EXCEPT ![r] = "added"] /\ UNCHANGED faults
           \/ schedule' = [schedule EXCEPT ![r] = "failed"] /\ Fault
     \/ /\ schedule' = [schedule EXCEPT ![r] = "failed"] /\ Fault
        /\ UNCHANGED zset
  /\ UNCHANGED <<now, nextRetryAt, poll, published, overlaps, crashes>>

\* A run of the callback starts, alone or beside one that has not ended.
Starts(p) ==
  \/ (\A q \in Pollers : poll[q].stage = "idle") /\ UNCHANGED overlaps
  \/ /\ \E q \in Pollers : poll[q].stage # "idle"
     /\ overlaps < MaxOverlaps
     /\ overlaps' = overlaps + 1

Due(cutoff) == {r \in zset : nextRetryAt[r] <= cutoff}

\* Mutation: the read does not look at the score.
ZRange_All(p) ==
  /\ poll[p].stage = "idle"
  /\ zset # {}
  /\ Starts(p)
  /\ poll' = [poll EXCEPT ![p] = [stage |-> "read", cutoff |-> now,
                                  items |-> zset]]
  /\ UNCHANGED <<now, schedule, nextRetryAt, zset, published, faults, crashes>>

\* getPendingRetries, first await; an empty answer or an error ends it.
ZRangeByScore(p) ==
  /\ poll[p].stage = "idle"
  /\ Due(now) # {}
  /\ Starts(p)
  /\ poll' = [poll EXCEPT ![p] = [stage |-> "read", cutoff |-> now,
                                  items |-> Due(now)]]
  /\ UNCHANGED <<now, schedule, nextRetryAt, zset, published, faults, crashes>>

\* Mutation: the removal takes the clock anew and removes what the read
\* did not see.
ZRem_Later(p) ==
  /\ poll[p].stage = "read"
  /\ zset' = zset \ Due(now)
  /\ poll' = [poll EXCEPT ![p].stage = "publish"]
  /\ UNCHANGED <<now, schedule, nextRetryAt, published, limitVars>>

\* Mutation: what was read stays in the ZSET.
ZRem_Skipped(p) ==
  /\ poll[p].stage = "read"
  /\ poll' = [poll EXCEPT ![p].stage = "publish"]
  /\ UNCHANGED <<now, schedule, nextRetryAt, zset, published, limitVars>>

\* getPendingRetries, second await, with the time of the first.  It removes
\* by score, whatever was read; on an error [] is returned.
ZRemRangeByScore(p) ==
  /\ poll[p].stage = "read"
  /\ \/ /\ zset' = zset \ Due(poll[p].cutoff)
        /\ \/ poll' = [poll EXCEPT ![p].stage = "publish"] /\ UNCHANGED faults
           \/ poll' = [poll EXCEPT ![p] = Idle] /\ Fault
     \/ poll' = [poll EXCEPT ![p] = Idle] /\ Fault /\ UNCHANGED zset
  /\ UNCHANGED <<now, schedule, nextRetryAt, published, overlaps, crashes>>

\* Mutation: the loop ends after its first retry.
PublishRetryMessage_FirstOnly(p, r) ==
  /\ poll[p].stage = "publish"
  /\ published' = [published EXCEPT ![r] = @ + 1]
  /\ poll' = [poll EXCEPT ![p] = Idle]
  /\ UNCHANGED <<now, schedule, nextRetryAt, zset, limitVars>>

\* The loop of index.ts:100; an error drops the retries still to publish.
PublishRetryMessage(p, r) ==
  LET rest == poll[p].items \ {r} IN
  /\ poll[p].stage = "publish"
  /\ \/ /\ published' = [published EXCEPT ![r] = @ + 1]
        /\ \/ /\ poll' = [poll EXCEPT ![p] = IF rest = {} THEN Idle
                                             ELSE [@ EXCEPT !.items = rest]]
              /\ UNCHANGED faults
           \/ poll' = [poll EXCEPT ![p] = Idle] /\ Fault
     \/ poll' = [poll EXCEPT ![p] = Idle] /\ Fault /\ UNCHANGED published
  /\ UNCHANGED <<now, schedule, nextRetryAt, zset, overlaps, crashes>>

Crash(p) ==
  /\ poll[p].stage # "idle"
  /\ crashes < MaxCrashes
  /\ crashes' = crashes + 1
  /\ poll' = [poll EXCEPT ![p] = Idle]
  /\ UNCHANGED <<now, schedule, nextRetryAt, zset, published, overlaps,
                 faults>>

ScheduleRetry(r) == Score(r) \/ Add(r)

PollStep(p) == \/ ZRangeByScore(p) \/ ZRemRangeByScore(p)
               \/ \E r \in poll[p].items : PublishRetryMessage(p, r)

Next == \/ Tick
        \/ \E r \in Retries : ScheduleRetry(r)
        \/ \E p \in Pollers : PollStep(p) \/ Crash(p)

Spec == Init /\ [][Next]_vars

\* The clock runs, an issued zAdd is answered, and every timer fires again.
FairSpec == /\ Spec
            /\ WF_vars(Tick)
            /\ \A r \in Retries : WF_vars(Add(r))
            /\ \A p \in Pollers : WF_vars(PollStep(p))

-----------------------------------------------------------------------------
Held(r) == \E p \in Pollers : r \in poll[p].items

\* "Remove processed items" (RetrySchedulerService.ts:99): nothing leaves
\* the ZSET that no poller has read, as long as every zAdd takes less time
\* than the shortest delay and no call fails, however polls overlap.
NothingRemovedUnread ==
  faults = 0 /\ crashes = 0 /\ (\A r \in Retries : MaxLatency < Delay[r]) =>
    \A r \in Retries :
      schedule[r] = "added" => r \in zset \/ Held(r) \/ published[r] > 0

\* Until two polls overlap a retry is published at most once, failed calls
\* and crashes included.
PublishedOnce == overlaps = 0 => \A r \in Retries : published[r] <= 1

\* No retry is published before its backoff delay is over.
NeverEarly ==
  [][\A r \in Retries :
       published'[r] > published[r] => now >= nextRetryAt[r]]_vars

\* A retry that was scheduled is published, unless calls fail or pollers die.
ScheduledIsPublished ==
  [](faults = 0 /\ crashes = 0) =>
    \A r \in Retries : (schedule[r] = "added") ~> (published[r] > 0)

-----------------------------------------------------------------------------
(* Polls that do not overlap may be taken for one step each: the removal is *)
(* where a poll claims what it has read.                                    *)

Claimed == [p \in Pollers |-> IF poll[p].stage = "publish" THEN poll[p].items
                                                          ELSE {}]

Queue == INSTANCE RetryQueue WITH waiting <- zset, claimed <- Claimed

QueueStep ==
  \/ \E r \in Retries : Queue!Put(r) /\ UNCHANGED published
  \/ \E p \in Pollers :
       \/ /\ \E due \in SUBSET zset :
               Queue!Claim(p, due, UNCHANGED faults, Fault)
          /\ UNCHANGED published
       \/ \E r \in Retries :
            Queue!Publish(p, r, published' = [published EXCEPT ![r] = @ + 1],
                          UNCHANGED published, UNCHANGED faults, Fault)
       \/ Queue!Abandon(p) /\ UNCHANGED published /\ crashes' = crashes + 1

\* Every step is one of the queue or none, through failed calls and crashes,
\* as long as polls do not overlap and every zAdd takes less time than the
\* shortest delay: no poll removes what it has not read, and none reads what
\* another has taken (RetrySchedulerService.ts:83-102).
PollsAreAtomic ==
  [][overlaps' = 0 /\ (\A r \in Retries : MaxLatency < Delay[r]) =>
       [QueueStep]_<<zset, Claimed, published>>]_vars

-----------------------------------------------------------------------------
(* The strengthening that makes the safety properties inductive. *)

\* Nothing is known of a retry whose zAdd has not been answered.
UnissuedIsUnknown ==
  \A r \in Retries : schedule[r] \in {"none", "scored"} =>
    r \notin zset /\ ~Held(r) /\ published[r] = 0

\* What a poller holds was due when it read the clock.
HeldIsDue ==
  \A p \in Pollers :
    /\ poll[p].cutoff <= now
    /\ poll[p].stage = "idle" <=> poll[p].items = {}
    /\ \A r \in poll[p].items : nextRetryAt[r] <= poll[p].cutoff

\* Until polls overlap a retry is in one place, and unpublished there.
OnePlace ==
  overlaps = 0 =>
    /\ \A p, q \in Pollers :
         poll[p].stage # "idle" /\ poll[q].stage # "idle" => p = q
    /\ \A r \in Retries : r \in zset \/ Held(r) => published[r] = 0
    /\ \A p \in Pollers :
         poll[p].stage = "publish" => poll[p].items \cap zset = {}
    /\ \A p \in Pollers :
         poll[p].stage = "read" => poll[p].items \subseteq zset

\* A zAdd under way is answered within MaxLatency of its Date.now().
AddedInTime ==
  \A r \in Retries : schedule[r] = "scored" =>
    now + Delay[r] <= nextRetryAt[r] + MaxLatency

\* So nothing enters the ZSET behind the cutoff of a poll that has read it.
ReadIsComplete ==
  (\A r \in Retries : MaxLatency < Delay[r]) =>
    \A p \in Pollers : poll[p].stage = "read" =>
      Due(poll[p].cutoff) \subseteq poll[p].items

IInv == /\ TypeOK /\ UnissuedIsUnknown /\ HeldIsDue /\ OnePlace
        /\ AddedInTime /\ ReadIsComplete
        /\ PublishedOnce /\ NothingRemovedUnread

-----------------------------------------------------------------------------
(* What the comments say. *)

\* "This prevents re-processing same retry multiple times"
\* (RetrySchedulerService.ts:100), however polls overlap.
ProcessedOnce == \A r \in Retries : published[r] <= 1

=============================================================================
