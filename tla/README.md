# TLA+ models of the notification system

This directory holds TLA+ specifications of the notification system in `src/`,
the TLC configurations that check them on small instances, and theorems about
them that the TLA+ proof system checks. The models are written from the code;
the line numbers below and in `PROJECT.json` ("map") are those of `src/`.

Paths are abbreviated: `TR` is `services/task-router/src`, `NA` is
`services/notification-aggregator/src`, `LG` is `services/logger/src`.

## 1. Inventory

```
 client ──POST──> task router ──messages.<channel>──> aggregator workers ──> provider
                    │  ^                    ^              │   │   │
                    v  │                    │ retry records│   │   └─> dlq.<channel>
              Redis idem:*                  │              │   v
                                     timer  └── Redis "retries" ZSET
                                                           v
              logs, errors ──> logger ──> Elasticsearch   MySQL + Redis delivered:*
```

The repository holds the router and the aggregator twice: as deployed (what the
`index.ts` of each service wires) and as a layered rewrite (`domain/`,
`infrastructure/`, `presentation/`) that no `index.ts` wires yet. Both are
modelled, separately.

| Part | State | Operations | Where it is hard | What makes it correct |
|---|---|---|---|---|
| **Task router** `TR/controllers/MessageController.ts`, `services/DeduplicationService.ts`, `services/MessagePublisher.ts` | Redis keys `idem:tenant:<t>:key:<k>`; records it published | `createMessage`: `validateRequest`, `exists`, `setNX`, `publishMessageEvent`, logs, response | requests with one key interleave between `exists` and `setNX`; the key is set before the publish; a failed log fails an enqueued request | ACCEPTED means enqueued; a duplicate is one of another valid request, of the same tenant as far as the cache key tells tenants apart; one message per key |
| **Batch consumer** `NA/index.ts`, `services/BatchIdempotencyService.ts` | Kafka offsets and assignment; `messages` rows; the batch in hand | `eachBatch`: parse, `checkBatchIdempotency`, `insertNewMessagesInProgress`, loop over the messages, resolve and commit | check, insert and delivery are three steps of several workers; crash or rebalance between any two; errors caught by the handler; keys joined to strings that MySQL compares differently | row before send; no record passed unrecorded; everything published is delivered; a duplicate is one of a row |
| **Delivery processor** `NA/services/DeliveryProcessorService.ts`, `DeliveryDeduplicationService.ts` | row, audit trail, DLQ, Redis `delivered:*`, ZSET `retries` | `processDelivery`: some 15 awaits | an error after the send lands in the catch for failed sends; overlapping calls; crash between send and SENT | records never claim more than happened; a retry or dead letter is earned by a recorded failed attempt; one deliverer per message; SENT is not sent again; the attempts follow one another as on a ledger |
| **Repository, tables** `NA/repositories/DeliveryRepository.ts`, `scripts/init.sql` | three tables | INSERT, UPDATE, SELECT | statements and tables disagree on columns; foreign keys | statements fit the tables |
| **Retry scheduler, timer** `NA/services/RetrySchedulerService.ts`, `NA/index.ts:95-112` | ZSET scored with due times; retries removed and not yet republished | `scheduleRetry`, `getPendingRetries`, the republishing loop | read and removal are two calls; removal is by score, not by member; polls overlap; loss between removal and publish | published once, not before its delay, in the end |
| **Event publisher** `NA/services/EventPublisherService.ts` | Kafka topics | `publishRetryMessage`, `publishDLQMessage`, `publishLog`, `publishError` | each can fail, with or without effect | (part of its callers) |
| **Providers** `NA/services/ProviderFactory.ts` | none (simulated) | `send` | rejects by rate or by force | every message settles even when one provider always rejects |
| **Logger** `LG/services/LogConsumerService.ts`, `repositories/LogRepository.ts` | Elasticsearch documents, offsets of `logger-group` | consume two topics, index | errors are swallowed and the offset moves on; documents have no id | no gap without an error; duplicates bounded by what failed |
| **Layered router** `TR/domain/usecases/AcceptMessageUseCase.ts`, `infrastructure/`, `presentation/` | Redis keys `dedup:<hash>` with an expiry of an hour; `messages` rows; the topic | `execute`: validate, `checkDuplicate`, `save`, `publishMessageEvent`, log | requests of one content interleave between `exists` and `set`, or come after the key expired; the row is written before the publish | one published message per content |
| **Layered aggregator** `NA/domain/usecases/ProcessDeliveryUseCase.ts`, `infrastructure/` | rows, audit trail, `dlq_entries`, Redis `delivery:*`, ZSET | `execute`: dedup, status, send, update, attempt, log; retry or DLQ | the catch for failed sends again holds what follows the send; the row is the only protection of a retry | attempts numbered without gaps; SENT is not sent again; accepted messages settle |
| **Content hash** `TR/services/HashService.ts` | none | `generateDedupKey` | distinct contents joined to one string | different content, different key |
| Idempotency metrics, router's `MessageRepository`, layered logger | | | nothing constructs or calls them | |

## 2. Modules

| Module | Models | State ↔ code |
|---|---|---|
| `Database` | the tables of `init.sql` and the columns that the statements of both repositories name; a statement fits a table or is rejected | constants only |
| `Providers` | which outcomes a channel's provider can have, by its success rate and its forced failure | constants only |
| `DeliveryProcessor` | `processDelivery` with everything it awaits, **one action per await** | `rows`, `audit`, `dlqEntries`: the tables; `delivered`, `retries`: Redis; `dlqTopic`: Kafka; `accepted`: what the provider took; `pc`, `msg`, `att`: each worker's call |
| `RetryQueue` | the abstract specification of the ZSET and its timer: put, claim in one step, publish, lose | `waiting`: the ZSET; `claimed`: taken out and not yet published |
| `RetryLoop` | the timers of all workers without a clock: the read and the removal of `getPendingRetries`, `publishRetryMessage`; polls overlap (`Pollers`, each in the worker `Host` names) | `reads`: what each poll has read and not yet removed, and whether it is still there; `polled`: retries removed from Redis and not yet republished |
| `RetryCycle` | processor + timer + a consumer reduced to "a record stays until its call ended, and is handed out again after a crash" | `inbox`, `taken`: records in the topic and in hand |
| `DeliveryLedger` | the abstract specification of delivery: numbered attempts, at most one acceptance, one final outcome | `tried`: the audit trail; `taken`: how often a provider accepted; `outcome`: the row once delivery is over |
| `BatchConsumer` | `eachBatch` + processor + timer + the Kafka group | `log`, `owner`, `position`, `committed`: Kafka; `batch`: where each handler is |
| `BatchCheck` | `checkBatchIdempotency` as an algorithm on strings: the joined keys of JavaScript, the collation of MySQL | `table`, `unique`, `existing`, `duplicates`: its variables |
| `RetryScheduler` | the ZSET against a clock, with the two Redis calls of a poll apart and polls that overlap | `zset`, `nextRetryAt`, `poll`, `now` |
| `IngressRouter` | `createMessage`, one action per await | `cache`: Redis; `topic`: Kafka; `stage`, `reply`: each request |
| `DeployedSystem` | `IngressRouter` and `BatchConsumer` together, from the POST to the provider; kafkajs may append a record of the router twice | the router's `topic` is the set of messages in the group's `log` (`Topic`), the rest is the state of the two |
| `LogPipeline` | `consumeMultiple` over `logs` and `errors`, `save`, commits | `committed`, `position`: offsets; `consumer`: the batch in hand; `documents`: Elasticsearch |
| `AcceptMessage` | `AcceptMessageUseCase.execute`, one action per await | `stage`, `reply`: each request; `dedup`: Redis |
| `ProcessDelivery` | `ProcessDeliveryUseCase.execute`, as far as it differs from `DeliveryProcessor` | that of `DeliveryProcessor` |
| `LayeredPipeline` | the layered router and aggregator on one `messages` table, with the topic and the timer of `RetryCycle` | `published`: what the router put into the topic |
| `*Proofs` | theorems about the module each is named for; `ProcessorProofs` holds the lemmas on `DeliveryProcessor`, `RetryCycleProofs` also the refinement of `DeliveryLedger`, `BatchConsumerProofs` also the theorems about `DeployedSystem` | |
| `MC*` | constants of the small instances | |

```
Database, Providers <- DeliveryProcessor <- RetryLoop <- RetryCycle
                                                      <- BatchConsumer
DeliveryProcessor <- AcceptMessage    ┐
DeliveryProcessor <- ProcessDelivery  ├ <- LayeredPipeline
                     RetryCycle       ┘
BatchConsumer <- DeployedSystem, which instantiates IngressRouter
DeliveryLedger: instantiated by RetryCycle (Stride 2) and LayeredPipeline (Stride 1)
RetryQueue: RetryScheduler implements it until polls overlap (PollsAreAtomic);
            RetryLoop's Republish is its Publish
DeliveryProcessor <- ProcessorProofs <- RetryCycleProofs <- LayeredPipelineProofs
                                     <- BatchConsumerProofs (and DeployedSystem,
                                        IngressRouterProofs)
RetryScheduler <- RetrySchedulerProofs     IngressRouter <- IngressRouterProofs
LogPipeline <- LogPipelineProofs           BatchCheck <- BatchCheckProofs
```

Conventions. Every await is an action, so calls interleave just where
JavaScript lets them. A call to MySQL, Redis or Kafka either answers, or is
rejected, or takes effect and loses its answer (`Write`, `Fault`); what happens
next is what the code's `catch` does. A crash clears what the process holds in
memory and nothing else. `*_Name` definitions marked "Mutation" are broken
variants of the definition they precede; no specification uses them.

Facts of the code that shape the models and are easy to overlook:

* **A retry record carries no `dedupKey`** (`EventPublisherService.ts:27-42`
  publishes messageId, channel, attempt, traceId). Every retry is looked up
  under the one Redis key `delivered:undefined` (`CallKey`), so the cache says
  nothing of a particular retry and the row decides.
* **A retry record carries no tenant and key either**, and mysql2 refuses to
  bind `undefined`: `checkBatchIdempotency` rejects every batch that contains
  one (`CheckBatch`). In the deployed composition no retry is ever attempted
  (`doc_retry_refused`). `RetryCycle` leaves that layer out, to show what
  processor, scheduler and timer would do for a record that gets through; it is
  the contract those three parts have, not the behaviour of the deployment.
* **The handler catches everything**, and kafkajs' `eachBatchAutoResolve` is
  left at its default: returning commits the batch's last offset. Only a crash
  or a lost partition makes Kafka hand a batch out again.
* **The layered services set their Redis keys with answers that are never
  null**, so `checkDelivery` calls everything new, and the layered INSERT leaves
  `idempotencyKey` out: what keeps two requests of one content apart is the
  table's unique `dedupKey` alone (`Insertable`).

## 3. Runs

All passing runs:

| Run | Instance | Shows |
|---|---|---|
| `retry_faults` | 2 workers with a timer each, 1 message, `MaxAttempts` 2, up to 3 failures in all, of 3 failed calls, 1 overlap (a record handed out twice or a retry published by two polls), 1 crash (`CONSTRAINT AtMostThree`) | `SentIsAccepted`, `DLQEarned`, `RetryEarned` whatever happens; `AcceptancesAreOwed`: every acceptance of a message beyond the first is owed to a failed call, overlap or crash of its own; `OneDeliverer`, `RetryFindsPending` until the first overlap or crash; `SentOutlivesCrashes` while only crashes repeat a call; `LedgerStep`: every step up to the first failed call, crash or overlap is a step of `DeliveryLedger` |
| `retry_settles` | 2 workers with a timer each, 1 message, `MaxAttempts` 2, no faults, 1 overlap, fair | `EveryMessageSettles`: SENT or dead-lettered, nothing left in the queue, also after two polls published one retry; `LedgerIsKept`: without such an overlap `RetryCycle` implements `DeliveryLedger`, its fairness included |
| `batch_safety` | 2 workers, 2 messages of one idempotency key, 1 fault, 1 rebalance, 1 crash | `WriteAhead`, `CommitsAdvance` always; `CrashLosesNothing` until a call fails or a retry record is published, for a group that has committed before |
| `system_once` | router and aggregator: 2 requests of one tenant, user and key with different content, 2 workers, 1 partition, batches of 2, a record up to twice in the log, 1 fault and 1 crash on either side, providers that always accept (`AlwaysSent`); `CONSTRAINTS NewToOne OnePoll` | `AcceptedIsKept`: what was answered ACCEPTED is recorded or ahead of the committed offset, until a call of the aggregator fails; `ReplaySafe`, `SentOncePerKey`: one provider acceptance per key where the ingress cache or the batch check can tell its messages apart, as long as no two workers hold the key as new at once |
| `system_answers` | router and aggregator: the 2 requests of the key in 2 partitions, 2 workers, providers at their default rates, 1 rebalance, 1 crash of the router, no failed call and no crash of a worker, fair; followed up to the first rejected send (`CONSTRAINT NoneRejected`) | unless a provider rejects a send, a call of the aggregator fails or a worker dies: `PublishedIsSent`: what was published is sent; `AnsweredIsSent`: a client that was told ACCEPTED, or DUPLICATE while the router was well, has its notification sent |
| `batch_check` | every batch of up to 3 messages against every table of up to 2 rows; 3 tenants, one named like another with `:a` behind it, a key with `:` in it, a key in two spellings | `NothingDropped`, `NothingRepeated`: the messages skipped are those whose own row exists, unless one tenant's name continues another's behind a `:` |
| `retry_schedule` | 2 pollers, 2 retries of different delays, 1 overlap, 1 fault, 1 crash, fair | `NeverEarly` always; `PublishedOnce` until polls overlap; `PollsAreAtomic`: until then every step is one of `RetryQueue` or none, failed calls and crashes included; `NothingRemovedUnread`, `ScheduledIsPublished` until a call fails or a poller dies |
| `ingress_race` | 5 requests: two equal, one with their key and another tenant, one of another tenant and key that are joined to their cache key, one invalid; 2 faults, 1 crash | `AcceptedIsEnqueued`, `DuplicateHasOriginal` always; `EnqueuedOnce` until requests overlap or a call fails |
| `log_pipeline` | 2 topics of 3 records, batches of 2, 2 faults, 2 crashes, fair | `NoSilentGap`: no record is passed over unless its own handler threw; `DuplicatesBounded`: a document beyond the first is owed to one crash or failed call; `LogIsIndexed` without failed calls |
| `layered_pipeline` | 2 workers with a timer each, 2 requests of one content, `MaxAttempts` 2, 1 fault, 1 overlap or 1 crash (`CONSTRAINT OneFailure`), keys that may expire, fair | `PublishedOncePerContent`, `AttemptsFollow`, `AcceptancesAreOwed` whatever happens; `SentIsNotResent` until the first overlap or crash; `AcceptedSettles` without failed calls and crashes; `LayeredLedgerStep` up to the first failure |

Several properties hold only on a condition - `Undisturbed`, `OnlyCrashes`,
`faults = 0`, `crashes = 0`, `overlaps = 0`, `~overlapped`, `Plain`,
`TenantsApart`. The condition is
part of the property, refers to history counters of the model or to its data,
and is as wide as the code allows: the disagreements below are what lies on its
other side.

`overlaps` counts two things, both in the environment of a single call: a record
that is handed out to a second worker while the first still has it (a
rebalance), and a retry that a poll publishes although another poll has removed
it. The second needs no failure at all, only two timers: each worker polls on
its own, and both polls may read a due retry before either removes it. From
there on two workers may deliver one retry at once and both have it accepted;
`AcceptancesAreOwed` counts that acceptance as owed to the overlap,
`SentIsAccepted`, `DLQEarned`, `RetryEarned` and `AttemptsFollow` hold
regardless, and `Undisturbed` ends.

`AnsweredIsSent` and `PublishedIsSent` promise nothing once a provider has
rejected a send (`SentOrRejected`): at the deployed rates of 80, 85 and 90 per
cent that is common, a retry follows, and the batch check refuses it with the
batch it is in (`doc_retry_refused`). Nor once a worker has crashed: the
redelivered message may be taken for a duplicate of itself
(`doc_crash_recovers`).

`DuplicateHasOriginal` and the DUPLICATE half of `AnsweredIsSent` except tenants
with `key` between their colons. The cache key is tenant and key joined with
`:key:` (`DeduplicationService.ts:139`), and `validateRequest` forbids neither in
either: `a:key` with key `k` and `a` with key `key:k` have one cache key. Such a
request is in the instance; it is turned away for another tenant's, which the
property grants.

`ReplaySafe` has its conditions per message, since each stands for a
way in which the code does send twice:

* `KeyApart`: no batch can hold two different messages of the key (both would be
  new to the check: `doc_same_batch`);
* `OwnContent`: no message of another key has the content of one of this key
  (its insert would be skipped, and it would be sent without a row);
* `faults = 0 \/ ~Repeated`: a message published twice, so that one batch may
  hold it twice, is told from the one before it by cache and row alone, and a
  failed call takes that away;
* `NewToOne`, a constraint of the run and an assumption of the theorem: two
  workers do not both find one key absent and hold it as new. It is not part of
  the property because it has to hold from the start; it holds with one worker,
  and in a group without crashes and rebalances whose keys keep to a partition.

`SentOncePerKey` says the same of the requests of clients, and has `KeyApart`
only as one of two alternatives: a router whose requests do not overlap and whose
calls do not fail lets one request of a key through, and then no batch holds two.
Without either, two requests of a key that are both past `exists` before either
has set the key arrive as two new messages of one batch, and both are sent.

**Bounds.** `MaxRouterFaults`, `MaxRouterCrashes`, `MaxFaults`, `MaxCrashes`,
`MaxOverlaps`, `MaxRebalances`, `MaxCopies`, `BatchSize`, `MaxRecords` and
`MaxTime` bound what the environment does; `MaxBatch` and `MaxTable` bound the
inputs of `BatchCheck`; `MaxAttempts` is the code's own constant, and 2 instead
of 4 in `retry_faults`, `retry_settles` and `layered_pipeline` still has a first attempt, a retry
and the DLQ. Two workers are enough for every race in the code, since it
compares no more than two calls; two messages are enough for a batch with a
duplicate in it; three failed calls let an error, the error of its handler and
the error of a second attempt come together.

Four constraints cut instances off. `AtMostThree` and `OneFailure` bound failed
calls, overlaps and crashes together, and `OneFailure` lets no overlap happen
while a request is at the router, which never takes part in one. `NoneRejected`
stops `system_answers` where its properties stop promising anything. `OnePoll`
lets one poll run at a time in `system_once`: retries are refused there, once or
twice published, so that the interleavings of polls change nothing the run asks
(overlapping polls are in the other runs with two workers).

In `system_once` the providers
always accept, which is what matters to a property that counts acceptances; what
a rejected send leads to is in the other runs. One partition makes both requests
meet in a batch; a message may come twice in one batch, in two batches, and
again after a crash or behind a failed call. `MaxTime` 8 lets two retries of
delays 2 and 3 be scheduled at different times, polled by overlapping polls, and
fall due again. In `log_pipeline` three records in batches of two make a second
batch with the first one already committed. In `layered_pipeline` the key of the
first request may expire between any two awaits of the second.

**Symmetry** of workers (and messages, in `retry_faults` and
`system_once`) is used only in runs
without liveness properties.

**Deadlock** checking is off: a finished instance (all messages settled, all
bounds used up) stops, as the system does when nobody sends.

**Fairness.** `FairSpec` is weak fairness of each worker's handler and of each
poller: a live Node process resumes every answered await and fires its interval, and the
awaits of one handler are sequential, so weak fairness of their disjunction is
what the event loop gives. In `RetryScheduler` also of the clock and of a zAdd
that was issued; in `BatchConsumer` also of the coordinator handing out
partitions nobody owns; in `DeployedSystem` (`SystemFairSpec`) all of that and of
each request in progress at the router; in `LayeredPipeline` (`PipelineFairSpec`) of each
request in progress, of each worker's delivery and of each poller. In
`LogPipeline` the consumer runs and is started again after a crash
(`DESIGN_README.md:846`), and fetches from both topics: strong fairness of each
fetch, since fetching one topic disables fetching the other for a while. No
fairness of faults, crashes, rebalances, key expiry, new requests, publishing
or of one provider outcome: `EveryMessageSettles` holds when the provider always
rejects.

### Disagreements between code and documentation

These runs end in a counterexample. The first two are listed in `PROJECT.json`;
the others are run by hand, with `tlc -config <name>.cfg <module>`.

| Config (module) | Property | What happens |
|---|---|---|
| `doc_sent_taken_back` (`MCRetryCycle`) | `SentIsTerminal` | `publishLog` (`DeliveryProcessorService.ts:127`) fails after SENT was written; the catch audits a FAILED attempt, sets PENDING and schedules a retry of a delivered message |
| `doc_retry_refused` (`MCBatchConsumer`) | `RetryIsAttempted` | a retry record makes its batch fail; the retry is never attempted |
| `doc_same_batch` (`MCBatchConsumer`) | `AcceptedOnce` | two messages with one key in one batch are both new to the check; the second insert is skipped, both are sent |
| `doc_crash_recovers` (`MCBatchConsumer`) | `CrashRecovers` | crash between insert and send: the redelivered message meets its own IN_PROGRESS row, is taken for a duplicate and never sent |
| `doc_attempt_numbers` (`MCRetryCycle`) | `AttemptsConsecutive` | attempts are counted in `scheduleRetry` and again in `processDelivery`: 1, 3, 5 |
| `doc_marked_sent` (`MCRetryCycle`) | `AcceptedIsMarked` | with the tables of `init.sql` `updateStatus` names a column `attempts` that is not there: nothing is ever marked SENT |
| `doc_batch_error` (`MCBatchConsumer`) | `PassedIsRecorded` | an error of check or insert is caught and the batch committed (`index.ts:256-259` says Kafka will retry) |
| `doc_poison_batch` (`MCBatchConsumer`) | `PassedIsRecorded` | new messages in a batch with a retry record are passed over |
| `doc_joined_keys` (`MCBatchCheck`) | `DuplicatesAreExact` | a tenant `a:a` with key `a` and a tenant `a` with key `a:a` are joined to one string; a row that differs in case only is missed |
| `doc_overlapping_polls` (`MCRetryScheduler`) | `ProcessedOnce` | two polls read the same due retries before either removes them |
| `doc_cache_first` (`MCIngressRouter`) | `DuplicateIsEnqueued` | the key is set before the publish; when that fails the client's retry is answered DUPLICATE |

Seen in the same way, without a configuration of their own: with two workers
and the key in two partitions both can find it absent and both send
(`AcceptedOnce` in `system_answers`' instance); with `FreshGroup = TRUE` records
published before a crash that precedes the first commit are skipped (`subscribe`
has `fromBeginning: false`), of messages and of logs; with `MaxLatency` not
below the shortest delay a member can be removed unread; an Elasticsearch error
leaves a gap in the logs and a crash a duplicate (`NoGapsOrDuplicates` of
`LogPipeline`); a duplicate is answered with a messageId that no message has,
since the cache holds only `"1"` (`DeduplicationService.ts:49`).

## 4. Proofs

Eight modules hold theorems; `tlapm` checks every leaf.

| Module | Theorem | Statement |
|---|---|---|
| `ProcessorProofs` | lemmas only | what an await of `processDelivery` may do to the calls, the tables and the fault counter; used by the next three modules |
| `RetryCycleProofs` | `Inductive`, `TypeCorrect` | `Spec => []IInv`, `Spec => []TypeOK` |
| | `SentIsAcceptedHolds`, `DLQEarnedHolds`, `RetryEarnedHolds` | rows, audit trail, dead letters and retries never claim more than happened |
| | `LineIsKept`, `OneDelivererHolds`, `RetryFindsPendingHolds` | one line of processing per message until the first overlap (of deliveries, or of two polls that publish one retry) or crash, however many calls fail |
| | `OnLedgerHolds`, `LedgerStepHolds` | `Spec => []OnLedger`, `Spec => LedgerStep`: with lemma `InitMaps` the safety part of the refinement of `DeliveryLedger`, where the tables fit the statements |
| | `ImplementsLedger` | `Spec /\ [](faults = 0 /\ Undisturbed) => Ledger!Spec`: with no failed call, no record handed out twice, no retry published by two polls and no crash, the initial state and every step are those of `DeliveryLedger` |
| | `OutcomeIsTrueHolds` | what the ledger promises of an outcome holds of the deployed rows, by the refinement |
| | `AcceptancesAreOwedHolds` | `Spec => []AcceptancesAreOwed`, through every failed call, overlap and crash, where the tables fit the statements |
| | `SentIsKnown`, `SentOutlivesCrashesHolds` | `Spec => []CachedInv`, `Spec => SentOutlivesCrashes`, an action property, where the tables fit the statements |
| `LayeredPipelineProofs` | `PipelineInductive`, `PipelineTypeCorrect` | `PipelineSpec => []PipelineInv`, `PipelineSpec => []PipelineTypeOK` |
| | `PublishedOncePerContentHolds`, `AttemptsFollowHolds` | the invariants checked by `layered_pipeline`, for every schema and through every fault, overlap and crash |
| | `SentIsNotResentHolds` | `PipelineSpec => SentIsNotResent`, an action property |
| | `LayeredOnLedgerHolds`, `LayeredLedgerStepHolds` | `PipelineSpec => []LayeredOnLedger`, `PipelineSpec => LayeredLedgerStep`, where the tables fit the statements |
| | `LayeredImplementsLedger`, `LayeredOutcomeIsTrueHolds` | as for `RetryCycle`, with `Stride` 1 |
| | `LayeredAcceptancesAreOwed` | `PipelineSpec => []AcceptancesAreOwed` |
| `BatchConsumerProofs` | `Inductive`, `TypeCorrect` | `Spec => []IInv`, `Spec => []TypeOK` |
| | `WriteAheadHolds`, `CrashLosesNothingHolds` | the invariants checked by `batch_safety` |
| | `CommitsAdvanceHolds` | `Spec => CommitsAdvance`, an action property |
| | `ReplaySafeWhileNewToOne` | `Spec /\ []NewToOne => []ReplaySafe`, for any number of workers |
| | `ReplaySafeHolds` | `Spec => []ReplaySafe` for one worker, with every crash, failed call and replay |
| | `ReplaySafeInAStableGroup` | `Spec => []ReplaySafe` for any number of workers, when none crashes, no partition moves and a key keeps to its partition |
| | `GroupIsKept`, `RouterIsKept` | `SystemSpec => Spec`, `SystemSpec => Router!Spec`: the deployed system implements both of its parts |
| | `AcceptedIsKeptHolds` | `SystemSpec => []AcceptedIsKept` |
| | `SentOncePerKeyWhileNewToOne`, `SentOncePerKeyHolds`, `SentOncePerKeyInAStableGroup` | `SystemSpec => []SentOncePerKey` on the three conditions of `ReplaySafe` |
| `BatchCheckProofs` | `Invariant`, `NothingDroppedHolds`, `NothingRepeatedHolds` | the batch check meets its definition, for any strings and any collation |
| `RetrySchedulerProofs` | `Inductive`, `TypeCorrect` | `Spec => []IInv`, `Spec => []TypeOK` |
| | `PublishedOnceHolds`, `NothingRemovedUnreadHolds` | the invariants checked by `retry_schedule` |
| | `NeverEarlyHolds` | `Spec => NeverEarly`, an action property |
| | `PollsAreAtomicHolds` | `Spec => PollsAreAtomic`: a step of `RetryScheduler` is one of `RetryQueue` or none |
| `IngressRouterProofs` | `Inductive`, `TypeCorrect` | `Spec => []IInv`, `Spec => []TypeOK` |
| | `AcceptedIsEnqueuedHolds`, `DuplicateHasOriginalHolds`, `EnqueuedOnceHolds` | the invariants checked by `ingress_race` |
| `LogPipelineProofs` | `Invariant`, `TypeCorrect` | `Spec => []IInv`, `Spec => []TypeOK` |
| | `NoGapWithoutError`, `DuplicatesAreBounded` | the invariants checked by `log_pipeline` |

**Assumptions.** The named `ASSUME`s of the modules: types of the constants
and `:` among the characters of `BatchCheck`. TLC evaluates them in the runs of
the `MC` modules. The theorems about the ledger and about what outlives crashes
assume besides that the statements of the repositories fit the tables
(`TablesFit`; lemma `RepositoryTablesFit` shows it of `RepositorySchema`, which
the `retry_*` runs take). The theorems about `ReplaySafe` and `SentOncePerKey`
assume that schema. `ReplaySafeWhileNewToOne` and `SentOncePerKeyWhileNewToOne`
assume `NewToOne` of the whole behaviour, and the two behind each discharge that
assumption in the cases named. `SystemAssumption` says that the consumer's
idempotency key is the tenant and key of the request, and that the log has room
for one record of each.

**RetryCycle, records.** None of the three safety invariants is inductive: each
says what a *record* rests on, but the record is written several awaits after
what it rests on was established, and in between only the call's position
knows. `CallInv` says what a call has established by the await it has reached:

* `AcceptedBeforeRecorded`: between the send and the end of the success path
  the provider has accepted the message (so SENT and SUCCESS may be written);
* `FailedBeforeDecided`: on the way to the DLQ the failed attempt is in the
  audit trail and numbered `MaxAttempts` or more, and from `publishDLQ` on the
  `dlq_entries` row is there; on the way to a retry the failed attempt is in the
  audit trail and below `MaxAttempts`.

`IInv` is the conjunction of type correctness, the three invariants and
`CallInv`. It survives other workers' steps because `accepted` only grows and
`audit` and `dlqEntries` only gain members.

**RetryCycle, lines.** `LineInv` says that, until the first overlap or crash, a
message has one live record in the topic *or* one waiting retry (in Redis or in
one poll's hands), never two of either; that every call holds its record; and
that what is scheduled is PENDING. Two polls may read that retry before either
removes it: it is still one retry, and what the slower one holds is only a stale
read (`reads[p].gone`), until it publishes it, which is the overlap that ends
the condition. So the read of a poll disturbs nothing (`ReadIsQuiet`), and the
removal moves a retry on or counts an overlap. A failed call may lose the line, it never
splits it: that is why `OneDeliverer` and `RetryFindsPending` need no bound on
faults.

**Refinement.** The ledger numbers attempts; the processor counts them twice
(`RetrySchedulerService.ts:48`, `DeliveryProcessorService.ts:61`), so
`DeliveryLedger` takes a `Stride`, 2 for the deployed code and 1 for the layered
one. `OnLedger` says that each call, record and retry stands where the ledger
expects the next attempt (`Due`): not accepted, not closed, and every attempt
before it in the audit trail. Each await then maps to a ledger step or to none.

In `LayeredPipeline` the same is `LayeredOnLedger`: `Stands` says, await by await,
what of row, audit trail and acceptances goes with the call's place, and a
message that is not published yet is due its first attempt, so that the publish
is a stutter of the ledger. `LedgerStep` and `LayeredLedgerStep` are the form
that is true of every behaviour, up to the first failure; `ImplementsLedger` and
`LayeredImplementsLedger` draw the conclusion for behaviours without one, and
`OutcomeIsTrueHolds` and `LayeredOutcomeIsTrueHolds` carry the ledger's
`OutcomeIsTrue` over to the tables.

**Acceptances.** `AcceptancesAreOwed` bounds a count, and the count alone is not
inductive: a second record of a message may have been made long before it is
sent. `Chances(m)` collects what may still lead to an acceptance of `m`: a record
in nobody's hands, a call that has yet to send or to schedule, a retry in Redis
or removed from it by a poll. `ChancesAreOwed` says that acceptances and chances together are at
most one more than the failures. Every step keeps that: it moves a chance
(`Take`, `Remove`, `Republish`, the retry scheduled), spends one (`Send`), drops
some, or adds one together with a failed call, an overlap or a crash - a removal
adds one for each retry that another poll has removed, and counts as many
overlaps
(`OwedStays`; `AwaitCounts` for the awaits). No bound on faults and no
`Undisturbed` is needed. In `LayeredPipeline` the router's publish is the one step
that adds a chance without a failure, and it meets a message with no chance and
no acceptance (`UnpublishedIsUnsent`, `PublishedFirst`).

**What outlives crashes.** `SentOutlivesCrashes` speaks of one step, but whether
a call may send was decided several awaits before, by a cache and a row that
may be stale by then. `CachedInv` says why they are not, while crashes are all
that repeats a call: the records are first ones and each is in one worker's
hands (`FirstRecords`), a SENT message is in the cache and final in its row
(`SentIsCached`), and a call that meets its message SENT is past its send, or at
an await that will tell it (`CallMeetsSent`).

**LayeredPipeline.** `RowsBeforeRecords` carries the table's unique key from the
INSERT to the publish, over requests that died in between; `AttemptsRest` says
that the attempt number of every record, retry and call is that of a failed and
audited attempt. `SentIsNotResent` needs `SentIsFinal`, `SendMeetsUnsent` and the
one line of processing of `RetryCycle` (`Handling`, whose lemmas are shared);
that the router adds no second line is `PublishedFirst`: deliveries know nothing
of a message before its one publish.

**BatchConsumer.** Each of its properties is about what is *left behind*, while
what makes it true is known by a handler in the middle of a batch. `HandlerInv`
carries it: a call is in progress just in the stage `deliver`; the batch is a
stretch of its partition's log; once the inserts are committed, each message of
the batch has a row or conflicts with one (`InsertedRows` shows that what the
transaction skips is skipped for a row that is there); a worker that still owns
the partition is the one whose batch starts at the partition's position, and a
group that has committed is never ahead of its committed offset. So a commit
passes the batch and nothing else. A worker that lost the partition keeps
writing rows but moves no offset, and `WorkerKept` is all the others need: rows
and logs only grow.

`ReplaySafe` counts acceptances over several handlings of one record, so
`ReplayInv` has to say who may still send. What is new to a batch was absent at
its check, and has a row once the inserts are committed (`NewIsAbsent`); a key
that was sent has a row (`SentHasRow`), so that no later check finds it absent.
Within one batch, what lies ahead of the handler is unsent, or is a message
published twice that cache and row will stop (`AheadIsSendable`, `Sendable`,
`Final`); and a call that has not sent yet finds its message unsent, or is about
to be told (`CallSendsOnce`). `NewToOne` is what is left: it says that no other
worker is between the check and the end of a batch with the same key. In a
group without crashes and rebalances it follows from `OwnersStay`: every
partition keeps its owner, who alone has a batch of it, and a key its partition.

**DeployedSystem.** The parts share one thing, the log: the router appends to it
and reads it never, the group reads it and appends retries. So the composition
is proved by showing that each part keeps its own specification in it. For the
group that is plain (`GroupIsKept`): it knows publishing as a step of its
environment. For the router one has to see that nobody else publishes: an
appended record adds to `Topic` its own message, and only if it is no retry
(`AppendPublishes`); the aggregator appends retries (`AggregateKeepsTopic`), and
kafkajs what is there (`Resend`). Then both inductive invariants hold together
(`PartsInductive`), and the two promises to clients join them.
`AcceptedIsKeptHolds`: ACCEPTED means a record in the log (`AcceptedIsEnqueued`),
and that record is ahead of the committed offset or was not passed unrecorded
(`CrashLosesNothing`). `SentOncePerKey`: every record the group sees is of a
request in the topic, since it is in the partition of its user
(`PublishedAtHome`), so what `EnqueuedOnce` says of the topic makes `KeyApart`
true of every batch (`RouterKeepsApart`), and `ReplaySafe` does the rest.

**BatchCheck.** `IInv` follows the algorithm through its steps: the joined key
of every message is looked up (`EveryJoinIsLookedUp`), every row in a spelling
that was looked up is found (`EveryRowIsFound`), and marked are the messages
whose joined key is that of a row found (`DuplicatesAreJoins`). Lemma
`JoinedApart` shows that two pairs joined to one string are one pair unless one
tenant continues the other behind a `:`.

**RetryScheduler.** A retry whose zAdd is unanswered is nowhere
(`UnissuedIsUnknown`); what a poller holds was due at its cutoff, and the cutoff
is past (`HeldIsDue`, which gives `NeverEarly`); until polls overlap a retry is
either in the ZSET or in one poller's hands and unpublished in both
(`OnePlace`, which gives `PublishedOnce`). For removal by score,
`ReadIsComplete` says that whatever a removal at the poll's cutoff would take
the poll has read: true at the read, and kept by zAdd because a zAdd in time
(`AddedInTime`) still scores after `now` when it arrives - which is where
`MaxLatency` below the shortest delay is needed.

`PollsAreAtomic` compares the scheduler with `RetryQueue`, the one-step poll of
which the comment on the removal speaks ("prevents re-processing same retry
multiple times", `RetrySchedulerService.ts:100`): `zset` is what waits, and what a
poller holds counts as claimed once the removal has been answered (`Claimed`). So
the read is a stutter and the removal is the claim. It claims what was read,
since `ReadIsComplete` says that it removes no more, and since `OnePlace` says
that what was read is still there (`RemovalClaims`). Both halves of the condition
are needed: a second poll may have taken what this one read, and a late zAdd may
put behind the read what the removal takes. `RetryLoop` (and with it `RetryCycle`,
`BatchConsumer` and `LayeredPipeline`) drops the clock and with it the second
half, not the first: its polls have the two calls, and overlap.

**IngressRouter.** Tenants and keys are strings with any colons, written as the
sequence of what stands between them. Lemma `SameKeyIsOne` says that equal tenant
and key make one cache key, lemma `PlainApart` that one cache key comes from one
tenant and key if neither tenant has `key` between colons: the first `key` in
the joined sequence is then the separator of both. `DuplicateHasOriginal` needs to
know who set a cache key
(`CacheHasOriginal`), that a request between the cache hit and its answer keeps
its original (`HitHasOriginal`), and that being let through is never undone
(lemma `LetThroughStays`, one case per await). `EnqueuedOnce` needs `OneByOne`:
while requests follow one another and no call fails, the cache knows every key
in the topic, also after a crash between `setNX` and the publish.

**LogPipeline.** `Progress` says how far the consumer is: its batch lies in the
topic, what it has not committed starts at the committed offset, what lies
before the record in hand is indexed or has thrown, and what lies ahead has at
most as many documents as there were crashes and failed calls (`RepeatsAreOwed`);
handling a record adds the one that `DuplicatesBounded` allows.

**Only model-checked:** what is about liveness - `EveryMessageSettles`,
`LedgerIsKept` with its fairness, `PublishedIsSent`, `ScheduledIsPublished`,
`LogIsIndexed`, `AcceptedSettles`, `AnsweredIsSent`. Liveness under fairness, `ENABLED`, induction
over data and recursive operators are out of the proof system's reach; no module
declares a recursive operator. The types of `BatchConsumer`, `IngressRouter`,
`LogPipeline` and `RetryScheduler` are proved only (`TypeCorrect`), no run repeats
them. Every safety property of a passing run is proved.

## 5. Not modelled, and abstractions

* **Key expiry.** In the deployed router node-redis 4 does not pass the `EX`
  given to `setNX`, so those keys do not expire; the 24 hours of
  `setDeliveredCache` are not modelled. In the layered router keys expire at
  any time (`Expire`).
* **Batches.** One batch per worker at a time (kafkajs' default); one record per
  message and partition key; parsing errors of a record are not modelled.
* **Slow zAdds.** A `zAdd` that reaches Redis later than the shortest delay is in
  `RetryScheduler` only; in `RetryLoop` a poll removes what it read, if still
  there, and nothing else.
* **Poll results** are republished one by one in any order; `publishRetryMessage`
  that fails ends the loop and loses the rest (`Publish`).
* **MySQL.** One transaction of inserts is one action: its unique keys make
  concurrent inserts wait for each other. InnoDB deadlocks are failed calls.
* **Logs and error events** change nothing that the delivery models hold;
  whether they fail matters and is modelled. `LogPipeline` takes them up from
  their topics.
* **Contents** are model values: message and content hash are abstract. That
  `generateDedupKey` may join distinct contents to one string before hashing is
  not modelled; the joining of tenant and key is (`BatchCheck`).
* **Processes.** A router or a worker is one JavaScript process; a crash of
  MySQL, Redis, Kafka or Elasticsearch that loses data is not modelled.
* **The layered implementation** has no consumer and no timer of its own;
  `LayeredPipeline` takes those of `RetryCycle`. Its `ProviderFactory` is the
  deployed one without idempotency options, and both map to `Providers`.
* **Not modelled at all:** `IdempotencyMetricsService` (reporting queries that
  nothing instantiates), the router's `MessageRepository` (constructed, never
  called), the layered logger (the deployed logger's calls, unwired), the
  wiring of the router (Express set-up), health-check and migration scripts,
  load tests, compose files and dashboards. `cancelRetry`, `getRetryStats`,
  `warmIngressCache`, `isHealthy`, `findDeliveryAttempts`, `findDLQEntry`,
  `getIdempotencyMetrics` and the logger's one-topic `consume` have no caller.

## 6. Plan

Done: the deployed processor, retry cycle, batch consumer with its check,
scheduler, router and logger, the deployed system as a whole, the layered
router and aggregator with their runs;
the refinement of an abstract ledger by both, and of an abstract retry queue by
the scheduler; proofs of every safety property.
What is left:

1. **Content hash.** Distinct contents that `generateDedupKey` joins to one
   string, in the manner of `BatchCheck`.
