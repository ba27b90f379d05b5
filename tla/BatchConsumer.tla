----------------------------- MODULE BatchConsumer -----------------------------
(***************************************************************************)
(* The notification aggregator: workers of one Kafka consumer group run    *)
(* the eachBatch handler of index.ts, which checks a batch against MySQL   *)
(* (BatchIdempotencyService), inserts its new messages and delivers them   *)
(* (DeliveryProcessor), while a timer returns due retries to the topic     *)
(* (RetryLoop).                                                            *)
(*                                                                         *)
(* The group is modelled as kafkajs runs it here: eachBatchAutoResolve is  *)
(* left at its default and the handler catches every error, so a batch's   *)
(* last offset is resolved and committed however the batch went; the       *)
(* commit of a worker that lost the partition is refused; a worker that is *)
(* given a partition starts at the committed offset or, when there is none *)
(* (subscribe with fromBeginning: false), at the end of the log.           *)
(***************************************************************************)
EXTENDS RetryLoop, Sequences

CONSTANTS Partitions,      \* partitions of the topics messages.<channel>
          HomePartition,   \* message |-> partition (the record's key is userId)
          IdempotencyKey,  \* message |-> its (tenantId, idempotencyKey)
          None,            \* no worker, no partition
          FreshGroup,      \* has the group never committed an offset?
          BatchSize,       \* bound: records of a batch
          MaxCopies,       \* bound: records the router publishes per message
          MaxRebalances,   \* bound: rebalances no crash forced
          MaxCrashes       \* bound: process crashes

ASSUME GroupAssumption ==
  /\ HomePartition \in [Messages -> Partitions]
  /\ None \notin Workers \cup Partitions
  /\ FreshGroup \in BOOLEAN
  /\ BatchSize \in Nat \ {0} /\ MaxCopies \in Nat
  /\ MaxRebalances \in Nat /\ MaxCrashes \in Nat

VARIABLES log,        \* the records of each partition; offsets count from 1
          owner,      \* the worker each partition is assigned to
          position,   \* the next offset its owner fetches
          committed,  \* the group's committed offset, 0 for none
          batch,      \* where each worker's handler is
          rebalances,
          crashes

groupVars == <<log, owner, position, committed>>
limitVars == <<rebalances, crashes>>
vars == <<processorVars, pollVars, groupVars, batch, limitVars>>

\* The router publishes every field of a message; publishRetryMessage only
\* messageId, channel, attempt and traceId.
KafkaRecord == [message : Messages, retry : BOOLEAN]
Fresh(m)   == [message |-> m, retry |-> FALSE]
RetryOf(m) == [message |-> m, retry |-> TRUE]

NoBatch == [stage |-> "fetch", partition |-> None, first |-> 1, last |-> 0,
            next |-> 1, duplicates |-> {}]
Batch == [stage : {"fetch", "check", "insert", "loop", "deliver", "commit"},
          partition : Partitions \cup {None},
          first : Nat, last : Nat, next : Nat,
          duplicates : SUBSET Messages]

TypeOK ==
  /\ ProcessorTypeOK
  /\ CallsAreFilled
  /\ PollTypeOK
  /\ log \in [Partitions -> Seq(KafkaRecord)]
  /\ owner \in [Partitions -> Workers \cup {None}]
  /\ position \in [Partitions -> Nat]
  /\ committed \in [Partitions -> Nat]
  /\ batch \in [Workers -> Batch]
  /\ rebalances \in 0 .. MaxRebalances
  /\ crashes \in 0 .. MaxCrashes

\* The group has joined; nothing has been published since.
Init ==
  /\ ProcessorInit(Absent)
  /\ PollInit
  /\ log = [p \in Partitions |-> <<>>]
  /\ owner \in [Partitions -> Workers]
  /\ position = [p \in Partitions |-> 1]
  /\ committed = [p \in Partitions |-> IF FreshGroup THEN 0 ELSE 1]
  /\ batch = [w \in Workers |-> NoBatch]
  /\ rebalances = 0
  /\ crashes = 0

AppendTo(p, record) == log' = [log EXCEPT ![p] = Append(@, record)]

-----------------------------------------------------------------------------
(* The batch a worker has, and the tables it meets. *)

Offsets(w) == batch[w].first .. batch[w].last
RecordAt(w, i) == log[batch[w].partition][i]
MessageAt(w, i) == RecordAt(w, i).message

SameIdempotencyKey(m, n) == IdempotencyKey[m] = IdempotencyKey[n]

\* PRIMARY KEY, uk_tenant_idempotency and uk_dedup of the messages table.
Conflicts(m, n) == \/ m = n
                   \/ SameIdempotencyKey(m, n)
                   \/ DedupKey[m] = DedupKey[n]

\* Mutation: only SENT rows count as duplicates.
ExistsInDatabase_SentOnly(m) ==
  \E n \in Messages : rows[n].status = "SENT" /\ SameIdempotencyKey(n, m)

\* queryExistingMessages: rows with the (tenantId, idempotencyKey), in
\* whatever status.
ExistsInDatabase(m) ==
  \E n \in Messages : HasRow(n) /\ SameIdempotencyKey(n, m)

NewOffsets(w) == {i \in Offsets(w) : MessageAt(w, i) \notin batch[w].duplicates}

\* The inserts run in batch order and skip on ER_DUP_ENTRY: an offset is
\* inserted unless a row, or one inserted before it, conflicts with it.
InsertedOffsets(w, S) ==
  S = {i \in NewOffsets(w) :
         /\ \A n \in Messages : HasRow(n) => ~Conflicts(n, MessageAt(w, i))
         /\ \A j \in S : j < i => ~Conflicts(MessageAt(w, j), MessageAt(w, i))}

-----------------------------------------------------------------------------
(* The eachBatch handler. *)

Enter(w, stage) == batch' = [batch EXCEPT ![w].stage = stage]

Produce(m) ==
  LET p == HomePartition[m] IN
  /\ Cardinality({i \in DOMAIN log[p] : log[p][i] = Fresh(m)}) < MaxCopies
  /\ AppendTo(p, Fresh(m))
  /\ UNCHANGED <<processorVars, pollVars, owner, position, committed, batch,
                 limitVars>>

Fetch(w, p) ==
  /\ batch[w].stage = "fetch"
  /\ owner[p] = w
  /\ \E last \in position[p] .. Len(log[p]) :
       /\ last < position[p] + BatchSize
       /\ batch' = [batch EXCEPT ![w] =
                      [stage |-> "check", partition |-> p,
                       first |-> position[p], last |-> last,
                       next |-> position[p], duplicates |-> {}]]
  /\ UNCHANGED <<processorVars, pollVars, groupVars, limitVars>>

\* checkBatchIdempotency.  A retry record has no tenantId and no key, and
\* mysql2 refuses to bind undefined: the batch is abandoned.
CheckBatch(w) ==
  /\ batch[w].stage = "check"
  /\ \/ /\ \A i \in Offsets(w) : ~RecordAt(w, i).retry
        /\ LET known == {m \in {MessageAt(w, i) : i \in Offsets(w)} :
                           ExistsInDatabase(m)}
           IN batch' = [batch EXCEPT
                          ![w].duplicates = known,
                          ![w].stage =
                            IF \A i \in Offsets(w) : MessageAt(w, i) \in known
                            THEN "loop" ELSE "insert"]
        /\ UNCHANGED faults
     \/ /\ \E i \in Offsets(w) : RecordAt(w, i).retry
        /\ Enter(w, "commit")
        /\ UNCHANGED faults
     \/ Fault /\ Enter(w, "commit")
  /\ UNCHANGED <<storeVars, callVars, pollVars, groupVars, limitVars>>

\* Mutation: an error of the insert is caught in the service.
InsertNew_Swallows(w) ==
  /\ batch[w].stage = "insert"
  /\ \/ /\ \E S \in SUBSET NewOffsets(w) :
             /\ InsertedOffsets(w, S)
             /\ rows' = [m \in Messages |->
                           IF \E i \in S : MessageAt(w, i) = m
                           THEN [status |-> "IN_PROGRESS",
                                 finalDelivered |-> FALSE]
                           ELSE rows[m]]
        /\ UNCHANGED faults
     \/ UNCHANGED rows /\ Fault
  /\ Enter(w, "loop")
  /\ UNCHANGED <<audit, dlqEntries, dlqTopic, delivered, retries, accepted,
                 callVars, pollVars, groupVars, limitVars>>

\* Mutation: the transaction is not committed.
InsertNew_NoCommit(w) ==
  /\ batch[w].stage = "insert"
  /\ Enter(w, "loop")
  /\ UNCHANGED <<processorVars, pollVars, groupVars, limitVars>>

\* insertNewMessagesInProgress, one transaction.  Which messages it skipped
\* is not used by the caller.
InsertNew(w) ==
  /\ batch[w].stage = "insert"
  /\ \/ /\ \E S \in SUBSET NewOffsets(w) :
             /\ InsertedOffsets(w, S)
             /\ rows' = [m \in Messages |->
                           IF \E i \in S : MessageAt(w, i) = m
                           THEN [status |-> "IN_PROGRESS",
                                 finalDelivered |-> FALSE]
                           ELSE rows[m]]
        /\ \/ Enter(w, "loop") /\ UNCHANGED faults
           \/ Enter(w, "commit") /\ Fault
     \/ UNCHANGED rows /\ Enter(w, "commit") /\ Fault
  /\ UNCHANGED <<audit, dlqEntries, dlqTopic, delivered, retries, accepted,
                 callVars, pollVars, groupVars, limitVars>>

\* The loop of index.ts:185: a message marked duplicate is passed over.
SkipDuplicate(w) ==
  /\ batch[w].stage = "loop"
  /\ batch[w].next \in Offsets(w)
  /\ MessageAt(w, batch[w].next) \in batch[w].duplicates
  /\ batch' = [batch EXCEPT ![w].next = @ + 1]
  /\ UNCHANGED <<processorVars, pollVars, groupVars, limitVars>>

Deliver(w) ==
  /\ batch[w].stage = "loop"
  /\ batch[w].next \in Offsets(w)
  /\ MessageAt(w, batch[w].next) \notin batch[w].duplicates
  /\ StartDelivery(w, MessageAt(w, batch[w].next), 0)
  /\ Enter(w, "deliver")
  /\ UNCHANGED <<storeVars, faults, pollVars, groupVars, limitVars>>

Process(w) ==
  /\ ProcessorStep(w)
  /\ Rescored(w, att[w] + 1)
  /\ UNCHANGED <<polled, groupVars, batch, limitVars>>

\* A rejected call is caught; success or not, the loop goes on.
EndDelivery(w) ==
  /\ pc[w] \in Results
  /\ EndCall(w)
  /\ batch' = [batch EXCEPT ![w].stage = "loop", ![w].next = @ + 1]
  /\ UNCHANGED <<storeVars, faults, pollVars, groupVars, limitVars>>

HandlerDone(w) == \/ batch[w].stage = "commit"
                  \/ batch[w].stage = "loop" /\ batch[w].next > batch[w].last

\* Mutation: with fromBeginning: false every assignment starts at the end.
StartAt_LogEnd(p) == Len(log[p]) + 1

StartAt(p) == IF committed[p] = 0 THEN Len(log[p]) + 1 ELSE committed[p]

\* Mutation: the commit is not fenced by the assignment.
Commit_Unfenced(w) ==
  LET p == batch[w].partition
      after == batch[w].last + 1
  IN
  /\ HandlerDone(w)
  /\ committed' = [committed EXCEPT ![p] = after]
  /\ position' = [position EXCEPT ![p] = IF owner[p] = w THEN after ELSE @]
  /\ batch' = [batch EXCEPT ![w] = NoBatch]
  /\ UNCHANGED <<processorVars, pollVars, log, owner, limitVars>>

\* The handler returned.  A failed commit makes the consumer join again.
Commit(w) ==
  LET p == batch[w].partition
      after == batch[w].last + 1
  IN
  /\ HandlerDone(w)
  /\ \/ /\ owner[p] = w
        /\ committed' = [committed EXCEPT ![p] = after]
        /\ position' = [position EXCEPT ![p] = after]
        /\ UNCHANGED faults
     \/ /\ owner[p] = w
        /\ position' = [position EXCEPT ![p] = StartAt(p)]
        /\ UNCHANGED committed
        /\ Fault
     \/ /\ owner[p] # w
        /\ UNCHANGED <<position, committed, faults>>
  /\ batch' = [batch EXCEPT ![w] = NoBatch]
  /\ UNCHANGED <<storeVars, callVars, pollVars, log, owner, limitVars>>

-----------------------------------------------------------------------------
(* Retries, crashes and rebalances. *)

ReadRetries(t, due) ==
  Read(t, due) /\ UNCHANGED <<groupVars, batch, limitVars>>

RemoveRetries(t) ==
  Remove(t) /\ UNCHANGED <<groupVars, batch, limitVars>>

\* Without a userId the record has no key: any partition may get it.
RepublishRetry(t, r, p) ==
  /\ Republish(t, r, AppendTo(p, RetryOf(r.message)), UNCHANGED log)
  /\ UNCHANGED <<owner, position, committed, batch, limitVars>>

Crash(w) ==
  /\ crashes < MaxCrashes
  /\ crashes' = crashes + 1
  /\ batch' = [batch EXCEPT ![w] = NoBatch]
  /\ EndCall(w)
  /\ PollsDie(w)
  /\ owner' = [p \in Partitions |-> IF owner[p] = w THEN None ELSE owner[p]]
  /\ UNCHANGED <<storeVars, faults, log, position, committed, rebalances>>

\* A worker in the middle of a batch sends no heartbeat, so it can lose its
\* partitions and not know; only idle workers join.
Rebalance(to) ==
  /\ \A p \in Partitions : batch[to[p]].stage = "fetch"
  /\ \/ (\E p \in Partitions : owner[p] = None) /\ UNCHANGED rebalances
     \/ /\ \A p \in Partitions : owner[p] # None
        /\ to # owner
        /\ rebalances < MaxRebalances
        /\ rebalances' = rebalances + 1
  /\ owner' = to
  /\ position' = [p \in Partitions |-> StartAt(p)]
  /\ UNCHANGED <<processorVars, pollVars, log, committed, batch, crashes>>

Work(w) == \/ \E p \in Partitions : Fetch(w, p)
           \/ CheckBatch(w) \/ InsertNew(w)
           \/ SkipDuplicate(w) \/ Deliver(w) \/ Process(w) \/ EndDelivery(w)
           \/ Commit(w)

Timer(t) == \/ \E due \in SUBSET retries : ReadRetries(t, due)
            \/ RemoveRetries(t)
            \/ \E r \in polled[t], p \in Partitions : RepublishRetry(t, r, p)

Recover == \E to \in [Partitions -> Workers] : Rebalance(to)

Next == \/ \E m \in Messages : Produce(m)
        \/ \E w \in Workers : Work(w) \/ Crash(w)
        \/ \E t \in Pollers : Timer(t)
        \/ Recover

Spec == Init /\ [][Next]_vars

\* A live process runs its handler and its timer, and the coordinator hands
\* out the partitions of a dead one; nobody owes a crash or a rebalance.
FairSpec ==
  /\ Spec
  /\ \A w \in Workers : WF_vars(Work(w))
  /\ \A t \in Pollers : WF_vars(Timer(t))
  /\ WF_vars((\E p \in Partitions : owner[p] = None) /\ Recover)

-----------------------------------------------------------------------------
(* Safety under crashes, rebalances and failed calls. *)

Recorded(m) == \E n \in Messages : HasRow(n) /\ Conflicts(n, m)

\* "DB is written BEFORE calling provider" (DeliveryProcessorService.ts:22):
\* whatever a worker delivers has a row, or one it conflicts with.
WriteAhead == \A w \in Workers : InCall(w) => Recorded(msg[w])

\* A committed offset never moves back: a worker that lost its partition
\* does not undo what the new owner committed.
CommitsAdvance ==
  [][\A p \in Partitions : committed'[p] >= committed[p]]_vars

\* One provider acceptance per idempotency key, as BatchIdempotencyService
\* .ts:9 promises for any batch and any number of workers.
AcceptedOnce ==
  \A m, n \in Messages :
    SameIdempotencyKey(m, n) => /\ accepted[m] <= 1
                                /\ m # n => accepted[m] = 0 \/ accepted[n] = 0

\* "Prevents 'committed but not written' scenarios" (DESIGN_README.md:706):
\* every message record a committed offset has passed is in the database.
PassedIsRecorded ==
  \A p \in Partitions : \A i \in DOMAIN log[p] :
    i < committed[p] /\ ~log[p][i].retry => Recorded(log[p][i].message)

\* Two message records of a partition that one batch may hold.
InReach(p, i, j) == /\ i \in DOMAIN log[p] /\ j \in DOMAIN log[p]
                    /\ i < j /\ j < i + BatchSize
                    /\ ~log[p][i].retry /\ ~log[p][j].retry

\* Is m published so that one batch may hold it twice?
Repeated(m) == \E p \in Partitions : \E i, j \in DOMAIN log[p] :
  InReach(p, i, j) /\ log[p][i].message = m /\ log[p][j].message = m

\* No batch holds another message of m's key beside m: a batch is checked
\* against the database only, so both would be new.
KeyApart(m) == \A p \in Partitions : \A i, j \in DOMAIN log[p] :
  InReach(p, i, j) /\ SameIdempotencyKey(log[p][i].message, m)
                   /\ SameIdempotencyKey(log[p][j].message, m) =>
    log[p][i].message = log[p][j].message

\* No message of another key has the content of one of m's key, for which
\* its insert would be skipped and the message sent without a row.
OwnContent(m) == \A k, n \in Messages :
  SameIdempotencyKey(n, m) /\ DedupKey[k] = DedupKey[n] =>
    SameIdempotencyKey(k, m)

\* "Kafka replay is safe" (BatchIdempotencyService.ts:14): one provider
\* acceptance per idempotency key, through crashes and replays, and through
\* failed calls as well unless the message may come twice in one batch.
ReplaySafe ==
  \A m, n \in Messages :
    OwnContent(m) /\ KeyApart(m) /\ (faults = 0 \/ ~Repeated(m)) =>
      /\ accepted[m] <= 1
      /\ SameIdempotencyKey(m, n) /\ m # n => accepted[m] = 0 \/ accepted[n] = 0

\* What ReplaySafe rests on where several workers run: no two of them have
\* found one key absent and hold it as new.
NewMessages(w) == {MessageAt(w, i) : i \in NewOffsets(w)}

Holds(w, m) == /\ batch[w].stage \in {"insert", "loop", "deliver"}
               /\ m \in NewMessages(w)

NewToOne == \A v, w \in Workers, m, n \in Messages :
  Holds(v, m) /\ Holds(w, n) /\ SameIdempotencyKey(m, n) => v = w

\* Until a call fails or a retry record is published, the offset of a group
\* that has committed before passes only records whose message is in the
\* database: no crash or rebalance loses one.
NoRetryPublished == \A p \in Partitions : \A i \in DOMAIN log[p] :
                      ~log[p][i].retry

CrashLosesNothing ==
  faults = 0 /\ ~FreshGroup /\ NoRetryPublished => PassedIsRecorded

-----------------------------------------------------------------------------
(* What a handler has established by the stage it is in: the strengthening *)
(* that makes the safety properties inductive.                             *)

\* What the unique keys of init.sql:30-31 give.
OneRowPerKey ==
  \A m, n \in Messages : HasRow(m) /\ HasRow(n) /\ Conflicts(m, n) => m = n

Handling(w) == batch[w].stage # "fetch"

CallIsDelivery(w) == InCall(w) <=> batch[w].stage = "deliver"

BatchIsInTheLog(w) ==
  Handling(w) =>
    /\ batch[w].partition \in Partitions
    /\ 1 <= batch[w].first /\ batch[w].first <= batch[w].last
    /\ batch[w].last <= Len(log[batch[w].partition])
    /\ batch[w].first <= batch[w].next
    /\ batch[w].next <= batch[w].last + 1
    /\ batch[w].stage = "deliver" => batch[w].next <= batch[w].last

HandledIsRecorded(w) ==
  /\ batch[w].stage = "insert" =>
       \A m \in batch[w].duplicates : Recorded(m)
  /\ batch[w].stage \in {"loop", "deliver"} =>
       \A i \in Offsets(w) : Recorded(MessageAt(w, i))
  /\ batch[w].stage = "commit" => faults > 0 \/ ~NoRetryPublished

\* A worker that still owns the partition of its batch is the one that moves
\* the partition's offsets.
OwnerIsInStep(w) ==
  Handling(w) /\ owner[batch[w].partition] = w =>
    batch[w].first = position[batch[w].partition]

OffsetsAreInStep ==
  \A p \in Partitions : /\ 1 <= position[p] /\ position[p] <= Len(log[p]) + 1
                        /\ committed[p] <= position[p]
                        /\ ~FreshGroup => committed[p] = position[p]

HandlerInv == /\ \A w \in Workers : /\ CallIsDelivery(w) /\ BatchIsInTheLog(w)
                                    /\ HandledIsRecorded(w) /\ OwnerIsInStep(w)
              /\ OffsetsAreInStep

IInv == TypeOK /\ HandlerInv /\ WriteAhead /\ OneRowPerKey /\ CrashLosesNothing

-----------------------------------------------------------------------------
(* Which handling of a message may still send it: what makes ReplaySafe     *)
(* inductive, as long as NewToOne holds.                                    *)

\* Its key is new to one batch at a time, and to one message of the batch.
KeyIsPlain(m) == OwnContent(m) /\ KeyApart(m)

Guarded(m) == KeyIsPlain(m) /\ (faults = 0 \/ ~Repeated(m))

SentHasRow == \A m \in Messages : KeyIsPlain(m) /\ accepted[m] > 0 => HasRow(m)

\* Row and cache will stop a second call for m.
Final(m) == rows[m].finalDelivered /\ DedupKey[m] \in delivered

Sendable(m) == accepted[m] = 0 \/ (Repeated(m) /\ Final(m))

\* What is new to a batch was absent at its check and has a row after its
\* insert.
NewIsAbsent(w) ==
  /\ Handling(w) => batch[w].last < batch[w].first + BatchSize
  /\ batch[w].stage \in {"insert", "loop", "deliver"} =>
       \A i \in Offsets(w) : ~RecordAt(w, i).retry
  /\ batch[w].stage = "insert" =>
       \A m \in NewMessages(w) : ~ExistsInDatabase(m)
  /\ batch[w].stage \in {"loop", "deliver"} =>
       \A m \in NewMessages(w) : KeyIsPlain(m) => HasRow(m)
  /\ batch[w].stage = "deliver" =>
       /\ batch[w].next \in NewOffsets(w)
       /\ msg[w] = MessageAt(w, batch[w].next)
       /\ att[w] = 1

MessagesAhead(w) ==
  {MessageAt(w, i) : i \in {j \in NewOffsets(w) : batch[w].next <= j}}

AheadIsSendable(w) ==
  batch[w].stage \in {"loop", "deliver"} =>
    \A m \in MessagesAhead(w) : Guarded(m) =>
      Sendable(m) \/ (batch[w].stage = "deliver" /\ m = msg[w])

BeforeSend == {"exists", "setNX", "getStatus", "send"}
AfterSend == {"markSent", "saveSuccess", "warm", "logSent", "succeeded"}

SendsOnce(w, m) ==
  /\ pc[w] \in {"exists", "getStatus"} => Sendable(m)
  /\ pc[w] \in {"setNX", "send"} => accepted[m] = 0
  /\ faults = 0 =>
       /\ pc[w] \in {"getStatus", "send", "markSent"} => DedupKey[m] \in delivered
       /\ pc[w] \in AfterSend \ {"markSent"} => Final(m)
       /\ pc[w] \notin BeforeSend \cup AfterSend => accepted[m] = 0

CallSendsOnce(w) == \A m \in Messages :
  InCall(w) /\ msg[w] = m /\ Guarded(m) => SendsOnce(w, m)

AcceptedAtMostOnce == \A m \in Messages : Guarded(m) => accepted[m] <= 1

ReplayInv == /\ SentHasRow /\ AcceptedAtMostOnce
             /\ \A w \in Workers : /\ NewIsAbsent(w) /\ AheadIsSendable(w)
                                   /\ CallSendsOnce(w)

-----------------------------------------------------------------------------
(* Liveness. *)

Published(m) == \E i \in DOMAIN log[HomePartition[m]] :
                  log[HomePartition[m]][i] = Fresh(m)

\* Once a provider rejects a send there is a retry record, which the batch
\* check refuses with whatever else is in its batch: nothing is promised then.
SentOrRejected(m) ==
  \/ \E n \in Messages : Conflicts(n, m) /\ rows[n].status = "SENT"
  \/ \E a \in audit : a.status = "FAILED"

\* What the router published is delivered and marked, under its own id or
\* as a duplicate of a message that is, wherever partitions move - unless a
\* provider rejects a send, a call fails or a worker dies.
PublishedIsSent ==
  [](faults = 0 /\ crashes = 0) =>
    \A m \in Messages : Published(m) ~> SentOrRejected(m)

\* After a crash, "Message 7 redelivered to another worker", "Message
\* processed correctly" (DEMO_README.md:974-976).
CrashRecovers ==
  [](faults = 0) => \A m \in Messages : Published(m) ~> SentOrRejected(m)

\* "Consumer processes as same messageId" (RetrySchedulerService.ts:9): a
\* scheduled retry leads to an attempt with its number, or to a delivery.
RetryIsAttempted ==
  \A m \in Messages, a \in 2 .. MaxAttempts :
    ([message |-> m, attempt |-> a] \in retries) ~>
      \/ \E e \in audit : e.message = m /\ e.number >= a
      \/ rows[m].status = "SENT"

=============================================================================
