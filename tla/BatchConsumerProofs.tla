------------------------- MODULE BatchConsumerProofs -------------------------
(***************************************************************************)
(* BatchConsumer!IInv is inductive: rows before sends, commits that        *)
(* advance and no record passed unrecorded, for every number of workers,   *)
(* polls, partitions, messages, copies, rebalances and crashes, every      *)
(* batch size and every schema.  With the tables of the repositories       *)
(* BatchConsumer!ReplayInv is inductive too as long as no two handlers     *)
(* hold one idempotency key as new: no replay sends a message again.       *)
(*                                                                         *)
(* The last section is about DeployedSystem, which keeps the specification *)
(* of the group and that of the router: what is proved of either holds of  *)
(* both together, and says of clients what neither says alone.             *)
(***************************************************************************)
EXTENDS DeployedSystem, ProcessorProofs

USE DEF processorVars, storeVars, callVars, pollVars, groupVars, limitVars,
        Queue!Publish, PollTypeOK

GroupTypeOK ==
  /\ PollTypeOK
  /\ log \in [Partitions -> Seq(KafkaRecord)]
  /\ owner \in [Partitions -> Workers \cup {None}]
  /\ position \in [Partitions -> Nat]
  /\ committed \in [Partitions -> Nat]
  /\ batch \in [Workers -> Batch]
  /\ rebalances \in 0 .. MaxRebalances
  /\ crashes \in 0 .. MaxCrashes

\* Types are carried from step to step in four parts.
LEMMA TypeParts ==
  TypeOK <=> StoreTypeOK /\ CallTypeOK /\ FaultTypeOK /\ GroupTypeOK
BY ProcessorParts DEF TypeOK, GroupTypeOK

\* All that is known of one worker.
WorkerInv(w) == /\ CallIsDelivery(w) /\ BatchIsInTheLog(w)
                /\ HandledIsRecorded(w) /\ OwnerIsInStep(w)
                /\ InCall(w) => Recorded(msg[w])

WorkersInv == \A w \in Workers : WorkerInv(w)

\* All that is known of the tables and the offsets.
GroupInv == OneRowPerKey /\ OffsetsAreInStep /\ CrashLosesNothing

\* The invariant by what it is about: types, each worker, the group.
LEMMA IInvParts ==
  IInv <=> /\ StoreTypeOK /\ CallTypeOK /\ FaultTypeOK /\ GroupTypeOK
           /\ WorkersInv /\ GroupInv
BY TypeParts DEF IInv, HandlerInv, WriteAhead, WorkerInv, WorkersInv, GroupInv

-----------------------------------------------------------------------------
(* The records of a batch. *)

\* A record of the log names a message.
LEMMA RecordsAreTyped ==
  ASSUME GroupTypeOK, NEW p \in Partitions, NEW i \in 1 .. Len(log[p])
  PROVE  /\ i \in DOMAIN log[p] /\ log[p][i] \in KafkaRecord
         /\ log[p][i].message \in Messages /\ log[p][i].retry \in BOOLEAN
<1>1. log[p] \in Seq(KafkaRecord)
  BY DEF GroupTypeOK
<1>2. log[p][i] \in KafkaRecord /\ i \in DOMAIN log[p]
  BY <1>1
<1> QED BY <1>2 DEF KafkaRecord

\* The batch in hand is a stretch of its partition's log.
LEMMA OffsetsAreRecords ==
  ASSUME GroupTypeOK, NEW w \in Workers, BatchIsInTheLog(w), Handling(w)
  PROVE  /\ batch[w].partition \in Partitions
         /\ batch[w].first \in Nat /\ batch[w].last \in Nat
         /\ batch[w].next \in Nat
         /\ \A i \in Offsets(w) : /\ i \in 1 .. Len(log[batch[w].partition])
                                  /\ MessageAt(w, i) \in Messages
                                  /\ RecordAt(w, i).retry \in BOOLEAN
<1>1. batch[w] \in Batch
  BY DEF GroupTypeOK
<1>2. /\ batch[w].first \in Nat /\ batch[w].last \in Nat /\ batch[w].next \in Nat
  BY <1>1 DEF Batch
<1>3. /\ batch[w].partition \in Partitions /\ 1 <= batch[w].first
      /\ batch[w].last <= Len(log[batch[w].partition])
  BY DEF BatchIsInTheLog
<1>4. Len(log[batch[w].partition]) \in Nat
  BY <1>3 DEF GroupTypeOK
<1>5. \A i \in Offsets(w) : i \in 1 .. Len(log[batch[w].partition])
  BY <1>2, <1>3, <1>4 DEF Offsets
<1> QED
  BY <1>2, <1>3, <1>5, RecordsAreTyped DEF MessageAt, RecordAt

\* Conflicts of unique keys are mutual.
LEMMA ConflictsMutual == \A m, n : Conflicts(m, n) => Conflicts(n, m)
BY DEF Conflicts, SameIdempotencyKey

-----------------------------------------------------------------------------
(* What a worker knows stays true while others work. *)

LogGrows == \A p \in Partitions :
              /\ Len(log[p]) <= Len(log'[p])
              /\ \A i \in 1 .. Len(log[p]) : log'[p][i] = log[p][i]

RowsStay == \A m \in Messages : HasRow(m) => HasRow(m)'

\* What is recorded stays recorded.
LEMMA RecordedStays ==
  ASSUME RowsStay, NEW m, Recorded(m)
  PROVE  Recorded(m)'
BY DEF RowsStay, Recorded, Conflicts, SameIdempotencyKey

\* A retry record in the log stays there.
LEMMA RetriesStay ==
  ASSUME GroupTypeOK, GroupTypeOK', LogGrows, ~NoRetryPublished
  PROVE  ~NoRetryPublished'
<1>1. PICK p \in Partitions : \E i \in DOMAIN log[p] : log[p][i].retry
  BY DEF NoRetryPublished
<1> PICK i \in DOMAIN log[p] : log[p][i].retry
  BY <1>1
<1>2. log[p] \in Seq(KafkaRecord) /\ log'[p] \in Seq(KafkaRecord)
  BY DEF GroupTypeOK
<1>3. i \in 1 .. Len(log[p]) /\ Len(log[p]) <= Len(log'[p])
  BY <1>2 DEF LogGrows
<1>4. i \in DOMAIN log'[p] /\ log'[p][i] = log[p][i]
  BY <1>2, <1>3 DEF LogGrows
<1> QED BY <1>4 DEF NoRetryPublished

\* A worker that takes no part in a step keeps what it knew, unless it is
\* made the owner of its batch's partition or that partition is moved.
LEMMA WorkerKept ==
  ASSUME GroupTypeOK, GroupTypeOK', FaultTypeOK, faults' \in Nat,
         faults' >= faults, LogGrows, RowsStay,
         NEW v \in Workers, WorkerInv(v),
         batch'[v] = batch[v], pc'[v] = pc[v], msg'[v] = msg[v],
         Handling(v) /\ owner'[batch[v].partition] = v =>
           /\ owner[batch[v].partition] = v
           /\ position'[batch[v].partition] = position[batch[v].partition]
  PROVE  WorkerInv(v)'
<1>1. CallIsDelivery(v)' /\ (InCall(v) => Recorded(msg[v]))'
  BY RecordedStays DEF WorkerInv, CallIsDelivery, InCall
<1>2. OwnerIsInStep(v)'
  BY DEF WorkerInv, OwnerIsInStep, Handling
<1>3. BatchIsInTheLog(v)'
  <2> SUFFICES ASSUME Handling(v)
               PROVE  BatchIsInTheLog(v)'
    BY DEF BatchIsInTheLog, Handling
  <2>1. /\ batch[v].partition \in Partitions /\ batch[v].last \in Nat
        /\ batch[v].last <= Len(log[batch[v].partition])
    BY OffsetsAreRecords DEF WorkerInv, BatchIsInTheLog
  <2>2. /\ Len(log[batch[v].partition]) \in Nat
        /\ Len(log'[batch[v].partition]) \in Nat
    BY <2>1 DEF GroupTypeOK
  <2>3. batch[v].last <= Len(log'[batch[v].partition])
    BY <2>1, <2>2 DEF LogGrows
  <2> QED
    BY <2>3 DEF WorkerInv, BatchIsInTheLog, Handling
<1>4. HandledIsRecorded(v)'
  <2>1. batch[v].stage = "insert" =>
          \A m \in batch[v].duplicates : Recorded(m)'
    BY RecordedStays DEF WorkerInv, HandledIsRecorded
  <2>2. ASSUME batch[v].stage \in {"loop", "deliver"}, NEW i \in Offsets(v)
        PROVE  Recorded(MessageAt(v, i))'
    <3>1. i \in 1 .. Len(log[batch[v].partition]) /\ batch[v].partition \in Partitions
      BY <2>2, OffsetsAreRecords DEF WorkerInv, Handling
    <3>2. MessageAt(v, i)' = MessageAt(v, i)
      BY <3>1 DEF LogGrows, MessageAt, RecordAt
    <3>3. Recorded(MessageAt(v, i))
      BY <2>2 DEF WorkerInv, HandledIsRecorded
    <3> QED
      BY <3>2, <3>3, RecordedStays DEF Recorded, Conflicts, SameIdempotencyKey
  <2>3. batch[v].stage = "commit" => faults' > 0 \/ ~NoRetryPublished'
    BY RetriesStay DEF WorkerInv, HandledIsRecorded, FaultTypeOK
  <2>4. Offsets(v)' = Offsets(v)
    BY DEF Offsets
  <2> QED
    BY <2>1, <2>2, <2>3, <2>4 DEF HandledIsRecorded
<1> QED BY <1>1, <1>2, <1>3, <1>4 DEF WorkerInv

\* Unique keys hold of the same rows.
LEMMA OneRowKept ==
  ASSUME OneRowPerKey, \A m \in Messages : HasRow(m)' <=> HasRow(m)
  PROVE  OneRowPerKey'
BY DEF OneRowPerKey, Conflicts, SameIdempotencyKey

\* While no offset is committed, what the offsets have passed stays recorded,
\* as rows and log grow.
LEMMA PassedKept ==
  ASSUME GroupTypeOK, GroupTypeOK', FaultTypeOK, faults' \in Nat,
         faults' >= faults, LogGrows, RowsStay,
         committed' = committed, OffsetsAreInStep, CrashLosesNothing
  PROVE  CrashLosesNothing'
<1> SUFFICES ASSUME faults' = 0, ~FreshGroup, NoRetryPublished',
                    NEW p \in Partitions, NEW i \in DOMAIN log'[p],
                    i < committed[p], ~log'[p][i].retry
             PROVE  \E n \in Messages :
                      HasRow(n)' /\ Conflicts(n, log'[p][i].message)
  BY DEF CrashLosesNothing, PassedIsRecorded, Recorded, Conflicts,
         SameIdempotencyKey
<1>1. faults = 0 /\ NoRetryPublished
  BY RetriesStay DEF FaultTypeOK
<1>2. /\ Len(log[p]) \in Nat /\ i \in Nat /\ 1 <= i
      /\ committed[p] \in Nat /\ position[p] \in Nat
  BY DEF GroupTypeOK
<1>3. i \in 1 .. Len(log[p])
  BY <1>2 DEF OffsetsAreInStep
<1>4. log'[p][i] = log[p][i] /\ i \in DOMAIN log[p]
  BY <1>3, RecordsAreTyped DEF LogGrows
<1>5. Recorded(log[p][i].message)
  BY <1>1, <1>4 DEF CrashLosesNothing, PassedIsRecorded
<1> QED
  BY <1>4, <1>5 DEF Recorded, RowsStay

\* Steps that leave log, rows and offsets alone keep what is known of them.
LEMMA GroupKept ==
  ASSUME GroupTypeOK, GroupTypeOK', FaultTypeOK, faults' \in Nat,
         faults' >= faults, UNCHANGED <<log, position, committed>>,
         \A m \in Messages : HasRow(m)' <=> HasRow(m), GroupInv
  PROVE  GroupInv'
<1>1. LogGrows /\ RowsStay
  <2>1. \A p \in Partitions : Len(log[p]) \in Nat
    BY DEF GroupTypeOK
  <2> QED BY <2>1 DEF LogGrows, RowsStay
<1>2. OffsetsAreInStep'
  BY DEF GroupInv, OffsetsAreInStep
<1> QED
  BY <1>1, <1>2, OneRowKept, PassedKept DEF GroupInv

-----------------------------------------------------------------------------
(* Records are published. *)

\* A record at the end of the log is nothing that a worker has, or that an
\* offset has passed.
LEMMA AppendInv ==
  ASSUME IInv, NEW p \in Partitions, NEW record \in KafkaRecord,
         AppendTo(p, record), GroupTypeOK', faults' \in Nat, faults' >= faults,
         UNCHANGED <<rows, pc, msg, batch, owner, position, committed>>
  PROVE  WorkersInv' /\ GroupInv'
<1>0. /\ GroupTypeOK /\ FaultTypeOK /\ GroupInv
      /\ \A w \in Workers : WorkerInv(w)
  BY IInvParts DEF WorkersInv
<1>1. /\ log'[p] = Append(log[p], record)
      /\ \A q \in Partitions \ {p} : log'[q] = log[q]
      /\ \A q \in Partitions : log[q] \in Seq(KafkaRecord)
  BY <1>0 DEF GroupTypeOK, AppendTo
<1>2. /\ Len(log'[p]) = Len(log[p]) + 1
      /\ \A i \in 1 .. Len(log[p]) : log'[p][i] = log[p][i]
  BY <1>1
<1>3. \A q \in Partitions : Len(log[q]) \in Nat
  BY <1>1
<1>4. LogGrows
  BY <1>1, <1>2, <1>3 DEF LogGrows
<1>5. RowsStay /\ \A m \in Messages : HasRow(m)' <=> HasRow(m)
  BY DEF RowsStay, HasRow
<1>6. OffsetsAreInStep'
  <2>1. \A q \in Partitions : Len(log[q]) <= Len(log'[q]) /\ Len(log'[q]) \in Nat
    BY <1>1, <1>2, <1>3
  <2> QED
    BY <1>0, <1>3, <2>1 DEF GroupInv, OffsetsAreInStep, GroupTypeOK
<1>7. GroupInv'
  BY <1>0, <1>4, <1>5, <1>6, OneRowKept, PassedKept DEF GroupInv
<1>8. ASSUME NEW w \in Workers PROVE WorkerInv(w)'
  BY <1>0, <1>4, <1>5, <1>8, WorkerKept
<1> QED BY <1>7, <1>8 DEF WorkersInv

\* The router publishes.
LEMMA ProduceInv ==
  ASSUME IInv, NEW m \in Messages, Produce(m)
  PROVE  IInv'
<1>0. StoreTypeOK /\ CallTypeOK /\ FaultTypeOK /\ GroupTypeOK
  BY IInvParts DEF WorkersInv
<1>1. /\ HomePartition[m] \in Partitions /\ Fresh(m) \in KafkaRecord
      /\ AppendTo(HomePartition[m], Fresh(m))
      /\ UNCHANGED <<processorVars, pollVars, owner, position, committed, batch,
                     limitVars>>
  BY GroupAssumption DEF Produce, Fresh, KafkaRecord
<1>2. StoreTypeOK' /\ CallTypeOK' /\ FaultTypeOK'
  BY <1>0, <1>1
  DEF StoreTypeOK, CallTypeOK, CallsAreFilled, InCall, FaultTypeOK
<1>3. GroupTypeOK'
  BY <1>0, <1>1 DEF GroupTypeOK, AppendTo
<1>4. faults' \in Nat /\ faults' >= faults
  BY <1>0, <1>1, MaxFaultsAssumption DEF FaultTypeOK
<1>5. WorkersInv' /\ GroupInv'
  BY <1>1, <1>3, <1>4, AppendInv
<1> QED BY <1>2, <1>3, <1>5, IInvParts, PTL

\* The timer republishes a retry.
LEMMA RepublishInv ==
  ASSUME IInv, NEW t \in Pollers, NEW r \in polled[t], NEW p \in Partitions,
         RepublishRetry(t, r, p)
  PROVE  IInv'
<1>0. /\ StoreTypeOK /\ CallTypeOK /\ FaultTypeOK /\ GroupTypeOK /\ GroupInv
      /\ \A v \in Workers : WorkerInv(v)
  BY IInvParts DEF WorkersInv
<1>1. /\ UNCHANGED <<storeVars, callVars, owner, position, committed, batch,
                     limitVars>>
      /\ AppendTo(p, RetryOf(r.message)) \/ log' = log
      /\ faults' = faults \/ Fault
      /\ UNCHANGED reads
      /\ \/ polled' = [polled EXCEPT ![t] = @ \ {r}]
         \/ polled' = [polled EXCEPT ![t] = {}]
  BY DEF RepublishRetry, Republish
<1>2. RetryOf(r.message) \in KafkaRecord
  BY <1>0 DEF GroupTypeOK, Retry, RetryOf, KafkaRecord
<1>3. StoreTypeOK' /\ CallTypeOK'
  BY <1>0, <1>1 DEF StoreTypeOK, CallTypeOK, CallsAreFilled, InCall
<1>4. /\ FaultTypeOK' /\ faults' \in Nat /\ faults' >= faults
  BY <1>0, <1>1, MaxFaultsAssumption DEF FaultTypeOK, Fault
<1>5. GroupTypeOK'
  <2>1. PollTypeOK'
    BY <1>0, <1>1, RepublishTypeKept DEF GroupTypeOK
  <2>2. log' \in [Partitions -> Seq(KafkaRecord)]
    <3>1. Append(log[p], RetryOf(r.message)) \in Seq(KafkaRecord)
      BY <1>0, <1>2 DEF GroupTypeOK
    <3> QED BY <1>0, <1>1, <3>1 DEF GroupTypeOK, AppendTo
  <2> QED BY <1>0, <1>1, <2>1, <2>2 DEF GroupTypeOK
<1>6. WorkersInv' /\ GroupInv'
  <2>1. CASE AppendTo(p, RetryOf(r.message))
    BY <1>1, <1>2, <1>4, <1>5, <2>1, AppendInv
  <2>2. CASE log' = log
    <3>1. /\ \A m \in Messages : HasRow(m)' <=> HasRow(m)
          /\ LogGrows /\ RowsStay
      BY <1>0, <1>1, <2>2 DEF HasRow, RowsStay, LogGrows, GroupTypeOK
    <3>2. ASSUME NEW v \in Workers PROVE WorkerInv(v)'
      BY <1>0, <1>1, <1>4, <1>5, <3>1, <3>2, WorkerKept
    <3> QED
      BY <1>0, <1>1, <1>4, <1>5, <2>2, <3>1, <3>2, GroupKept DEF WorkersInv
  <2> QED BY <1>1, <2>1, <2>2
<1> QED BY <1>3, <1>4, <1>5, <1>6, IInvParts, PTL

\* The timer polls: it reads the due retries, and then removes them.
LEMMA PollInv ==
  ASSUME IInv, NEW t \in Pollers,
         \/ \E due \in SUBSET retries : ReadRetries(t, due)
         \/ RemoveRetries(t)
  PROVE  IInv'
<1>0. /\ StoreTypeOK /\ CallTypeOK /\ FaultTypeOK /\ GroupTypeOK /\ GroupInv
      /\ \A v \in Workers : WorkerInv(v)
  BY IInvParts DEF WorkersInv
<1>1. UNCHANGED <<rows, audit, dlqEntries, dlqTopic, delivered, accepted,
                  callVars, groupVars, batch, limitVars>>
  BY DEF ReadRetries, Read, RemoveRetries, Remove
<1>2. /\ StoreTypeOK' /\ FaultTypeOK' /\ PollTypeOK'
      /\ faults' = faults \/ Fault
  <2>1. ASSUME NEW due \in SUBSET retries, ReadRetries(t, due)
        PROVE  /\ StoreTypeOK' /\ FaultTypeOK' /\ PollTypeOK'
               /\ faults' = faults
    <3>1. PollTypeOK'
      BY <1>0, <2>1, ReadTypeKept DEF ReadRetries, StoreTypeOK, GroupTypeOK
    <3> QED
      BY <1>0, <2>1, <3>1 DEF ReadRetries, Read, StoreTypeOK, FaultTypeOK
  <2>2. CASE RemoveRetries(t)
    <3>1. StoreTypeOK' /\ FaultTypeOK' /\ PollTypeOK'
      BY <1>0, <2>2, RemoveTypeKept DEF RemoveRetries, GroupTypeOK
    <3> QED
      BY <2>2, <3>1 DEF RemoveRetries, Remove
  <2> QED BY <2>1, <2>2
<1>3. CallTypeOK' /\ GroupTypeOK'
  BY <1>0, <1>1, <1>2 DEF CallTypeOK, CallsAreFilled, InCall, GroupTypeOK
<1>4. faults' \in Nat /\ faults' >= faults
  BY <1>0, <1>2, MaxFaultsAssumption DEF FaultTypeOK, Fault
<1>5. /\ \A m \in Messages : HasRow(m)' <=> HasRow(m)
      /\ LogGrows /\ RowsStay
  BY <1>0, <1>1 DEF HasRow, RowsStay, LogGrows, GroupTypeOK
<1>6. WorkersInv'
  BY <1>0, <1>1, <1>3, <1>4, <1>5, WorkerKept DEF WorkersInv
<1>7. GroupInv'
  BY <1>0, <1>1, <1>3, <1>4, <1>5, GroupKept
<1> QED BY <1>2, <1>3, <1>6, <1>7, IInvParts, PTL

-----------------------------------------------------------------------------
(* The handler. *)

\* A step of one handler that moves no offset and adds no row disturbs that
\* handler only.
LEMMA HandlerStep ==
  ASSUME IInv, NEW w \in Workers,
         StoreTypeOK', CallTypeOK', FaultTypeOK', GroupTypeOK',
         faults' >= faults, UNCHANGED <<log, owner, position, committed>>,
         \A v \in Workers \ {w} :
           batch'[v] = batch[v] /\ pc'[v] = pc[v] /\ msg'[v] = msg[v],
         \A m \in Messages : HasRow(m)' <=> HasRow(m),
         WorkerInv(w)'
  PROVE  IInv'
<1>0. /\ FaultTypeOK /\ GroupTypeOK /\ GroupInv
      /\ \A v \in Workers : WorkerInv(v)
  BY IInvParts DEF WorkersInv
<1>1. LogGrows /\ RowsStay /\ faults' \in Nat
  BY <1>0, MaxFaultsAssumption DEF LogGrows, RowsStay, GroupTypeOK, FaultTypeOK
<1>2. WorkersInv'
  <2>1. ASSUME NEW v \in Workers \ {w} PROVE WorkerInv(v)'
    BY <1>0, <1>1, <2>1, WorkerKept
  <2> QED BY <2>1 DEF WorkersInv
<1>3. GroupInv'
  BY <1>0, <1>1, GroupKept
<1> QED BY <1>2, <1>3, IInvParts, PTL

\* Kafka hands out a batch.
LEMMA FetchInv ==
  ASSUME IInv, NEW w \in Workers, NEW p \in Partitions, Fetch(w, p)
  PROVE  IInv'
<1>0. /\ StoreTypeOK /\ CallTypeOK /\ FaultTypeOK /\ GroupTypeOK /\ GroupInv
      /\ WorkerInv(w)
  BY IInvParts DEF WorkersInv
<1>1. PICK last \in position[p] .. Len(log[p]) :
        batch' = [batch EXCEPT ![w] =
                    [stage |-> "check", partition |-> p,
                     first |-> position[p], last |-> last,
                     next |-> position[p], duplicates |-> {}]]
  BY DEF Fetch
<1> DEFINE new == [stage |-> "check", partition |-> p,
                   first |-> position[p], last |-> last,
                   next |-> position[p], duplicates |-> {}]
<1>2. /\ UNCHANGED <<processorVars, pollVars, groupVars, limitVars>>
      /\ batch[w].stage = "fetch" /\ owner[p] = w
  BY DEF Fetch
<1>3. /\ position[p] \in Nat /\ Len(log[p]) \in Nat /\ last \in Nat
      /\ position[p] <= last /\ last <= Len(log[p]) /\ 1 <= position[p]
  BY <1>0 DEF GroupTypeOK, GroupInv, OffsetsAreInStep
<1>4. new \in Batch
  BY <1>3 DEF Batch
<1>5. batch'[w] = new /\ \A v \in Workers \ {w} : batch'[v] = batch[v]
  BY <1>0, <1>1 DEF GroupTypeOK
<1>6. StoreTypeOK' /\ CallTypeOK' /\ FaultTypeOK' /\ faults' >= faults
  BY <1>0, <1>2, MaxFaultsAssumption
  DEF StoreTypeOK, CallTypeOK, CallsAreFilled, InCall, FaultTypeOK
<1>7. GroupTypeOK'
  BY <1>0, <1>1, <1>2, <1>4 DEF GroupTypeOK
<1>8. WorkerInv(w)'
  BY <1>0, <1>2, <1>3, <1>5
  DEF WorkerInv, CallIsDelivery, InCall, BatchIsInTheLog, Handling,
      HandledIsRecorded, OwnerIsInStep
<1> QED
  BY <1>2, <1>5, <1>6, <1>7, <1>8, HandlerStep DEF HasRow

\* What checkBatchIdempotency takes for a duplicate is recorded.
LEMMA KnownIsRecorded ==
  ASSUME NEW m, ExistsInDatabase(m)
  PROVE  Recorded(m)
BY DEF ExistsInDatabase, Recorded, Conflicts

\* The batch check.
LEMMA CheckInv ==
  ASSUME IInv, NEW w \in Workers, CheckBatch(w)
  PROVE  IInv'
<1> DEFINE known == {m \in {MessageAt(w, i) : i \in Offsets(w)} :
                       ExistsInDatabase(m)}
           Checked(entered) ==
             batch' = [batch EXCEPT ![w].duplicates = known, ![w].stage = entered]
<1>0. /\ StoreTypeOK /\ CallTypeOK /\ FaultTypeOK /\ GroupTypeOK /\ GroupInv
      /\ WorkerInv(w)
  BY IInvParts DEF WorkersInv
<1>1. /\ UNCHANGED <<storeVars, callVars, pollVars, groupVars, limitVars>>
      /\ batch[w].stage = "check"
      /\ faults' = faults \/ Fault
  BY DEF CheckBatch
<1>2. StoreTypeOK' /\ CallTypeOK' /\ FaultTypeOK' /\ faults' >= faults
  BY <1>0, <1>1, MaxFaultsAssumption
  DEF StoreTypeOK, CallTypeOK, CallsAreFilled, InCall, FaultTypeOK, Fault
<1>3. /\ batch[w] \in Batch /\ Handling(w) /\ BatchIsInTheLog(w)
      /\ batch[w].partition \in Partitions /\ ~InCall(w)
  BY <1>0, <1>1
  DEF GroupTypeOK, Handling, WorkerInv, BatchIsInTheLog, CallIsDelivery
<1>4. known \subseteq Messages
  BY <1>0, <1>3, OffsetsAreRecords
<1>5. \A m \in known : Recorded(m)
  BY KnownIsRecorded
<1> HIDE DEF known
<1>6. ASSUME NEW entered \in {"insert", "loop"}, Checked(entered),
             entered = "loop" => \A i \in Offsets(w) : MessageAt(w, i) \in known
      PROVE  IInv'
  <2>1. /\ batch'[w] = [batch[w] EXCEPT !.duplicates = known, !.stage = entered]
        /\ \A v \in Workers \ {w} : batch'[v] = batch[v]
    BY <1>0, <1>6 DEF GroupTypeOK
  <2>2. batch'[w] \in Batch
    BY <1>3, <1>4, <2>1 DEF Batch
  <2>3. GroupTypeOK'
    BY <1>0, <1>1, <1>6, <2>2 DEF GroupTypeOK
  <2>4. /\ batch'[w].stage = entered /\ batch'[w].duplicates = known
        /\ batch'[w].partition = batch[w].partition
        /\ batch'[w].first = batch[w].first /\ batch'[w].last = batch[w].last
        /\ batch'[w].next = batch[w].next
    BY <1>3, <2>1 DEF Batch
  <2>5. /\ Offsets(w)' = Offsets(w)
        /\ \A i : MessageAt(w, i)' = MessageAt(w, i)
        /\ \A m : Recorded(m)' <=> Recorded(m)
    BY <1>1, <2>4 DEF Offsets, MessageAt, RecordAt, Recorded, HasRow, Conflicts,
                      SameIdempotencyKey
  <2>6. HandledIsRecorded(w)'
    BY <1>5, <1>6, <2>4, <2>5 DEF HandledIsRecorded
  <2>7. WorkerInv(w)'
    BY <1>0, <1>1, <1>3, <2>4, <2>6
    DEF WorkerInv, CallIsDelivery, InCall, BatchIsInTheLog, Handling,
        OwnerIsInStep
  <2> QED
    BY <1>1, <1>2, <2>1, <2>3, <2>7, HandlerStep DEF HasRow
<1>7. ASSUME Enter(w, "commit"), faults' > 0 \/ ~NoRetryPublished
      PROVE  IInv'
  <2>1. /\ batch'[w] = [batch[w] EXCEPT !.stage = "commit"]
        /\ \A v \in Workers \ {w} : batch'[v] = batch[v]
    BY <1>0, <1>7 DEF GroupTypeOK, Enter
  <2>2. batch'[w] \in Batch
    BY <1>3, <2>1 DEF Batch
  <2>3. GroupTypeOK'
    BY <1>0, <1>1, <1>7, <2>2 DEF GroupTypeOK, Enter
  <2>4. /\ batch'[w].stage = "commit"
        /\ batch'[w].partition = batch[w].partition
        /\ batch'[w].first = batch[w].first /\ batch'[w].last = batch[w].last
        /\ batch'[w].next = batch[w].next
    BY <1>3, <2>1 DEF Batch
  <2>5. WorkerInv(w)'
    BY <1>0, <1>1, <1>3, <1>7, <2>4
    DEF WorkerInv, CallIsDelivery, InCall, BatchIsInTheLog, Handling,
        OwnerIsInStep, HandledIsRecorded, NoRetryPublished
  <2> QED
    BY <1>1, <1>2, <2>1, <2>3, <2>5, HandlerStep DEF HasRow
<1>8. CASE \E i \in Offsets(w) : RecordAt(w, i).retry
  <2>1. ~NoRetryPublished
    BY <1>0, <1>3, <1>8, OffsetsAreRecords, RecordsAreTyped
    DEF NoRetryPublished, RecordAt
  <2>2. Enter(w, "commit")
    BY <1>8 DEF CheckBatch
  <2> QED BY <1>7, <2>1, <2>2
<1>9. CASE Fault /\ Enter(w, "commit")
  BY <1>0, <1>7, <1>9 DEF Fault, FaultTypeOK
<1>10. CASE \A i \in Offsets(w) : ~RecordAt(w, i).retry
  <2>1. \/ Fault /\ Enter(w, "commit")
        \/ Checked(IF \A i \in Offsets(w) : MessageAt(w, i) \in known
                   THEN "loop" ELSE "insert")
    BY <1>10 DEF CheckBatch, known
  <2> QED BY <1>6, <1>9, <2>1
<1> QED BY <1>8, <1>10

\* Entering a stage changes no other field of the batch.
LEMMA EnterStage ==
  ASSUME GroupTypeOK, NEW w \in Workers, NEW entered, Enter(w, entered),
         entered \in {"loop", "deliver", "commit"}
  PROVE  /\ batch' \in [Workers -> Batch]
         /\ batch'[w].stage = entered
         /\ batch'[w].partition = batch[w].partition
         /\ batch'[w].first = batch[w].first /\ batch'[w].last = batch[w].last
         /\ batch'[w].next = batch[w].next
         /\ batch'[w].duplicates = batch[w].duplicates
         /\ \A v \in Workers \ {w} : batch'[v] = batch[v]
<1>1. /\ batch'[w] = [batch[w] EXCEPT !.stage = entered]
      /\ \A v \in Workers \ {w} : batch'[v] = batch[v]
      /\ batch[w] \in Batch
  BY DEF GroupTypeOK, Enter
<1>2. batch'[w] \in Batch
  BY <1>1 DEF Batch
<1> QED
  BY <1>1, <1>2 DEF GroupTypeOK, Enter, Batch

\* The rows that one transaction of inserts adds keep the unique keys, and
\* cover the batch: what it skips conflicts with a row that is there.
LEMMA InsertedRows ==
  ASSUME IInv, NEW w \in Workers, batch[w].stage = "insert",
         NEW S \in SUBSET NewOffsets(w), InsertedOffsets(w, S),
         rows' = [m \in Messages |->
                    IF \E i \in S : MessageAt(w, i) = m
                    THEN [status |-> "IN_PROGRESS", finalDelivered |-> FALSE]
                    ELSE rows[m]]
  PROVE  /\ rows' \in [Messages -> Row] /\ RowsStay /\ OneRowPerKey'
         /\ \A i \in Offsets(w) : \E n \in Messages :
              HasRow(n)' /\ Conflicts(n, MessageAt(w, i))
<1>0. /\ StoreTypeOK /\ GroupTypeOK /\ OneRowPerKey
      /\ HandledIsRecorded(w) /\ BatchIsInTheLog(w) /\ Handling(w)
  BY IInvParts DEF WorkersInv, WorkerInv, GroupInv, Handling
<1>1. \A i \in Offsets(w) : MessageAt(w, i) \in Messages /\ i \in Nat
  BY <1>0, OffsetsAreRecords
<1> DEFINE New(m) == \E i \in S : MessageAt(w, i) = m
           inserted == [status |-> "IN_PROGRESS", finalDelivered |-> FALSE]
<1>2. inserted \in Row /\ inserted # Absent
  BY DEF Row, Absent
<1>3. rows' \in [Messages -> Row]
  BY <1>0, <1>2 DEF StoreTypeOK
<1>4. \A m \in Messages : HasRow(m)' <=> HasRow(m) \/ New(m)
  BY <1>2 DEF HasRow
<1>5. RowsStay
  BY <1>4 DEF RowsStay
<1>6. S \subseteq Offsets(w) /\ \A i \in Offsets(w) :
        i \in S <=>
          /\ MessageAt(w, i) \notin batch[w].duplicates
          /\ \A n \in Messages : HasRow(n) => ~Conflicts(n, MessageAt(w, i))
          /\ \A j \in S : j < i => ~Conflicts(MessageAt(w, j), MessageAt(w, i))
  <2>1. S = {i \in NewOffsets(w) :
               /\ \A n \in Messages : HasRow(n) => ~Conflicts(n, MessageAt(w, i))
               /\ \A j \in S : j < i => ~Conflicts(MessageAt(w, j), MessageAt(w, i))}
    BY DEF InsertedOffsets
  <2> QED BY <2>1 DEF NewOffsets
<1>7. OneRowPerKey'
  <2> SUFFICES ASSUME NEW m \in Messages, NEW n \in Messages,
                      HasRow(m)', HasRow(n)', Conflicts(m, n)
               PROVE  m = n
    BY DEF OneRowPerKey, Conflicts, SameIdempotencyKey
  <2>1. CASE HasRow(m) /\ HasRow(n)
    BY <1>0, <2>1 DEF OneRowPerKey
  <2>2. CASE HasRow(m) /\ New(n)
    BY <1>6, <2>2
  <2>3. CASE New(m) /\ HasRow(n)
    BY <1>6, <2>3, ConflictsMutual
  <2>4. CASE New(m) /\ New(n)
    <3>1. PICK i \in S, j \in S : MessageAt(w, i) = m /\ MessageAt(w, j) = n
      BY <2>4
    <3>2. i \in Nat /\ j \in Nat
      BY <1>1, <1>6
    <3>3. ~(i < j) /\ ~(j < i)
      BY <1>6, <3>1, ConflictsMutual
    <3> QED BY <3>1, <3>2, <3>3
  <2> QED BY <1>4, <2>1, <2>2, <2>3, <2>4
<1>8. ASSUME NEW i \in Offsets(w)
      PROVE  \E n \in Messages : HasRow(n)' /\ Conflicts(n, MessageAt(w, i))
  <2>1. CASE i \in S
    BY <1>1, <1>4, <2>1 DEF Conflicts
  <2>2. CASE MessageAt(w, i) \in batch[w].duplicates
    BY <1>0, <1>5, <2>2 DEF HandledIsRecorded, Recorded, RowsStay
  <2>3. ASSUME NEW n \in Messages, HasRow(n), Conflicts(n, MessageAt(w, i))
        PROVE  \E k \in Messages : HasRow(k)' /\ Conflicts(k, MessageAt(w, i))
    BY <1>5, <2>3 DEF RowsStay
  <2>4. ASSUME NEW j \in S, Conflicts(MessageAt(w, j), MessageAt(w, i))
        PROVE  \E k \in Messages : HasRow(k)' /\ Conflicts(k, MessageAt(w, i))
    BY <1>1, <1>4, <1>6, <2>4
  <2> QED BY <1>6, <2>1, <2>2, <2>3, <2>4
<1> QED BY <1>3, <1>5, <1>7, <1>8

\* The transaction of inserts.
LEMMA InsertInv ==
  ASSUME IInv, NEW w \in Workers, InsertNew(w)
  PROVE  IInv'
<1>0. /\ StoreTypeOK /\ CallTypeOK /\ FaultTypeOK /\ GroupTypeOK /\ GroupInv
      /\ \A v \in Workers : WorkerInv(v)
  BY IInvParts DEF WorkersInv
<1>1. /\ UNCHANGED <<audit, dlqEntries, dlqTopic, delivered, retries, accepted,
                     callVars, pollVars, groupVars, limitVars>>
      /\ batch[w].stage = "insert"
      /\ \/ Enter(w, "loop") /\ UNCHANGED faults
         \/ Enter(w, "commit") /\ Fault
  BY DEF InsertNew
<1>2. /\ rows' \in [Messages -> Row] /\ RowsStay /\ OneRowPerKey'
      /\ \/ batch'[w].stage = "commit" /\ Fault
         \/ /\ batch'[w].stage = "loop"
            /\ \A i \in Offsets(w) : \E n \in Messages :
                 HasRow(n)' /\ Conflicts(n, MessageAt(w, i))
  <2>1. CASE UNCHANGED rows /\ Enter(w, "commit") /\ Fault
    BY <1>0, <2>1, OneRowKept, EnterStage
    DEF StoreTypeOK, RowsStay, HasRow, GroupInv
  <2>2. ASSUME NEW S \in SUBSET NewOffsets(w), InsertedOffsets(w, S),
               rows' = [m \in Messages |->
                          IF \E i \in S : MessageAt(w, i) = m
                          THEN [status |-> "IN_PROGRESS",
                                finalDelivered |-> FALSE]
                          ELSE rows[m]]
        PROVE  /\ rows' \in [Messages -> Row] /\ RowsStay /\ OneRowPerKey'
               /\ \A i \in Offsets(w) : \E n \in Messages :
                    HasRow(n)' /\ Conflicts(n, MessageAt(w, i))
    BY <1>1, <2>2, InsertedRows
  <2> QED
    BY <1>0, <1>1, <2>1, <2>2, EnterStage DEF InsertNew
<1>3. /\ batch' \in [Workers -> Batch]
      /\ batch'[w].partition = batch[w].partition
      /\ batch'[w].first = batch[w].first /\ batch'[w].last = batch[w].last
      /\ batch'[w].next = batch[w].next
      /\ \A v \in Workers \ {w} : batch'[v] = batch[v]
  BY <1>0, <1>1, EnterStage
<1>4. StoreTypeOK' /\ CallTypeOK' /\ FaultTypeOK' /\ faults' >= faults
  BY <1>0, <1>1, <1>2, MaxFaultsAssumption
  DEF StoreTypeOK, CallTypeOK, CallsAreFilled, InCall, FaultTypeOK, Fault
<1>5. GroupTypeOK'
  BY <1>0, <1>1, <1>3 DEF GroupTypeOK
<1>6. LogGrows /\ faults' \in Nat
  BY <1>0, <1>1, <1>4, MaxFaultsAssumption
  DEF LogGrows, GroupTypeOK, FaultTypeOK
<1>7. HandledIsRecorded(w)'
  <2>1. CASE batch'[w].stage = "commit" /\ Fault
    BY <1>0, <2>1 DEF HandledIsRecorded, Fault, FaultTypeOK
  <2>2. CASE /\ batch'[w].stage = "loop"
             /\ \A i \in Offsets(w) : \E n \in Messages :
                  HasRow(n)' /\ Conflicts(n, MessageAt(w, i))
    <3>1. /\ Offsets(w)' = Offsets(w)
          /\ \A i : MessageAt(w, i)' = MessageAt(w, i)
      BY <1>1, <1>3 DEF Offsets, MessageAt, RecordAt
    <3>2. \A i \in Offsets(w)' : Recorded(MessageAt(w, i))'
      BY <2>2, <3>1 DEF Recorded, Conflicts, SameIdempotencyKey
    <3> QED BY <2>2, <3>2 DEF HandledIsRecorded
  <2> QED BY <1>2, <2>1, <2>2
<1>8. WorkerInv(w)'
  BY <1>0, <1>1, <1>2, <1>3, <1>7
  DEF WorkerInv, CallIsDelivery, InCall, BatchIsInTheLog, Handling,
      OwnerIsInStep
<1>9. WorkersInv'
  <2>1. ASSUME NEW v \in Workers \ {w} PROVE WorkerInv(v)'
    BY <1>0, <1>1, <1>2, <1>3, <1>4, <1>5, <1>6, <2>1, WorkerKept
  <2> QED BY <1>8, <2>1 DEF WorkersInv
<1>10. GroupInv'
  BY <1>0, <1>1, <1>2, <1>4, <1>5, <1>6, PassedKept
  DEF GroupInv, OffsetsAreInStep
<1> QED BY <1>4, <1>5, <1>9, <1>10, IInvParts, PTL

\* A handler that passes to another message, or into or out of a delivery,
\* has the batch and the rows it had.
LEMMA LoopStep ==
  ASSUME IInv, NEW w \in Workers, StoreTypeOK', CallTypeOK',
         batch[w].stage \in {"loop", "deliver"},
         NEW s \in {"loop", "deliver"}, NEW n \in Nat,
         batch' = [batch EXCEPT ![w] = [batch[w] EXCEPT !.stage = s, !.next = n]],
         batch[w].first <= n, n <= batch[w].last + 1,
         s = "deliver" => n <= batch[w].last,
         \A v \in Workers \ {w} : pc'[v] = pc[v] /\ msg'[v] = msg[v],
         UNCHANGED <<storeVars, faults, pollVars, groupVars, limitVars>>,
         InCall(w)' <=> s = "deliver",
         InCall(w)' => \E i \in Offsets(w) : msg'[w] = MessageAt(w, i)
  PROVE  IInv'
<1>0. /\ FaultTypeOK /\ GroupTypeOK /\ WorkerInv(w) /\ batch[w] \in Batch
  BY IInvParts DEF WorkersInv, GroupTypeOK
<1> DEFINE moved == [batch[w] EXCEPT !.stage = s, !.next = n]
<1>1. /\ moved.stage = s /\ moved.next = n
      /\ moved.partition = batch[w].partition
      /\ moved.first = batch[w].first /\ moved.last = batch[w].last
      /\ moved \in Batch
  BY <1>0 DEF Batch
<1> HIDE DEF moved
<1>2. batch' = [batch EXCEPT ![w] = moved]
  BY DEF moved
<1>3. batch'[w] = moved /\ \A v \in Workers \ {w} : batch'[v] = batch[v]
  BY <1>0, <1>2 DEF GroupTypeOK
<1>4. GroupTypeOK'
  BY <1>0, <1>1, <1>2 DEF GroupTypeOK
<1>5. FaultTypeOK' /\ faults' >= faults
  BY <1>0, MaxFaultsAssumption DEF FaultTypeOK
<1>6. /\ Offsets(w)' = Offsets(w)
      /\ \A i : MessageAt(w, i)' = MessageAt(w, i)
      /\ \A m : Recorded(m)' <=> Recorded(m)
  BY <1>1, <1>3 DEF Offsets, MessageAt, RecordAt, Recorded, HasRow, Conflicts,
              SameIdempotencyKey
<1>7. \A i \in Offsets(w) : Recorded(MessageAt(w, i))
  BY <1>0 DEF WorkerInv, HandledIsRecorded
<1>8. HandledIsRecorded(w)'
  BY <1>1, <1>3, <1>6, <1>7 DEF HandledIsRecorded
<1>9. (InCall(w) => Recorded(msg[w]))'
  <2> SUFFICES ASSUME InCall(w)' PROVE Recorded(msg[w])'
    OBVIOUS
  <2>1. PICK i \in Offsets(w) : msg'[w] = MessageAt(w, i)
    OBVIOUS
  <2> QED
    BY <1>7, <2>1 DEF Recorded, HasRow, Conflicts, SameIdempotencyKey
<1>10. WorkerInv(w)'
  BY <1>0, <1>1, <1>3, <1>8, <1>9
  DEF WorkerInv, CallIsDelivery, BatchIsInTheLog, Handling, OwnerIsInStep
<1> QED
  BY <1>3, <1>4, <1>5, <1>10, HandlerStep DEF HasRow

\* A duplicate is passed over.
LEMMA SkipInv ==
  ASSUME IInv, NEW w \in Workers, SkipDuplicate(w)
  PROVE  IInv'
<1>0. /\ StoreTypeOK /\ CallTypeOK /\ GroupTypeOK /\ WorkerInv(w)
      /\ batch[w] \in Batch
  BY IInvParts DEF WorkersInv, GroupTypeOK
<1>1. /\ batch[w].stage = "loop" /\ batch[w].next \in Offsets(w)
      /\ batch' = [batch EXCEPT ![w].next = @ + 1]
      /\ UNCHANGED <<processorVars, pollVars, groupVars, limitVars>>
  BY DEF SkipDuplicate
<1> DEFINE next == batch[w].next + 1
<1>2. /\ batch[w].next \in Nat /\ batch[w].first \in Nat /\ batch[w].last \in Nat
      /\ batch[w].first <= next /\ next <= batch[w].last + 1 /\ next \in Nat
  BY <1>0, <1>1, OffsetsAreRecords DEF WorkerInv, Handling, Offsets
<1>3. batch' = [batch EXCEPT
                   ![w] = [batch[w] EXCEPT !.stage = "loop", !.next = next]]
  BY <1>0, <1>1 DEF GroupTypeOK, Batch
<1>4. StoreTypeOK' /\ CallTypeOK' /\ ~InCall(w)'
  BY <1>0, <1>1
  DEF StoreTypeOK, CallTypeOK, CallsAreFilled, InCall, WorkerInv, CallIsDelivery
<1> HIDE DEF next
<1> QED BY <1>1, <1>2, <1>3, <1>4, LoopStep

\* A message is handed to processDelivery.
LEMMA DeliverInv ==
  ASSUME IInv, NEW w \in Workers, Deliver(w)
  PROVE  IInv'
<1>0. /\ StoreTypeOK /\ CallTypeOK /\ GroupTypeOK /\ WorkerInv(w)
      /\ batch[w] \in Batch
  BY IInvParts DEF WorkersInv, GroupTypeOK
<1> DEFINE next == batch[w].next
<1>1. /\ batch[w].stage = "loop" /\ next \in Offsets(w)
      /\ StartDelivery(w, MessageAt(w, next), 0)
      /\ batch' = [batch EXCEPT ![w].stage = "deliver"]
      /\ UNCHANGED <<storeVars, faults, pollVars, groupVars, limitVars>>
  BY DEF Deliver, Enter
<1>2. /\ next \in Nat /\ batch[w].first \in Nat /\ batch[w].last \in Nat
      /\ batch[w].first <= next /\ next <= batch[w].last
      /\ MessageAt(w, next) \in Messages
  BY <1>0, <1>1, OffsetsAreRecords DEF WorkerInv, Handling, Offsets
<1>3. batch' = [batch EXCEPT
                   ![w] = [batch[w] EXCEPT !.stage = "deliver", !.next = next]]
  BY <1>0, <1>1 DEF GroupTypeOK, Batch
<1>4. StoreTypeOK' /\ CallTypeOK'
  BY <1>0, <1>1, <1>2
  DEF StartDelivery, StoreTypeOK, CallTypeOK, CallsAreFilled, InCall, Awaits
<1>5. /\ pc'[w] = "exists" /\ msg'[w] = MessageAt(w, next)
      /\ \A v \in Workers \ {w} : pc'[v] = pc[v] /\ msg'[v] = msg[v]
  BY <1>0, <1>1 DEF StartDelivery, CallTypeOK
<1> HIDE DEF next
<1>6. InCall(w)' /\ \E i \in Offsets(w) : msg'[w] = MessageAt(w, i)
  BY <1>1, <1>5 DEF InCall
<1>7. next <= batch[w].last + 1
  BY <1>2
<1> QED BY <1>1, <1>2, <1>3, <1>4, <1>5, <1>6, <1>7, LoopStep

\* processDelivery returned.
LEMMA EndDeliveryInv ==
  ASSUME IInv, NEW w \in Workers, EndDelivery(w)
  PROVE  IInv'
<1>0. /\ StoreTypeOK /\ CallTypeOK /\ GroupTypeOK /\ WorkerInv(w)
      /\ batch[w] \in Batch
  BY IInvParts DEF WorkersInv, GroupTypeOK
<1> DEFINE next == batch[w].next + 1
<1>1. /\ pc[w] \in Results /\ EndCall(w)
      /\ batch' = [batch EXCEPT ![w].stage = "loop", ![w].next = @ + 1]
      /\ UNCHANGED <<storeVars, faults, pollVars, groupVars, limitVars>>
  BY DEF EndDelivery
<1>2. batch[w].stage = "deliver"
  BY <1>0, <1>1 DEF WorkerInv, CallIsDelivery, InCall, Results
<1>3. /\ batch[w].next \in Nat /\ batch[w].first \in Nat /\ batch[w].last \in Nat
      /\ batch[w].first <= next /\ next <= batch[w].last + 1 /\ next \in Nat
  BY <1>0, <1>2, OffsetsAreRecords DEF WorkerInv, BatchIsInTheLog, Handling
<1>4. batch' = [batch EXCEPT
                   ![w] = [batch[w] EXCEPT !.stage = "loop", !.next = next]]
  BY <1>0, <1>1 DEF GroupTypeOK, Batch
<1>5. StoreTypeOK' /\ CallTypeOK'
  BY <1>0, <1>1, EndCallType DEF StoreTypeOK
<1>6. /\ pc'[w] = "idle"
      /\ \A v \in Workers \ {w} : pc'[v] = pc[v] /\ msg'[v] = msg[v]
  BY <1>0, <1>1 DEF EndCall, CallTypeOK
<1> HIDE DEF next
<1> QED BY <1>1, <1>2, <1>3, <1>4, <1>5, <1>6, LoopStep DEF InCall

\* An await of processDelivery.
LEMMA ProcessInv ==
  ASSUME IInv, NEW w \in Workers, Process(w)
  PROVE  IInv'
<1>0. /\ StoreTypeOK /\ CallTypeOK /\ FaultTypeOK /\ GroupTypeOK
      /\ WorkerInv(w)
  BY IInvParts DEF WorkersInv
<1>1. /\ ProcessorStep(w) /\ Rescored(w, att[w] + 1)
      /\ UNCHANGED <<polled, log, owner, position, committed, batch, limitVars>>
  BY DEF Process
<1>2. StoreTypeOK' /\ CallTypeOK' /\ FaultTypeOK'
  BY <1>0, <1>1, StepStore, StepCall
<1>3. GroupTypeOK'
  <2>1. PollTypeOK'
    BY <1>0, <1>1, RescoredType DEF GroupTypeOK
  <2> QED BY <1>0, <1>1, <2>1 DEF GroupTypeOK
<1>4. /\ pc[w] # "idle" /\ pc'[w] # "idle"
      /\ \A v \in Workers \ {w} : pc'[v] = pc[v]
      /\ UNCHANGED <<msg, att>> /\ faults' >= faults
      /\ \A m \in Messages : HasRow(m)' <=> HasRow(m)
  BY <1>0, <1>1, StepKeeps
<1>5. WorkerInv(w)'
  <2>1. batch[w].stage = "deliver"
    BY <1>0, <1>4 DEF WorkerInv, CallIsDelivery, InCall
  <2>2. \A m : Recorded(m) => Recorded(m)'
    BY <1>4 DEF Recorded, Conflicts, SameIdempotencyKey
  <2>3. /\ Offsets(w)' = Offsets(w)
        /\ \A i : MessageAt(w, i)' = MessageAt(w, i)
    BY <1>1 DEF Offsets, MessageAt, RecordAt
  <2>4. \A i \in Offsets(w) : Recorded(MessageAt(w, i))
    BY <1>0, <2>1 DEF WorkerInv, HandledIsRecorded
  <2>5. HandledIsRecorded(w)'
    <3>1. ASSUME NEW i \in Offsets(w) PROVE Recorded(MessageAt(w, i))'
      BY <1>1, <1>4, <2>4 DEF Recorded, Conflicts, SameIdempotencyKey,
                              MessageAt, RecordAt
    <3> QED BY <1>1, <2>1, <2>3, <3>1 DEF HandledIsRecorded
  <2>6. (InCall(w) => Recorded(msg[w]))'
    BY <1>0, <1>4 DEF WorkerInv, InCall, Recorded, Conflicts, SameIdempotencyKey
  <2> QED
    BY <1>0, <1>1, <1>4, <2>1, <2>5, <2>6
    DEF WorkerInv, CallIsDelivery, InCall, BatchIsInTheLog, Handling,
        OwnerIsInStep
<1> QED
  BY <1>1, <1>2, <1>3, <1>4, <1>5, HandlerStep

\* An assignment starts at an offset of the log, and no further back than the
\* committed one.
LEMMA StartAtIsInStep ==
  ASSUME GroupTypeOK, OffsetsAreInStep, NEW p \in Partitions
  PROVE  /\ StartAt(p) \in Nat /\ 1 <= StartAt(p)
         /\ StartAt(p) <= Len(log[p]) + 1 /\ committed[p] <= StartAt(p)
         /\ ~FreshGroup => committed[p] = StartAt(p)
<1>1. Len(log[p]) \in Nat /\ committed[p] \in Nat /\ position[p] \in Nat
  BY DEF GroupTypeOK
<1> QED BY <1>1 DEF OffsetsAreInStep, StartAt

\* A worker whose handler has ended knows nothing.
LEMMA IdleWorker ==
  ASSUME NEW w \in Workers, batch'[w] = NoBatch, ~InCall(w)'
  PROVE  WorkerInv(w)'
BY DEF NoBatch, WorkerInv, CallIsDelivery, BatchIsInTheLog, HandledIsRecorded,
       OwnerIsInStep, Handling

\* The commit, which passes the offsets the handler went through.
LEMMA CommitInv ==
  ASSUME IInv, NEW w \in Workers, Commit(w)
  PROVE  IInv'
<1> DEFINE p == batch[w].partition
           after == batch[w].last + 1
<1>0. /\ StoreTypeOK /\ CallTypeOK /\ FaultTypeOK /\ GroupTypeOK /\ GroupInv
      /\ OneRowPerKey /\ OffsetsAreInStep /\ CrashLosesNothing
      /\ \A v \in Workers : WorkerInv(v)
  BY IInvParts DEF WorkersInv, GroupInv
<1>1. /\ HandlerDone(w)
      /\ batch' = [batch EXCEPT ![w] = NoBatch]
      /\ UNCHANGED <<storeVars, callVars, pollVars, log, owner, limitVars>>
      /\ \/ /\ owner[p] = w
            /\ committed' = [committed EXCEPT ![p] = after]
            /\ position' = [position EXCEPT ![p] = after]
            /\ UNCHANGED faults
         \/ /\ owner[p] = w
            /\ position' = [position EXCEPT ![p] = StartAt(p)]
            /\ UNCHANGED committed
            /\ Fault
         \/ /\ owner[p] # w
            /\ UNCHANGED <<position, committed, faults>>
  BY DEF Commit
<1>2. Handling(w) /\ ~InCall(w)
  BY <1>0, <1>1 DEF HandlerDone, Handling, WorkerInv, CallIsDelivery
<1>3. /\ p \in Partitions /\ batch[w].first \in Nat /\ batch[w].last \in Nat
      /\ 1 <= batch[w].first /\ batch[w].first <= batch[w].last
      /\ batch[w].last <= Len(log[p]) /\ Len(log[p]) \in Nat
      /\ owner[p] = w => batch[w].first = position[p]
  BY <1>0, <1>2, OffsetsAreRecords
  DEF WorkerInv, BatchIsInTheLog, OwnerIsInStep, GroupTypeOK
<1>4. /\ after \in Nat /\ after <= Len(log[p]) + 1 /\ 1 <= after
      /\ owner[p] = w => position[p] <= after
  BY <1>3
<1>5. HandlerDone(w) => batch[w].stage = "loop" \/ batch[w].stage = "commit"
  BY DEF HandlerDone
<1> HIDE DEF p, after
<1>6. /\ committed' \in [Partitions -> Nat] /\ position' \in [Partitions -> Nat]
      /\ \A q \in Partitions \ {p} :
           committed'[q] = committed[q] /\ position'[q] = position[q]
      /\ owner[p] # w => position' = position /\ committed' = committed
      /\ owner[p] = w =>
           \/ committed'[p] = after /\ position'[p] = after
           \/ committed' = committed /\ position'[p] = StartAt(p)
  BY <1>0, <1>1, <1>3, <1>4, StartAtIsInStep DEF GroupTypeOK
<1>7. StoreTypeOK' /\ CallTypeOK' /\ ~InCall(w)'
  BY <1>0, <1>1, <1>2
  DEF StoreTypeOK, CallTypeOK, CallsAreFilled, InCall
<1>8. FaultTypeOK' /\ faults' \in Nat /\ faults' >= faults
  BY <1>0, <1>1, MaxFaultsAssumption DEF FaultTypeOK, Fault
<1>9. batch' \in [Workers -> Batch] /\ batch'[w] = NoBatch
  BY <1>0, <1>1 DEF GroupTypeOK, Batch, NoBatch
<1>10. GroupTypeOK'
  BY <1>0, <1>1, <1>6, <1>9 DEF GroupTypeOK
<1>11. /\ LogGrows /\ RowsStay
       /\ \A m \in Messages : HasRow(m)' <=> HasRow(m)
  BY <1>0, <1>1 DEF LogGrows, RowsStay, HasRow, GroupTypeOK
<1>12. WorkersInv'
  <2>1. ASSUME NEW v \in Workers \ {w} PROVE WorkerInv(v)'
    <3>1. batch'[v] = batch[v] /\ pc'[v] = pc[v] /\ msg'[v] = msg[v]
      BY <1>0, <1>1 DEF GroupTypeOK
    <3>2. ASSUME Handling(v), owner'[batch[v].partition] = v
          PROVE  /\ owner[batch[v].partition] = v
                 /\ position'[batch[v].partition] = position[batch[v].partition]
      <4>1. batch[v].partition \in Partitions
        BY <1>0, <3>2 DEF WorkerInv, BatchIsInTheLog
      <4> QED BY <1>1, <1>6, <3>2, <4>1
    <3> QED
      BY <1>0, <1>8, <1>10, <1>11, <3>1, <3>2, WorkerKept
  <2> QED BY <1>7, <1>9, <2>1, IdleWorker DEF WorkersInv
<1>13. OffsetsAreInStep'
  <2> SUFFICES ASSUME NEW q \in Partitions
               PROVE  /\ 1 <= position'[q] /\ position'[q] <= Len(log[q]) + 1
                      /\ committed'[q] <= position'[q]
                      /\ ~FreshGroup => committed'[q] = position'[q]
    BY <1>1 DEF OffsetsAreInStep
  <2>1. CASE q # p \/ owner[p] # w
    BY <1>0, <1>6, <2>1 DEF OffsetsAreInStep
  <2>2. CASE q = p /\ owner[p] = w
    BY <1>0, <1>3, <1>4, <1>6, <2>2, StartAtIsInStep
  <2> QED BY <2>1, <2>2
<1>14. CrashLosesNothing'
  <2>1. CASE committed' = committed
    BY <1>0, <1>8, <1>10, <1>11, <2>1, PassedKept
  <2>2. CASE committed' # committed
    <3>1. owner[p] = w /\ committed'[p] = after /\ faults' = faults
      BY <1>1, <1>6, <2>2, <1>0, <1>3 DEF GroupTypeOK
    <3> SUFFICES ASSUME faults = 0, ~FreshGroup, NoRetryPublished,
                        NEW q \in Partitions, NEW i \in DOMAIN log[q],
                        i < committed'[q], ~log[q][i].retry
                 PROVE  Recorded(log[q][i].message)
      BY <1>1, <3>1
      DEF CrashLosesNothing, PassedIsRecorded, NoRetryPublished, Recorded,
          HasRow, Conflicts, SameIdempotencyKey
    <3>2. CASE i < committed[q]
      BY <1>0, <3>2 DEF CrashLosesNothing, PassedIsRecorded
    <3>3. CASE ~(i < committed[q])
      <4>1. q = p
        BY <1>6, <3>3
      <4>2. i \in Nat /\ i < after /\ committed[p] \in Nat
            /\ committed[p] = position[p]
        BY <1>0, <1>3, <3>1, <4>1 DEF GroupTypeOK, OffsetsAreInStep
      <4>3. i \in Offsets(w)
        BY <1>3, <3>1, <3>3, <4>1, <4>2 DEF Offsets, after
      <4>4. HandledIsRecorded(w) /\ batch[w].stage \in {"loop", "commit"}
        BY <1>0, <1>1, <1>5 DEF WorkerInv
      <4>5. batch[w].stage = "loop"
        BY <4>4 DEF HandledIsRecorded
      <4> QED
        BY <4>1, <4>3, <4>4, <4>5 DEF HandledIsRecorded, MessageAt, RecordAt, p
    <3> QED BY <3>2, <3>3
  <2> QED BY <2>1, <2>2
<1>15. GroupInv'
  BY <1>0, <1>11, <1>13, <1>14, OneRowKept DEF GroupInv
<1> QED BY <1>7, <1>8, <1>10, <1>12, <1>15, IInvParts, PTL

-----------------------------------------------------------------------------
(* Crashes and rebalances. *)

\* A process dies.
LEMMA CrashInv ==
  ASSUME IInv, NEW w \in Workers, Crash(w)
  PROVE  IInv'
<1>0. /\ StoreTypeOK /\ CallTypeOK /\ FaultTypeOK /\ GroupTypeOK /\ GroupInv
      /\ \A v \in Workers : WorkerInv(v)
  BY IInvParts DEF WorkersInv
<1>1. /\ crashes < MaxCrashes /\ crashes' = crashes + 1
      /\ batch' = [batch EXCEPT ![w] = NoBatch]
      /\ EndCall(w)
      /\ PollsDie(w)
      /\ owner' = [p \in Partitions |-> IF owner[p] = w THEN None ELSE owner[p]]
      /\ UNCHANGED <<storeVars, faults, log, position, committed, rebalances>>
  BY DEF Crash
<1>2. StoreTypeOK' /\ CallTypeOK'
  BY <1>0, <1>1, EndCallType DEF StoreTypeOK
<1>3. FaultTypeOK' /\ faults' \in Nat /\ faults' >= faults
  BY <1>0, <1>1, MaxFaultsAssumption DEF FaultTypeOK
<1>4. batch' \in [Workers -> Batch] /\ batch'[w] = NoBatch
  BY <1>0, <1>1 DEF GroupTypeOK, Batch, NoBatch
<1>5. GroupTypeOK'
  <2>1. PollTypeOK'
    BY <1>0, <1>1, PollsDieType DEF GroupTypeOK
  <2> QED BY <1>0, <1>1, <1>4, <2>1, GroupAssumption DEF GroupTypeOK
<1>6. /\ LogGrows /\ RowsStay
      /\ \A m \in Messages : HasRow(m)' <=> HasRow(m)
  BY <1>0, <1>1 DEF LogGrows, RowsStay, HasRow, GroupTypeOK
<1>7. WorkersInv'
  <2>1. ASSUME NEW v \in Workers \ {w} PROVE WorkerInv(v)'
    <3>1. batch'[v] = batch[v] /\ pc'[v] = pc[v] /\ msg'[v] = msg[v]
      BY <1>0, <1>1 DEF GroupTypeOK, CallTypeOK, EndCall
    <3>2. ASSUME Handling(v), owner'[batch[v].partition] = v
          PROVE  /\ owner[batch[v].partition] = v
                 /\ position'[batch[v].partition] = position[batch[v].partition]
      <4>1. batch[v].partition \in Partitions
        BY <1>0, <3>2 DEF WorkerInv, BatchIsInTheLog
      <4> QED BY <1>1, <3>2, <4>1, GroupAssumption
    <3> QED
      BY <1>0, <1>3, <1>5, <1>6, <3>1, <3>2, WorkerKept
  <2>2. ~InCall(w)'
    BY <1>0, <1>1 DEF EndCall, InCall, CallTypeOK
  <2> QED BY <1>4, <2>1, <2>2, IdleWorker DEF WorkersInv
<1>8. GroupInv'
  BY <1>0, <1>1, <1>3, <1>5, <1>6, GroupKept
<1> QED BY <1>2, <1>3, <1>5, <1>7, <1>8, IInvParts, PTL

\* The group rebalances.
LEMMA RebalanceInv ==
  ASSUME IInv, NEW to \in [Partitions -> Workers], Rebalance(to)
  PROVE  IInv'
<1>0. /\ StoreTypeOK /\ CallTypeOK /\ FaultTypeOK /\ GroupTypeOK /\ GroupInv
      /\ OneRowPerKey /\ OffsetsAreInStep /\ CrashLosesNothing
      /\ \A v \in Workers : WorkerInv(v)
  BY IInvParts DEF WorkersInv, GroupInv
<1>1. /\ \A p \in Partitions : batch[to[p]].stage = "fetch"
      /\ owner' = to
      /\ position' = [p \in Partitions |-> StartAt(p)]
      /\ UNCHANGED <<processorVars, pollVars, log, committed, batch, crashes>>
      /\ rebalances' \in 0 .. MaxRebalances
  BY <1>0, GroupAssumption DEF Rebalance, GroupTypeOK
<1>2. StoreTypeOK' /\ CallTypeOK'
  BY <1>0, <1>1 DEF StoreTypeOK, CallTypeOK, CallsAreFilled, InCall
<1>3. FaultTypeOK' /\ faults' \in Nat /\ faults' >= faults
  BY <1>0, <1>1, MaxFaultsAssumption DEF FaultTypeOK
<1>4. GroupTypeOK'
  BY <1>0, <1>1, StartAtIsInStep DEF GroupTypeOK
<1>5. /\ LogGrows /\ RowsStay
      /\ \A m \in Messages : HasRow(m)' <=> HasRow(m)
  BY <1>0, <1>1 DEF LogGrows, RowsStay, HasRow, GroupTypeOK
<1>6. WorkersInv'
  <2>1. ASSUME NEW v \in Workers PROVE WorkerInv(v)'
    <3>1. Handling(v) => owner'[batch[v].partition] # v
      BY <1>0, <1>1 DEF Handling, WorkerInv, BatchIsInTheLog
    <3>2. batch'[v] = batch[v] /\ pc'[v] = pc[v] /\ msg'[v] = msg[v]
      BY <1>1
    <3> QED
      BY <1>0, <1>3, <1>4, <1>5, <3>1, <3>2, WorkerKept
  <2> QED BY <2>1 DEF WorkersInv
<1>7. OffsetsAreInStep'
  <2>1. \A p \in Partitions : position'[p] = StartAt(p)
    BY <1>1
  <2> QED BY <1>0, <1>1, <2>1, StartAtIsInStep DEF OffsetsAreInStep
<1>8. CrashLosesNothing'
  BY <1>0, <1>1, <1>3, <1>4, <1>5, PassedKept
<1>9. GroupInv'
  BY <1>0, <1>5, <1>7, <1>8, OneRowKept DEF GroupInv
<1> QED BY <1>2, <1>3, <1>4, <1>6, <1>9, IInvParts, PTL

-----------------------------------------------------------------------------
\* The inductive invariant holds of a group that has just joined.
LEMMA InitInv == Init => IInv
<1> SUFFICES ASSUME Init PROVE IInv
  OBVIOUS
<1> USE DEF Init, ProcessorInit
<1>1. StoreTypeOK
  BY DEF StoreTypeOK, Row, Absent
<1>2. CallTypeOK /\ \A w \in Workers : ~InCall(w)
  BY DEF CallTypeOK, CallsAreFilled, InCall
<1>3. FaultTypeOK
  BY MaxFaultsAssumption DEF FaultTypeOK
<1>4. NoBatch \in Batch
  BY DEF NoBatch, Batch
<1>5. GroupTypeOK
  <2>1. <<>> \in Seq(KafkaRecord)
    OBVIOUS
  <2>2. PollTypeOK
    BY PollInitType
  <2> QED BY <1>4, <2>1, <2>2, GroupAssumption DEF GroupTypeOK
<1>6. WorkersInv
  BY <1>2 DEF NoBatch, WorkersInv, WorkerInv, CallIsDelivery, BatchIsInTheLog,
              HandledIsRecorded, OwnerIsInStep, Handling
<1>7. OneRowPerKey
  BY DEF OneRowPerKey, HasRow
<1>8. OffsetsAreInStep
  BY DEF OffsetsAreInStep
<1>9. CrashLosesNothing
  BY DEF CrashLosesNothing, PassedIsRecorded
<1> QED
  BY <1>1, <1>2, <1>3, <1>5, <1>6, <1>7, <1>8, <1>9, IInvParts DEF GroupInv

\* Every step preserves the inductive invariant.
LEMMA NextInv == IInv /\ [Next]_vars => IInv'
<1> SUFFICES ASSUME IInv, [Next]_vars PROVE IInv'
  OBVIOUS
<1>1. ASSUME NEW m \in Messages, Produce(m) PROVE IInv'
  BY <1>1, ProduceInv
<1>2. ASSUME NEW w \in Workers, Work(w) PROVE IInv'
  BY <1>2, FetchInv, CheckInv, InsertInv, SkipInv, DeliverInv, ProcessInv,
     EndDeliveryInv, CommitInv DEF Work
<1>3. ASSUME NEW t \in Pollers, Timer(t) PROVE IInv'
  BY <1>3, PollInv, RepublishInv DEF Timer
<1>4. ASSUME NEW w \in Workers, Crash(w) PROVE IInv'
  BY <1>4, CrashInv
<1>5. CASE Recover
  BY <1>5, RebalanceInv DEF Recover
<1>6. CASE UNCHANGED vars
  <2>0. /\ StoreTypeOK /\ CallTypeOK /\ FaultTypeOK /\ GroupTypeOK /\ GroupInv
        /\ \A w \in Workers : WorkerInv(w)
    BY IInvParts DEF WorkersInv
  <2>1. StoreTypeOK' /\ CallTypeOK' /\ FaultTypeOK' /\ GroupTypeOK'
    BY <1>6, <2>0 DEF vars, StoreTypeOK, CallTypeOK, CallsAreFilled, InCall,
                      FaultTypeOK, GroupTypeOK
  <2>2. /\ LogGrows /\ RowsStay /\ faults' \in Nat /\ faults' >= faults
        /\ \A m \in Messages : HasRow(m)' <=> HasRow(m)
    BY <1>6, <2>0, MaxFaultsAssumption
    DEF vars, LogGrows, RowsStay, HasRow, GroupTypeOK, FaultTypeOK
  <2>3. WorkersInv'
    BY <1>6, <2>0, <2>1, <2>2, WorkerKept DEF vars, WorkersInv
  <2>4. GroupInv'
    BY <1>6, <2>0, <2>1, <2>2, GroupKept DEF vars
  <2> QED BY <2>1, <2>3, <2>4, IInvParts, PTL
<1> QED BY <1>1, <1>2, <1>3, <1>4, <1>5, <1>6 DEF Next

\* The strengthened invariant holds in every reachable state.
THEOREM Inductive == Spec => []IInv
BY InitInv, NextInv, PTL DEF Spec

\* Types of the tables, the log, the offsets and the handlers.
THEOREM TypeCorrect == Spec => []TypeOK
BY Inductive, PTL DEF IInv

\* Whatever a worker hands to a provider has been written to the messages
\* table, or conflicts with a row that has, through any crash, rebalance or
\* replay.
THEOREM WriteAheadHolds == Spec => []WriteAhead
BY Inductive, PTL DEF IInv

\* No crash or rebalance makes a group that has committed before pass a
\* record whose message is not in the database.
THEOREM CrashLosesNothingHolds == Spec => []CrashLosesNothing
BY Inductive, PTL DEF IInv

\* A step leaves every committed offset where it was or moves it forward.
LEMMA NextAdvances ==
  IInv /\ [Next]_vars => [\A p \in Partitions : committed'[p] >= committed[p]]_vars
<1> SUFFICES ASSUME IInv, [Next]_vars, vars' # vars, NEW q \in Partitions
             PROVE  committed'[q] >= committed[q]
  OBVIOUS
<1>0. /\ GroupTypeOK /\ OffsetsAreInStep
      /\ \A w \in Workers : WorkerInv(w)
  BY IInvParts DEF WorkersInv, GroupInv
<1>1. committed[q] \in Nat
  BY <1>0 DEF GroupTypeOK
<1>2. ASSUME NEW w \in Workers, Commit(w)
      PROVE  committed'[q] >= committed[q]
  <2> DEFINE p == batch[w].partition
             after == batch[w].last + 1
  <2>1. \/ committed' = committed
        \/ owner[p] = w /\ committed' = [committed EXCEPT ![p] = after]
    BY <1>2 DEF Commit
  <2>2. CASE committed' = committed
    BY <1>1, <2>2
  <2>3. CASE owner[p] = w /\ committed' = [committed EXCEPT ![p] = after]
    <3>1. Handling(w)
      BY <1>2 DEF Commit, HandlerDone, Handling
    <3>2. /\ p \in Partitions /\ after \in Nat /\ position[p] \in Nat
          /\ position[p] <= after
      BY <1>0, <2>3, <3>1, OffsetsAreRecords
      DEF WorkerInv, BatchIsInTheLog, OwnerIsInStep, GroupTypeOK
    <3>3. CASE q = p
      BY <1>0, <1>1, <2>3, <3>2, <3>3 DEF GroupTypeOK, OffsetsAreInStep
    <3>4. CASE q # p
      BY <1>0, <1>1, <2>3, <3>2, <3>4 DEF GroupTypeOK
    <3> QED BY <3>3, <3>4
  <2> QED BY <2>1, <2>2, <2>3
<1>3. ASSUME UNCHANGED committed PROVE committed'[q] >= committed[q]
  BY <1>1, <1>3
<1>4. ASSUME NEW w \in Workers, Work(w), ~Commit(w) PROVE UNCHANGED committed
  BY <1>4 DEF Work, Fetch, CheckBatch, InsertNew, SkipDuplicate, Deliver,
              Process, EndDelivery
<1>5. ASSUME \/ \E w \in Workers : Crash(w)
             \/ \E t \in Pollers : Timer(t)
      PROVE  UNCHANGED committed
  BY <1>5 DEF Timer, ReadRetries, RemoveRetries, RepublishRetry, Crash
<1>6. CASE (\E m \in Messages : Produce(m)) \/ Recover
  BY <1>3, <1>6 DEF Produce, Recover, Rebalance
<1> QED BY <1>2, <1>3, <1>4, <1>5, <1>6 DEF Next

\* A worker that lost its partition never moves back what the new owner has
\* committed, and no failed commit or new assignment does.
THEOREM CommitsAdvanceHolds == Spec => CommitsAdvance
<1>1. IInv /\ [Next]_vars => [\A p \in Partitions : committed'[p] >= committed[p]]_vars
  BY NextAdvances
<1> QED BY Inductive, <1>1, PTL DEF Spec, CommitsAdvance

-----------------------------------------------------------------------------
(* No second acceptance of an idempotency key, while no two handlers hold   *)
(* one as new.                                                              *)

\* All that is known of the messages that are new to one worker.
WorkerReplay(w) == NewIsAbsent(w) /\ AheadIsSendable(w) /\ CallSendsOnce(w)

WorkersReplay == \A w \in Workers : WorkerReplay(w)

\* As the log grows no message becomes plainer, and one that came twice in a
\* batch's reach still does.
LEMMA GuardsShrink ==
  ASSUME GroupTypeOK, GroupTypeOK', LogGrows,
         faults \in Nat, faults' \in Nat, faults' >= faults, NEW m
  PROVE  /\ KeyIsPlain(m)' => KeyIsPlain(m)
         /\ Repeated(m) => Repeated(m)'
         /\ Guarded(m)' => Guarded(m)
<1>1. ASSUME NEW p \in Partitions, NEW i, NEW j, InReach(p, i, j)
      PROVE  /\ InReach(p, i, j)' /\ i \in DOMAIN log'[p] /\ j \in DOMAIN log'[p]
             /\ log'[p][i] = log[p][i] /\ log'[p][j] = log[p][j]
  <2>1. log[p] \in Seq(KafkaRecord) /\ log'[p] \in Seq(KafkaRecord)
    BY DEF GroupTypeOK
  <2>2. i \in 1 .. Len(log[p]) /\ j \in 1 .. Len(log[p])
    BY <1>1, <2>1 DEF InReach
  <2>3. log'[p][i] = log[p][i] /\ log'[p][j] = log[p][j]
        /\ Len(log[p]) <= Len(log'[p])
    BY <2>2 DEF LogGrows
  <2>4. i \in DOMAIN log'[p] /\ j \in DOMAIN log'[p]
    BY <2>1, <2>2, <2>3
  <2> QED BY <1>1, <2>3, <2>4 DEF InReach
<1>2. KeyApart(m)' => KeyApart(m)
  <2> SUFFICES ASSUME KeyApart(m)', NEW p \in Partitions,
                      NEW i \in DOMAIN log[p], NEW j \in DOMAIN log[p],
                      InReach(p, i, j),
                      SameIdempotencyKey(log[p][i].message, m),
                      SameIdempotencyKey(log[p][j].message, m)
               PROVE  log[p][i].message = log[p][j].message
    BY DEF KeyApart
  <2> QED BY <1>1 DEF KeyApart, SameIdempotencyKey
<1>3. KeyIsPlain(m)' => KeyIsPlain(m)
  BY <1>2 DEF KeyIsPlain, OwnContent, SameIdempotencyKey
<1>4. Repeated(m) => Repeated(m)'
  <2> SUFFICES ASSUME NEW p \in Partitions,
                      NEW i \in DOMAIN log[p], NEW j \in DOMAIN log[p],
                      InReach(p, i, j), log[p][i].message = m,
                      log[p][j].message = m
               PROVE  Repeated(m)'
    BY DEF Repeated
  <2> QED BY <1>1 DEF Repeated
<1> QED BY <1>3, <1>4 DEF Guarded

\* A worker that takes no part in a step sees the same batch after it.
LEMMA BatchKept ==
  ASSUME GroupTypeOK, GroupTypeOK', LogGrows, NEW v \in Workers,
         BatchIsInTheLog(v), Handling(v), batch'[v] = batch[v]
  PROVE  /\ Offsets(v)' = Offsets(v) /\ NewOffsets(v)' = NewOffsets(v)
         /\ NewMessages(v)' = NewMessages(v)
         /\ MessagesAhead(v)' = MessagesAhead(v)
         /\ MessagesAhead(v) \subseteq NewMessages(v)
         /\ NewMessages(v) \subseteq Messages
         /\ \A i \in Offsets(v) : /\ RecordAt(v, i)' = RecordAt(v, i)
                                  /\ MessageAt(v, i)' = MessageAt(v, i)
<1>1. \A i \in Offsets(v) : RecordAt(v, i)' = RecordAt(v, i)
  BY OffsetsAreRecords DEF LogGrows, RecordAt
<1>2. Offsets(v)' = Offsets(v)
  BY DEF Offsets
<1>3. \A i \in Offsets(v) : MessageAt(v, i)' = MessageAt(v, i)
  BY <1>1 DEF MessageAt
<1>4. NewOffsets(v)' = NewOffsets(v) /\ NewOffsets(v) \subseteq Offsets(v)
  BY <1>2, <1>3 DEF NewOffsets
<1>5. NewMessages(v)' = NewMessages(v) /\ MessagesAhead(v)' = MessagesAhead(v)
  BY <1>3, <1>4 DEF NewMessages, MessagesAhead
<1>6. /\ NewMessages(v) \subseteq Messages
      /\ MessagesAhead(v) \subseteq NewMessages(v)
  BY <1>4, OffsetsAreRecords DEF NewMessages, MessagesAhead
<1> QED BY <1>1, <1>2, <1>3, <1>4, <1>5, <1>6

\* A message in a worker's hands is one it holds as new.
LEMMA CallHolds ==
  ASSUME NEW w \in Workers, WorkerInv(w), NewIsAbsent(w), InCall(w)
  PROVE  /\ batch[w].stage = "deliver" /\ Handling(w)
         /\ batch[w].next \in NewOffsets(w) /\ batch[w].next \in Offsets(w)
         /\ msg[w] = MessageAt(w, batch[w].next) /\ att[w] = 1
         /\ msg[w] \in NewMessages(w) /\ Holds(w, msg[w])
BY DEF WorkerInv, CallIsDelivery, NewIsAbsent, Holds, NewOffsets, NewMessages,
       Handling

\* What a worker knows of the messages it holds stays true while others work
\* on other messages.
LEMMA ReplayKept ==
  ASSUME GroupTypeOK, GroupTypeOK', LogGrows, RowsStay,
         faults \in Nat, faults' \in Nat, faults' >= faults,
         delivered \subseteq delivered',
         NEW v \in Workers, WorkerInv(v), WorkerReplay(v),
         batch'[v] = batch[v], pc'[v] = pc[v], msg'[v] = msg[v], att'[v] = att[v],
         \A m \in Messages : Holds(v, m) =>
           /\ accepted'[m] = accepted[m]
           /\ rows[m].finalDelivered => rows'[m].finalDelivered
           /\ batch[v].stage = "insert" /\ ~ExistsInDatabase(m) =>
                ~ExistsInDatabase(m)'
  PROVE  WorkerReplay(v)'
<1>1. CASE ~Handling(v)
  <2>1. ~InCall(v) /\ batch[v].stage = "fetch"
    BY <1>1 DEF WorkerInv, CallIsDelivery, Handling
  <2> QED
    BY <2>1 DEF WorkerReplay, NewIsAbsent, AheadIsSendable, CallSendsOnce,
                Handling, InCall
<1>2. CASE Handling(v)
  <2>0. BatchIsInTheLog(v)
    BY DEF WorkerInv
  <2>1. /\ Offsets(v)' = Offsets(v) /\ NewOffsets(v)' = NewOffsets(v)
        /\ NewMessages(v)' = NewMessages(v)
        /\ MessagesAhead(v)' = MessagesAhead(v)
        /\ MessagesAhead(v) \subseteq NewMessages(v)
        /\ NewMessages(v) \subseteq Messages
        /\ \A i \in Offsets(v) : /\ RecordAt(v, i)' = RecordAt(v, i)
                                 /\ MessageAt(v, i)' = MessageAt(v, i)
    BY <1>2, <2>0, BatchKept
  <2>2. NewOffsets(v) \subseteq Offsets(v)
    BY DEF NewOffsets
  <2>3. ASSUME NEW m \in Messages, Holds(v, m), Sendable(m)
        PROVE  Sendable(m)'
    BY <2>3, GuardsShrink DEF Sendable, Final
  <2>4. NewIsAbsent(v)'
    <3>1. ASSUME batch[v].stage \in {"loop", "deliver"}, NEW m \in NewMessages(v),
                 KeyIsPlain(m)'
          PROVE  HasRow(m)'
      BY <2>1, <3>1, GuardsShrink DEF WorkerReplay, NewIsAbsent, RowsStay
    <3>2. ASSUME batch[v].stage = "insert", NEW m \in NewMessages(v)
          PROVE  ~ExistsInDatabase(m)'
      BY <2>1, <3>2 DEF WorkerReplay, NewIsAbsent, Holds
    <3>3. batch[v].stage = "deliver" => batch[v].next \in Offsets(v)
      BY <2>2 DEF WorkerReplay, NewIsAbsent
    <3> QED
      BY <2>1, <3>1, <3>2, <3>3 DEF WorkerReplay, NewIsAbsent, Handling
  <2>5. AheadIsSendable(v)'
    <3> SUFFICES ASSUME batch[v].stage \in {"loop", "deliver"},
                        NEW m \in MessagesAhead(v), Guarded(m)'
                 PROVE  \/ Sendable(m)'
                        \/ batch[v].stage = "deliver" /\ m = msg[v]
      BY <2>1 DEF AheadIsSendable
    <3>1. Guarded(m) /\ Holds(v, m) /\ m \in Messages
      BY <2>1, GuardsShrink DEF Holds
    <3> QED BY <2>3, <3>1 DEF WorkerReplay, AheadIsSendable
  <2>6. CallSendsOnce(v)'
    <3> SUFFICES ASSUME NEW m \in Messages, InCall(v), msg[v] = m, Guarded(m)'
                 PROVE  SendsOnce(v, m)'
      BY DEF CallSendsOnce, InCall
    <3>1. Guarded(m) /\ Holds(v, m)
      BY CallHolds, GuardsShrink DEF WorkerReplay
    <3>2. /\ accepted'[m] = accepted[m]
          /\ rows[m].finalDelivered => rows'[m].finalDelivered
          /\ faults' = 0 => faults = 0
      BY <3>1
    <3>3. Final(m) => Final(m)'
      BY <3>2 DEF Final
    <3> HIDE DEF Final
    <3> QED
      BY <2>3, <3>1, <3>2, <3>3 DEF WorkerReplay, CallSendsOnce, SendsOnce
  <2> QED BY <2>4, <2>5, <2>6 DEF WorkerReplay
<1> QED BY <1>1, <1>2

LEMMA ReplayParts ==
  ReplayInv <=> /\ SentHasRow /\ AcceptedAtMostOnce
                /\ WorkersReplay
BY DEF ReplayInv, WorkerReplay, WorkersReplay

\* What the lemmas below use of IInv.
LEMMA StateFacts ==
  ASSUME IInv
  PROVE  /\ StoreTypeOK /\ CallTypeOK /\ GroupTypeOK
         /\ faults \in Nat /\ accepted \in [Messages -> Nat]
         /\ OneRowPerKey /\ \A w \in Workers : WorkerInv(w)
<1>1. /\ StoreTypeOK /\ CallTypeOK /\ FaultTypeOK /\ GroupTypeOK
      /\ OneRowPerKey /\ \A w \in Workers : WorkerInv(w)
  BY IInvParts DEF WorkersInv, GroupInv
<1> QED BY <1>1, MaxFaultsAssumption DEF FaultTypeOK, StoreTypeOK

\* A step that sends nothing and writes no row disturbs those workers only
\* that take part in it.
LEMMA QuietReplay ==
  ASSUME IInv, IInv', ReplayInv, LogGrows, faults' >= faults,
         UNCHANGED <<rows, accepted, delivered>>, NEW A \in SUBSET Workers,
         \A v \in Workers \ A : /\ batch'[v] = batch[v] /\ pc'[v] = pc[v]
                                /\ msg'[v] = msg[v] /\ att'[v] = att[v],
         \A w \in A : WorkerReplay(w)'
  PROVE  ReplayInv'
<1>1. /\ GroupTypeOK /\ faults \in Nat /\ \A w \in Workers : WorkerInv(w)
      /\ SentHasRow /\ AcceptedAtMostOnce
      /\ \A w \in Workers : WorkerReplay(w)
  BY StateFacts, ReplayParts DEF WorkersReplay
<1>2. GroupTypeOK' /\ faults' \in Nat
  <2>1. GroupTypeOK' /\ FaultTypeOK'
    BY IInvParts, PTL
  <2> QED BY <2>1, MaxFaultsAssumption DEF FaultTypeOK
<1>3. /\ RowsStay /\ \A m : HasRow(m)' <=> HasRow(m)
      /\ \A m : ExistsInDatabase(m)' <=> ExistsInDatabase(m)
  BY DEF RowsStay, HasRow, ExistsInDatabase, SameIdempotencyKey
<1>4. SentHasRow'
  BY <1>1, <1>2, <1>3, GuardsShrink DEF SentHasRow
<1>5. AcceptedAtMostOnce'
  BY <1>1, <1>2, GuardsShrink DEF AcceptedAtMostOnce
<1>6. ASSUME NEW v \in Workers PROVE WorkerReplay(v)'
  <2>1. CASE v \in A BY <2>1
  <2>2. CASE v \notin A BY <1>1, <1>2, <1>3, <2>2, ReplayKept
  <2> QED BY <2>1, <2>2
<1>7. WorkersReplay'
  BY <1>6 DEF WorkersReplay
<1> QED BY <1>4, <1>5, <1>7, ReplayParts, PTL

\* Such a step of one handler.
LEMMA HandlerReplay ==
  ASSUME IInv, IInv', ReplayInv, LogGrows, faults' >= faults,
         UNCHANGED <<rows, accepted, delivered>>, NEW w \in Workers,
         \A v \in Workers \ {w} : /\ batch'[v] = batch[v] /\ pc'[v] = pc[v]
                                  /\ msg'[v] = msg[v] /\ att'[v] = att[v],
         WorkerReplay(w)'
  PROVE  ReplayInv'
<1>1. \A v \in {w} : WorkerReplay(v)'
  OBVIOUS
<1>2. {w} \in SUBSET Workers
  OBVIOUS
<1> HIDE DEF WorkerReplay
<1> QED BY <1>1, <1>2, QuietReplay

\* A worker without a batch holds nothing.
LEMMA IdleReplay ==
  ASSUME NEW w \in Workers, batch'[w] = NoBatch, ~InCall(w)'
  PROVE  WorkerReplay(w)'
BY DEF NoBatch, WorkerReplay, NewIsAbsent, AheadIsSendable, CallSendsOnce,
       Handling

\* Neither does one that is about to check its batch or to commit it.
LEMMA NothingNewReplay ==
  ASSUME NEW w \in Workers, batch'[w].stage \in {"check", "commit"},
         batch'[w].last < batch'[w].first + BatchSize, ~InCall(w)'
  PROVE  WorkerReplay(w)'
BY DEF WorkerReplay, NewIsAbsent, AheadIsSendable, CallSendsOnce, Handling

\* Kafka hands out a batch.
LEMMA FetchReplay ==
  ASSUME IInv, IInv', ReplayInv, NEW w \in Workers, NEW p \in Partitions,
         Fetch(w, p)
  PROVE  ReplayInv'
<1>0. GroupTypeOK /\ WorkerInv(w) /\ faults \in Nat
  BY StateFacts
<1>1. PICK last \in position[p] .. Len(log[p]) :
        /\ last < position[p] + BatchSize
        /\ batch' = [batch EXCEPT ![w] =
                       [stage |-> "check", partition |-> p,
                        first |-> position[p], last |-> last,
                        next |-> position[p], duplicates |-> {}]]
  BY DEF Fetch
<1>2. /\ UNCHANGED <<processorVars, pollVars, groupVars, limitVars>>
      /\ batch[w].stage = "fetch"
  BY DEF Fetch
<1>3. /\ batch'[w].stage = "check"
      /\ batch'[w].last < batch'[w].first + BatchSize
      /\ \A v \in Workers \ {w} : batch'[v] = batch[v]
      /\ ~InCall(w)'
  BY <1>0, <1>1, <1>2 DEF GroupTypeOK, WorkerInv, CallIsDelivery, InCall
<1>4. WorkerReplay(w)'
  BY <1>3, NothingNewReplay
<1>5. LogGrows /\ faults' >= faults
  BY <1>0, <1>2 DEF LogGrows, GroupTypeOK
<1> QED BY <1>2, <1>3, <1>4, <1>5, HandlerReplay

\* The batch check: what it does not mark is absent.
LEMMA CheckReplay ==
  ASSUME IInv, IInv', ReplayInv, NEW w \in Workers, CheckBatch(w)
  PROVE  ReplayInv'
<1> DEFINE known == {m \in {MessageAt(w, i) : i \in Offsets(w)} :
                       ExistsInDatabase(m)}
           Checked(entered) ==
             batch' = [batch EXCEPT ![w].duplicates = known, ![w].stage = entered]
<1>0. /\ GroupTypeOK /\ WorkerInv(w) /\ faults \in Nat
      /\ batch[w] \in Batch /\ NewIsAbsent(w)
  BY StateFacts, ReplayParts DEF GroupTypeOK, WorkersReplay, WorkerReplay
<1>1. /\ UNCHANGED <<storeVars, callVars, pollVars, groupVars, limitVars>>
      /\ batch[w].stage = "check"
      /\ faults' = faults \/ Fault
      /\ \/ Enter(w, "commit")
         \/ /\ \A i \in Offsets(w) : ~RecordAt(w, i).retry
            /\ \E entered \in {"insert", "loop"} :
                 /\ Checked(entered)
                 /\ entered = "loop" =>
                      \A i \in Offsets(w) : MessageAt(w, i) \in known
  BY DEF CheckBatch
<1>2. ~InCall(w) /\ ~InCall(w)'
  BY <1>0, <1>1 DEF WorkerInv, CallIsDelivery, InCall
<1>3. batch[w].last < batch[w].first + BatchSize
  BY <1>0, <1>1 DEF NewIsAbsent, Handling
<1>4. LogGrows /\ faults' >= faults
  BY <1>0, <1>1 DEF LogGrows, GroupTypeOK, Fault
<1>5. CASE Enter(w, "commit")
  <2>1. /\ batch'[w].stage = "commit"
        /\ batch'[w].last = batch[w].last /\ batch'[w].first = batch[w].first
        /\ \A v \in Workers \ {w} : batch'[v] = batch[v]
    BY <1>0, <1>5, EnterStage
  <2>2. WorkerReplay(w)'
    BY <1>2, <1>3, <2>1, NothingNewReplay
  <2>3. /\ UNCHANGED <<rows, accepted, delivered>>
        /\ \A v \in Workers \ {w} : /\ batch'[v] = batch[v] /\ pc'[v] = pc[v]
                                   /\ msg'[v] = msg[v] /\ att'[v] = att[v]
    BY <1>1, <2>1
  <2> QED BY <1>4, <2>2, <2>3, HandlerReplay
<1>6. ASSUME NEW entered \in {"insert", "loop"}, Checked(entered),
             \A i \in Offsets(w) : ~RecordAt(w, i).retry,
             entered = "loop" => \A i \in Offsets(w) : MessageAt(w, i) \in known
      PROVE  ReplayInv'
  <2> HIDE DEF known
  <2>1. /\ batch'[w] = [batch[w] EXCEPT !.duplicates = known, !.stage = entered]
        /\ \A v \in Workers \ {w} : batch'[v] = batch[v]
    BY <1>0, <1>6 DEF GroupTypeOK
  <2>2. /\ batch'[w].stage = entered /\ batch'[w].duplicates = known
        /\ batch'[w].partition = batch[w].partition
        /\ batch'[w].first = batch[w].first /\ batch'[w].last = batch[w].last
    BY <1>0, <2>1 DEF Batch
  <2>3. /\ Offsets(w)' = Offsets(w)
        /\ \A i : RecordAt(w, i)' = RecordAt(w, i)
        /\ \A i : MessageAt(w, i)' = MessageAt(w, i)
        /\ \A m : ExistsInDatabase(m)' <=> ExistsInDatabase(m)
    BY <1>1, <2>2 DEF Offsets, MessageAt, RecordAt, ExistsInDatabase, HasRow,
                      SameIdempotencyKey
  <2>4. NewOffsets(w)' = {i \in Offsets(w) : MessageAt(w, i) \notin known}
    BY <2>2, <2>3 DEF NewOffsets
  <2>5. \A m \in NewMessages(w)' : ~ExistsInDatabase(m)
    <3>1. ASSUME NEW i \in Offsets(w), MessageAt(w, i) \notin known
          PROVE  ~ExistsInDatabase(MessageAt(w, i))
      BY <3>1 DEF known
    <3> QED BY <2>3, <2>4, <3>1 DEF NewMessages
  <2>6. entered = "loop" => NewOffsets(w)' = {}
    BY <1>6, <2>4
  <2>7. NewIsAbsent(w)'
    BY <1>3, <1>6, <2>2, <2>3, <2>5, <2>6 DEF NewIsAbsent, NewMessages
  <2>8. AheadIsSendable(w)'
    BY <2>2, <2>6 DEF AheadIsSendable, MessagesAhead
  <2>9. WorkerReplay(w)'
    BY <1>2, <2>7, <2>8 DEF WorkerReplay, CallSendsOnce
  <2>10. /\ UNCHANGED <<rows, accepted, delivered>>
         /\ \A v \in Workers \ {w} : /\ batch'[v] = batch[v] /\ pc'[v] = pc[v]
                                    /\ msg'[v] = msg[v] /\ att'[v] = att[v]
    BY <1>1, <2>1
  <2> QED BY <1>4, <2>9, <2>10, HandlerReplay
<1> QED BY <1>1, <1>5, <1>6

\* A new message is inserted when its key is plain: nothing it could conflict
\* with is in the table, or earlier in the batch.
LEMMA PlainIsInserted ==
  ASSUME IInv, NEW w \in Workers, NewIsAbsent(w), batch[w].stage = "insert",
         NEW S \in SUBSET NewOffsets(w), InsertedOffsets(w, S),
         NEW m \in NewMessages(w), KeyIsPlain(m)
  PROVE  \E i \in S : MessageAt(w, i) = m
<1>0. GroupTypeOK /\ BatchIsInTheLog(w) /\ Handling(w)
  BY StateFacts DEF WorkerInv, Handling
<1>1. PICK i \in NewOffsets(w) : MessageAt(w, i) = m
  BY DEF NewMessages
<1>2. NewOffsets(w) \subseteq Offsets(w)
  BY DEF NewOffsets
<1>3. /\ batch[w].partition \in Partitions
      /\ batch[w].first \in Nat /\ batch[w].last \in Nat
      /\ \A j \in Offsets(w) : /\ j \in 1 .. Len(log[batch[w].partition])
                               /\ MessageAt(w, j) \in Messages
  BY <1>0, OffsetsAreRecords
<1>4. ASSUME NEW n \in Messages, Conflicts(n, m)
      PROVE  SameIdempotencyKey(n, m)
  <2>1. m \in Messages
    BY <1>1, <1>2, <1>3
  <2> QED BY <1>4, <2>1 DEF Conflicts, KeyIsPlain, OwnContent, SameIdempotencyKey
<1>5. ASSUME NEW n \in Messages, HasRow(n) PROVE ~Conflicts(n, m)
  <2>1. ~ExistsInDatabase(m)
    BY DEF NewIsAbsent
  <2> QED BY <1>4, <1>5, <2>1 DEF ExistsInDatabase
<1>6. ASSUME NEW j \in S, j < i, Conflicts(MessageAt(w, j), m)
      PROVE  MessageAt(w, j) = m
  <2> DEFINE p == batch[w].partition
  <2>1. i \in Offsets(w) /\ j \in Offsets(w) /\ p \in Partitions
        /\ MessageAt(w, j) \in Messages
    BY <1>2, <1>3
  <2>2. i \in DOMAIN log[p] /\ j \in DOMAIN log[p]
    BY <1>0, <1>3, <2>1, RecordsAreTyped
  <2>3. i \in Nat /\ j \in Nat /\ i < j + BatchSize
    BY <1>3, <2>1, GroupAssumption DEF Offsets, NewIsAbsent, Handling
  <2>4. ~log[p][i].retry /\ ~log[p][j].retry
    BY <2>1 DEF NewIsAbsent, RecordAt
  <2>5. InReach(p, j, i)
    BY <1>6, <2>2, <2>3, <2>4 DEF InReach
  <2>6. /\ log[p][j].message = MessageAt(w, j) /\ log[p][i].message = m
        /\ SameIdempotencyKey(MessageAt(w, j), m) /\ SameIdempotencyKey(m, m)
    BY <1>1, <1>4, <1>6, <2>1 DEF MessageAt, RecordAt, SameIdempotencyKey
  <2>7. KeyApart(m)
    BY DEF KeyIsPlain
  <2> QED BY <2>1, <2>2, <2>5, <2>6, <2>7 DEF KeyApart
<1>7. CASE i \in S
  BY <1>1, <1>7
<1>8. CASE i \notin S
  <2>1. \E j \in S : j < i /\ Conflicts(MessageAt(w, j), m)
    BY <1>1, <1>5, <1>8 DEF InsertedOffsets
  <2> QED BY <1>6, <2>1
<1> QED BY <1>7, <1>8

\* What an insert leaves of a handler, whose new messages have rows now.
LEMMA InsertedReplay ==
  ASSUME IInv, ReplayInv, NEW w \in Workers, batch[w].stage = "insert",
         NEW S \in SUBSET NewOffsets(w), InsertedOffsets(w, S),
         \A m \in Messages : HasRow(m)' <=> HasRow(m) \/ \E i \in S : MessageAt(w, i) = m,
         Enter(w, "loop"), UNCHANGED <<log, accepted, faults, pc, msg, att>>,
         GroupTypeOK', LogGrows
  PROVE  WorkerReplay(w)'
<1>0. /\ GroupTypeOK /\ WorkerInv(w) /\ NewIsAbsent(w) /\ Handling(w)
      /\ SentHasRow /\ accepted \in [Messages -> Nat] /\ faults \in Nat
  BY StateFacts, ReplayParts DEF WorkersReplay, WorkerReplay, Handling
<1>1. /\ batch'[w].stage = "loop"
      /\ batch'[w].partition = batch[w].partition
      /\ batch'[w].first = batch[w].first /\ batch'[w].last = batch[w].last
      /\ batch'[w].next = batch[w].next
      /\ batch'[w].duplicates = batch[w].duplicates
  BY <1>0, EnterStage
<1>2. /\ Offsets(w)' = Offsets(w)
      /\ \A i : RecordAt(w, i)' = RecordAt(w, i)
      /\ \A i : MessageAt(w, i)' = MessageAt(w, i)
  BY <1>1 DEF Offsets, RecordAt, MessageAt
<1>3. NewOffsets(w)' = NewOffsets(w)
  BY <1>1, <1>2 DEF NewOffsets
<1>4. /\ NewMessages(w)' = NewMessages(w) /\ NewMessages(w) \subseteq Messages
      /\ MessagesAhead(w)' \subseteq NewMessages(w)
  <2>1. \A i \in NewOffsets(w) : MessageAt(w, i) \in Messages
    BY <1>0, OffsetsAreRecords DEF WorkerInv, NewOffsets
  <2> QED BY <1>2, <1>3, <2>1 DEF NewMessages, MessagesAhead
<1>5. ~InCall(w)'
  BY <1>0 DEF WorkerInv, CallIsDelivery, InCall
<1>6. ASSUME NEW m \in NewMessages(w), KeyIsPlain(m)'
      PROVE  HasRow(m)' /\ accepted[m] = 0
  <2>1. KeyIsPlain(m)
    BY <1>0, <1>6, GuardsShrink
  <2>2. HasRow(m)'
    BY <1>0, <1>4, <2>1, PlainIsInserted
  <2>3. ~HasRow(m)
    BY <1>0, <1>4 DEF NewIsAbsent, ExistsInDatabase, SameIdempotencyKey
  <2> QED BY <1>0, <1>4, <2>1, <2>2, <2>3 DEF SentHasRow
<1>7. NewIsAbsent(w)'
  BY <1>0, <1>1, <1>2, <1>4, <1>6 DEF NewIsAbsent, Handling
<1>8. AheadIsSendable(w)'
  BY <1>1, <1>4, <1>6 DEF AheadIsSendable, Guarded, Sendable
<1> QED BY <1>5, <1>7, <1>8 DEF WorkerReplay, CallSendsOnce

\* The transaction of inserts: no other handler holds what it adds.
LEMMA InsertReplay ==
  ASSUME IInv, IInv', ReplayInv, NewToOne, NEW w \in Workers, InsertNew(w)
  PROVE  ReplayInv'
<1>0. /\ GroupTypeOK /\ faults \in Nat /\ SentHasRow /\ AcceptedAtMostOnce
      /\ StoreTypeOK /\ CallTypeOK
      /\ \A v \in Workers : WorkerInv(v) /\ WorkerReplay(v)
      /\ NewIsAbsent(w)
  BY StateFacts, ReplayParts DEF WorkersReplay, WorkerReplay
<1>1. GroupTypeOK' /\ FaultTypeOK'
  BY IInvParts, PTL
<1>2. /\ UNCHANGED <<audit, dlqEntries, dlqTopic, delivered, retries, accepted,
                     callVars, pollVars, groupVars, limitVars>>
      /\ batch[w].stage = "insert"
      /\ \/ Enter(w, "loop") /\ UNCHANGED faults
         \/ Enter(w, "commit") /\ Fault
  BY DEF InsertNew
<1>3. /\ LogGrows /\ faults' \in Nat /\ faults' >= faults
  BY <1>0, <1>1, <1>2, MaxFaultsAssumption
  DEF LogGrows, GroupTypeOK, FaultTypeOK, Fault
<1>4. ~InCall(w) /\ ~InCall(w)'
  BY <1>0, <1>2 DEF WorkerInv, CallIsDelivery, InCall
<1>5. /\ batch'[w].first = batch[w].first /\ batch'[w].last = batch[w].last
      /\ \A v \in Workers \ {w} : /\ batch'[v] = batch[v] /\ pc'[v] = pc[v]
                                  /\ msg'[v] = msg[v] /\ att'[v] = att[v]
  BY <1>0, <1>2, EnterStage
<1>6. Enter(w, "commit") => WorkerReplay(w)'
  <2> SUFFICES ASSUME Enter(w, "commit") PROVE WorkerReplay(w)'
    OBVIOUS
  <2>1. batch'[w].stage = "commit"
    BY <1>0, EnterStage
  <2>2. batch[w].last < batch[w].first + BatchSize
    BY <1>0, <1>2 DEF NewIsAbsent, Handling
  <2> QED BY <1>4, <1>5, <2>1, <2>2, NothingNewReplay
<1>7. CASE UNCHANGED rows /\ Enter(w, "commit")
  BY <1>2, <1>3, <1>5, <1>6, <1>7, HandlerReplay
<1>8. ASSUME NEW S \in SUBSET NewOffsets(w), InsertedOffsets(w, S),
             rows' = [m \in Messages |->
                        IF \E i \in S : MessageAt(w, i) = m
                        THEN [status |-> "IN_PROGRESS", finalDelivered |-> FALSE]
                        ELSE rows[m]]
      PROVE  ReplayInv'
  <2>1. /\ RowsStay
        /\ \A m \in Messages :
             HasRow(m)' <=> HasRow(m) \/ \E i \in S : MessageAt(w, i) = m
    <3>1. [status |-> "IN_PROGRESS", finalDelivered |-> FALSE] # Absent
      BY DEF Absent
    <3> QED BY <1>8, <3>1 DEF RowsStay, HasRow
  <2>2. \A m \in Messages : ~HasRow(m) => ~rows[m].finalDelivered
    BY DEF HasRow, Absent
  <2>3. ASSUME NEW m \in Messages, rows[m].finalDelivered
        PROVE  rows'[m].finalDelivered
    <3>1. HasRow(m)
      BY <2>2, <2>3
    <3>2. ASSUME NEW i \in S PROVE MessageAt(w, i) # m
      <4>1. ~ExistsInDatabase(MessageAt(w, i))
        BY <1>0, <1>2 DEF NewIsAbsent, NewMessages
      <4> QED
        BY <3>1, <4>1 DEF ExistsInDatabase, SameIdempotencyKey
    <3> QED BY <1>8, <2>3, <3>2
  <2>4. SentHasRow'
    BY <1>0, <1>1, <1>2, <1>3, <2>1, GuardsShrink DEF SentHasRow, RowsStay
  <2>5. AcceptedAtMostOnce'
    BY <1>0, <1>1, <1>2, <1>3, GuardsShrink DEF AcceptedAtMostOnce
  <2>6. ASSUME NEW v \in Workers \ {w}, NEW m \in Messages, Holds(v, m),
               ~ExistsInDatabase(m)
        PROVE  ~ExistsInDatabase(m)'
    <3>1. ASSUME NEW n \in Messages, HasRow(n)'
          PROVE  ~SameIdempotencyKey(n, m)
      <4>1. CASE HasRow(n)
        BY <2>6, <4>1 DEF ExistsInDatabase
      <4>2. ASSUME NEW i \in S, MessageAt(w, i) = n
            PROVE  ~SameIdempotencyKey(n, m)
        <5>1. Holds(w, n)
          BY <1>2, <4>2 DEF Holds, NewMessages
        <5> QED BY <2>6, <5>1 DEF NewToOne, SameIdempotencyKey
      <4> QED BY <2>1, <3>1, <4>1, <4>2
    <3> QED BY <3>1 DEF ExistsInDatabase, SameIdempotencyKey
  <2>7. ASSUME NEW v \in Workers \ {w} PROVE WorkerReplay(v)'
    <3>1. delivered \subseteq delivered'
          /\ \A m \in Messages : accepted'[m] = accepted[m]
      BY <1>2
    <3> QED BY <1>0, <1>1, <1>3, <1>5, <2>1, <2>3, <2>6, <3>1, ReplayKept
  <2>8. WorkerReplay(w)'
    <3>1. CASE Enter(w, "commit")
      BY <1>6, <3>1
    <3>2. CASE Enter(w, "loop") /\ UNCHANGED faults
      BY <1>1, <1>2, <1>3, <1>8, <2>1, <3>2, InsertedReplay
    <3> QED BY <1>2, <3>1, <3>2
  <2>9. WorkersReplay'
    BY <2>7, <2>8 DEF WorkersReplay
  <2> QED BY <2>4, <2>5, <2>9, ReplayParts, PTL
<1> QED BY <1>7, <1>8 DEF InsertNew

\* What may be sent depends on the tables, the cache and the log.
LEMMA SameGuards ==
  ASSUME UNCHANGED <<rows, accepted, delivered, log, faults>>, NEW m
  PROVE  /\ Guarded(m)' <=> Guarded(m)
         /\ KeyIsPlain(m)' <=> KeyIsPlain(m)
         /\ Sendable(m)' <=> Sendable(m)
         /\ Final(m)' <=> Final(m)
         /\ HasRow(m)' <=> HasRow(m)
<1>1. Repeated(m)' <=> Repeated(m)
  BY DEF Repeated, InReach
<1>2. KeyIsPlain(m)' <=> KeyIsPlain(m)
  BY DEF KeyIsPlain, KeyApart, OwnContent, SameIdempotencyKey, InReach
<1>3. Final(m)' <=> Final(m)
  BY DEF Final
<1> QED BY <1>1, <1>2, <1>3 DEF Guarded, Sendable, HasRow

\* A handler that moves on in its loop has the batch it had.
LEMMA LoopView ==
  ASSUME GroupTypeOK, NEW w \in Workers, NEW s, NEW n,
         batch' = [batch EXCEPT ![w] = [batch[w] EXCEPT !.stage = s, !.next = n]],
         UNCHANGED log
  PROVE  /\ batch'[w].stage = s /\ batch'[w].next = n
         /\ batch'[w].first = batch[w].first /\ batch'[w].last = batch[w].last
         /\ Offsets(w)' = Offsets(w) /\ NewOffsets(w)' = NewOffsets(w)
         /\ NewMessages(w)' = NewMessages(w)
         /\ \A i : RecordAt(w, i)' = RecordAt(w, i)
         /\ \A i : MessageAt(w, i)' = MessageAt(w, i)
         /\ \A v \in Workers \ {w} : batch'[v] = batch[v]
<1> DEFINE moved == [batch[w] EXCEPT !.stage = s, !.next = n]
<1>1. batch[w] \in Batch
  BY DEF GroupTypeOK
<1>2. /\ moved.stage = s /\ moved.next = n
      /\ moved.partition = batch[w].partition
      /\ moved.first = batch[w].first /\ moved.last = batch[w].last
      /\ moved.duplicates = batch[w].duplicates
  BY <1>1 DEF Batch
<1> HIDE DEF moved
<1>3. batch'[w] = moved /\ \A v \in Workers \ {w} : batch'[v] = batch[v]
  <2>1. batch' = [batch EXCEPT ![w] = moved]
    BY DEF moved
  <2> QED BY <2>1 DEF GroupTypeOK
<1>4. /\ Offsets(w)' = Offsets(w)
      /\ \A i : RecordAt(w, i)' = RecordAt(w, i)
      /\ \A i : MessageAt(w, i)' = MessageAt(w, i)
  BY <1>2, <1>3 DEF Offsets, RecordAt, MessageAt
<1>5. NewOffsets(w)' = NewOffsets(w)
  BY <1>2, <1>3, <1>4 DEF NewOffsets
<1> QED BY <1>2, <1>3, <1>4, <1>5 DEF NewMessages

\* A handler that moves on in its loop keeps what it knows of its new
\* messages, if it knows so of the ones ahead and of the call it begins.
LEMMA LoopReplay ==
  ASSUME IInv, IInv', ReplayInv, NEW w \in Workers,
         batch[w].stage \in {"loop", "deliver"},
         NEW s \in {"loop", "deliver"}, NEW n \in Nat,
         batch' = [batch EXCEPT ![w] = [batch[w] EXCEPT !.stage = s, !.next = n]],
         \A v \in Workers \ {w} : /\ pc'[v] = pc[v] /\ msg'[v] = msg[v]
                                  /\ att'[v] = att[v],
         UNCHANGED <<storeVars, faults, pollVars, groupVars, limitVars>>,
         s = "deliver" => /\ n \in NewOffsets(w) /\ att'[w] = 1
                          /\ msg'[w] = MessageAt(w, n),
         \A i \in NewOffsets(w) : n <= i /\ Guarded(MessageAt(w, i)) =>
           \/ Sendable(MessageAt(w, i))
           \/ s = "deliver" /\ MessageAt(w, i) = msg'[w],
         CallSendsOnce(w)'
  PROVE  ReplayInv'
<1>0. /\ GroupTypeOK /\ faults \in Nat /\ NewIsAbsent(w) /\ Handling(w)
  BY StateFacts, ReplayParts DEF WorkersReplay, WorkerReplay, Handling
<1>1. /\ batch'[w].stage = s /\ batch'[w].next = n
      /\ batch'[w].first = batch[w].first /\ batch'[w].last = batch[w].last
      /\ Offsets(w)' = Offsets(w) /\ NewOffsets(w)' = NewOffsets(w)
      /\ NewMessages(w)' = NewMessages(w)
      /\ \A i : RecordAt(w, i)' = RecordAt(w, i)
      /\ \A i : MessageAt(w, i)' = MessageAt(w, i)
      /\ \A v \in Workers \ {w} : batch'[v] = batch[v]
  BY <1>0, LoopView
<1>2. NewIsAbsent(w)'
  BY <1>0, <1>1, SameGuards DEF NewIsAbsent, Handling
<1>3. AheadIsSendable(w)'
  <2>1. MessagesAhead(w)' = {MessageAt(w, i) : i \in {j \in NewOffsets(w) : n <= j}}
    BY <1>1 DEF MessagesAhead
  <2> QED BY <1>1, <2>1, SameGuards DEF AheadIsSendable
<1>4. WorkerReplay(w)'
  BY <1>2, <1>3 DEF WorkerReplay
<1>5. LogGrows /\ faults' >= faults
  BY <1>0 DEF LogGrows, GroupTypeOK
<1> QED BY <1>1, <1>4, <1>5, HandlerReplay

\* A duplicate is passed over.
LEMMA SkipReplay ==
  ASSUME IInv, IInv', ReplayInv, NEW w \in Workers, SkipDuplicate(w)
  PROVE  ReplayInv'
<1>0. /\ GroupTypeOK /\ WorkerInv(w) /\ AheadIsSendable(w) /\ batch[w] \in Batch
  BY StateFacts, ReplayParts DEF WorkersReplay, WorkerReplay, GroupTypeOK
<1>1. /\ batch[w].stage = "loop" /\ batch[w].next \in Offsets(w)
      /\ batch' = [batch EXCEPT ![w].next = @ + 1]
      /\ UNCHANGED <<processorVars, pollVars, groupVars, limitVars>>
  BY DEF SkipDuplicate
<1> DEFINE next == batch[w].next + 1
<1>2. batch[w].next \in Nat /\ next \in Nat /\ \A i \in NewOffsets(w) : i \in Nat
  BY <1>0, <1>1, OffsetsAreRecords DEF WorkerInv, Handling, NewOffsets
<1>3. batch' = [batch EXCEPT
                   ![w] = [batch[w] EXCEPT !.stage = "loop", !.next = next]]
  BY <1>0, <1>1 DEF GroupTypeOK, Batch
<1>4. CallSendsOnce(w)'
  BY <1>0, <1>1 DEF CallSendsOnce, InCall, WorkerInv, CallIsDelivery
<1>5. ASSUME NEW i \in NewOffsets(w), next <= i, Guarded(MessageAt(w, i))
      PROVE  Sendable(MessageAt(w, i))
  BY <1>0, <1>1, <1>2, <1>5 DEF AheadIsSendable, MessagesAhead
<1> HIDE DEF next
<1> QED BY <1>1, <1>2, <1>3, <1>4, <1>5, LoopReplay

\* A message is handed to processDelivery: it may be sent.
LEMMA DeliverReplay ==
  ASSUME IInv, IInv', ReplayInv, NEW w \in Workers, Deliver(w)
  PROVE  ReplayInv'
<1>0. /\ GroupTypeOK /\ CallTypeOK /\ WorkerInv(w) /\ AheadIsSendable(w)
      /\ batch[w] \in Batch
  BY StateFacts, ReplayParts DEF WorkersReplay, WorkerReplay, GroupTypeOK
<1> DEFINE next == batch[w].next
<1>1. /\ batch[w].stage = "loop" /\ next \in NewOffsets(w)
      /\ StartDelivery(w, MessageAt(w, next), 0)
      /\ batch' = [batch EXCEPT ![w].stage = "deliver"]
      /\ UNCHANGED <<storeVars, faults, pollVars, groupVars, limitVars>>
  BY DEF Deliver, Enter, NewOffsets
<1>2. next \in Nat
  BY <1>0 DEF Batch
<1>3. batch' = [batch EXCEPT
                   ![w] = [batch[w] EXCEPT !.stage = "deliver", !.next = next]]
  BY <1>0, <1>1 DEF GroupTypeOK, Batch
<1>4. /\ pc'[w] = "exists" /\ msg'[w] = MessageAt(w, next) /\ att'[w] = 1
      /\ \A v \in Workers \ {w} : /\ pc'[v] = pc[v] /\ msg'[v] = msg[v]
                                  /\ att'[v] = att[v]
  BY <1>0, <1>1 DEF StartDelivery, CallTypeOK
<1>5. ASSUME NEW i \in NewOffsets(w), next <= i, Guarded(MessageAt(w, i))
      PROVE  Sendable(MessageAt(w, i))
  BY <1>0, <1>1, <1>5 DEF AheadIsSendable, MessagesAhead
<1>6. CallSendsOnce(w)'
  <2>1. ASSUME NEW m \in Messages, msg'[w] = m, Guarded(m)'
        PROVE  Sendable(m)'
    <3>1. Guarded(m) /\ m = MessageAt(w, next)
      BY <1>1, <1>4, <2>1, SameGuards
    <3>2. Sendable(m)
      BY <1>1, <1>2, <1>5, <3>1
    <3> QED BY <1>1, <3>2, SameGuards
  <2> QED
    BY <1>4, <2>1 DEF CallSendsOnce, SendsOnce, InCall, BeforeSend, AfterSend
<1> HIDE DEF next
<1> QED BY <1>1, <1>2, <1>3, <1>4, <1>5, <1>6, LoopReplay

\* processDelivery returned.  Its message comes again in this batch only if
\* nothing has failed, and then it is sent and marked, or was refused.
LEMMA EndDeliveryReplay ==
  ASSUME IInv, IInv', ReplayInv, NEW w \in Workers, EndDelivery(w)
  PROVE  ReplayInv'
<1> DEFINE next == batch[w].next + 1
           p == batch[w].partition
<1>0. /\ GroupTypeOK /\ CallTypeOK /\ WorkerInv(w) /\ batch[w] \in Batch
      /\ NewIsAbsent(w) /\ AheadIsSendable(w) /\ CallSendsOnce(w)
      /\ faults \in Nat
  BY StateFacts, ReplayParts DEF WorkersReplay, WorkerReplay, GroupTypeOK
<1>1. /\ pc[w] \in Results /\ EndCall(w)
      /\ batch' = [batch EXCEPT ![w].stage = "loop", ![w].next = @ + 1]
      /\ UNCHANGED <<storeVars, faults, pollVars, groupVars, limitVars>>
  BY DEF EndDelivery
<1>2. InCall(w)
  BY <1>1 DEF Results, InCall
<1>3. /\ batch[w].stage = "deliver" /\ Handling(w)
      /\ batch[w].next \in Offsets(w)
      /\ msg[w] = MessageAt(w, batch[w].next)
  BY <1>0, <1>2, CallHolds
<1>4. /\ p \in Partitions /\ batch[w].first \in Nat /\ batch[w].last \in Nat
      /\ batch[w].next \in Nat /\ next \in Nat
      /\ \A i \in Offsets(w) : /\ i \in 1 .. Len(log[p]) /\ i \in Nat
                               /\ MessageAt(w, i) \in Messages
                               /\ ~RecordAt(w, i).retry
  BY <1>0, <1>3, OffsetsAreRecords DEF WorkerInv, NewIsAbsent
<1>5. batch' = [batch EXCEPT
                   ![w] = [batch[w] EXCEPT !.stage = "loop", !.next = next]]
  BY <1>0, <1>1 DEF GroupTypeOK, Batch
<1>6. /\ pc'[w] = "idle"
      /\ \A v \in Workers \ {w} : /\ pc'[v] = pc[v] /\ msg'[v] = msg[v]
                                  /\ att'[v] = att[v]
  BY <1>0, <1>1 DEF EndCall, CallTypeOK
<1>7. ASSUME NEW i \in NewOffsets(w), next <= i, Guarded(MessageAt(w, i))
      PROVE  Sendable(MessageAt(w, i))
  <2> DEFINE m == MessageAt(w, i)
  <2>1. i \in Offsets(w) /\ m \in Messages /\ i \in Nat
    BY <1>4 DEF NewOffsets
  <2>2. Sendable(m) \/ m = msg[w]
    <3>1. m \in MessagesAhead(w)
      BY <1>4, <1>7, <2>1 DEF MessagesAhead
    <3> QED BY <1>0, <1>3, <1>7, <3>1 DEF AheadIsSendable
  <2>3. CASE m = msg[w]
    <3>1. InReach(p, batch[w].next, i)
      <4>1. batch[w].next \in DOMAIN log[p] /\ i \in DOMAIN log[p]
        BY <1>0, <1>3, <1>4, <2>1, RecordsAreTyped
      <4>2. batch[w].next < i /\ i < batch[w].next + BatchSize
        BY <1>0, <1>3, <1>4, <1>7, <2>1, GroupAssumption
        DEF Offsets, NewIsAbsent
      <4>3. ~log[p][batch[w].next].retry /\ ~log[p][i].retry
        BY <1>3, <1>4, <2>1 DEF RecordAt
      <4> QED BY <4>1, <4>2, <4>3 DEF InReach
    <3>2. Repeated(m)
      <4>1. log[p][i].message = m /\ log[p][batch[w].next].message = m
        BY <1>3, <2>3 DEF MessageAt, RecordAt
      <4> QED BY <1>4, <3>1, <4>1 DEF Repeated, InReach
    <3>3. faults = 0
      BY <1>7, <3>2 DEF Guarded
    <3>4. Final(m) \/ accepted[m] = 0
      <4>1. /\ pc[w] \in AfterSend \ {"markSent"} => Final(m)
            /\ pc[w] \notin BeforeSend \cup AfterSend => accepted[m] = 0
        BY <1>0, <1>2, <1>7, <2>1, <2>3, <3>3
        DEF CallSendsOnce, SendsOnce
      <4> QED BY <1>1, <4>1 DEF Results, BeforeSend, AfterSend
    <3> QED BY <3>2, <3>4 DEF Sendable
  <2> QED BY <2>2, <2>3
<1>8. CallSendsOnce(w)'
  BY <1>6 DEF CallSendsOnce, InCall
<1> HIDE DEF next
<1> QED BY <1>1, <1>3, <1>4, <1>5, <1>6, <1>7, <1>8, LoopReplay

\* The batch is let go, committed or not.
LEMMA CommitReplay ==
  ASSUME IInv, IInv', ReplayInv, NEW w \in Workers, Commit(w)
  PROVE  ReplayInv'
<1>0. GroupTypeOK /\ WorkerInv(w) /\ faults \in Nat
  BY StateFacts
<1>1. /\ HandlerDone(w) /\ batch' = [batch EXCEPT ![w] = NoBatch]
      /\ UNCHANGED <<storeVars, callVars, pollVars, log, owner, limitVars>>
      /\ faults' = faults \/ Fault
  BY DEF Commit
<1>2. ~InCall(w)'
  BY <1>0, <1>1 DEF HandlerDone, WorkerInv, CallIsDelivery, InCall
<1>3. /\ batch'[w] = NoBatch /\ \A v \in Workers \ {w} : batch'[v] = batch[v]
      /\ LogGrows /\ faults' >= faults
  BY <1>0, <1>1 DEF GroupTypeOK, LogGrows, Fault
<1>4. WorkerReplay(w)'
  BY <1>2, <1>3, IdleReplay
<1> QED BY <1>1, <1>3, <1>4, HandlerReplay

\* A process dies with its batch and its call.
LEMMA CrashReplay ==
  ASSUME IInv, IInv', ReplayInv, NEW w \in Workers, Crash(w)
  PROVE  ReplayInv'
<1>0. GroupTypeOK /\ CallTypeOK /\ faults \in Nat
  BY StateFacts
<1>1. /\ batch' = [batch EXCEPT ![w] = NoBatch] /\ EndCall(w)
      /\ UNCHANGED <<storeVars, faults, log, position, committed, rebalances>>
  BY DEF Crash
<1>2. /\ batch'[w] = NoBatch /\ ~InCall(w)'
      /\ \A v \in Workers \ {w} : /\ batch'[v] = batch[v] /\ pc'[v] = pc[v]
                                  /\ msg'[v] = msg[v] /\ att'[v] = att[v]
      /\ LogGrows /\ faults' >= faults
  BY <1>0, <1>1 DEF GroupTypeOK, CallTypeOK, EndCall, InCall, LogGrows
<1>3. WorkerReplay(w)'
  BY <1>2, IdleReplay
<1> QED BY <1>1, <1>2, <1>3, HandlerReplay

\* A step that no handler takes part in.
LEMMA OutsideReplay ==
  ASSUME IInv, IInv', ReplayInv, LogGrows, faults' >= faults,
         UNCHANGED <<rows, accepted, delivered, callVars, batch>>
  PROVE  ReplayInv'
<1>1. /\ {} \in SUBSET Workers
      /\ \A v \in Workers \ {} : /\ batch'[v] = batch[v] /\ pc'[v] = pc[v]
                                 /\ msg'[v] = msg[v] /\ att'[v] = att[v]
  OBVIOUS
<1>2. \A w \in {} : WorkerReplay(w)'
  OBVIOUS
<1> QED BY <1>1, <1>2, QuietReplay

\* The log grows by a record.
LEMMA AppendGrows ==
  ASSUME GroupTypeOK, NEW p \in Partitions, NEW record \in KafkaRecord,
         AppendTo(p, record)
  PROVE  LogGrows
<1>1. \A q \in Partitions : log[q] \in Seq(KafkaRecord)
  BY DEF GroupTypeOK
<1>2. /\ log'[p] = Append(log[p], record)
      /\ \A q \in Partitions \ {p} : log'[q] = log[q]
  BY DEF GroupTypeOK, AppendTo
<1>3. /\ Len(log'[p]) = Len(log[p]) + 1
      /\ \A i \in 1 .. Len(log[p]) : log'[p][i] = log[p][i]
      /\ \A q \in Partitions : Len(log[q]) \in Nat
  BY <1>1, <1>2
<1> QED BY <1>2, <1>3 DEF LogGrows

\* The router, the timer and the coordinator send nothing.
LEMMA OutsideStepReplay ==
  ASSUME IInv, IInv', ReplayInv,
         \/ \E m \in Messages : Produce(m)
         \/ \E t \in Pollers : Timer(t)
         \/ Recover
  PROVE  ReplayInv'
<1>0. GroupTypeOK /\ faults \in Nat
  BY StateFacts
<1>1. ASSUME NEW m \in Messages, Produce(m) PROVE ReplayInv'
  <2>1. /\ HomePartition[m] \in Partitions /\ Fresh(m) \in KafkaRecord
        /\ AppendTo(HomePartition[m], Fresh(m))
        /\ UNCHANGED <<processorVars, pollVars, owner, position, committed, batch,
                       limitVars>>
    BY <1>1, GroupAssumption DEF Produce, Fresh, KafkaRecord
  <2>2. LogGrows /\ faults' >= faults
    BY <1>0, <2>1, AppendGrows
  <2> QED BY <2>1, <2>2, OutsideReplay
<1>2. ASSUME NEW t \in Pollers,
             \/ \E due \in SUBSET retries : ReadRetries(t, due)
             \/ RemoveRetries(t)
      PROVE  ReplayInv'
  <2>1. /\ UNCHANGED <<rows, accepted, delivered, callVars, groupVars, batch>>
        /\ faults' = faults \/ Fault
    BY <1>2 DEF ReadRetries, Read, RemoveRetries, Remove
  <2>2. LogGrows /\ faults' >= faults
    BY <1>0, <2>1 DEF LogGrows, GroupTypeOK, Fault
  <2> QED BY <2>1, <2>2, OutsideReplay
<1>3. ASSUME NEW t \in Pollers, NEW r \in polled[t], NEW p \in Partitions,
             RepublishRetry(t, r, p)
      PROVE  ReplayInv'
  <2>1. /\ UNCHANGED <<storeVars, callVars, batch>>
        /\ AppendTo(p, RetryOf(r.message)) \/ log' = log
        /\ faults' = faults \/ Fault
    BY <1>3 DEF RepublishRetry, Republish
  <2>2. RetryOf(r.message) \in KafkaRecord
    BY <1>0 DEF GroupTypeOK, Retry, RetryOf, KafkaRecord
  <2>3. LogGrows
    <3>1. CASE log' = log
      BY <1>0, <3>1 DEF LogGrows, GroupTypeOK
    <3> QED BY <1>0, <2>1, <2>2, <3>1, AppendGrows
  <2>4. faults' >= faults
    BY <1>0, <2>1 DEF Fault
  <2> QED BY <2>1, <2>3, <2>4, OutsideReplay
<1>4. ASSUME NEW to, Rebalance(to) PROVE ReplayInv'
  <2>1. UNCHANGED <<processorVars, pollVars, log, committed, batch, crashes>>
    BY <1>4 DEF Rebalance
  <2>2. LogGrows /\ faults' >= faults
    BY <1>0, <2>1 DEF LogGrows, GroupTypeOK
  <2> QED BY <2>1, <2>2, OutsideReplay
<1> QED BY <1>1, <1>2, <1>3, <1>4 DEF Timer, Recover

\* An await of processDelivery writes only what belongs to its message.
LEMMA StepWrites ==
  ASSUME StoreTypeOK, CallTypeOK, FaultTypeOK, NEW w \in Workers,
         ProcessorStep(w)
  PROVE  /\ \A n \in Messages \ {msg[w]} :
              rows'[n] = rows[n] /\ accepted'[n] = accepted[n]
         /\ delivered \subseteq delivered'
         /\ accepted' # accepted =>
              /\ pc[w] = "send"
              /\ accepted' = [accepted EXCEPT ![msg[w]] = @ + 1]
<1>0. pc[w] # "idle" => msg[w] \in Messages
  BY DEF CallTypeOK, CallsAreFilled, InCall
<1>1. CASE Exists(w) BY <1>1 DEF Exists
<1>2. CASE SetNX(w) BY <1>2 DEF SetNX, Write
<1>3. CASE GetStatus(w) BY <1>3 DEF GetStatus
<1>4. CASE Send(w) BY <1>0, <1>4 DEF Send, StoreTypeOK
<1>5. CASE MarkSent(w)
  BY <1>0, <1>5 DEF MarkSent, Write, SetStatus, StoreTypeOK
<1>6. CASE SaveSuccess(w) BY <1>6 DEF SaveSuccess
<1>7. CASE Warm(w) BY <1>7 DEF Warm, Write
<1>8. CASE LogSent(w) BY <1>8 DEF LogSent
<1>9. CASE SaveFailed(w) BY <1>9 DEF SaveFailed
<1>10. CASE MarkFailed(w)
  BY <1>0, <1>10 DEF MarkFailed, Write, SetStatus, StoreTypeOK
<1>11. CASE SaveDLQEntry(w) BY <1>11 DEF SaveDLQEntry
<1>12. CASE PublishDLQ(w) BY <1>12 DEF PublishDLQ
<1>13. CASE MarkPending(w)
  BY <1>0, <1>13 DEF MarkPending, Write, SetStatus, StoreTypeOK
<1>14. CASE ScheduleRetry(w) BY <1>14 DEF ScheduleRetry
<1>15. CASE LogRetry(w) BY <1>15 DEF LogRetry
<1> QED
  BY <1>1, <1>2, <1>3, <1>4, <1>5, <1>6, <1>7, <1>8, <1>9, <1>10, <1>11,
     <1>12, <1>13, <1>14, <1>15 DEF ProcessorStep

\* The awaits after a failed attempt, none of which sends.
LEMMA GivingUpSendsNothing ==
  ASSUME TablesFit, CallTypeOK, faults \in Nat, NEW w \in Workers,
         NEW m \in Messages, msg[w] = m, SendsOnce(w, m),
         \/ SaveFailed(w) \/ MarkFailed(w) \/ SaveDLQEntry(w)
         \/ PublishDLQ(w) \/ MarkPending(w) \/ ScheduleRetry(w) \/ LogRetry(w)
  PROVE  SendsOnce(w, m)'
<1> USE DEF Write, Answers, Goto, Fault, CallTypeOK, BeforeSend, AfterSend,
            SendsOnce
<1>1. CASE SaveFailed(w) BY <1>1 DEF SaveFailed
<1>2. CASE MarkFailed(w) BY <1>2 DEF MarkFailed, SetStatus
<1>3. CASE SaveDLQEntry(w) BY <1>3 DEF SaveDLQEntry
<1>4. CASE PublishDLQ(w) BY <1>4 DEF PublishDLQ
<1>5. CASE MarkPending(w) BY <1>5 DEF MarkPending, SetStatus
<1>6. CASE ScheduleRetry(w) BY <1>6 DEF ScheduleRetry
<1>7. CASE LogRetry(w) BY <1>7 DEF LogRetry
<1> QED BY <1>1, <1>2, <1>3, <1>4, <1>5, <1>6, <1>7

\* An await sends only what may be sent, and leaves row and cache behind when
\* nothing fails.
LEMMA StepSendsOnce ==
  ASSUME TablesFit, StoreTypeOK, CallTypeOK, faults \in Nat, NEW w \in Workers,
         NEW m \in Messages, msg[w] = m, att[w] = 1, HasRow(m),
         SendsOnce(w, m), Repeated(m)' <=> Repeated(m),
         faults' = 0 \/ ~Repeated(m), ProcessorStep(w)
  PROVE  SendsOnce(w, m)'
<1>0. CallKey(w) = DedupKey[m] /\ pc \in [Workers -> {"idle"} \cup Awaits \cup Results]
  BY DEF CallKey, CallTypeOK
<1> USE DEF SendsOnce, Answers, Goto, Fault, BeforeSend, AfterSend
<1>1. CASE Exists(w)
  BY <1>0, <1>1 DEF Exists, Sendable, Final
<1>2. CASE SetNX(w)
  BY <1>0, <1>2 DEF SetNX, Write
<1>3. CASE GetStatus(w)
  BY <1>0, <1>3 DEF GetStatus, TablesFit, Sendable, Final
<1>4. CASE Send(w)
  BY <1>0, <1>4 DEF Send
<1>5. CASE MarkSent(w)
  <2>1. /\ pc[w] = "markSent" /\ pc'[w] \in {"saveSuccess", "saveFailed"}
        /\ UNCHANGED <<delivered, accepted>>
    BY <1>0, <1>5 DEF MarkSent, Write
  <2>2. \/ faults' = faults + 1
        \/ /\ faults' = faults /\ rows'[m].finalDelivered
           /\ pc'[w] = "saveSuccess"
    <3>1. UpdateStatusFits
      BY DEF TablesFit
    <3> QED
      BY <1>0, <1>5, <3>1 DEF MarkSent, Write, SetStatus, HasRow, StoreTypeOK
  <2>3. faults' = 0 => /\ faults = 0 /\ rows'[m].finalDelivered
                       /\ pc'[w] = "saveSuccess"
    BY <2>2
  <2> QED BY <1>0, <2>1, <2>3 DEF Final
<1>6. CASE SaveSuccess(w)
  BY <1>0, <1>6 DEF SaveSuccess, Write, TablesFit, Final
<1>7. CASE Warm(w)
  BY <1>0, <1>7 DEF Warm, Write, Final
<1>8. CASE LogSent(w)
  BY <1>0, <1>8 DEF LogSent, Final
<1>9. CASE \/ SaveFailed(w) \/ MarkFailed(w) \/ SaveDLQEntry(w)
           \/ PublishDLQ(w) \/ MarkPending(w) \/ ScheduleRetry(w) \/ LogRetry(w)
  BY <1>9, GivingUpSendsNothing
<1> QED
  BY <1>1, <1>2, <1>3, <1>4, <1>5, <1>6, <1>7, <1>8, <1>9 DEF ProcessorStep

\* CallSendsOnce speaks of the message in the worker's hands.
LEMMA CallSendsOnceParts ==
  ASSUME NEW w \in Workers, InCall(w), msg[w] \in Messages
  PROVE  CallSendsOnce(w) <=> (Guarded(msg[w]) => SendsOnce(w, msg[w]))
BY DEF CallSendsOnce

\* An await of processDelivery.
LEMMA ProcessReplay ==
  ASSUME TablesFit, IInv, IInv', ReplayInv, NewToOne, NEW w \in Workers,
         Process(w)
  PROVE  ReplayInv'
<1>0. /\ StoreTypeOK /\ CallTypeOK /\ GroupTypeOK /\ faults \in Nat
      /\ accepted \in [Messages -> Nat]
      /\ \A v \in Workers : WorkerInv(v) /\ WorkerReplay(v)
      /\ SentHasRow /\ AcceptedAtMostOnce
      /\ NewIsAbsent(w) /\ AheadIsSendable(w) /\ CallSendsOnce(w)
  BY StateFacts, ReplayParts DEF WorkersReplay, WorkerReplay
<1>1. FaultTypeOK /\ GroupTypeOK' /\ FaultTypeOK'
  BY IInvParts, PTL
<1>2. /\ ProcessorStep(w)
      /\ UNCHANGED <<polled, log, owner, position, committed, batch, limitVars>>
  BY DEF Process
<1>3. /\ InCall(w) /\ InCall(w)'
      /\ \A v \in Workers \ {w} : pc'[v] = pc[v]
      /\ UNCHANGED <<msg, att>> /\ faults' \in Nat /\ faults' >= faults
      /\ \A m \in Messages : HasRow(m)' <=> HasRow(m)
  BY <1>0, <1>1, <1>2, StepKeeps DEF InCall
<1> DEFINE m == msg[w]
<1>4. /\ \A n \in Messages \ {m} : rows'[n] = rows[n] /\ accepted'[n] = accepted[n]
      /\ delivered \subseteq delivered'
      /\ accepted' # accepted =>
           pc[w] = "send" /\ accepted' = [accepted EXCEPT ![m] = @ + 1]
  BY <1>0, <1>1, <1>2, StepWrites
<1>5. /\ batch[w].stage = "deliver" /\ Handling(w) /\ att[w] = 1
      /\ m \in NewMessages(w) /\ Holds(w, m) /\ m \in Messages
  BY <1>0, <1>3, CallHolds DEF CallTypeOK, CallsAreFilled
<1>6. LogGrows /\ RowsStay
  BY <1>0, <1>2, <1>3 DEF LogGrows, RowsStay, GroupTypeOK
<1>7. \A n : /\ KeyIsPlain(n)' => KeyIsPlain(n)
             /\ Guarded(n)' => Guarded(n)
             /\ Repeated(n)' <=> Repeated(n)
  <2>1. \A n : Repeated(n)' <=> Repeated(n)
    BY <1>2 DEF Repeated, InReach
  <2> QED BY <1>0, <1>1, <1>3, <1>6, <2>1, GuardsShrink
<1>8. KeyIsPlain(m) => HasRow(m)
  BY <1>0, <1>5 DEF NewIsAbsent
<1> HIDE DEF m
<1>9. SentHasRow'
  <2> SUFFICES ASSUME NEW n \in Messages, KeyIsPlain(n)', accepted'[n] > 0
               PROVE  HasRow(n)'
    BY DEF SentHasRow
  <2>1. CASE n = m
    BY <1>3, <1>7, <1>8, <2>1
  <2>2. CASE n # m
    BY <1>0, <1>3, <1>4, <1>7, <2>2 DEF SentHasRow
  <2> QED BY <2>1, <2>2
<1>10. AcceptedAtMostOnce'
  <2> SUFFICES ASSUME NEW n \in Messages, Guarded(n)'
               PROVE  accepted'[n] <= 1
    BY DEF AcceptedAtMostOnce
  <2>1. Guarded(n) /\ accepted[n] <= 1
    BY <1>0, <1>7 DEF AcceptedAtMostOnce
  <2>2. CASE accepted' = accepted \/ n # m
    BY <1>4, <2>1, <2>2
  <2>3. CASE accepted' # accepted /\ n = m
    <3>1. accepted[m] = 0
      BY <1>0, <1>3, <1>4, <1>5, <2>1, <2>3 DEF CallSendsOnce, SendsOnce, m
    <3> QED BY <1>0, <1>4, <1>5, <2>3, <3>1
  <2> QED BY <2>2, <2>3
<1>11. ASSUME NEW v \in Workers \ {w} PROVE WorkerReplay(v)'
  <2>1. ASSUME NEW n \in Messages, Holds(v, n)
        PROVE  /\ accepted'[n] = accepted[n]
               /\ rows[n].finalDelivered => rows'[n].finalDelivered
               /\ batch[v].stage = "insert" /\ ~ExistsInDatabase(n) =>
                    ~ExistsInDatabase(n)'
    <3>1. n # m
      BY <1>5, <2>1 DEF NewToOne, SameIdempotencyKey
    <3>2. ExistsInDatabase(n)' <=> ExistsInDatabase(n)
      BY <1>3 DEF ExistsInDatabase, SameIdempotencyKey
    <3> QED BY <1>4, <3>1, <3>2
  <2>2. batch'[v] = batch[v] /\ pc'[v] = pc[v] /\ msg'[v] = msg[v]
        /\ att'[v] = att[v]
    BY <1>2, <1>3
  <2> QED
    BY <1>0, <1>1, <1>3, <1>4, <1>6, <2>1, <2>2, ReplayKept
<1>12. WorkerReplay(w)'
  <2>1. /\ Offsets(w)' = Offsets(w) /\ NewOffsets(w)' = NewOffsets(w)
        /\ NewMessages(w)' = NewMessages(w)
        /\ MessagesAhead(w)' = MessagesAhead(w)
        /\ MessagesAhead(w) \subseteq NewMessages(w)
        /\ NewMessages(w) \subseteq Messages
        /\ \A i : /\ RecordAt(w, i)' = RecordAt(w, i)
                  /\ MessageAt(w, i)' = MessageAt(w, i)
    <3>1. BatchIsInTheLog(w) /\ batch'[w] = batch[w]
      BY <1>0, <1>2 DEF WorkerInv
    <3>2. \A i : /\ RecordAt(w, i)' = RecordAt(w, i)
                 /\ MessageAt(w, i)' = MessageAt(w, i)
      BY <1>2 DEF RecordAt, MessageAt
    <3> QED BY <1>0, <1>1, <1>5, <1>6, <3>1, <3>2, BatchKept
  <2>2. NewIsAbsent(w)'
    BY <1>0, <1>2, <1>3, <1>5, <1>7, <2>1 DEF NewIsAbsent, Handling
  <2>3. AheadIsSendable(w)'
    <3> SUFFICES ASSUME NEW n \in MessagesAhead(w), Guarded(n)', n # m
                 PROVE  Sendable(n)'
      BY <1>2, <1>3, <1>5, <2>1 DEF AheadIsSendable, m
    <3>1. Sendable(n) /\ n \in Messages
      BY <1>0, <1>5, <1>7, <2>1 DEF AheadIsSendable, m
    <3> QED BY <1>4, <1>7, <3>1 DEF Sendable, Final
  <2>4. CallSendsOnce(w)'
    <3>1. ASSUME NEW n \in Messages, n = msg[w], Guarded(n)'
          PROVE  SendsOnce(w, n)'
      <4>1. Guarded(n) /\ HasRow(n)
        BY <1>7, <1>8, <3>1 DEF Guarded, m
      <4>2. SendsOnce(w, n)
        BY <1>0, <1>3, <1>5, <3>1, <4>1, CallSendsOnceParts DEF m
      <4>3. faults' = 0 \/ ~Repeated(n)
        BY <1>7, <3>1 DEF Guarded
      <4> QED
        BY <1>0, <1>2, <1>5, <1>7, <3>1, <4>1, <4>2, <4>3, StepSendsOnce
    <3> QED BY <1>3, <3>1 DEF CallSendsOnce
  <2> QED BY <2>2, <2>3, <2>4 DEF WorkerReplay
<1>13. WorkersReplay'
  BY <1>11, <1>12 DEF WorkersReplay
<1> QED BY <1>9, <1>10, <1>13, ReplayParts, PTL

\* Nothing is held before the first batch.
LEMMA InitReplay == Init => ReplayInv
<1> SUFFICES ASSUME Init PROVE ReplayInv
  OBVIOUS
<1> USE DEF Init, ProcessorInit
<1>1. SentHasRow /\ AcceptedAtMostOnce
  BY DEF SentHasRow, AcceptedAtMostOnce
<1>2. ASSUME NEW w \in Workers PROVE WorkerReplay(w)
  <2>1. ~InCall(w) /\ batch[w].stage = "fetch"
    BY DEF InCall, NoBatch
  <2> QED
    BY <2>1 DEF WorkerReplay, NewIsAbsent, AheadIsSendable, CallSendsOnce,
                Handling
<1> QED BY <1>1, <1>2, ReplayParts DEF WorkersReplay

\* Steps keep ReplayInv while no two handlers hold one key as new.
LEMMA NextReplay ==
  ASSUME Schema = RepositorySchema
  PROVE  IInv /\ IInv' /\ NewToOne /\ ReplayInv /\ [Next]_vars => ReplayInv'
<1> SUFFICES ASSUME IInv, IInv', NewToOne, ReplayInv, [Next]_vars
             PROVE  ReplayInv'
  OBVIOUS
<1>0. TablesFit /\ GroupTypeOK /\ faults \in Nat
  BY RepositoryTablesFit, StateFacts
<1>1. ASSUME NEW w \in Workers, Work(w) PROVE ReplayInv'
  BY <1>0, <1>1, FetchReplay, CheckReplay, InsertReplay, SkipReplay,
     DeliverReplay, ProcessReplay, EndDeliveryReplay, CommitReplay DEF Work
<1>2. ASSUME NEW w \in Workers, Crash(w) PROVE ReplayInv'
  BY <1>2, CrashReplay
<1>3. ASSUME \/ \E m \in Messages : Produce(m)
             \/ \E t \in Pollers : Timer(t)
             \/ Recover
      PROVE  ReplayInv'
  BY <1>3, OutsideStepReplay
<1>4. CASE UNCHANGED vars
  <2>1. LogGrows /\ faults' >= faults
    BY <1>0, <1>4 DEF vars, LogGrows, GroupTypeOK
  <2> QED BY <1>4, <2>1, OutsideReplay DEF vars
<1> QED BY <1>1, <1>2, <1>3, <1>4 DEF Next

\* ReplayInv and the unique keys bound the acceptances of a key, not only of
\* a message.
LEMMA ReplayInvIsSafe ==
  ASSUME IInv, ReplayInv
  PROVE  ReplaySafe
<1>0. /\ SentHasRow /\ AcceptedAtMostOnce /\ OneRowPerKey
      /\ accepted \in [Messages -> Nat]
  BY StateFacts, ReplayParts
<1> SUFFICES ASSUME NEW m \in Messages, NEW n \in Messages,
                    KeyIsPlain(m), faults = 0 \/ ~Repeated(m)
             PROVE  /\ accepted[m] <= 1
                    /\ SameIdempotencyKey(m, n) /\ m # n =>
                         accepted[m] = 0 \/ accepted[n] = 0
  BY DEF ReplaySafe, KeyIsPlain
<1>1. accepted[m] <= 1
  BY <1>0 DEF AcceptedAtMostOnce, Guarded
<1>2. ASSUME SameIdempotencyKey(m, n), m # n
      PROVE  accepted[m] = 0 \/ accepted[n] = 0
  <2>1. KeyIsPlain(n)
    BY <1>2 DEF KeyIsPlain, OwnContent, KeyApart, SameIdempotencyKey
  <2>2. ~(HasRow(m) /\ HasRow(n))
    BY <1>0, <1>2 DEF OneRowPerKey, Conflicts
  <2> QED BY <1>0, <2>1, <2>2 DEF SentHasRow
<1> QED BY <1>1, <1>2

\* As long as no two workers hold one idempotency key as new, a replay, a
\* crash, a rebalance or a failed call leads to no second provider acceptance
\* of the key, in the cases ReplaySafe names.
THEOREM ReplaySafeWhileNewToOne ==
  ASSUME Schema = RepositorySchema
  PROVE  Spec /\ []NewToOne => []ReplaySafe
<1>1. Init => ReplayInv
  BY InitReplay
<1>2. IInv /\ IInv' /\ NewToOne /\ ReplayInv /\ [Next]_vars => ReplayInv'
  BY NextReplay
<1>3. IInv /\ ReplayInv => ReplaySafe
  BY ReplayInvIsSafe
<1> QED BY Inductive, <1>1, <1>2, <1>3, PTL DEF Spec

\* One worker holds no key twice.
THEOREM ReplaySafeHolds ==
  ASSUME Schema = RepositorySchema, \A v, w \in Workers : v = w
  PROVE  Spec => []ReplaySafe
<1>1. NewToOne
  BY DEF NewToOne
<1>2. []NewToOne
  BY <1>1, PTL
<1> QED BY <1>2, ReplaySafeWhileNewToOne, PTL

-----------------------------------------------------------------------------
(* Where no two handlers ever hold one key as new. *)

\* A message comes home to the partition of its user; a retry may go anywhere.
PublishedAtHome ==
  \A p \in Partitions : \A i \in DOMAIN log[p] :
    ~log[p][i].retry => HomePartition[log[p][i].message] = p

\* A record that is appended is a retry or has come home.
LEMMA AppendAtHome ==
  ASSUME GroupTypeOK, PublishedAtHome, NEW p \in Partitions,
         NEW record \in KafkaRecord, AppendTo(p, record),
         record.retry \/ HomePartition[record.message] = p
  PROVE  PublishedAtHome'
<1>1. \A q \in Partitions : log[q] \in Seq(KafkaRecord)
  BY DEF GroupTypeOK
<1>2. /\ log'[p] = Append(log[p], record)
      /\ \A q \in Partitions \ {p} : log'[q] = log[q]
  BY DEF GroupTypeOK, AppendTo
<1> SUFFICES ASSUME NEW q \in Partitions, NEW i \in DOMAIN log'[q],
                    ~log'[q][i].retry
             PROVE  HomePartition[log'[q][i].message] = q
  BY DEF PublishedAtHome
<1>3. CASE q # p
  BY <1>2, <1>3 DEF PublishedAtHome
<1>4. CASE q = p
  <2>1. \/ i \in DOMAIN log[p] /\ log'[p][i] = log[p][i]
        \/ log'[p][i] = record
    BY <1>1, <1>2, <1>4
  <2> QED BY <1>4, <2>1 DEF PublishedAtHome
<1> QED BY <1>3, <1>4

\* The retry timer appends retries, and nothing else moves a record.
LEMMA NextAtHome == IInv /\ PublishedAtHome /\ [Next]_vars => PublishedAtHome'
<1> SUFFICES ASSUME IInv, PublishedAtHome, [Next]_vars PROVE PublishedAtHome'
  OBVIOUS
<1>0. GroupTypeOK
  BY IInvParts
<1>1. ASSUME NEW m \in Messages, Produce(m) PROVE PublishedAtHome'
  <2>1. /\ HomePartition[m] \in Partitions /\ Fresh(m) \in KafkaRecord
        /\ AppendTo(HomePartition[m], Fresh(m)) /\ Fresh(m).message = m
    BY <1>1, GroupAssumption DEF Produce, Fresh, KafkaRecord
  <2> QED BY <1>0, <2>1, AppendAtHome
<1>2. ASSUME NEW t \in Pollers, NEW r \in polled[t], NEW p \in Partitions,
             RepublishRetry(t, r, p)
      PROVE  PublishedAtHome'
  <2>1. AppendTo(p, RetryOf(r.message)) \/ log' = log
    BY <1>2 DEF RepublishRetry, Republish
  <2>2. RetryOf(r.message) \in KafkaRecord /\ RetryOf(r.message).retry
    BY <1>0 DEF GroupTypeOK, Retry, RetryOf, KafkaRecord
  <2>3. CASE log' = log
    BY <2>3 DEF PublishedAtHome
  <2> QED BY <1>0, <2>1, <2>2, <2>3, AppendAtHome
<1>3. ASSUME \/ \E w \in Workers : Work(w) \/ Crash(w)
             \/ \E t \in Pollers :
                  \/ \E due \in SUBSET retries : ReadRetries(t, due)
                  \/ RemoveRetries(t)
      PROVE  UNCHANGED log
  BY <1>3 DEF Work, Fetch, CheckBatch, InsertNew, SkipDuplicate, Deliver,
              Process, EndDelivery, Commit, ReadRetries, RemoveRetries, Crash
<1>4. CASE Recover \/ UNCHANGED vars
  BY <1>4 DEF Recover, Rebalance, vars, PublishedAtHome
<1>5. UNCHANGED log => PublishedAtHome'
  BY DEF PublishedAtHome
<1> QED BY <1>1, <1>2, <1>3, <1>4, <1>5 DEF Next, Timer

\* In a group that loses no process and is not rebalanced a partition stays
\* with the worker it was first assigned to, and so does its batch.
OwnersStay ==
  /\ \A p \in Partitions : owner[p] # None
  /\ \A w \in Workers : Handling(w) => owner[batch[w].partition] = w

\* Before anything is published every partition has a worker.
LEMMA InitOwners == Init => OwnersStay /\ PublishedAtHome
BY GroupAssumption
DEF Init, NoBatch, OwnersStay, Handling, PublishedAtHome

\* A handler that works on keeps the partition of its batch.
LEMMA WorkOwners ==
  ASSUME IInv, OwnersStay, NEW w \in Workers, Work(w)
  PROVE  OwnersStay'
<1>0. GroupTypeOK
  BY IInvParts
<1> DEFINE Stays == /\ UNCHANGED owner
                    /\ \A v \in Workers \ {w} : batch'[v] = batch[v]
                    /\ \/ batch'[w].stage = "fetch"
                       \/ owner[batch'[w].partition] = w
                       \/ /\ Handling(w)
                          /\ batch'[w].partition = batch[w].partition
<1>1. Stays
  <2> USE DEF GroupTypeOK, Batch, Enter, Handling
  <2>1. ASSUME NEW p \in Partitions, Fetch(w, p) PROVE Stays
    BY <1>0, <2>1 DEF Fetch
  <2>2. CASE CheckBatch(w) BY <1>0, <2>2 DEF CheckBatch
  <2>3. CASE InsertNew(w) BY <1>0, <2>3 DEF InsertNew
  <2>4. CASE SkipDuplicate(w) BY <1>0, <2>4 DEF SkipDuplicate
  <2>5. CASE Deliver(w) BY <1>0, <2>5 DEF Deliver
  <2>6. CASE Process(w)
    BY <1>0, <2>6 DEF Process
  <2>7. CASE EndDelivery(w)
    <3>1. batch[w].stage = "deliver"
      BY <2>7, StateFacts
      DEF EndDelivery, WorkerInv, CallIsDelivery, InCall, Results
    <3> QED BY <1>0, <2>7, <3>1 DEF EndDelivery
  <2>8. CASE Commit(w) BY <1>0, <2>8 DEF Commit, NoBatch
  <2> QED BY <2>1, <2>2, <2>3, <2>4, <2>5, <2>6, <2>7, <2>8 DEF Work
<1>2. ASSUME NEW v \in Workers, Handling(v)'
      PROVE  owner'[batch'[v].partition] = v
  BY <1>1, <1>2 DEF OwnersStay, Handling
<1> QED BY <1>1, <1>2 DEF OwnersStay

\* The owners of a stable group stay.
LEMMA NextOwners ==
  ASSUME MaxRebalances = 0, MaxCrashes = 0
  PROVE  IInv /\ OwnersStay /\ [Next]_vars => OwnersStay'
<1> SUFFICES ASSUME IInv, OwnersStay, [Next]_vars PROVE OwnersStay'
  OBVIOUS
<1>0. GroupTypeOK
  BY IInvParts
<1>1. CASE \/ \E m \in Messages : Produce(m)
           \/ \E t \in Pollers : Timer(t)
           \/ UNCHANGED vars
  <2>1. UNCHANGED <<owner, batch>>
    BY <1>1 DEF Produce, Timer, ReadRetries, RemoveRetries, RepublishRetry,
                vars
  <2> QED BY <2>1 DEF OwnersStay, Handling
<1>2. ASSUME NEW w \in Workers, Work(w) PROVE OwnersStay'
  BY <1>2, WorkOwners
<1>3. ASSUME NEW w \in Workers PROVE ~Crash(w)
  BY <1>0 DEF Crash, GroupTypeOK
<1>4. ASSUME NEW to PROVE ~Rebalance(to)
  BY <1>0 DEF Rebalance, GroupTypeOK, OwnersStay
<1> QED BY <1>1, <1>2, <1>3, <1>4 DEF Next, Recover

\* What a handler holds as new came home to its partition.
LEMMA OwnersHoldApart ==
  ASSUME IInv, ReplayInv, OwnersStay, PublishedAtHome,
         \A m, n \in Messages : SameIdempotencyKey(m, n) =>
           HomePartition[m] = HomePartition[n]
  PROVE  NewToOne
<1>1. ASSUME NEW w \in Workers, NEW m \in Messages, Holds(w, m)
      PROVE  owner[HomePartition[m]] = w
  <2>1. /\ GroupTypeOK /\ BatchIsInTheLog(w) /\ NewIsAbsent(w) /\ Handling(w)
        /\ batch[w].stage \in {"insert", "loop", "deliver"}
    BY <1>1, StateFacts, ReplayParts
    DEF WorkerInv, WorkersReplay, WorkerReplay, Holds, Handling
  <2>2. PICK i \in Offsets(w) : MessageAt(w, i) = m
    BY <1>1 DEF Holds, NewMessages, NewOffsets
  <2>3. /\ batch[w].partition \in Partitions
        /\ i \in DOMAIN log[batch[w].partition]
    BY <2>1, OffsetsAreRecords, RecordsAreTyped
  <2>4. HomePartition[m] = batch[w].partition
    BY <2>1, <2>2, <2>3 DEF NewIsAbsent, PublishedAtHome, MessageAt, RecordAt
  <2> QED BY <2>1, <2>4 DEF OwnersStay
<1> QED BY <1>1 DEF NewToOne

\* So in a group that loses no process and is not rebalanced, however many its
\* workers and whichever calls fail, if the messages of a key are one user's.
THEOREM ReplaySafeInAStableGroup ==
  ASSUME Schema = RepositorySchema, MaxRebalances = 0, MaxCrashes = 0,
         \A m, n \in Messages : SameIdempotencyKey(m, n) =>
           HomePartition[m] = HomePartition[n]
  PROVE  Spec => []ReplaySafe
<1>1. Init => ReplayInv /\ OwnersStay /\ PublishedAtHome
  BY InitReplay, InitOwners
<1>2. IInv /\ ReplayInv /\ OwnersStay /\ PublishedAtHome => NewToOne
  BY OwnersHoldApart
<1>3. IInv /\ IInv' /\ NewToOne /\ ReplayInv /\ [Next]_vars => ReplayInv'
  BY NextReplay
<1>4. IInv /\ OwnersStay /\ [Next]_vars => OwnersStay'
  BY NextOwners
<1>5. IInv /\ PublishedAtHome /\ [Next]_vars => PublishedAtHome'
  BY NextAtHome
<1>6. IInv /\ ReplayInv => ReplaySafe
  BY ReplayInvIsSafe
<1> QED BY Inductive, <1>1, <1>2, <1>3, <1>4, <1>5, <1>6, PTL DEF Spec

-----------------------------------------------------------------------------
(* Router and aggregator together: each keeps its specification, so the    *)
(* theorems about either hold of both, and what they say jointly follows.  *)

RouterProofs == INSTANCE IngressRouterProofs
                  WITH Requests <- Messages, topic <- Topic,
                       faults <- routerFaults, crashes <- routerCrashes,
                       MaxFaults <- MaxRouterFaults,
                       MaxCrashes <- MaxRouterCrashes

\* In the composition the aggregator does what it does alone, with the
\* router as the one who publishes.
THEOREM GroupIsKept == SystemSpec => Spec
<1>1. [SystemNext]_systemVars => [Next]_vars
  BY DEF SystemNext, systemVars, CreateMessage, Resend, RouterCrash,
         Aggregate, Next
<1> QED BY <1>1, PTL DEF SystemSpec, SystemInit, Spec

\* A record at the end of the log publishes its message and no other.
LEMMA AppendPublishes ==
  ASSUME GroupTypeOK, NEW p \in Partitions, NEW record, AppendTo(p, record)
  PROVE  /\ Topic \subseteq Messages /\ Topic' \subseteq Messages
         /\ \A m \in Messages :
              m \in Topic' <=> \/ m \in Topic
                               \/ HomePartition[m] = p /\ record = Fresh(m)
<1>1. log[p] \in Seq(KafkaRecord) /\ log'[p] = Append(log[p], record)
      /\ \A q \in Partitions \ {p} : log'[q] = log[q]
  BY DEF GroupTypeOK, AppendTo
<1>2. /\ Len(log[p]) \in Nat
      /\ DOMAIN log[p] = 1 .. Len(log[p])
  BY <1>1
<1>3. Append(log[p], record)
        = [i \in 1 .. Len(log[p]) + 1 |-> IF i = Len(log[p]) + 1 THEN record
                                                                ELSE log[p][i]]
  BY <1>1
<1>4. /\ DOMAIN log'[p] = 1 .. Len(log[p]) + 1
      /\ log'[p][Len(log[p]) + 1] = record
      /\ \A i \in DOMAIN log[p] : log'[p][i] = log[p][i]
  BY <1>1, <1>2, <1>3
<1>5. ASSUME NEW m \in Messages
      PROVE  m \in Topic' <=> \/ m \in Topic
                              \/ HomePartition[m] = p /\ record = Fresh(m)
  <2>1. HomePartition[m] \in Partitions /\ Fresh(m)' = Fresh(m)
    BY GroupAssumption DEF Fresh
  <2>2. CASE HomePartition[m] # p
    BY <1>1, <2>1, <2>2 DEF Topic, Published
  <2>3. CASE HomePartition[m] = p
    <3>1. DOMAIN log'[p] = DOMAIN log[p] \cup {Len(log[p]) + 1}
      BY <1>2, <1>4
    <3> QED BY <1>4, <2>1, <2>3, <3>1 DEF Topic, Published
  <2> QED BY <2>2, <2>3
<1>6. Topic \subseteq Messages /\ Topic' \subseteq Messages
  BY DEF Topic
<1> QED BY <1>5, <1>6

\* A message is published by the router and nobody else: the aggregator
\* appends retries only.
LEMMA AggregateKeepsTopic ==
  ASSUME IInv, Aggregate
  PROVE  Topic' = Topic
<1>0. GroupTypeOK
  BY IInvParts
<1>1. ASSUME UNCHANGED log PROVE Topic' = Topic
  BY <1>1 DEF Topic, Published
<1>2. ASSUME NEW w \in Workers, Work(w) PROVE UNCHANGED log
  BY <1>2 DEF Work, Fetch, CheckBatch, InsertNew, SkipDuplicate, Deliver,
              Process, EndDelivery, Commit
<1>3. ASSUME (\E w \in Workers : Crash(w)) \/ Recover PROVE UNCHANGED log
  BY <1>3 DEF Crash, Recover, Rebalance
<1>4. ASSUME NEW t \in Pollers,
             \/ \E due \in SUBSET retries : ReadRetries(t, due)
             \/ RemoveRetries(t)
      PROVE  UNCHANGED log
  BY <1>4 DEF ReadRetries, RemoveRetries
<1>5. ASSUME NEW t \in Pollers, NEW r \in polled[t], NEW p \in Partitions,
             RepublishRetry(t, r, p)
      PROVE  Topic' = Topic
  <2>1. AppendTo(p, RetryOf(r.message)) \/ UNCHANGED log
    BY <1>5 DEF RepublishRetry, Republish
  <2>2. CASE AppendTo(p, RetryOf(r.message))
    <3>1. \A m \in Messages : RetryOf(r.message) # Fresh(m)
      BY DEF Fresh, RetryOf
    <3> QED BY <1>0, <2>2, <3>1, AppendPublishes
  <2> QED BY <1>1, <2>1, <2>2
<1> QED BY <1>1, <1>2, <1>3, <1>4, <1>5 DEF Aggregate, Timer

\* The two instances of the router are one and the same.
LEMMA SameRouter == /\ Router!Init <=> RouterProofs!Init
                    /\ Router!Next <=> RouterProofs!Next
BY
DEF Router!Init, RouterProofs!Init, Router!Next, RouterProofs!Next,
    Router!Receive, RouterProofs!Receive, Router!Handle,
    RouterProofs!Handle, Router!Exists, RouterProofs!Exists,
    Router!SetNX, RouterProofs!SetNX, Router!GetCached,
    RouterProofs!GetCached, Router!LogDuplicate,
    RouterProofs!LogDuplicate, Router!Publish, RouterProofs!Publish,
    Router!LogAccepted, RouterProofs!LogAccepted, Router!PublishError,
    RouterProofs!PublishError, Router!Crash, RouterProofs!Crash,
    Router!InProgress, RouterProofs!InProgress, Router!Awaits,
    RouterProofs!Awaits, Router!ValidateRequest,
    RouterProofs!ValidateRequest, Router!buildIngressCacheKey,
    RouterProofs!buildIngressCacheKey, Router!Goto, RouterProofs!Goto,
    Router!Respond, RouterProofs!Respond, Router!Fault,
    RouterProofs!Fault, Router!NoFault, RouterProofs!NoFault,
    Router!NoReply, RouterProofs!NoReply

\* Nor does the aggregator stand in the router's way: in the composition the
\* router does what it does alone, with the group's log for its topic.
THEOREM RouterIsKept == SystemSpec => RouterProofs!Spec
<1>1. SystemInit => RouterProofs!Init
  BY SameRouter DEF SystemInit
<1>2. IInv /\ [SystemNext]_systemVars
        => [RouterProofs!Next]_(RouterProofs!vars)
  <2> SUFFICES ASSUME IInv, [SystemNext]_systemVars
               PROVE  RouterProofs!Next \/ UNCHANGED RouterProofs!vars
    OBVIOUS
  <2>1. CASE \/ \E m \in Messages : CreateMessage(m)
             \/ RouterCrash
    <3>1. Router!Next
      BY <2>1 DEF CreateMessage, RouterCrash, Router!Next
    <3> QED BY <3>1, SameRouter
  <2>2. CASE Aggregate
    <3>1. UNCHANGED <<Topic, routerVars>>
      BY <2>2, AggregateKeepsTopic DEF Aggregate
    <3> QED BY <3>1 DEF routerVars, RouterProofs!vars
  <2>3. CASE UNCHANGED systemVars
    <3>1. UNCHANGED <<log, routerVars>>
      BY <2>3 DEF systemVars, vars
    <3>2. Topic' = Topic
      BY <3>1 DEF Topic, Published
    <3> QED BY <3>1, <3>2 DEF routerVars, RouterProofs!vars
  <2>4. CASE \E m \in Messages : Resend(m)
    <3>1. PICK m \in Messages : Published(m) /\ Produce(m) /\ UNCHANGED routerVars
      BY <2>4 DEF Resend
    <3>2. Topic' = Topic
      <4>1. m \in Topic /\ HomePartition[m] \in Partitions /\ GroupTypeOK
        BY <3>1, GroupAssumption, IInvParts DEF Topic
      <4>2. AppendTo(HomePartition[m], Fresh(m))
        BY <3>1 DEF Produce
      <4>3. \A n \in Messages : Fresh(m) = Fresh(n) => m = n
        BY DEF Fresh
      <4>4. /\ Topic \subseteq Messages /\ Topic' \subseteq Messages
            /\ \A n \in Messages :
                 n \in Topic' <=> \/ n \in Topic
                                  \/ /\ HomePartition[n] = HomePartition[m]
                                     /\ Fresh(m) = Fresh(n)
        BY <4>1, <4>2, AppendPublishes
      <4> QED BY <4>1, <4>3, <4>4
    <3> QED BY <3>1, <3>2 DEF routerVars, RouterProofs!vars
  <2> QED BY <2>1, <2>2, <2>3, <2>4 DEF SystemNext
<1> QED
  BY <1>1, <1>2, GroupIsKept, Inductive, PTL DEF SystemSpec, RouterProofs!Spec

\* So the invariants of both hold, and every message is at home.
LEMMA PartsInductive ==
  SystemSpec => [](IInv /\ RouterProofs!IInv /\ PublishedAtHome)
<1>1. RouterProofs!Spec => []RouterProofs!IInv
  BY RouterProofs!Inductive, SystemAssumption DEF RouterProofs!Spec
<1>2. Spec => []PublishedAtHome
  BY InitOwners, NextAtHome, Inductive, PTL DEF Spec
<1> QED BY <1>1, <1>2, GroupIsKept, RouterIsKept, Inductive, PTL

\* A request that was answered ACCEPTED has a record, and the offsets that
\* have passed it leave it recorded.
THEOREM AcceptedIsKeptHolds == SystemSpec => []AcceptedIsKept
<1>1. IInv /\ RouterProofs!IInv => AcceptedIsKept
  <2> SUFFICES ASSUME IInv, RouterProofs!IInv,
                      faults = 0, ~FreshGroup, NoRetryPublished,
                      NEW m \in Messages, reply[m].status = "ACCEPTED",
                      ~Ahead(m)
               PROVE  Recorded(m)
    BY DEF AcceptedIsKept
  <2> DEFINE p == HomePartition[m]
  <2>1. p \in Partitions
    BY GroupAssumption
  <2>2. m \in Topic
    BY DEF RouterProofs!IInv, RouterProofs!AcceptedIsEnqueued
  <2>3. PICK i \in DOMAIN log[p] : log[p][i] = Fresh(m)
    BY <2>2 DEF Topic, Published
  <2>4. ~(i >= committed[p])
    BY <2>3 DEF Ahead
  <2>5. i < committed[p]
    <3>1. GroupTypeOK
      BY IInvParts
    <3>2. i \in Nat /\ committed[p] \in Nat
      BY <2>1, <3>1 DEF GroupTypeOK
    <3> HIDE DEF p
    <3> QED BY <2>4, <3>2
  <2>6. PassedIsRecorded
    BY DEF IInv, CrashLosesNothing
  <2>7. log[p][i].message = m /\ ~log[p][i].retry
    BY <2>3 DEF Fresh
  <2> HIDE DEF p
  <2> QED BY <2>1, <2>5, <2>6, <2>7 DEF PassedIsRecorded
<1> QED BY <1>1, PartsInductive, PTL

\* Where the router let one request of a key through, the key is apart in
\* every batch: each record the group sees is of a request in the topic.
LEMMA RouterKeepsApart ==
  ASSUME IInv, RouterProofs!IInv, PublishedAtHome,
         ~overlapped, routerFaults = 0, NEW m \in Messages
  PROVE  KeyApart(m)
<1>1. ASSUME NEW p \in Partitions, NEW i \in DOMAIN log[p], ~log[p][i].retry
      PROVE  log[p][i].message \in Topic
  <2>1. log[p][i] \in KafkaRecord
    BY <1>1, IInvParts DEF GroupTypeOK
  <2>2. /\ log[p][i].message \in Messages
        /\ log[p][i] = Fresh(log[p][i].message)
    BY <1>1, <2>1 DEF KafkaRecord, Fresh
  <2>3. p = HomePartition[log[p][i].message]
    BY <1>1 DEF PublishedAtHome
  <2> QED BY <2>2, <2>3 DEF Topic, Published
<1>2. ASSUME NEW a \in Topic, NEW b \in Topic,
             SameIdempotencyKey(a, m), SameIdempotencyKey(b, m)
      PROVE  a = b
  <2>1. a \in Messages /\ b \in Messages
    BY DEF Topic
  <2>2. Tenant[a] = Tenant[b] /\ Key[a] = Key[b]
    BY <1>2, <2>1, SystemAssumption DEF SameIdempotencyKey
  <2> QED BY <2>2 DEF RouterProofs!IInv, RouterProofs!EnqueuedOnce,
                      RouterProofs!SameKey
<1> QED BY <1>1, <1>2 DEF KeyApart, InReach

\* The promise of the batch check is one about the requests of clients.
LEMMA EitherDefence ==
  IInv /\ RouterProofs!IInv /\ PublishedAtHome /\ ReplaySafe => SentOncePerKey
<1>1. \A m, n \in Messages :
        Router!SameKey(m, n) => SameIdempotencyKey(m, n)
  BY SystemAssumption DEF Router!SameKey, SameIdempotencyKey
<1> QED BY <1>1, RouterKeepsApart DEF ReplaySafe, SentOncePerKey

\* As long as no two workers hold one key as new, a client's retry, however
\* it meets the router, is not sent beside the request it repeats.
THEOREM SentOncePerKeyWhileNewToOne ==
  ASSUME Schema = RepositorySchema
  PROVE  SystemSpec /\ []NewToOne => []SentOncePerKey
<1>1. Spec /\ []NewToOne => []ReplaySafe
  BY ReplaySafeWhileNewToOne
<1>2. IInv /\ RouterProofs!IInv /\ PublishedAtHome /\ ReplaySafe
        => SentOncePerKey
  BY EitherDefence
<1> QED BY <1>1, <1>2, GroupIsKept, PartsInductive, PTL

\* With one worker no condition on the group is left.
THEOREM SentOncePerKeyHolds ==
  ASSUME Schema = RepositorySchema, \A v, w \in Workers : v = w
  PROVE  SystemSpec => []SentOncePerKey
<1>1. Spec => []ReplaySafe
  BY ReplaySafeHolds
<1>2. IInv /\ RouterProofs!IInv /\ PublishedAtHome /\ ReplaySafe
        => SentOncePerKey
  BY EitherDefence
<1> QED BY <1>1, <1>2, GroupIsKept, PartsInductive, PTL

\* Nor where the group stays as it is and a key is used for one user.
THEOREM SentOncePerKeyInAStableGroup ==
  ASSUME Schema = RepositorySchema, MaxRebalances = 0, MaxCrashes = 0,
         \A m, n \in Messages : SameIdempotencyKey(m, n) =>
           HomePartition[m] = HomePartition[n]
  PROVE  SystemSpec => []SentOncePerKey
<1>1. Spec => []ReplaySafe
  BY ReplaySafeInAStableGroup
<1>2. IInv /\ RouterProofs!IInv /\ PublishedAtHome /\ ReplaySafe
        => SentOncePerKey
  BY EitherDefence
<1> QED BY <1>1, <1>2, GroupIsKept, PartsInductive, PTL

=============================================================================
