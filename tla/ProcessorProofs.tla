--------------------------- MODULE ProcessorProofs ---------------------------
(***************************************************************************)
(* Lemmas about one await of processDelivery and one of the retry timer,   *)
(* for the modules that compose the two with a consumer: types are         *)
(* preserved, and rows neither come nor go.                                *)
(***************************************************************************)
EXTENDS RetryLoop, TLAPS

USE DEF processorVars, storeVars, callVars

StoreTypeOK == /\ rows \in [Messages -> Row]
               /\ audit \subseteq Attempt
               /\ dlqEntries \subseteq Messages
               /\ dlqTopic \subseteq Messages
               /\ delivered \subseteq DedupKeys
               /\ retries \subseteq Retry
               /\ accepted \in [Messages -> Nat]

CallTypeOK == /\ pc \in [Workers -> {"idle"} \cup Awaits \cup Results]
              /\ msg \in [Workers -> Messages \cup {NoMessage}]
              /\ att \in [Workers -> Nat]
              /\ CallsAreFilled

FaultTypeOK == faults \in 0 .. MaxFaults

\* Types are carried from step to step in three parts.
LEMMA ProcessorParts ==
  ProcessorTypeOK /\ CallsAreFilled <=> StoreTypeOK /\ CallTypeOK /\ FaultTypeOK
BY DEF ProcessorTypeOK, StoreTypeOK, CallTypeOK, FaultTypeOK

\* Moving a call to its next await keeps the calls well typed.
LEMMA GotoType ==
  ASSUME CallTypeOK, NEW w \in Workers, NEW next \in Awaits \cup Results,
         pc[w] # "idle", Goto(w, next)
  PROVE  CallTypeOK'
BY DEF CallTypeOK, Goto, CallsAreFilled, InCall

\* The fault counter stays within its bound.
LEMMA FaultType ==
  ASSUME FaultTypeOK, Fault
  PROVE  FaultTypeOK'
BY MaxFaultsAssumption DEF FaultTypeOK, Fault

\* updateStatus writes rows of the table's type.
LEMMA SetStatusType ==
  ASSUME rows \in [Messages -> Row], NEW m \in Messages,
         NEW status \in {"IN_PROGRESS", "PENDING", "SENT", "FAILED"},
         NEW final \in BOOLEAN, SetStatus(m, status, final)
  PROVE  rows' \in [Messages -> Row]
<1>1. [status |-> status, finalDelivered |-> final] \in Row
  BY DEF Row
<1> QED BY <1>1 DEF SetStatus

\* An await is left for another one or for the result of the call.
LEMMA StepMoves ==
  ASSUME NEW w \in Workers, ProcessorStep(w)
  PROVE  /\ pc[w] # "idle"
         /\ \E next \in Awaits \cup Results :
              Goto(w, next) /\ (faults' = faults \/ Fault)
<1> USE DEF Answers, Write, Awaits, Results
<1>1. CASE Exists(w) BY <1>1 DEF Exists
<1>2. CASE SetNX(w) BY <1>2 DEF SetNX
<1>3. CASE GetStatus(w) BY <1>3 DEF GetStatus
<1>4. CASE Send(w) BY <1>4 DEF Send
<1>5. CASE MarkSent(w) BY <1>5 DEF MarkSent
<1>6. CASE SaveSuccess(w) BY <1>6 DEF SaveSuccess
<1>7. CASE Warm(w) BY <1>7 DEF Warm
<1>8. CASE LogSent(w) BY <1>8 DEF LogSent
<1>9. CASE SaveFailed(w) BY <1>9 DEF SaveFailed
<1>10. CASE MarkFailed(w) BY <1>10 DEF MarkFailed
<1>11. CASE SaveDLQEntry(w) BY <1>11 DEF SaveDLQEntry
<1>12. CASE PublishDLQ(w) BY <1>12 DEF PublishDLQ
<1>13. CASE MarkPending(w) BY <1>13 DEF MarkPending
<1>14. CASE ScheduleRetry(w) BY <1>14 DEF ScheduleRetry
<1>15. CASE LogRetry(w) BY <1>15 DEF LogRetry
<1> QED BY <1>1, <1>2, <1>3, <1>4, <1>5, <1>6, <1>7, <1>8, <1>9, <1>10,
           <1>11, <1>12, <1>13, <1>14, <1>15 DEF ProcessorStep

\* Every await of processDelivery keeps calls and faults well typed.
LEMMA StepCall ==
  ASSUME CallTypeOK, FaultTypeOK, NEW w \in Workers, ProcessorStep(w)
  PROVE  CallTypeOK' /\ FaultTypeOK'
<1>1. PICK next \in Awaits \cup Results :
         Goto(w, next) /\ (faults' = faults \/ Fault)
  BY StepMoves
<1>2. CallTypeOK'
  BY <1>1, StepMoves, GotoType
<1>3. FaultTypeOK'
  BY <1>1, FaultType DEF FaultTypeOK
<1> QED BY <1>2, <1>3

\* Every await of processDelivery keeps tables, Redis and Kafka well typed.
LEMMA StepStore ==
  ASSUME StoreTypeOK, CallTypeOK, NEW w \in Workers, ProcessorStep(w)
  PROVE  StoreTypeOK'
<1> USE DEF StoreTypeOK
<1>0. ASSUME pc[w] # "idle"
      PROVE  msg[w] \in Messages /\ att[w] \in Nat /\ att[w] >= 1
  BY <1>0 DEF CallTypeOK, CallsAreFilled, InCall
<1>1. CASE Exists(w) BY <1>1 DEF Exists
<1>2. CASE SetNX(w)
  BY <1>0, <1>2, MessagesAssumption DEF SetNX, Write, CallKey
<1>3. CASE GetStatus(w) BY <1>3 DEF GetStatus
<1>4. CASE Send(w) BY <1>0, <1>4 DEF Send
<1>5. CASE MarkSent(w)
  BY <1>0, <1>5, SetStatusType DEF MarkSent, Write
<1>6. CASE SaveSuccess(w)
  BY <1>0, <1>6 DEF SaveSuccess, Write, SaveAttempt, Attempt
<1>7. CASE Warm(w)
  BY <1>0, <1>7, MessagesAssumption DEF Warm, Write, CallKey
<1>8. CASE LogSent(w) BY <1>8 DEF LogSent
<1>9. CASE SaveFailed(w)
  BY <1>0, <1>9 DEF SaveFailed, Write, SaveAttempt, Attempt
<1>10. CASE MarkFailed(w)
  BY <1>0, <1>10, SetStatusType DEF MarkFailed, Write
<1>11. CASE SaveDLQEntry(w) BY <1>0, <1>11 DEF SaveDLQEntry, Write
<1>12. CASE PublishDLQ(w) BY <1>0, <1>12 DEF PublishDLQ, Write
<1>13. CASE MarkPending(w)
  BY <1>0, <1>13, SetStatusType DEF MarkPending, Write
<1>14. CASE ScheduleRetry(w)
  BY <1>0, <1>14 DEF ScheduleRetry, Write, Retry
<1>15. CASE LogRetry(w) BY <1>15 DEF LogRetry
<1> QED BY <1>1, <1>2, <1>3, <1>4, <1>5, <1>6, <1>7, <1>8, <1>9, <1>10,
           <1>11, <1>12, <1>13, <1>14, <1>15 DEF ProcessorStep

\* updateStatus changes rows, and neither adds nor removes one.
LEMMA SetStatusRows ==
  ASSUME rows \in [Messages -> Row], NEW m \in Messages,
         NEW status \in {"PENDING", "SENT", "FAILED"}, NEW final \in BOOLEAN,
         SetStatus(m, status, final)
  PROVE  \A n \in Messages : HasRow(n)' <=> HasRow(n)
<1>1. [status |-> status, finalDelivered |-> final] # Absent
  BY DEF Absent
<1> QED BY <1>1 DEF SetStatus, HasRow

\* What other workers and the tables' keys see of an await of processDelivery.
LEMMA StepKeeps ==
  ASSUME StoreTypeOK, CallTypeOK, FaultTypeOK, NEW w \in Workers,
         ProcessorStep(w)
  PROVE  /\ pc[w] # "idle" /\ pc'[w] # "idle"
         /\ \A v \in Workers \ {w} : pc'[v] = pc[v]
         /\ UNCHANGED <<msg, att>>
         /\ faults' \in Nat /\ faults' >= faults
         /\ \A m \in Messages : HasRow(m)' <=> HasRow(m)
<1>0. pc[w] # "idle" => msg[w] \in Messages
  BY DEF CallTypeOK, CallsAreFilled, InCall
<1>1. PICK next \in Awaits \cup Results :
         Goto(w, next) /\ (faults' = faults \/ Fault)
  BY StepMoves
<1>2. \A m \in Messages : HasRow(m)' <=> HasRow(m)
  <2>1. CASE rows' = rows BY <2>1 DEF HasRow
  <2>2. CASE MarkSent(w)
    BY <1>0, <2>1, <2>2, SetStatusRows DEF MarkSent, Write, StoreTypeOK
  <2>3. CASE MarkFailed(w)
    BY <1>0, <2>1, <2>3, SetStatusRows DEF MarkFailed, Write, StoreTypeOK
  <2>4. CASE MarkPending(w)
    BY <1>0, <2>1, <2>4, SetStatusRows DEF MarkPending, Write, StoreTypeOK
  <2> QED
    BY <2>1, <2>2, <2>3, <2>4
    DEF ProcessorStep, Exists, SetNX, GetStatus, Send, SaveSuccess, Warm,
        LogSent, SaveFailed, SaveDLQEntry, PublishDLQ, ScheduleRetry, LogRetry
<1>3. faults' \in Nat /\ faults' >= faults
  BY <1>1, MaxFaultsAssumption DEF FaultTypeOK, Fault
<1> QED
  BY <1>1, <1>2, <1>3, StepMoves DEF Goto, CallTypeOK, Awaits, Results

\* The end of a call leaves well-typed calls.
LEMMA EndCallType ==
  ASSUME CallTypeOK, NEW w \in Workers, EndCall(w)
  PROVE  CallTypeOK'
BY DEF CallTypeOK, EndCall, CallsAreFilled, InCall

-----------------------------------------------------------------------------
(* The polls. *)

ReadType == [there : SUBSET Retry, gone : SUBSET Retry]

\* Members that leave the ZSET leave well-typed reads.
LEMMA LeaveType ==
  ASSUME PollTypeOK, NEW S
  PROVE  Leave(S) \in [Pollers -> ReadType]
BY DEF PollTypeOK, Leave, ReadType

\* At first nothing is read and nothing taken.
LEMMA PollInitType == PollInit => PollTypeOK
BY DEF PollInit, PollTypeOK, NothingRead

\* scheduleRetry keeps the polls well typed.
LEMMA RescoredType ==
  ASSUME PollTypeOK, NEW w, NEW n, Rescored(w, n), UNCHANGED polled
  PROVE  PollTypeOK'
BY LeaveType DEF Rescored, PollTypeOK, ReadType

\* So does the first await of a poll.
LEMMA ReadTypeKept ==
  ASSUME PollTypeOK, retries \subseteq Retry, NEW p \in Pollers, NEW due,
         Read(p, due)
  PROVE  PollTypeOK'
BY DEF Read, PollTypeOK

\* The second keeps types, and touches nothing but Redis and the polls.
LEMMA RemoveTypeKept ==
  ASSUME StoreTypeOK, FaultTypeOK, PollTypeOK, NEW p \in Pollers, Remove(p)
  PROVE  StoreTypeOK' /\ FaultTypeOK' /\ PollTypeOK'
<1>1. reads[p] \in ReadType /\ NothingRead \in ReadType
  BY DEF PollTypeOK, ReadType, NothingRead
<1>2. Leave(reads[p].there) \in [Pollers -> ReadType]
  BY LeaveType
<1>3. reads' \in [Pollers -> ReadType]
  BY <1>1, <1>2 DEF Remove, PollTypeOK, ReadType
<1>4. polled' \in [Pollers -> SUBSET Retry]
  BY <1>1 DEF Remove, PollTypeOK, ReadType
<1>5. StoreTypeOK' BY DEF Remove, StoreTypeOK
<1>6. FaultTypeOK' BY FaultType DEF Remove, FaultTypeOK
<1> QED BY <1>3, <1>4, <1>5, <1>6 DEF PollTypeOK, ReadType

\* publishRetryMessage, successful or not, leaves a poll with less.
LEMMA RepublishTypeKept ==
  ASSUME PollTypeOK, NEW p \in Pollers, NEW r, UNCHANGED reads,
         \/ polled' = [polled EXCEPT ![p] = @ \ {r}]
         \/ polled' = [polled EXCEPT ![p] = {}]
  PROVE  PollTypeOK'
BY DEF PollTypeOK

\* The polls of a dead process leave well-typed polls.
LEMMA PollsDieType ==
  ASSUME PollTypeOK, NEW w, PollsDie(w)
  PROVE  PollTypeOK'
BY DEF PollTypeOK, PollsDie, NothingRead

-----------------------------------------------------------------------------
(* The tables the repositories expect. *)

\* The statements of DeliveryRepository are accepted by MySQL.
TablesFit == UpdateStatusFits /\ GetStatusFits /\ SaveAttemptFits /\ SaveDLQFits

\* The tables that the repositories are written for let them through.
LEMMA RepositoryTablesFit ==
  ASSUME Schema = RepositorySchema
  PROVE  TablesFit
<1>1. /\ Schema["messages"] = RepositorySchema.messages
      /\ Schema["delivery_attempts"] = RepositorySchema.delivery_attempts
      /\ Schema["dlq_entries"] = RepositorySchema.dlq_entries
  BY DEF RepositorySchema
<1>2. UpdateStatusFits /\ GetStatusFits
  BY <1>1 DEF UpdateStatusFits, GetStatusFits, Names, RepositorySchema,
     InitSqlSchema, UpdateStatusColumns, GetStatusColumns
<1>3. SaveAttemptFits
  BY <1>1 DEF SaveAttemptFits, Inserts, Names, RepositorySchema,
     InitSqlSchema, SaveAttemptColumns
<1>4. SaveDLQFits
  BY <1>1 DEF SaveDLQFits, Inserts, Names, RepositorySchema, SaveDLQColumns
<1> QED
  BY <1>2, <1>3, <1>4 DEF TablesFit

=============================================================================
