--------------------------- MODULE RetryCycleProofs ---------------------------
(***************************************************************************)
(* RetryCycle!IInv is inductive, and with it the type invariant and three  *)
(* safety invariants hold for every number of workers, polls, messages,    *)
(* faults and crashes, every MAX_ATTEMPTS and every schema.  So is         *)
(* LineInv: until the first rebalance, crash or retry published by two     *)
(* polls a message has one line of processing.                             *)
(* Where the tables fit the statements, OnLedger makes every step up to    *)
(* the first failure one of DeliveryLedger, CachedInv keeps SENT through   *)
(* crashes, and ChancesAreOwed counts what may be accepted against what    *)
(* has failed.                                                             *)
(***************************************************************************)
EXTENDS RetryCycle, ProcessorProofs, FiniteSetTheorems

USE DEF processorVars, storeVars, callVars, pollVars, inboxVars, Queue!Publish

LoopTypeOK == /\ inbox \subseteq Record
              /\ copies \in Nat
              /\ taken \in [Workers -> Record \cup {NoRecord}]
              /\ overlaps \in Nat
              /\ PollTypeOK
              /\ PollsAreOrderly
              /\ crashes \in 0 .. MaxCrashes

\* Types are carried from step to step in four parts.
LEMMA TypeParts ==
  TypeOK <=> StoreTypeOK /\ CallTypeOK /\ LoopTypeOK /\ FaultTypeOK
BY ProcessorParts DEF TypeOK, LoopTypeOK

-----------------------------------------------------------------------------
(* The polls remain orderly. *)

\* What leaves the ZSET leaves every poll with a finite set of lost members.
LEMMA LeaveOrderly ==
  ASSUME PollTypeOK, PollsAreOrderly, NEW S, NEW p \in Pollers
  PROVE  /\ Leave(S)[p].there \subseteq retries \ S
         /\ IsFiniteSet(Leave(S)[p].gone)
         /\ Leave(S)[p].gone \subseteq reads[p].gone \cup reads[p].there
         /\ reads[p] = NothingRead => Leave(S)[p] = NothingRead
<1>1. /\ Leave(S)[p].there = reads[p].there \ S
      /\ Leave(S)[p].gone = reads[p].gone \cup (reads[p].there \cap S)
      /\ Leave(S)[p] = [there |-> reads[p].there \ S,
                        gone |-> reads[p].gone \cup (reads[p].there \cap S)]
  BY DEF Leave
<1>2. IsFiniteSet(retries) /\ reads[p].there \subseteq retries
  BY DEF PollsAreOrderly
<1>3. IsFiniteSet(reads[p].there \cap S)
  BY <1>2, FS_Subset
<1>4. IsFiniteSet(reads[p].gone \cup (reads[p].there \cap S))
  BY <1>3, FS_Union DEF PollsAreOrderly
<1> QED BY <1>1, <1>2, <1>4 DEF NothingRead

\* scheduleRetry, which adds a member or moves it.
LEMMA RescoredOrderly ==
  ASSUME PollTypeOK, PollsAreOrderly, NEW w, NEW n, NEW r,
         retries' = retries \/ retries' = retries \cup {r},
         Rescored(w, n), UNCHANGED polled
  PROVE  PollsAreOrderly'
<1>1. IsFiniteSet(retries')
  BY FS_AddElement DEF PollsAreOrderly
<1>2. CASE reads' = reads BY <1>1, <1>2 DEF PollsAreOrderly
<1>3. CASE \E S : reads' = Leave(S)
  BY <1>1, <1>3, LeaveOrderly DEF PollsAreOrderly
<1> QED BY <1>2, <1>3 DEF Rescored

\* The first await of a poll.
LEMMA ReadOrderly ==
  ASSUME PollTypeOK, PollsAreOrderly, NEW p \in Pollers, NEW due, Read(p, due)
  PROVE  PollsAreOrderly'
BY FS_EmptySet DEF Read, Polling, PollsAreOrderly, PollTypeOK

\* The second.
LEMMA RemoveOrderly ==
  ASSUME PollTypeOK, PollsAreOrderly, NEW p \in Pollers, Remove(p)
  PROVE  PollsAreOrderly'
<1> DEFINE due == reads[p].there
<1>1. IsFiniteSet(retries) /\ IsFiniteSet(retries')
  BY FS_Subset DEF Remove, PollsAreOrderly
<1>2. /\ NothingRead.there = {} /\ IsFiniteSet(NothingRead.gone)
      /\ reads'[p] = NothingRead
  BY FS_EmptySet DEF NothingRead, Remove, Leave, PollTypeOK
<1>3. \A q \in Pollers \ {p} : polled'[q] = polled[q]
  BY DEF Remove, PollTypeOK
<1>4. CASE /\ retries' = retries \ due
           /\ reads' = [Leave(due) EXCEPT ![p] = NothingRead]
  <2>1. \A q \in Pollers \ {p} : reads'[q] = Leave(due)[q]
    BY <1>4 DEF Leave
  <2> QED
    BY <1>1, <1>2, <1>3, <1>4, <2>1, LeaveOrderly DEF PollsAreOrderly
<1>5. CASE /\ retries' = retries
           /\ reads' = [reads EXCEPT ![p] = NothingRead]
  BY <1>1, <1>2, <1>3, <1>5 DEF PollsAreOrderly, PollTypeOK
<1> QED BY <1>4, <1>5 DEF Remove

\* publishRetryMessage, successful or not, leaves a poll with less.
LEMMA RepublishOrderly ==
  ASSUME PollTypeOK, PollsAreOrderly, NEW p \in Pollers, NEW r,
         UNCHANGED <<retries, reads>>,
         \/ polled' = [polled EXCEPT ![p] = @ \ {r}]
         \/ polled' = [polled EXCEPT ![p] = {}]
  PROVE  PollsAreOrderly'
BY DEF PollsAreOrderly, PollTypeOK

\* The polls of a dead process are gone.
LEMMA PollsDieOrderly ==
  ASSUME PollTypeOK, PollsAreOrderly, NEW w, PollsDie(w), UNCHANGED retries
  PROVE  PollsAreOrderly'
BY FS_EmptySet DEF PollsAreOrderly, PollTypeOK, PollsDie, NothingRead

\* What a poll has in hand after it removed its members, it had read.
LEMMA RemovedWereRead ==
  ASSUME PollTypeOK, PollsAreOrderly, NEW p \in Pollers, Remove(p)
  PROVE  /\ retries' \subseteq retries
         /\ \A q \in Pollers :
              /\ reads'[q].gone \subseteq reads[q].gone \cup retries
              /\ polled'[q] \subseteq polled[q] \cup reads[q].gone \cup retries
<1>1. \A q \in Pollers : reads[q].there \subseteq retries
  BY DEF PollsAreOrderly
<1>2. ASSUME NEW q \in Pollers
      PROVE  reads'[q].gone \subseteq reads[q].gone \cup retries
  <2>1. Leave(reads[p].there)[q].gone \subseteq reads[q].gone \cup retries
    BY <1>1, <1>2, LeaveOrderly
  <2>2. reads'[q] \in {reads[q], NothingRead, Leave(reads[p].there)[q]}
    BY <1>2 DEF Remove, PollTypeOK, Leave
  <2> QED BY <2>1, <2>2 DEF NothingRead
<1>3. ASSUME NEW q \in Pollers
      PROVE  polled'[q] \subseteq polled[q] \cup reads[q].gone \cup retries
  BY <1>1, <1>3 DEF Remove, PollTypeOK
<1> QED BY <1>2, <1>3 DEF Remove

-----------------------------------------------------------------------------
\* Success is recorded only behind an accepted send.
LEMMA StepSent ==
  ASSUME IInv, NEW w \in Workers, ProcessorStep(w)
  PROVE  SentIsAccepted'
<1> USE DEF SentIsAccepted
<1>0. /\ StoreTypeOK /\ CallTypeOK /\ SentIsAccepted
      /\ AcceptedBeforeRecorded(w)
      /\ pc[w] # "idle" => msg[w] \in Messages
  BY TypeParts DEF IInv, CallInv, CallTypeOK, CallsAreFilled, InCall
<1>1. CASE UNCHANGED <<rows, audit, accepted>> BY <1>0, <1>1
<1>2. CASE Send(w) BY <1>0, <1>2 DEF Send, StoreTypeOK, Attempt
<1>3. CASE MarkSent(w)
  BY <1>0, <1>3 DEF MarkSent, Write, SetStatus, AcceptedBeforeRecorded, Step,
                    StoreTypeOK
<1>4. CASE SaveSuccess(w)
  BY <1>0, <1>4 DEF SaveSuccess, Write, SaveAttempt, AcceptedBeforeRecorded,
                    Step
<1>5. CASE SaveFailed(w) BY <1>0, <1>5 DEF SaveFailed, Write, SaveAttempt
<1>6. CASE MarkFailed(w)
  BY <1>0, <1>6 DEF MarkFailed, Write, SetStatus, StoreTypeOK
<1>7. CASE MarkPending(w)
  BY <1>0, <1>7 DEF MarkPending, Write, SetStatus, StoreTypeOK
<1> QED BY <1>1, <1>2, <1>3, <1>4, <1>5, <1>6, <1>7
        DEF ProcessorStep, Exists, SetNX, GetStatus, Warm, LogSent,
            SaveDLQEntry, PublishDLQ, ScheduleRetry, LogRetry

\* Dead letters are written only behind a failed last attempt.
LEMMA StepDLQ ==
  ASSUME IInv, NEW w \in Workers, ProcessorStep(w)
  PROVE  DLQEarned'
<1> USE DEF DLQEarned
<1>0. /\ DLQEarned /\ FailedBeforeDecided(w)
  BY DEF IInv, CallInv
<1>1. CASE UNCHANGED <<audit, dlqEntries, dlqTopic>> BY <1>0, <1>1
<1>2. CASE SaveSuccess(w) BY <1>0, <1>2 DEF SaveSuccess, Write, SaveAttempt
<1>3. CASE SaveFailed(w) BY <1>0, <1>3 DEF SaveFailed, Write, SaveAttempt
<1>4. CASE SaveDLQEntry(w)
  BY <1>0, <1>4 DEF SaveDLQEntry, Write, FailedBeforeDecided, Step, Audited
<1>5. CASE PublishDLQ(w)
  BY <1>0, <1>5 DEF PublishDLQ, Write, FailedBeforeDecided, Step
<1> QED BY <1>1, <1>2, <1>3, <1>4, <1>5
        DEF ProcessorStep, Exists, SetNX, GetStatus, Send, MarkSent, Warm,
            LogSent, MarkFailed, MarkPending, ScheduleRetry, LogRetry

\* What scheduleRetry takes from under a poll was in the ZSET.
LEMMA RescoredReads ==
  ASSUME PollTypeOK, PollsAreOrderly, NEW w, NEW n, Rescored(w, n),
         NEW p \in Pollers
  PROVE  reads'[p].gone \subseteq reads[p].gone \cup retries
<1>1. reads[p].there \subseteq retries
  BY DEF PollsAreOrderly
<1> QED BY <1>1, LeaveOrderly DEF Rescored

\* An await adds the retry it schedules to the ZSET, or nothing.
LEMMA StepRetries ==
  ASSUME NEW w \in Workers, ProcessorStep(w)
  PROVE  \/ retries' = retries
         \/ retries' = retries \cup {[message |-> msg[w],
                                      attempt |-> att[w] + 1]}
BY DEF ProcessorStep, Exists, SetNX, GetStatus, Send, MarkSent, SaveSuccess,
       Warm, LogSent, SaveFailed, MarkFailed, SaveDLQEntry, PublishDLQ,
       MarkPending, ScheduleRetry, LogRetry, Write

\* Retries are scheduled only behind a failed attempt that was not the last.
LEMMA StepRetry ==
  ASSUME IInv, NEW w \in Workers, Process(w)
  PROVE  RetryEarned'
<1> USE DEF RetryEarned, Earned, Audited
<1>0. /\ RetryEarned /\ FailedBeforeDecided(w)
      /\ pc[w] # "idle" => att[w] \in Nat
      /\ ProcessorStep(w) /\ UNCHANGED <<polled, inboxVars>>
      /\ \A p \in Pollers : reads'[p].gone \subseteq reads[p].gone \cup retries
  BY TypeParts, RescoredReads DEF IInv, CallInv, CallTypeOK, Process, LoopTypeOK
<1>1. CASE UNCHANGED <<audit, retries>> BY <1>0, <1>1
<1>2. CASE SaveSuccess(w) BY <1>0, <1>2 DEF SaveSuccess, Write, SaveAttempt
<1>3. CASE SaveFailed(w) BY <1>0, <1>3 DEF SaveFailed, Write, SaveAttempt
<1>4. CASE ScheduleRetry(w)
  BY <1>0, <1>4, MaxAttemptsAssumption
  DEF ScheduleRetry, Write, FailedBeforeDecided, Step
<1> QED BY <1>0, <1>1, <1>2, <1>3, <1>4
        DEF ProcessorStep, Exists, SetNX, GetStatus, Send, MarkSent, Warm,
            LogSent, MarkFailed, SaveDLQEntry, PublishDLQ, MarkPending,
            LogRetry

\* A step of one worker only adds to audit, DLQ and accepted sends, and
\* leaves the calls of the others alone.
LEMMA StepGrows ==
  ASSUME StoreTypeOK, CallTypeOK, NEW w \in Workers, ProcessorStep(w)
  PROVE  /\ audit \subseteq audit' /\ dlqEntries \subseteq dlqEntries'
         /\ \A m \in Messages : accepted[m] > 0 => accepted'[m] > 0
         /\ msg' = msg /\ att' = att
         /\ \A v \in Workers : v # w => pc'[v] = pc[v]
<1>1. audit \subseteq audit' /\ dlqEntries \subseteq dlqEntries'
  BY DEF ProcessorStep, Exists, SetNX, GetStatus, Send, MarkSent, SaveSuccess,
         Warm, LogSent, SaveFailed, MarkFailed, SaveDLQEntry, PublishDLQ,
         MarkPending, ScheduleRetry, LogRetry, Write, SaveAttempt
<1>2. \A m \in Messages : accepted[m] > 0 => accepted'[m] > 0
  <2>1. CASE UNCHANGED accepted BY <2>1
  <2>2. CASE Send(w)
    BY <2>2 DEF Send, StoreTypeOK, CallTypeOK, CallsAreFilled, InCall
  <2> QED BY <2>1, <2>2
          DEF ProcessorStep, Exists, SetNX, GetStatus, MarkSent, SaveSuccess,
              Warm, LogSent, SaveFailed, MarkFailed, SaveDLQEntry,
              PublishDLQ, MarkPending, ScheduleRetry, LogRetry
<1>3. \E next : Goto(w, next)
  BY DEF ProcessorStep, Exists, SetNX, GetStatus, Send, MarkSent, SaveSuccess,
         Warm, LogSent, SaveFailed, MarkFailed, SaveDLQEntry, PublishDLQ,
         MarkPending, ScheduleRetry, LogRetry, Write, Answers
<1> QED BY <1>1, <1>2, <1>3 DEF Goto, CallTypeOK

\* What calls have established survives every await.
LEMMA StepCallInv ==
  ASSUME IInv, NEW w \in Workers, ProcessorStep(w)
  PROVE  CallInv'
<1>0. StoreTypeOK /\ CallTypeOK /\ CallInv
  BY TypeParts DEF IInv
<1>1. ASSUME NEW v \in Workers, v # w
      PROVE  (AcceptedBeforeRecorded(v) /\ FailedBeforeDecided(v))'
  BY <1>0, <1>1, StepGrows
  DEF CallInv, AcceptedBeforeRecorded, FailedBeforeDecided, Step, Audited,
      CallTypeOK, CallsAreFilled, InCall
<1>2. (AcceptedBeforeRecorded(w) /\ FailedBeforeDecided(w))'
  <2> USE <1>0 DEF CallInv, AcceptedBeforeRecorded, FailedBeforeDecided, Step,
          Audited, Answers, Goto, CallTypeOK, CallsAreFilled, InCall
  <2>1. CASE Exists(w) BY <2>1 DEF Exists
  <2>2. CASE SetNX(w) BY <2>2 DEF SetNX, Write
  <2>3. CASE GetStatus(w) BY <2>3 DEF GetStatus
  <2>4. CASE Send(w) BY <2>4 DEF Send, StoreTypeOK
  <2>5. CASE MarkSent(w) BY <2>5 DEF MarkSent, Write
  <2>6. CASE SaveSuccess(w) BY <2>6 DEF SaveSuccess, Write
  <2>7. CASE Warm(w) BY <2>7 DEF Warm, Write
  <2>8. CASE LogSent(w) BY <2>8 DEF LogSent
  <2>9. CASE SaveFailed(w)
    BY <2>9, MaxAttemptsAssumption DEF SaveFailed, Write, SaveAttempt
  <2>10. CASE MarkFailed(w) BY <2>10 DEF MarkFailed, Write
  <2>11. CASE SaveDLQEntry(w) BY <2>11 DEF SaveDLQEntry, Write
  <2>12. CASE PublishDLQ(w) BY <2>12 DEF PublishDLQ, Write
  <2>13. CASE MarkPending(w) BY <2>13 DEF MarkPending, Write
  <2>14. CASE ScheduleRetry(w) BY <2>14 DEF ScheduleRetry, Write
  <2>15. CASE LogRetry(w) BY <2>15 DEF LogRetry
  <2> QED BY <2>1, <2>2, <2>3, <2>4, <2>5, <2>6, <2>7, <2>8, <2>9, <2>10,
             <2>11, <2>12, <2>13, <2>14, <2>15 DEF ProcessorStep
<1> QED BY <1>1, <1>2 DEF CallInv

\* processDelivery preserves the inductive invariant.
LEMMA ProcessInv ==
  ASSUME IInv, NEW w \in Workers, Process(w)
  PROVE  IInv'
<1>1. /\ ProcessorStep(w) /\ Rescored(w, att[w] + 1)
      /\ UNCHANGED <<polled, inboxVars>>
  BY DEF Process
<1>2. TypeOK'
  <2>1. StoreTypeOK /\ CallTypeOK /\ LoopTypeOK /\ FaultTypeOK
    BY TypeParts DEF IInv
  <2>2. StoreTypeOK' BY <1>1, <2>1, StepStore
  <2>3. CallTypeOK' /\ FaultTypeOK' BY <1>1, <2>1, StepCall
  <2>4. PollTypeOK' /\ PollsAreOrderly'
    BY <1>1, <2>1, StepRetries, RescoredType, RescoredOrderly DEF LoopTypeOK
  <2>5. LoopTypeOK' BY <1>1, <2>1, <2>4 DEF LoopTypeOK
  <2> QED BY <2>2, <2>3, <2>5, TypeParts, PTL
<1> QED BY <1>1, <1>2, StepSent, StepDLQ, StepRetry, StepCallInv DEF IInv

-----------------------------------------------------------------------------
(* The steps around the call leave rows, audit, DLQ and provider alone. *)

\* The end of a call forgets what it established.
LEMMA EndCallInv ==
  ASSUME CallTypeOK, CallInv, NEW w \in Workers, EndCall(w),
         UNCHANGED <<audit, dlqEntries, accepted>>
  PROVE  CallInv'
BY DEF CallTypeOK, EndCall, CallInv, AcceptedBeforeRecorded,
       FailedBeforeDecided, Step, Audited

\* Handing out a record keeps types.
LEMMA TakeType ==
  ASSUME TypeOK, NEW w \in Workers, NEW r \in inbox, Take(w, r)
  PROVE  TypeOK'
<1>0. /\ StoreTypeOK /\ CallTypeOK /\ LoopTypeOK /\ FaultTypeOK
      /\ r \in Record /\ r.message \in Messages /\ r.attempt \in Nat
  BY TypeParts DEF LoopTypeOK, Record
<1>1. StoreTypeOK' /\ FaultTypeOK'
  BY <1>0 DEF Take, StoreTypeOK, FaultTypeOK
<1>2. CallTypeOK'
  BY <1>0 DEF Take, StartDelivery, CallTypeOK, CallsAreFilled, InCall, Awaits
<1>3. LoopTypeOK'
  BY <1>0 DEF Take, LoopTypeOK, PollTypeOK, PollsAreOrderly
<1> QED BY <1>1, <1>2, <1>3, TypeParts, PTL

\* Handing out a record preserves the inductive invariant.
LEMMA TakeInv ==
  ASSUME IInv, NEW w \in Workers, NEW r \in inbox, Take(w, r)
  PROVE  IInv'
<1>0. /\ StoreTypeOK /\ CallTypeOK /\ LoopTypeOK /\ FaultTypeOK
      /\ r \in Record /\ r.message \in Messages /\ r.attempt \in Nat
  BY TypeParts DEF IInv, LoopTypeOK, Record
<1>1. TypeOK' BY TakeType DEF IInv
<1>2. (SentIsAccepted /\ DLQEarned /\ RetryEarned)'
  BY DEF IInv, Take, SentIsAccepted, DLQEarned, RetryEarned, Earned, Audited
<1>3. CallInv'
  BY <1>0 DEF IInv, Take, StartDelivery, CallTypeOK, CallInv,
     AcceptedBeforeRecorded, FailedBeforeDecided, Step, Audited
<1> QED BY <1>1, <1>2, <1>3 DEF IInv

\* Passing a record keeps types.
LEMMA FinishType ==
  ASSUME TypeOK, NEW w \in Workers, Finish(w)
  PROVE  TypeOK'
<1>0. StoreTypeOK /\ CallTypeOK /\ LoopTypeOK /\ FaultTypeOK
  BY TypeParts
<1>1. StoreTypeOK' /\ FaultTypeOK' /\ LoopTypeOK'
  BY <1>0 DEF Finish, StoreTypeOK, FaultTypeOK, LoopTypeOK,
              PollTypeOK, PollsAreOrderly
<1>2. CallTypeOK' BY <1>0, EndCallType DEF Finish
<1> QED BY <1>1, <1>2, TypeParts, PTL

\* Passing a record preserves the inductive invariant.
LEMMA FinishInv ==
  ASSUME IInv, NEW w \in Workers, Finish(w)
  PROVE  IInv'
<1>0. StoreTypeOK /\ CallTypeOK /\ LoopTypeOK /\ FaultTypeOK
  BY TypeParts DEF IInv
<1>1. TypeOK' BY FinishType DEF IInv
<1>2. (SentIsAccepted /\ DLQEarned /\ RetryEarned)'
  BY DEF IInv, Finish, SentIsAccepted, DLQEarned, RetryEarned, Earned, Audited
<1>3. CallInv' BY <1>0, EndCallInv DEF IInv, Finish
<1> QED BY <1>1, <1>2, <1>3 DEF IInv

\* Reading the due retries keeps types.
LEMMA ReadKeepsTypes ==
  ASSUME TypeOK, NEW p \in Pollers, NEW due, ReadRetries(p, due)
  PROVE  TypeOK'
<1>0. StoreTypeOK /\ CallTypeOK /\ LoopTypeOK /\ FaultTypeOK
  BY TypeParts
<1>1. UNCHANGED <<processorVars, polled, inboxVars>>
  BY DEF ReadRetries, Read
<1>2. PollTypeOK' /\ PollsAreOrderly'
  BY <1>0, ReadTypeKept, ReadOrderly DEF ReadRetries, LoopTypeOK, StoreTypeOK
<1> QED
  BY <1>0, <1>1, <1>2
  DEF TypeOK, ProcessorTypeOK, CallsAreFilled, InCall

\* It changes nothing but what the poll has read.
LEMMA ReadInv ==
  ASSUME IInv, NEW p \in Pollers, NEW due \in SUBSET retries,
         ReadRetries(p, due)
  PROVE  IInv'
<1>0. StoreTypeOK /\ CallTypeOK /\ LoopTypeOK /\ FaultTypeOK
  BY TypeParts DEF IInv
<1>1. /\ UNCHANGED <<processorVars, polled, inboxVars>>
      /\ reads' = [reads EXCEPT ![p] = [there |-> due, gone |-> {}]]
  BY DEF ReadRetries, Read
<1>3. TypeOK'
  BY ReadKeepsTypes DEF IInv
<1>4. (SentIsAccepted /\ DLQEarned /\ CallInv)'
  BY <1>1 DEF IInv, SentIsAccepted, DLQEarned, CallInv, AcceptedBeforeRecorded,
              FailedBeforeDecided, Step, Audited
<1>5. RetryEarned'
  BY <1>0, <1>1 DEF IInv, RetryEarned, Earned, Audited, LoopTypeOK, PollTypeOK
<1> QED BY <1>3, <1>4, <1>5 DEF IInv

\* Removing what was read keeps types.
LEMMA RemoveType ==
  ASSUME TypeOK, NEW p \in Pollers, RemoveRetries(p)
  PROVE  TypeOK'
<1>0. StoreTypeOK /\ CallTypeOK /\ LoopTypeOK /\ FaultTypeOK
  BY TypeParts
<1>1. StoreTypeOK' /\ FaultTypeOK' /\ PollTypeOK'
  BY <1>0, RemoveTypeKept DEF RemoveRetries, LoopTypeOK
<1>2. PollsAreOrderly'
  BY <1>0, RemoveOrderly DEF RemoveRetries, LoopTypeOK
<1>3. CallTypeOK'
  BY <1>0 DEF RemoveRetries, Remove, CallTypeOK, CallsAreFilled, InCall
<1>4. overlaps' \in Nat /\ overlaps' >= overlaps
  <2>1. IsFiniteSet(reads[p].gone) BY <1>0 DEF LoopTypeOK, PollsAreOrderly
  <2>2. Cardinality(polled'[p] \cap reads[p].gone) \in Nat
    BY <2>1, FS_Subset, FS_CardinalityType
  <2> QED BY <1>0, <2>2 DEF RemoveRetries, LoopTypeOK
<1>5. LoopTypeOK'
  BY <1>0, <1>1, <1>2, <1>4 DEF RemoveRetries, LoopTypeOK
<1> QED BY <1>1, <1>3, <1>5, TypeParts, PTL

\* Removing what was read preserves the inductive invariant.
LEMMA RemoveInv ==
  ASSUME IInv, NEW p \in Pollers, RemoveRetries(p)
  PROVE  IInv'
<1>0. PollTypeOK /\ PollsAreOrderly
  BY TypeParts DEF IInv, LoopTypeOK
<1>1. TypeOK' BY RemoveType DEF IInv
<1>2. (SentIsAccepted /\ DLQEarned)'
  BY DEF IInv, RemoveRetries, Remove, SentIsAccepted, DLQEarned
<1>3. RetryEarned'
  <2>1. UNCHANGED <<audit, inbox>> BY DEF RemoveRetries, Remove
  <2>2. /\ retries' \subseteq retries
        /\ \A q \in Pollers :
             /\ reads'[q].gone \subseteq reads[q].gone \cup retries
             /\ polled'[q] \subseteq polled[q] \cup reads[q].gone \cup retries
    BY <1>0, RemovedWereRead DEF RemoveRetries
  <2> QED BY <2>1, <2>2 DEF IInv, RetryEarned, Earned, Audited
<1>4. CallInv'
  BY DEF IInv, RemoveRetries, Remove, CallInv, AcceptedBeforeRecorded,
         FailedBeforeDecided, Step, Audited
<1> QED BY <1>1, <1>2, <1>3, <1>4 DEF IInv

\* publishRetryMessage keeps types.
LEMMA RepublishType ==
  ASSUME TypeOK, NEW p \in Pollers, NEW r \in polled[p], RepublishRetry(p, r)
  PROVE  TypeOK'
<1> DEFINE record == [message |-> r.message, attempt |-> r.attempt,
                      copy |-> copies + 1]
<1>0. /\ StoreTypeOK /\ CallTypeOK /\ LoopTypeOK /\ FaultTypeOK
      /\ r \in Retry /\ record \in Record
  BY TypeParts DEF LoopTypeOK, PollTypeOK, Retry, Record
<1>1. StoreTypeOK' /\ CallTypeOK'
  BY <1>0 DEF RepublishRetry, Republish, StoreTypeOK, CallTypeOK, CallsAreFilled, InCall
<1>4. PollTypeOK' /\ PollsAreOrderly'
  BY <1>0, RepublishTypeKept, RepublishOrderly
  DEF RepublishRetry, Republish, LoopTypeOK
<1>2. LoopTypeOK' BY <1>0, <1>4 DEF RepublishRetry, Republish, LoopTypeOK
<1>3. FaultTypeOK' BY <1>0, FaultType DEF RepublishRetry, Republish, FaultTypeOK
<1> QED BY <1>1, <1>2, <1>3, TypeParts, PTL

\* publishRetryMessage preserves the inductive invariant.
LEMMA RepublishInv ==
  ASSUME IInv, NEW p \in Pollers, NEW r \in polled[p], RepublishRetry(p, r)
  PROVE  IInv'
<1> DEFINE record == [message |-> r.message, attempt |-> r.attempt,
                      copy |-> copies + 1]
<1>0. /\ StoreTypeOK /\ CallTypeOK /\ LoopTypeOK /\ FaultTypeOK
      /\ r \in Retry /\ record \in Record
  BY TypeParts DEF IInv, LoopTypeOK, PollTypeOK, Retry, Record
<1>1. TypeOK' BY RepublishType DEF IInv
<1>2. (SentIsAccepted /\ DLQEarned)'
  BY DEF IInv, RepublishRetry, Republish, SentIsAccepted, DLQEarned
<1>3. RetryEarned'
  BY <1>0 DEF IInv, RepublishRetry, Republish, RetryEarned, Earned, Audited,
              LoopTypeOK, PollTypeOK
<1>4. CallInv'
  BY DEF IInv, RepublishRetry, Republish, CallInv, AcceptedBeforeRecorded,
         FailedBeforeDecided, Step, Audited
<1> QED BY <1>1, <1>2, <1>3, <1>4 DEF IInv

\* A crash keeps types.
LEMMA CrashType ==
  ASSUME TypeOK, NEW w \in Workers, Crash(w)
  PROVE  TypeOK'
<1>0. StoreTypeOK /\ CallTypeOK /\ LoopTypeOK /\ FaultTypeOK
  BY TypeParts
<1>1. StoreTypeOK' /\ FaultTypeOK'
  BY <1>0 DEF Crash, StoreTypeOK, FaultTypeOK
<1>2. PollTypeOK' /\ PollsAreOrderly'
  BY <1>0, PollsDieType, PollsDieOrderly DEF Crash, LoopTypeOK
<1>4. LoopTypeOK' BY <1>0, <1>2, BoundsAssumption DEF Crash, LoopTypeOK
<1>3. CallTypeOK' BY <1>0, EndCallType DEF Crash
<1> QED BY <1>1, <1>3, <1>4, TypeParts, PTL

\* A crash preserves the inductive invariant.
LEMMA CrashInv ==
  ASSUME IInv, NEW w \in Workers, Crash(w)
  PROVE  IInv'
<1>0. StoreTypeOK /\ CallTypeOK /\ LoopTypeOK /\ FaultTypeOK
  BY TypeParts DEF IInv
<1>1. TypeOK' BY CrashType DEF IInv
<1>2. (SentIsAccepted /\ DLQEarned)'
  BY DEF IInv, Crash, SentIsAccepted, DLQEarned
<1>3. RetryEarned'
  BY <1>0 DEF IInv, Crash, PollsDie, NothingRead, RetryEarned, Earned, Audited,
              LoopTypeOK, PollTypeOK
<1>4. CallInv' BY <1>0, EndCallInv DEF IInv, Crash
<1> QED BY <1>1, <1>2, <1>3, <1>4 DEF IInv

-----------------------------------------------------------------------------
\* The inductive invariant holds initially.
LEMMA InitInv == Init => IInv
<1> SUFFICES ASSUME Init PROVE IInv
  OBVIOUS
<1> USE DEF Init, ProcessorInit
<1>1. StoreTypeOK BY DEF StoreTypeOK, Row
<1>2. CallTypeOK BY DEF CallTypeOK, CallsAreFilled, InCall
<1>7. PollsAreOrderly
  BY FS_EmptySet DEF PollsAreOrderly, PollInit, NothingRead
<1>3. LoopTypeOK
  BY <1>7, BoundsAssumption, PollInitType DEF LoopTypeOK, Record
<1>4. FaultTypeOK BY MaxFaultsAssumption DEF FaultTypeOK
<1>5. SentIsAccepted /\ DLQEarned /\ RetryEarned
  BY DEF SentIsAccepted, DLQEarned, RetryEarned, PollInit, NothingRead
<1>6. CallInv
  BY DEF CallInv, AcceptedBeforeRecorded, FailedBeforeDecided, Step
<1> QED BY <1>1, <1>2, <1>3, <1>4, <1>5, <1>6, TypeParts DEF IInv

\* Every step preserves the inductive invariant.
LEMMA NextInv == IInv /\ [Next]_vars => IInv'
<1> SUFFICES ASSUME IInv, [Next]_vars PROVE IInv'
  OBVIOUS
<1>1. ASSUME NEW w \in Workers, Work(w) PROVE IInv'
  BY <1>1, TakeInv, ProcessInv, FinishInv DEF Work
<1>2. ASSUME NEW p \in Pollers, Timer(p) PROVE IInv'
  BY <1>2, ReadInv, RemoveInv, RepublishInv DEF Timer
<1>3. ASSUME NEW w \in Workers, Crash(w) PROVE IInv'
  BY <1>3, CrashInv
<1>4. CASE UNCHANGED vars
  BY <1>4
  DEF vars, IInv, TypeOK, ProcessorTypeOK, PollTypeOK,
      PollsAreOrderly, CallsAreFilled, InCall,
      SentIsAccepted, DLQEarned, RetryEarned, Earned, Audited, CallInv,
      AcceptedBeforeRecorded, FailedBeforeDecided, Step
<1> QED BY <1>1, <1>2, <1>3, <1>4 DEF Next

\* The strengthened invariant holds in every reachable state.
THEOREM Inductive == Spec => []IInv
BY InitInv, NextInv, PTL DEF Spec

\* Types of the tables, the Redis sets and the calls in progress.
THEOREM TypeCorrect == Spec => []TypeOK
BY Inductive, PTL DEF IInv

\* No crash, failed call or overlap of workers makes the row or the audit
\* trail claim a delivery that no provider accepted.
THEOREM SentIsAcceptedHolds == Spec => []SentIsAccepted
BY Inductive, PTL DEF IInv

\* A dead letter is backed by its row and by an exhausted failed attempt.
THEOREM DLQEarnedHolds == Spec => []DLQEarned
BY Inductive, PTL DEF IInv

\* Retries are backed by the failed attempt before them and bounded.
THEOREM RetryEarnedHolds == Spec => []RetryEarned
BY Inductive, PTL DEF IInv

-----------------------------------------------------------------------------
(* The line of processing of a message. *)

\* A retry waits in Redis or in the hands of one timer.
LEMMA WaitingParts ==
  \A q : q \in Waiting <=> q \in retries \/ \E p \in Pollers : q \in polled[p]
BY DEF Waiting

\* What a call holds is a live record until the call is past scheduling.
LEMMA HeldIsLive ==
  ASSUME CallsHoldRecords, NEW w \in Workers, InCall(w), pc[w] \notin Passed
  PROVE  taken[w] \in inbox /\ Live(taken[w]) /\ msg[w] = taken[w].message
BY DEF CallsHoldRecords, Live, InCall

\* What one await of a call changes, seen from the line of its message.
LEMMA StepEffect ==
  ASSUME IInv, NEW w \in Workers, ProcessorStep(w),
         \A m \in Messages : rows[m].status # "absent"
  PROVE  /\ InCall(w) /\ msg[w] \in Messages
         /\ UNCHANGED <<msg, att>> /\ pc'[w] # "idle"
         /\ \A v \in Workers \ {w} : pc'[v] = pc[v]
         /\ pc[w] \in Passed => pc'[w] \in Passed
         /\ \/ retries' = retries
            \/ /\ pc[w] = "schedule"
               /\ retries' = retries \cup {[message |-> msg[w],
                                            attempt |-> att[w] + 1]}
         /\ pc[w] = "schedule" => pc'[w] \in Passed /\ rows' = rows
         /\ \/ rows' = rows
            \/ /\ pc[w] \notin Passed
               /\ \A m \in Messages \ {msg[w]} : rows'[m] = rows[m]
         /\ rows' \in [Messages -> Row]
         /\ pc'[w] = "schedule" => rows'[msg[w]].status = "PENDING"
         /\ \A m \in Messages : rows'[m].status # "absent"
<1>0. /\ pc \in [Workers -> {"idle"} \cup Awaits \cup Results]
      /\ rows \in [Messages -> Row]
      /\ InCall(w) => msg[w] \in Messages
  BY TypeParts DEF IInv, CallTypeOK, StoreTypeOK, CallsAreFilled
<1> DEFINE Moves(next) == pc' = [pc EXCEPT ![w] = next] /\ UNCHANGED <<msg, att>>
           SetTo(status, final) == SetStatus(msg[w], status, final)
<1>1. ASSUME NEW status \in {"SENT", "FAILED", "PENDING"}, NEW final \in BOOLEAN,
             SetTo(status, final), InCall(w)
      PROVE  /\ rows' \in [Messages -> Row]
             /\ \A m \in Messages \ {msg[w]} : rows'[m] = rows[m]
             /\ rows'[msg[w]].status = status
             /\ \A m \in Messages : rows'[m].status # "absent"
  <2>1. rows[msg[w]] # Absent
    BY <1>0, <1>1 DEF Absent
  <2>2. [status |-> status, finalDelivered |-> final] \in Row
    BY DEF Row
  <2>3. rows' = [rows EXCEPT ![msg[w]] = [status |-> status,
                                          finalDelivered |-> final]]
    BY <1>1, <2>1 DEF SetStatus
  <2> QED
    BY <1>0, <1>1, <2>2, <2>3
<1> HIDE DEF SetTo
<1> USE DEF Passed, Results, Answers, Goto, InCall
<1>2. CASE \/ Exists(w) \/ SetNX(w) \/ GetStatus(w) \/ Send(w)
           \/ SaveSuccess(w) \/ Warm(w)
  <2>1. /\ pc[w] \in {"exists", "setNX", "getStatus", "send", "saveSuccess",
                      "warm"}
        /\ UNCHANGED <<rows, retries>>
        /\ \E next \in {"getStatus", "setNX", "send", "succeeded", "saveFailed",
                        "markSent", "warm", "logSent"} : Moves(next)
    BY <1>2 DEF Exists, SetNX, GetStatus, Send, SaveSuccess, Warm, Write
  <2>2. PICK next \in {"getStatus", "setNX", "send", "succeeded", "saveFailed",
                       "markSent", "warm", "logSent"} : Moves(next)
    BY <2>1
  <2>3. /\ pc'[w] = next /\ \A v \in Workers \ {w} : pc'[v] = pc[v]
        /\ UNCHANGED <<msg, att, rows, retries>>
    BY <1>0, <2>1, <2>2
  <2> HIDE DEF Moves
  <2> QED
    BY <1>0, <2>1, <2>3
<1>3. CASE LogSent(w) \/ SaveFailed(w) \/ SaveDLQEntry(w) \/ PublishDLQ(w)
           \/ LogRetry(w)
  <2>1. /\ pc[w] \in {"logSent", "saveFailed", "saveDLQ", "publishDLQ",
                      "logRetry"}
        /\ UNCHANGED <<rows, retries>>
        /\ \E next \in {"succeeded", "saveFailed", "unsuccessful", "markFailed",
                        "markPending", "publishDLQ"} :
             Moves(next) /\ (pc[w] = "logRetry" => next = "unsuccessful")
    BY <1>3 DEF LogSent, SaveFailed, SaveDLQEntry, PublishDLQ, LogRetry, Write
  <2>2. PICK next \in {"succeeded", "saveFailed", "unsuccessful", "markFailed",
                       "markPending", "publishDLQ"} :
          Moves(next) /\ (pc[w] = "logRetry" => next = "unsuccessful")
    BY <2>1
  <2>3. /\ pc'[w] = next /\ \A v \in Workers \ {w} : pc'[v] = pc[v]
        /\ UNCHANGED <<msg, att, rows, retries>>
    BY <1>0, <2>1, <2>2
  <2> HIDE DEF Moves
  <2> QED
    BY <1>0, <2>1, <2>2, <2>3
<1>4. CASE MarkSent(w)
  <2>1. /\ pc[w] = "markSent" /\ UNCHANGED retries
        /\ rows' = rows \/ SetTo("SENT", TRUE)
        /\ \E next \in {"saveSuccess", "saveFailed"} : Moves(next)
    BY <1>4 DEF MarkSent, Write, SetTo
  <2> QED
    BY <1>0, <1>1, <2>1
<1>5. CASE MarkFailed(w)
  <2>1. /\ pc[w] = "markFailed" /\ UNCHANGED retries
        /\ rows' = rows \/ SetTo("FAILED", FALSE)
        /\ \E next \in {"saveDLQ", "unsuccessful"} : Moves(next)
    BY <1>5 DEF MarkFailed, Write, SetTo
  <2> QED
    BY <1>0, <1>1, <2>1
<1>6. CASE MarkPending(w)
  <2>1. /\ pc[w] = "markPending" /\ UNCHANGED retries
        /\ \/ rows' = rows /\ Moves("unsuccessful")
           \/ /\ SetTo("PENDING", FALSE)
              /\ \E next \in {"schedule", "unsuccessful"} : Moves(next)
    BY <1>6 DEF MarkPending, Write, SetTo
  <2> QED
    BY <1>0, <1>1, <2>1
<1>7. CASE ScheduleRetry(w)
  <2>1. /\ pc[w] = "schedule" /\ UNCHANGED rows
        /\ \/ retries' = retries
           \/ retries' = retries \cup {[message |-> msg[w],
                                        attempt |-> att[w] + 1]}
        /\ \E next \in {"logRetry", "unsuccessful"} : Moves(next)
    BY <1>7 DEF ScheduleRetry, Write
  <2> QED
    BY <1>0, <2>1
<1> QED
  BY <1>2, <1>3, <1>4, <1>5, <1>6, <1>7 DEF ProcessorStep

-----------------------------------------------------------------------------
(* The parts of LineInv that hold of an undisturbed state, by what they are *)
(* about: the records in hand, the retries that wait, and the rows.         *)

WaitingPending == \A r \in Waiting : rows[r.message].status = "PENDING"

Handling == CallsHoldRecords /\ RetriesAreDistinct /\ OneLine

Line == Handling /\ ScheduledIsPending /\ WaitingPending

RowsExist == \A m \in Messages : rows[m].status # "absent"

\* LineInv, with and without the premise.
LEMMA LineInvParts == LineInv <=> RowsExist /\ (Undisturbed => Line)
BY DEF LineInv, RowsExist, Line, Handling, RetryFindsPending, WaitingPending

\* An await keeps the handling: a retry is scheduled as its record passes.
LEMMA AwaitHandling ==
  ASSUME TypeOK, Handling, NEW w \in Workers, InCall(w),
         NEW next, next.message = msg[w],
         UNCHANGED <<msg, att, polled, inbox, copies, taken>>, pc'[w] # "idle",
         \A v \in Workers \ {w} : pc'[v] = pc[v],
         pc[w] \in Passed => pc'[w] \in Passed,
         pc[w] = "schedule" => pc'[w] \in Passed,
         \/ retries' = retries
         \/ pc[w] = "schedule" /\ retries' = retries \cup {next}
  PROVE  Handling'
<1>0. /\ CallsHoldRecords /\ RetriesAreDistinct /\ OneLine
      /\ pc \in [Workers -> {"idle"} \cup Awaits \cup Results]
  BY TypeParts DEF Handling, CallTypeOK
<1>1. \A r : Live(r)' => Live(r)
  <2> SUFFICES ASSUME NEW r, \A v \in Workers : taken[v] = r => pc'[v] \notin Passed
               PROVE  \A v \in Workers : taken[v] = r => pc[v] \notin Passed
    BY <1>0 DEF Live, Passed, Results
  <2> QED
    OBVIOUS
<1>2. pc[w] \notin Passed => /\ taken[w] \in inbox /\ Live(taken[w])
                             /\ msg[w] = taken[w].message
                             /\ \A q \in Waiting : q.message # msg[w]
  BY <1>0, HeldIsLive DEF OneLine
<1>3. "schedule" \notin Passed
  BY DEF Passed, Results
<1>4. \A q : q \in Waiting' => q \in Waiting \/ (q = next /\ pc[w] = "schedule")
  BY <1>0 DEF Waiting
<1>5. CallsHoldRecords'
  BY <1>0 DEF CallsHoldRecords, InCall
<1>6. RetriesAreDistinct'
  <2>1. \A q, r \in Waiting' : q.message = r.message => q = r
    <3> SUFFICES ASSUME NEW q \in Waiting', NEW r \in Waiting',
                        q.message = r.message
                 PROVE  q = r
      OBVIOUS
    <3> QED
      BY <1>0, <1>2, <1>3, <1>4 DEF RetriesAreDistinct
  <2>2. \A p \in Pollers : polled[p] \cap retries' = {}
    <3>1. pc[w] = "schedule" => \A p \in Pollers : next \notin polled[p]
      BY <1>2, <1>3, WaitingParts
    <3> QED
      BY <1>0, <3>1 DEF RetriesAreDistinct
  <2> QED
    BY <1>0, <2>1, <2>2 DEF RetriesAreDistinct
<1>7. OneLine'
  <2>1. \A q, r \in inbox : Live(q)' /\ Live(r)' /\ q.message = r.message => q = r
    BY <1>0, <1>1 DEF OneLine
  <2>2. ASSUME NEW r \in inbox, Live(r)', NEW q \in Waiting',
               q.message = r.message
        PROVE  FALSE
    <3>1. Live(r)
      BY <1>1, <2>2
    <3>2. q = next /\ pc[w] = "schedule"
      BY <1>0, <1>4, <2>2, <3>1 DEF OneLine
    <3>3. r = taken[w]
      BY <1>0, <1>2, <1>3, <2>2, <3>1, <3>2 DEF OneLine
    <3>4. pc'[w] \in Passed
      BY <3>2
    <3> QED
      BY <1>0, <2>2, <3>3, <3>4 DEF Live, Passed
  <2> QED
    BY <1>0, <2>1, <2>2 DEF OneLine
<1> QED
  BY <1>5, <1>6, <1>7 DEF Handling

\* An await of processDelivery keeps the line: what it writes belongs to the
\* message of a live record, and a retry is scheduled as its record passes.
LEMMA ProcessLine ==
  ASSUME IInv, RowsExist, Line, NEW w \in Workers, Process(w)
  PROVE  Line'
<1>0. /\ ProcessorStep(w) /\ UNCHANGED <<polled, inboxVars>>
      /\ Handling /\ CallsHoldRecords /\ OneLine
      /\ ScheduledIsPending /\ WaitingPending
      /\ pc \in [Workers -> {"idle"} \cup Awaits \cup Results]
      /\ polled' = polled /\ inbox' = inbox /\ taken' = taken
      /\ copies' = copies
  BY TypeParts DEF Process, Line, Handling, IInv, CallTypeOK
<1>1. /\ InCall(w) /\ msg[w] \in Messages
      /\ UNCHANGED <<msg, att>> /\ pc'[w] # "idle"
      /\ \A v \in Workers \ {w} : pc'[v] = pc[v]
      /\ pc[w] \in Passed => pc'[w] \in Passed
      /\ \/ retries' = retries
         \/ /\ pc[w] = "schedule"
            /\ retries' = retries \cup {[message |-> msg[w],
                                         attempt |-> att[w] + 1]}
      /\ pc[w] = "schedule" => pc'[w] \in Passed /\ rows' = rows
      /\ \/ rows' = rows
         \/ /\ pc[w] \notin Passed
            /\ \A m \in Messages \ {msg[w]} : rows'[m] = rows[m]
      /\ rows' \in [Messages -> Row]
      /\ pc'[w] = "schedule" => rows'[msg[w]].status = "PENDING"
  BY <1>0, StepEffect DEF RowsExist
<1> DEFINE next == [message |-> msg[w], attempt |-> att[w] + 1]
<1>2. pc[w] \notin Passed => /\ taken[w] \in inbox /\ Live(taken[w])
                             /\ msg[w] = taken[w].message
                             /\ \A q \in Waiting : q.message # msg[w]
  BY <1>0, <1>1, HeldIsLive DEF OneLine
<1>3. "schedule" \notin Passed
  BY DEF Passed, Results
<1>4. \A q : q \in Waiting' => q \in Waiting \/ (q = next /\ pc[w] = "schedule")
  BY <1>0, <1>1 DEF Waiting
<1>5. Handling'
  <2>1. /\ next.message = msg[w]
        /\ \/ retries' = retries
           \/ pc[w] = "schedule" /\ retries' = retries \cup {next}
    BY <1>1
  <2> HIDE DEF next
  <2>2. UNCHANGED <<msg, att, polled, inbox, copies, taken>>
    BY <1>0, <1>1
  <2> QED
    BY <1>0, <1>1, <2>1, <2>2, AwaitHandling DEF IInv
<1>6. ScheduledIsPending'
  <2> SUFFICES ASSUME NEW v \in Workers, pc'[v] = "schedule"
               PROVE  rows'[msg[v]].status = "PENDING"
    BY <1>1 DEF ScheduledIsPending
  <2>1. CASE v = w
    BY <1>1, <2>1
  <2>2. CASE v # w
    <3>1. pc[v] = "schedule" /\ rows[msg[v]].status = "PENDING"
      BY <1>0, <1>1, <2>2 DEF ScheduledIsPending
    <3>2. /\ taken[v] \in inbox /\ Live(taken[v]) /\ msg[v] = taken[v].message
          /\ msg[v] \in Messages
      BY <1>0, <1>3, <3>1, HeldIsLive, TypeParts
      DEF InCall, IInv, CallTypeOK, CallsAreFilled
    <3>3. pc[w] \notin Passed => msg[v] # msg[w]
      BY <1>0, <1>1, <1>2, <2>2, <3>1, <3>2 DEF OneLine, CallsHoldRecords, InCall
    <3> QED
      BY <1>1, <3>1, <3>2, <3>3
  <2> QED
    BY <2>1, <2>2
<1>7. WaitingPending'
  <2> SUFFICES ASSUME NEW r \in Waiting'
               PROVE  rows'[r.message].status = "PENDING"
    BY DEF WaitingPending
  <2>1. CASE r = next /\ pc[w] = "schedule"
    BY <1>0, <1>1, <2>1 DEF ScheduledIsPending
  <2>2. CASE r \in Waiting
    <3>1. r.message \in Messages
      BY <2>2, WaitingParts, TypeParts
      DEF IInv, StoreTypeOK, LoopTypeOK, PollTypeOK, Retry
    <3> QED
      BY <1>0, <1>1, <1>2, <2>2, <3>1 DEF WaitingPending
  <2> QED
    BY <1>4, <2>1, <2>2
<1> QED
  BY <1>5, <1>6, <1>7 DEF Line

\* Reading due retries, or doing nothing, is seen by nobody but the poll.
Quiet == UNCHANGED <<processorVars, polled, inboxVars>>

LEMMA ReadIsQuiet ==
  /\ UNCHANGED vars => Quiet
  /\ \A p, due : ReadRetries(p, due) => Quiet
BY DEF vars, Quiet, ReadRetries, Read

\* Removing what was read moves retries from Redis to one timer, or loses
\* them, unless it publishes what another poll removed as well.
LEMMA RemoveMoves ==
  ASSUME TypeOK, NEW p \in Pollers, RemoveRetries(p), overlaps' = 0
  PROVE  /\ overlaps = 0 /\ polled[p] = {}
         /\ UNCHANGED <<rows, audit, dlqEntries, dlqTopic, delivered, accepted,
                        callVars, inbox, copies, taken, crashes>>
         /\ faults' = faults \/ Fault
         /\ \E due \in SUBSET retries :
              /\ retries' = retries \ due
              /\ polled' = [polled EXCEPT ![p] = due] \/ polled' = polled
<1> DEFINE lost == reads[p].gone
           due == reads[p].there
<1>0. /\ PollTypeOK /\ PollsAreOrderly /\ overlaps \in Nat
  BY TypeParts DEF LoopTypeOK
<1>1. /\ IsFiniteSet(lost) /\ due \in SUBSET retries /\ polled[p] = {}
  BY <1>0 DEF PollsAreOrderly, RemoveRetries, Remove
<1>2. overlaps = 0 /\ Cardinality(polled'[p] \cap lost) = 0
  <2>1. Cardinality(polled'[p] \cap lost) \in Nat
    BY <1>1, FS_Subset, FS_CardinalityType
  <2> QED BY <1>0, <2>1 DEF RemoveRetries
<1>3. polled'[p] \cap lost = {}
  BY <1>1, <1>2, FS_Subset, FS_EmptySet
<1>4. /\ UNCHANGED <<rows, audit, dlqEntries, dlqTopic, delivered, accepted,
                      callVars, inbox, copies, taken, crashes>>
      /\ faults' = faults \/ Fault
      /\ \/ /\ retries' = retries \ due
            /\ polled' = [polled EXCEPT ![p] = due \cup lost]
         \/ polled' = polled /\ retries' \in {retries, retries \ due}
  BY DEF RemoveRetries, Remove
<1>5. CASE /\ retries' = retries \ due
           /\ polled' = [polled EXCEPT ![p] = due \cup lost]
  <2>1. polled'[p] = due \cup lost
    BY <1>0, <1>5 DEF PollTypeOK
  <2>2. lost = {}
    BY <1>3, <2>1
  <2> QED BY <1>1, <1>2, <1>4, <1>5, <2>2
<1>6. CASE polled' = polled /\ retries' = retries \ due
  BY <1>1, <1>2, <1>4, <1>6
<1>7. CASE polled' = polled /\ retries' = retries
  <2>1. retries' = retries \ {}
    BY <1>7
  <2> QED BY <1>1, <1>2, <1>4, <1>7, <2>1
<1> QED BY <1>4, <1>5, <1>6, <1>7

\* The timer touches Redis and the inbox only.
LEMMA TimerFrame ==
  ASSUME TypeOK, NEW p \in Pollers, Timer(p)
  PROVE  /\ UNCHANGED <<rows, audit, dlqEntries, dlqTopic, delivered, accepted,
                        callVars, taken, crashes>>
         /\ faults' = faults \/ Fault
         /\ overlaps' \in Nat /\ overlaps' >= overlaps
         /\ copies' \in {copies, copies + 1}
         /\ copies' = copies => inbox' = inbox
<1>0. overlaps \in Nat /\ copies \in Nat
  BY TypeParts DEF LoopTypeOK
<1>1. ASSUME NEW due, ReadRetries(p, due) PROVE Quiet
  BY <1>1, ReadIsQuiet
<1>2. CASE RemoveRetries(p)
  <2>1. overlaps' \in Nat /\ overlaps' >= overlaps
    <3>1. IsFiniteSet(reads[p].gone)
      BY TypeParts DEF LoopTypeOK, PollsAreOrderly
    <3>2. Cardinality(polled'[p] \cap reads[p].gone) \in Nat
      BY <3>1, FS_Subset, FS_CardinalityType
    <3> QED BY <1>0, <1>2, <3>2 DEF RemoveRetries
  <2> QED BY <1>2, <2>1 DEF RemoveRetries, Remove
<1>3. ASSUME NEW r \in polled[p], RepublishRetry(p, r)
      PROVE  /\ UNCHANGED <<rows, audit, dlqEntries, dlqTopic, delivered,
                            accepted, callVars, taken, crashes, overlaps>>
             /\ faults' = faults \/ Fault
             /\ \/ copies' = copies /\ inbox' = inbox
                \/ copies' = copies + 1
  BY <1>3 DEF RepublishRetry, Republish
<1> QED BY <1>0, <1>1, <1>2, <1>3 DEF Timer, Quiet

\* The timer makes no retry wait that did not, until two polls overlap.
LEMMA TimerWaiting ==
  ASSUME TypeOK, NEW p \in Pollers, overlaps' = 0,
         RemoveRetries(p) \/ \E r \in polled[p] : RepublishRetry(p, r)
  PROVE  Waiting' \subseteq Waiting /\ UNCHANGED <<rows, pc, msg, att>>
<1>0. polled \in [Pollers -> SUBSET Retry]
  BY TypeParts DEF LoopTypeOK, PollTypeOK
<1>1. /\ retries' \subseteq retries /\ UNCHANGED <<rows, pc, msg, att>>
      /\ \E due \in SUBSET (retries \cup polled[p]) :
           polled' = [polled EXCEPT ![p] = due]
  <2>1. polled = [polled EXCEPT ![p] = polled[p]]
    BY <1>0
  <2>2. CASE RemoveRetries(p)
    BY <2>1, <2>2, RemoveMoves
  <2>3. CASE \E r \in polled[p] : RepublishRetry(p, r)
    BY <2>3 DEF RepublishRetry, Republish
  <2> QED BY <2>2, <2>3
<1>2. \A q \in Pollers : polled'[q] \subseteq retries \cup polled[q]
  BY <1>0, <1>1
<1> QED
  BY <1>1, <1>2 DEF Waiting

\* Handing a record out, to one worker, keeps it the live one it was.
LEMMA TakeHandling ==
  ASSUME TypeOK, Handling, NEW w \in Workers, NEW r \in inbox, Take(w, r),
         overlaps' = 0
  PROVE  Handling'
<1>0. /\ CallsHoldRecords /\ RetriesAreDistinct /\ OneLine
      /\ pc \in [Workers -> {"idle"} \cup Awaits \cup Results]
      /\ msg \in [Workers -> Messages \cup {NoMessage}]
      /\ att \in [Workers -> Nat] /\ overlaps \in Nat
      /\ taken \in [Workers -> Record \cup {NoRecord}]
  BY TypeParts, BoundsAssumption DEF Handling, CallTypeOK, LoopTypeOK
<1>1. /\ \A v \in Workers : taken[v] # r
      /\ UNCHANGED <<rows, retries, polled, inbox, copies>>
      /\ pc[w] = "idle" /\ pc' = [pc EXCEPT ![w] = "exists"]
      /\ msg' = [msg EXCEPT ![w] = r.message]
      /\ att' = [att EXCEPT ![w] = r.attempt + 1]
      /\ taken' = [taken EXCEPT ![w] = r]
  BY <1>0 DEF Take, StartDelivery
<1>2. \A q \in inbox : Live(q)' => Live(q)
  <2> SUFFICES ASSUME NEW q \in inbox, NEW v \in Workers, taken[v] = q,
                      pc[v] \in Passed,
                      \A u \in Workers : taken'[u] = q => pc'[u] \notin Passed
               PROVE  FALSE
    BY DEF Live
  <2>1. v # w
    BY <1>1 DEF Passed, Results
  <2> QED
    BY <1>0, <1>1, <2>1
<1>3. Waiting' = Waiting
  BY <1>1 DEF Waiting
<1>4. CallsHoldRecords'
  BY <1>0, <1>1 DEF CallsHoldRecords, InCall
<1>5. RetriesAreDistinct'
  BY <1>0, <1>1, <1>3 DEF RetriesAreDistinct
<1>6. OneLine'
  BY <1>0, <1>1, <1>2, <1>3 DEF OneLine
<1> QED
  BY <1>4, <1>5, <1>6 DEF Handling

\* And so keeps the line: rows and retries are as they were.
LEMMA TakeLine ==
  ASSUME IInv, Line, NEW w \in Workers, NEW r \in inbox, Take(w, r),
         overlaps' = 0
  PROVE  Line'
<1>1. Handling'
  BY TakeHandling DEF IInv, Line
<1>2. /\ UNCHANGED <<rows, Waiting>> /\ pc' = [pc EXCEPT ![w] = "exists"]
      /\ msg' = [msg EXCEPT ![w] = r.message]
  BY DEF Take, StartDelivery, Waiting
<1>3. ScheduledIsPending' /\ WaitingPending'
  BY <1>2, TypeParts
  DEF Line, IInv, CallTypeOK, ScheduledIsPending, WaitingPending
<1> QED
  BY <1>1, <1>3 DEF Line

\* A record passed leaves the topic; every other is as live as it was.
LEMMA FinishHandling ==
  ASSUME TypeOK, Handling, NEW w \in Workers, Finish(w)
  PROVE  Handling'
<1>0. /\ CallsHoldRecords /\ RetriesAreDistinct /\ OneLine
      /\ pc \in [Workers -> {"idle"} \cup Awaits \cup Results]
      /\ msg \in [Workers -> Messages \cup {NoMessage}]
      /\ att \in [Workers -> Nat]
      /\ taken \in [Workers -> Record \cup {NoRecord}]
  BY TypeParts DEF Handling, CallTypeOK, LoopTypeOK
<1>1. /\ UNCHANGED <<rows, retries, polled, copies>>
      /\ pc[w] \in Results /\ pc' = [pc EXCEPT ![w] = "idle"]
      /\ msg' = [msg EXCEPT ![w] = NoMessage]
      /\ att' = [att EXCEPT ![w] = 0]
      /\ inbox' = inbox \ {taken[w]}
      /\ taken' = [taken EXCEPT ![w] = NoRecord]
  BY DEF Finish, EndCall
<1>2. \A q \in inbox' : Live(q)' => Live(q)
  <2> SUFFICES ASSUME NEW q \in inbox', NEW v \in Workers, taken[v] = q,
                      pc[v] \in Passed,
                      \A u \in Workers : taken'[u] = q => pc'[u] \notin Passed
               PROVE  FALSE
    BY DEF Live
  <2>1. v # w
    BY <1>1
  <2> QED
    BY <1>0, <1>1, <2>1
<1>3. Waiting' = Waiting
  BY <1>1 DEF Waiting
<1>4. CallsHoldRecords'
  <2>1. \A v \in Workers \ {w} : /\ pc'[v] = pc[v] /\ msg'[v] = msg[v]
                                 /\ att'[v] = att[v] /\ taken'[v] = taken[v]
    BY <1>0, <1>1
  <2>2. pc'[w] = "idle" /\ taken'[w] = NoRecord /\ pc[w] # "idle"
    BY <1>0, <1>1 DEF Results
  <2>3. \A v \in Workers : pc'[v] # "idle" =>
          /\ v # w /\ taken'[v] \in inbox' /\ msg'[v] = taken'[v].message
          /\ att'[v] = taken'[v].attempt + 1
    BY <1>0, <1>1, <2>1, <2>2 DEF CallsHoldRecords, InCall
  <2>4. NoRecord \notin inbox
    BY MessagesAssumption, TypeParts DEF LoopTypeOK, Record, NoRecord
  <2>5. \A v \in Workers : pc'[v] = "idle" => taken'[v] = NoRecord
    BY <1>0, <2>1, <2>2 DEF CallsHoldRecords, InCall
  <2>6. \A v, u \in Workers : pc'[v] # "idle" /\ taken'[u] = taken'[v] => v = u
    BY <1>0, <1>1, <2>1, <2>2, <2>3, <2>4 DEF CallsHoldRecords, InCall
  <2>7. \A r \in inbox' : r.copy <= copies'
    BY <1>0, <1>1 DEF CallsHoldRecords
  <2> QED
    BY <2>3, <2>5, <2>6, <2>7 DEF CallsHoldRecords, InCall
<1>5. RetriesAreDistinct'
  BY <1>0, <1>1, <1>3 DEF RetriesAreDistinct
<1>6. OneLine'
  BY <1>0, <1>1, <1>2, <1>3 DEF OneLine
<1> QED
  BY <1>4, <1>5, <1>6 DEF Handling

\* The end of a call decides nothing.
LEMMA FinishLine ==
  ASSUME IInv, Line, NEW w \in Workers, Finish(w)
  PROVE  Line'
<1>1. Handling'
  BY FinishHandling DEF IInv, Line
<1>2. /\ UNCHANGED <<rows, Waiting>> /\ pc' = [pc EXCEPT ![w] = "idle"]
      /\ msg' = [msg EXCEPT ![w] = NoMessage]
  BY DEF Finish, EndCall, Waiting
<1>3. ScheduledIsPending' /\ WaitingPending'
  BY <1>2, TypeParts
  DEF Line, IInv, CallTypeOK, ScheduledIsPending, WaitingPending
<1> QED
  BY <1>1, <1>3 DEF Line

\* Removing what was read keeps the handling.
LEMMA RemoveHandling ==
  ASSUME TypeOK, Handling, NEW p \in Pollers, RemoveRetries(p), overlaps' = 0
  PROVE  Handling'
<1>0. /\ CallsHoldRecords /\ RetriesAreDistinct /\ OneLine
      /\ polled \in [Pollers -> SUBSET Retry]
  BY TypeParts DEF Handling, LoopTypeOK, PollTypeOK
<1>1. PICK due \in SUBSET retries :
        /\ UNCHANGED <<rows, pc, msg, att, inbox, copies, taken>>
        /\ retries' = retries \ due /\ polled[p] = {}
        /\ polled' = [polled EXCEPT ![p] = due] \/ polled' = polled
  BY RemoveMoves
<1>2. Waiting' \subseteq Waiting
  BY TimerWaiting
<1>3. \A q : Live(q)' <=> Live(q)
  BY <1>1 DEF Live
<1>4. CallsHoldRecords' /\ OneLine'
  BY <1>0, <1>1, <1>2, <1>3
  DEF CallsHoldRecords, InCall, OneLine
<1>5. RetriesAreDistinct'
  BY <1>0, <1>1, <1>2 DEF RetriesAreDistinct
<1> QED
  BY <1>4, <1>5 DEF Handling

\* What waits in a timer's hands waited in Redis.
LEMMA RemoveLine ==
  ASSUME IInv, Line, NEW p \in Pollers, RemoveRetries(p), overlaps' = 0
  PROVE  Line'
<1>1. Handling'
  BY RemoveHandling DEF IInv, Line
<1>2. UNCHANGED <<rows, pc, msg>> /\ Waiting' \subseteq Waiting
  BY TimerWaiting DEF IInv
<1>3. ScheduledIsPending' /\ WaitingPending'
  BY <1>2 DEF Line, ScheduledIsPending, WaitingPending
<1> QED
  BY <1>1, <1>3 DEF Line

\* A republished retry waits no more: its record is the live one.
LEMMA RepublishHandling ==
  ASSUME TypeOK, Handling, NEW p \in Pollers, NEW r \in polled[p],
         RepublishRetry(p, r)
  PROVE  Handling'
<1> DEFINE record == [message |-> r.message, attempt |-> r.attempt,
                      copy |-> copies + 1]
<1>0. /\ CallsHoldRecords /\ RetriesAreDistinct /\ OneLine
      /\ polled \in [Pollers -> SUBSET Retry] /\ copies \in Nat
      /\ inbox \subseteq Record
  BY TypeParts DEF Handling, LoopTypeOK, PollTypeOK
<1>1. /\ UNCHANGED <<rows, retries, pc, msg, att, taken>>
      /\ \/ polled' = [polled EXCEPT ![p] = @ \ {r}]
         \/ polled' = [polled EXCEPT ![p] = {}]
      /\ \/ inbox' = inbox \cup {record} /\ copies' = copies + 1
         \/ inbox' = inbox /\ copies' = copies
  BY DEF RepublishRetry, Republish
<1>2. /\ record.copy = copies + 1 /\ record.message = r.message
      /\ \A q \in inbox : q.copy \in Nat
  BY <1>0 DEF Record
<1> HIDE DEF record
<1>3. Waiting' \subseteq Waiting \ {r}
  <2> SUFFICES ASSUME NEW q \in Waiting' PROVE q \in Waiting /\ q # r
    OBVIOUS
  <2>1. q \in retries' \/ \E v \in Pollers : q \in polled'[v]
    BY DEF Waiting
  <2>2. CASE q \in retries
    BY <1>0, <2>2, WaitingParts DEF RetriesAreDistinct
  <2>3. ASSUME NEW v \in Pollers, q \in polled'[v]
        PROVE  q \in polled[v] /\ q # r
    BY <1>0, <1>1, <2>3 DEF RetriesAreDistinct
  <2> QED
    BY <1>1, <2>1, <2>2, <2>3, WaitingParts
<1>4. r \in Waiting
  BY WaitingParts
<1>5. \A q : Live(q)' <=> Live(q)
  BY <1>1 DEF Live
<1>6. CallsHoldRecords'
  BY <1>0, <1>1, <1>2 DEF CallsHoldRecords, InCall
<1>7. RetriesAreDistinct'
  BY <1>0, <1>1, <1>3 DEF RetriesAreDistinct
<1>8. OneLine'
  <2>1. \A q \in inbox : Live(q) => q.message # r.message
    BY <1>0, <1>4 DEF OneLine
  <2>2. \A q \in Waiting' : q \in Waiting /\ q.message # r.message
    BY <1>0, <1>3, <1>4 DEF RetriesAreDistinct
  <2>3. inbox' \subseteq inbox \cup {record}
    BY <1>1
  <2> QED
    BY <1>0, <1>2, <1>5, <2>1, <2>2, <2>3 DEF OneLine
<1> QED
  BY <1>6, <1>7, <1>8 DEF Handling

\* What still waits was waiting.
LEMMA RepublishLine ==
  ASSUME IInv, Line, overlaps' = 0, NEW p \in Pollers, NEW r \in polled[p],
         RepublishRetry(p, r)
  PROVE  Line'
<1>1. Handling'
  BY RepublishHandling DEF IInv, Line
<1>2. UNCHANGED <<rows, pc, msg>> /\ Waiting' \subseteq Waiting
  BY TimerWaiting DEF IInv
<1>3. ScheduledIsPending' /\ WaitingPending'
  BY <1>2 DEF Line, ScheduledIsPending, WaitingPending
<1> QED
  BY <1>1, <1>3 DEF Line

-----------------------------------------------------------------------------
\* Before anything ran, every message has its row and one record.
LEMMA InitLine == Init => LineInv
<1> SUFFICES ASSUME Init PROVE RowsExist /\ Line
  BY LineInvParts
<1> USE DEF Init, ProcessorInit, PollInit
<1>1. RowsExist
  BY DEF RowsExist
<1>2. Waiting = {}
  BY DEF Waiting
<1>3. CallsHoldRecords
  BY DEF CallsHoldRecords, InCall
<1>4. RetriesAreDistinct
  BY <1>2 DEF RetriesAreDistinct
<1>5. OneLine
  BY <1>2 DEF OneLine
<1>6. ScheduledIsPending /\ WaitingPending
  BY <1>2 DEF ScheduledIsPending, WaitingPending
<1> QED
  BY <1>1, <1>3, <1>4, <1>5, <1>6 DEF Line, Handling

\* Every step keeps the line; a crash or an overlap only ends the claim.
LEMMA NextLine == IInv /\ LineInv /\ [Next]_vars => LineInv'
<1> SUFFICES ASSUME IInv, RowsExist, Undisturbed => Line, [Next]_vars
             PROVE  RowsExist' /\ (Undisturbed' => Line')
  BY LineInvParts, PTL
<1>0. overlaps \in Nat /\ crashes \in Nat
  BY TypeParts, BoundsAssumption DEF IInv, LoopTypeOK
<1> USE DEF Undisturbed
<1>1. ASSUME NEW w \in Workers, Process(w)
      PROVE  RowsExist' /\ (Undisturbed' => Line')
  <2>1. RowsExist'
    BY <1>1, StepEffect DEF RowsExist, Process
  <2>2. UNCHANGED <<overlaps, crashes>>
    BY <1>1 DEF Process
  <2> QED
    BY <1>1, <2>1, <2>2, ProcessLine
<1>2. ASSUME NEW w \in Workers, NEW r \in inbox, Take(w, r)
      PROVE  RowsExist' /\ (Undisturbed' => Line')
  <2>1. /\ rows' = rows /\ crashes' = crashes
        /\ overlaps' = overlaps \/ overlaps' = overlaps + 1
    BY <1>2 DEF Take
  <2> QED
    BY <1>0, <1>2, <2>1, TakeLine DEF RowsExist
<1>3. ASSUME NEW w \in Workers, Finish(w)
      PROVE  RowsExist' /\ (Undisturbed' => Line')
  <2>1. UNCHANGED <<rows, overlaps, crashes>>
    BY <1>3 DEF Finish
  <2> QED
    BY <1>3, <2>1, FinishLine DEF RowsExist
<1>4. ASSUME NEW p \in Pollers, RemoveRetries(p)
      PROVE  RowsExist' /\ (Undisturbed' => Line')
  <2>1. UNCHANGED <<rows, crashes>>
    BY <1>4 DEF RemoveRetries, Remove
  <2>2. overlaps' = 0 => overlaps = 0
    BY <1>4, RemoveMoves DEF IInv
  <2> QED
    BY <1>4, <2>1, <2>2, RemoveLine DEF RowsExist
<1>5. ASSUME NEW p \in Pollers, NEW r \in polled[p], RepublishRetry(p, r)
      PROVE  RowsExist' /\ (Undisturbed' => Line')
  <2>1. UNCHANGED <<rows, overlaps, crashes>>
    BY <1>5 DEF RepublishRetry, Republish
  <2> QED
    BY <1>5, <2>1, RepublishLine DEF RowsExist
<1>6. ASSUME NEW w \in Workers, Crash(w)
      PROVE  RowsExist' /\ (Undisturbed' => Line')
  <2>1. rows' = rows /\ crashes' # 0
    BY <1>0, <1>6 DEF Crash
  <2> QED
    BY <2>1 DEF RowsExist
<1>7. CASE Quiet
  BY <1>7
  DEF Quiet, RowsExist, Line, Handling, CallsHoldRecords, InCall, RetriesAreDistinct,
      OneLine, Live, Waiting, ScheduledIsPending, WaitingPending
<1> QED
  BY <1>1, <1>2, <1>3, <1>4, <1>5, <1>6, <1>7, ReadIsQuiet
  DEF Next, Work, Timer

\* The strengthened invariant of the line holds in every reachable state.
THEOREM LineIsKept == Spec => []LineInv
BY InitLine, NextLine, Inductive, PTL DEF Spec

\* Until the first rebalance, crash or retry published by two polls, no two
\* workers deliver the same message at once, for every number of workers,
\* timers, messages and failed calls.
THEOREM OneDelivererHolds == Spec => []OneDeliverer
<1>1. IInv /\ LineInv => OneDeliverer
  <2> SUFFICES ASSUME IInv, Line, NEW v \in Workers, NEW w \in Workers, v # w,
                      pc[v] \in Delivering, pc[w] \in Delivering,
                      msg[v] = msg[w]
               PROVE  FALSE
    BY LineInvParts DEF OneDeliverer
  <2>1. InCall(v) /\ InCall(w) /\ pc[v] \notin Passed /\ pc[w] \notin Passed
    BY DEF Delivering, Awaits, Passed, Results, InCall
  <2>2. taken[v] = taken[w]
    BY <2>1, HeldIsLive DEF Line, Handling, OneLine
  <2> QED
    BY <2>1, <2>2 DEF Line, Handling, CallsHoldRecords
<1> QED
  BY <1>1, Inductive, LineIsKept, PTL

\* Until then a retry that waits finds its message PENDING: the outcome is not
\* decided while an attempt is still owed.
THEOREM RetryFindsPendingHolds == Spec => []RetryFindsPending
<1>1. LineInv => RetryFindsPending
  BY DEF LineInv, RetryFindsPending
<1> QED
  BY <1>1, LineIsKept, PTL

-----------------------------------------------------------------------------
(* Until the first failed call: the refinement of DeliveryLedger. *)

\* What OnLedger says of a state in which nothing has failed.
LedgerLine ==
  /\ \A w \in Workers : CallOnLedger(w)
  /\ \A r \in inbox : (\A w \in Workers : taken[w] # r) =>
       Due(r.message, r.attempt + 1)
  /\ \A r \in Waiting : Due(r.message, r.attempt + 1)

-----------------------------------------------------------------------------
(* What the three stores of the ledger show, by what a step writes.         *)

\* A step that writes neither leaves attempts and closed messages alone.
LEMMA Unrecorded ==
  ASSUME UNCHANGED <<audit, dlqTopic>>
  PROVE  Tried' = Tried /\ \A m \in Messages : Closed(m)' <=> Closed(m)
BY DEF Tried, Closed

\* An audit entry adds its number, and closes its message if a success.
LEMMA Recorded ==
  ASSUME NEW m \in Messages, NEW n \in Nat, NEW status,
         audit' = audit \cup {[message |-> m, number |-> n, status |-> status]},
         UNCHANGED dlqTopic
  PROVE  /\ Tried' = [Tried EXCEPT ![m] = Tried[m] \cup {n}]
         /\ \A q \in Messages : Closed(q)' <=>
              Closed(q) \/ (q = m /\ status = "SUCCESS")
<1> DEFINE a == [message |-> m, number |-> n, status |-> status]
<1>1. a.message = m /\ a.number = n /\ a.status = status /\ audit' = audit \cup {a}
  OBVIOUS
<1> HIDE DEF a
<1>2. \A q \in Messages : Tried'[q] = IF q = m THEN Tried[q] \cup {n} ELSE Tried[q]
  <2> SUFFICES ASSUME NEW q \in Messages, NEW k
               PROVE  k \in Tried'[q] <=> k \in Tried[q] \/ (q = m /\ k = n)
    OBVIOUS
  <2>1. k \in Tried[q] <=> \E b \in audit : b.message = q /\ b.number = k
    BY DEF Tried
  <2>2. k \in Tried'[q] <=> \E b \in audit' : b.message = q /\ b.number = k
    BY DEF Tried
  <2> QED
    BY <1>1, <2>1, <2>2
<1>3. Tried = [q \in Messages |-> Tried[q]] /\ Tried' = [q \in Messages |-> Tried'[q]]
  BY DEF Tried
<1>4. Tried' = [Tried EXCEPT ![m] = Tried[m] \cup {n}]
  BY <1>2, <1>3
<1>5. \A q \in Messages : Closed(q)' <=>
        Closed(q) \/ (q = m /\ status = "SUCCESS")
  BY <1>1 DEF Closed
<1> QED
  BY <1>4, <1>5

\* A dead letter closes its message.
LEMMA Buried ==
  ASSUME NEW m \in Messages, UNCHANGED audit, dlqTopic' = dlqTopic \cup {m}
  PROVE  Tried' = Tried /\ \A q \in Messages : Closed(q)' <=> Closed(q) \/ q = m
BY DEF Tried, Closed

\* A message none of whose stores changed is due what it was.
LEMMA SameMessage ==
  ASSUME NEW m \in Messages, rows'[m] = rows[m], accepted'[m] = accepted[m],
         Tried'[m] = Tried[m], Closed(m)' <=> Closed(m)
  PROVE  /\ Undecided(m)' <=> Undecided(m)
         /\ \A n : Due(m, n)' <=> Due(m, n)
<1>1. Undecided(m)' <=> Undecided(m)
  BY DEF Undecided
<1>2. ASSUME NEW n PROVE Due(m, n)' <=> Due(m, n)
  BY <1>1 DEF Due
<1> QED
  BY <1>1, <1>2

-----------------------------------------------------------------------------
\* While a call can still decide its message, nobody else is owed anything
\* about that message.
LEMMA Alone ==
  ASSUME Handling, NEW w \in Workers, InCall(w), pc[w] \notin Passed
  PROVE  /\ \A v \in Workers \ {w} :
              InCall(v) /\ pc[v] \notin Passed => msg[v] # msg[w]
         /\ \A r \in inbox : (\A v \in Workers : taken[v] # r) =>
              r.message # msg[w]
         /\ \A r \in Waiting : r.message # msg[w]
<1>1. /\ taken[w] \in inbox /\ Live(taken[w]) /\ msg[w] = taken[w].message
      /\ CallsHoldRecords /\ OneLine
  BY HeldIsLive DEF Handling
<1>2. ASSUME NEW v \in Workers \ {w}, InCall(v), pc[v] \notin Passed,
             msg[v] = msg[w]
      PROVE  FALSE
  <2>1. taken[v] \in inbox /\ Live(taken[v]) /\ msg[v] = taken[v].message
    BY <1>1, <1>2, HeldIsLive
  <2> QED
    BY <1>1, <1>2, <2>1 DEF OneLine, CallsHoldRecords
<1>3. ASSUME NEW r \in inbox, \A v \in Workers : taken[v] # r
      PROVE  r.message # msg[w]
  <2>1. Live(r)
    BY <1>3 DEF Live
  <2> QED
    BY <1>1, <1>3, <2>1 DEF OneLine
<1> QED
  BY <1>1, <1>2, <1>3 DEF OneLine

-----------------------------------------------------------------------------
(* What an await of a call does when nothing fails but providers: next to   *)
(* the call itself, it touches the stores of its own message only.          *)

CallTypes(w) == /\ msg[w] \in Messages /\ att[w] \in Nat /\ att[w] >= 1
                /\ pc \in [Workers -> {"idle"} \cup Awaits \cup Results]
                /\ rows \in [Messages -> Row]
                /\ accepted \in [Messages -> Nat]
                /\ rows[msg[w]].status # "absent"

\* The message of a call has a row, and its attempt a number.
LEMMA CallIsTyped ==
  ASSUME IInv, RowsExist, NEW w \in Workers, InCall(w)
  PROVE  CallTypes(w) /\ rows[msg[w]] # Absent
BY TypeParts DEF IInv, StoreTypeOK, CallTypeOK, CallsAreFilled, CallTypes,
                 RowsExist, Absent

\* No await of a clean step is answered with an error.
Clean == faults = 0 /\ faults' = 0

\* A clean step spends none of the failed calls.
LEMMA NoFaultWhenClean == Clean => ~Fault
BY DEF Clean, Fault

\* The statement of an update: one row, to the status given.
LEMMA CleanSetStatus ==
  ASSUME NEW w \in Workers, CallTypes(w), rows[msg[w]] # Absent, NEW status,
         NEW final, SetStatus(msg[w], status, final)
  PROVE  /\ rows' = [rows EXCEPT ![msg[w]] = [status |-> status,
                                             finalDelivered |-> final]]
         /\ rows'[msg[w]].status = status
         /\ rows'[msg[w]].finalDelivered = final
         /\ \A q \in Messages \ {msg[w]} : rows'[q] = rows[q]
BY DEF SetStatus, CallTypes

\* Awaits that write nothing the ledger sees.
LEMMA SilentStep ==
  ASSUME Clean, TablesFit, NEW w \in Workers, CallTypes(w), Due(msg[w], att[w]),
         Exists(w) \/ SetNX(w) \/ GetStatus(w)
  PROVE  /\ UNCHANGED <<rows, accepted, audit, dlqTopic, retries, msg, att>>
         /\ pc'[w] \in {"setNX", "getStatus", "send"}
<1>1. ~Fault
  BY NoFaultWhenClean
<1>2. ~rows[msg[w]].finalDelivered
  BY DEF Due
<1> QED
  BY <1>1, <1>2
  DEF Exists, SetNX, GetStatus, Write, Answers, Goto, TablesFit, CallTypes

\* The send: accepted once, or not at all.
LEMMA SendStep ==
  ASSUME Clean, NEW w \in Workers, CallTypes(w), Send(w)
  PROVE  /\ UNCHANGED <<rows, audit, dlqTopic, retries, msg, att>>
         /\ \A q \in Messages \ {msg[w]} : accepted'[q] = accepted[q]
         /\ \/ /\ accepted'[msg[w]] = accepted[msg[w]] + 1
               /\ pc'[w] = "markSent"
            \/ /\ accepted' = accepted
               /\ pc'[w] = "saveFailed"
BY DEF Send, Answers, Goto, CallTypes

\* The three updates of the row, and what follows them.
LEMMA MarkStep ==
  ASSUME Clean, TablesFit, NEW w \in Workers, CallTypes(w),
         rows[msg[w]] # Absent,
         MarkSent(w) \/ MarkFailed(w) \/ MarkPending(w)
  PROVE  /\ UNCHANGED <<accepted, audit, dlqTopic, retries, msg, att>>
         /\ \A q \in Messages \ {msg[w]} : rows'[q] = rows[q]
         /\ \/ /\ pc[w] = "markSent" /\ pc'[w] = "saveSuccess"
               /\ rows'[msg[w]].status = "SENT"
            \/ /\ pc[w] = "markFailed" /\ pc'[w] = "saveDLQ"
               /\ rows'[msg[w]].status = "FAILED"
               /\ rows'[msg[w]].finalDelivered = FALSE
            \/ /\ pc[w] = "markPending" /\ pc'[w] = "schedule"
               /\ rows'[msg[w]].finalDelivered = FALSE
<1>1. ~Fault
  BY NoFaultWhenClean
<1>2. CASE MarkSent(w)
  <2>1. /\ SetStatus(msg[w], "SENT", TRUE) /\ Goto(w, "saveSuccess")
        /\ pc[w] = "markSent" /\ UNCHANGED <<accepted, audit, dlqTopic, retries>>
    BY <1>1, <1>2 DEF MarkSent, Write, Answers, TablesFit
  <2> QED
    BY <2>1, CleanSetStatus DEF Goto, CallTypes
<1>3. CASE MarkFailed(w)
  <2>1. /\ SetStatus(msg[w], "FAILED", FALSE) /\ Goto(w, "saveDLQ")
        /\ pc[w] = "markFailed" /\ UNCHANGED <<accepted, audit, dlqTopic, retries>>
    BY <1>1, <1>3 DEF MarkFailed, Write, Answers, TablesFit
  <2> QED
    BY <2>1, CleanSetStatus DEF Goto, CallTypes
<1>4. CASE MarkPending(w)
  <2>1. /\ SetStatus(msg[w], "PENDING", FALSE) /\ Goto(w, "schedule")
        /\ pc[w] = "markPending" /\ UNCHANGED <<accepted, audit, dlqTopic, retries>>
    BY <1>1, <1>4 DEF MarkPending, Write, Answers, TablesFit
  <2> QED
    BY <2>1, CleanSetStatus DEF Goto, CallTypes
<1> QED
  BY <1>2, <1>3, <1>4

\* The two entries of the audit trail.
LEMMA RecordStep ==
  ASSUME Clean, TablesFit, NEW w \in Workers, CallTypes(w),
         rows[msg[w]] # Absent, SaveSuccess(w) \/ SaveFailed(w)
  PROVE  /\ UNCHANGED <<rows, accepted, dlqTopic, retries, msg, att>>
         /\ Tried' = [Tried EXCEPT ![msg[w]] = Tried[msg[w]] \cup {att[w]}]
         /\ \/ /\ pc[w] = "saveSuccess" /\ pc'[w] = "warm"
               /\ \A q \in Messages : Closed(q)' <=> Closed(q) \/ q = msg[w]
            \/ /\ pc[w] = "saveFailed" /\ pc'[w] \in {"markFailed", "markPending"}
               /\ \A q \in Messages : Closed(q)' <=> Closed(q)
<1>1. ~Fault /\ HasRow(msg[w]) /\ msg[w] \in Messages /\ att[w] \in Nat
  BY NoFaultWhenClean DEF HasRow, CallTypes
<1>2. CASE SaveSuccess(w)
  <2>1. /\ SaveAttempt(w, "SUCCESS") /\ Goto(w, "warm") /\ pc[w] = "saveSuccess"
        /\ UNCHANGED <<rows, accepted, dlqTopic, retries>>
    BY <1>1, <1>2 DEF SaveSuccess, Write, Answers, TablesFit
  <2> QED
    BY <1>1, <2>1, Recorded DEF SaveAttempt, Goto, CallTypes
<1>3. CASE SaveFailed(w)
  <2>1. /\ SaveAttempt(w, "FAILED") /\ pc[w] = "saveFailed"
        /\ Goto(w, "markFailed") \/ Goto(w, "markPending")
        /\ UNCHANGED <<rows, accepted, dlqTopic, retries>>
    BY <1>1, <1>3 DEF SaveFailed, Write, Answers, TablesFit
  <2>2. /\ Tried' = [Tried EXCEPT ![msg[w]] = Tried[msg[w]] \cup {att[w]}]
        /\ \A q \in Messages : Closed(q)' <=> Closed(q)
    <3>1. audit' = audit \cup {[message |-> msg[w], number |-> att[w],
                                status |-> "FAILED"]}
      BY <2>1 DEF SaveAttempt
    <3>2. /\ Tried' = [Tried EXCEPT ![msg[w]] = Tried[msg[w]] \cup {att[w]}]
          /\ \A q \in Messages : Closed(q)' <=>
               Closed(q) \/ (q = msg[w] /\ "FAILED" = "SUCCESS")
      BY <1>1, <2>1, <3>1, Recorded
    <3> QED
      BY <3>2
  <2> QED
    BY <2>1, <2>2 DEF Goto, CallTypes
<1> QED
  BY <1>2, <1>3

\* The dead letter and the next attempt.
LEMMA LeaveStep ==
  ASSUME Clean, TablesFit, NEW w \in Workers, CallTypes(w),
         rows[msg[w]] # Absent,
         SaveDLQEntry(w) \/ PublishDLQ(w) \/ ScheduleRetry(w)
  PROVE  /\ UNCHANGED <<rows, accepted, audit, msg, att>>
         /\ \/ /\ pc[w] = "saveDLQ" /\ pc'[w] = "publishDLQ"
               /\ UNCHANGED <<dlqTopic, retries>>
            \/ /\ pc[w] = "publishDLQ" /\ pc'[w] = "unsuccessful"
               /\ dlqTopic' = dlqTopic \cup {msg[w]} /\ UNCHANGED retries
            \/ /\ pc[w] = "schedule" /\ pc'[w] = "logRetry"
               /\ retries' = retries \cup {[message |-> msg[w],
                                            attempt |-> att[w] + 1]}
               /\ UNCHANGED dlqTopic
<1>1. ~Fault /\ HasRow(msg[w])
  BY NoFaultWhenClean DEF HasRow
<1> QED
  BY <1>1 DEF SaveDLQEntry, PublishDLQ, ScheduleRetry, Write, Answers, Goto,
              TablesFit, CallTypes

\* The awaits after the outcome is on record.
LEMMA AfterStep ==
  ASSUME Clean, NEW w \in Workers, CallTypes(w),
         Warm(w) \/ LogSent(w) \/ LogRetry(w)
  PROVE  /\ UNCHANGED <<rows, accepted, audit, dlqTopic, retries, msg, att>>
         /\ pc'[w] \in {"logSent"} \cup Results
BY NoFaultWhenClean
DEF Warm, LogSent, LogRetry, Write, Answers, Goto, CallTypes, Results

-----------------------------------------------------------------------------
\* Attempts are numbered.
LEMMA TriedNumbers ==
  ASSUME IInv
  PROVE  Tried \in [Messages -> SUBSET Nat]
<1>1. audit \subseteq Attempt
  BY TypeParts DEF IInv, StoreTypeOK
<1> QED
  BY <1>1 DEF Tried, Attempt

\* What a call establishes for the next one, in the words of the ledger.
LEMMA FailedIsTried ==
  ASSUME IInv, NEW w \in Workers, InCall(w),
         pc[w] \in {"markFailed", "saveDLQ", "publishDLQ", "markPending",
                   "schedule"}
  PROVE  /\ att[w] \in Tried[msg[w]]
         /\ pc[w] \in {"markPending", "schedule"} => att[w] < MaxAttempts
         /\ pc[w] \in {"markFailed", "saveDLQ", "publishDLQ"} =>
              att[w] >= MaxAttempts
<1>1. FailedBeforeDecided(w) /\ msg[w] \in Messages
  BY TypeParts DEF IInv, CallInv, CallTypeOK, CallsAreFilled
<1>2. Audited(msg[w], att[w], "FAILED")
  BY <1>1 DEF FailedBeforeDecided, Step
<1>3. att[w] \in Tried[msg[w]]
  BY <1>1, <1>2 DEF Audited, Tried
<1> QED
  BY <1>1, <1>3 DEF FailedBeforeDecided, Step

\* A clean await of a live call: the call stays on the ledger, the retry it
\* may schedule is due, and all other messages are left alone.
LEMMA OwnLine ==
  ASSUME IInv, RowsExist, Clean, TablesFit, NEW w \in Workers,
         CallOnLedger(w), ProcessorStep(w)
  PROVE  /\ UNCHANGED <<msg, att>>
         /\ \A q \in Messages \ {msg[w]} :
              /\ rows'[q] = rows[q]
              /\ accepted'[q] = accepted[q]
              /\ Tried'[q] = Tried[q]
              /\ Closed(q)' <=> Closed(q)
         /\ CallOnLedger(w)'
         /\ \/ retries' = retries
            \/ /\ retries' = retries \cup {[message |-> msg[w],
                                            attempt |-> att[w] + 1]}
               /\ Due(msg[w], att[w] + 2)'
<1>0. InCall(w)
  BY DEF InCall, ProcessorStep, Exists, SetNX, GetStatus, Send, MarkSent,
         SaveSuccess, Warm, LogSent, SaveFailed, MarkFailed, SaveDLQEntry,
         PublishDLQ, MarkPending, ScheduleRetry, LogRetry
<1>1. CallTypes(w) /\ rows[msg[w]] # Absent
  BY <1>0, CallIsTyped
<1>2. /\ msg[w] \in Messages /\ att[w] \in Nat
      /\ accepted \in [Messages -> Nat]
      /\ Tried \in [Messages -> SUBSET Nat] /\ MaxAttempts \in Nat
  BY <1>1, TriedNumbers, MaxAttemptsAssumption DEF CallTypes
<1>3. CASE Exists(w) \/ SetNX(w) \/ GetStatus(w)
  <2>1. Due(msg[w], att[w])
    BY <1>3 DEF CallOnLedger, Step, Exists, SetNX, GetStatus
  <2>2. /\ UNCHANGED <<rows, accepted, audit, dlqTopic, retries, msg, att>>
        /\ pc'[w] \in {"setNX", "getStatus", "send"}
    BY <1>1, <1>3, <2>1, SilentStep
  <2>3. Due(msg[w], att[w])'
    BY <1>2, <2>1, <2>2, Unrecorded DEF Due, Undecided
  <2> QED
    BY <2>2, <2>3, Unrecorded DEF CallOnLedger, Step
<1>4. CASE Send(w)
  <2>1. Due(msg[w], att[w])
    BY <1>4 DEF CallOnLedger, Step, Send
  <2>2. /\ UNCHANGED <<rows, audit, dlqTopic, retries, msg, att>>
        /\ \A q \in Messages \ {msg[w]} : accepted'[q] = accepted[q]
        /\ \/ pc'[w] = "markSent"
           \/ accepted' = accepted /\ pc'[w] = "saveFailed"
    BY <1>1, <1>4, SendStep
  <2>3. Tried' = Tried /\ \A q \in Messages : Closed(q)' <=> Closed(q)
    BY <2>2, Unrecorded
  <2>4. CallOnLedger(w)'
    BY <1>2, <2>1, <2>2, <2>3 DEF CallOnLedger, Step, Due, Undecided
  <2> QED
    BY <2>2, <2>3, <2>4
<1>5. CASE MarkSent(w) \/ MarkFailed(w) \/ MarkPending(w)
  <2>1. Tried' = Tried /\ \A q \in Messages : Closed(q)' <=> Closed(q)
    BY <1>1, <1>5, MarkStep, Unrecorded
  <2>2. CallOnLedger(w)'
    BY <1>1, <1>2, <1>5, <2>1, MarkStep DEF CallOnLedger, Step, Undecided
  <2> QED
    BY <1>1, <1>5, <2>1, <2>2, MarkStep
<1>6. CASE SaveSuccess(w) \/ SaveFailed(w)
  <2>1. \A q \in Messages \ {msg[w]} : /\ Tried'[q] = Tried[q]
                                       /\ Closed(q)' <=> Closed(q)
    BY <1>1, <1>2, <1>6, RecordStep
  <2>2. CallOnLedger(w)'
    BY <1>1, <1>2, <1>6, RecordStep DEF CallOnLedger, Step, Due, Undecided
  <2>3. UNCHANGED <<rows, accepted, retries, msg, att>>
    BY <1>1, <1>6, RecordStep
  <2> QED
    BY <2>1, <2>2, <2>3
<1>7. CASE SaveDLQEntry(w) \/ PublishDLQ(w)
  <2>1. \A q \in Messages \ {msg[w]} : Closed(q)' <=> Closed(q)
    BY <1>1, <1>2, <1>7, LeaveStep, Buried, Unrecorded
  <2>2. Tried' = Tried
    BY <1>1, <1>2, <1>7, LeaveStep, Buried, Unrecorded
  <2>3. CASE SaveDLQEntry(w)
    BY <1>1, <1>2, <2>1, <2>2, <2>3, LeaveStep, Unrecorded
    DEF CallOnLedger, Step, Undecided, SaveDLQEntry
  <2>4. CASE PublishDLQ(w)
    BY <1>1, <1>2, <2>1, <2>2, <2>4, LeaveStep
    DEF CallOnLedger, Step, PublishDLQ
  <2> QED
    BY <1>7, <2>3, <2>4
<1>8. CASE ScheduleRetry(w)
  <2>1. /\ UNCHANGED <<rows, accepted, audit, dlqTopic, msg, att>>
        /\ pc'[w] = "logRetry" /\ pc[w] = "schedule"
        /\ retries' = retries \cup {[message |-> msg[w],
                                     attempt |-> att[w] + 1]}
    BY <1>1, <1>8, LeaveStep DEF ScheduleRetry
  <2>2. Tried' = Tried /\ \A q \in Messages : Closed(q)' <=> Closed(q)
    BY <2>1, Unrecorded
  <2>3. att[w] \in Tried[msg[w]] /\ att[w] < MaxAttempts
    BY <1>0, <2>1, FailedIsTried
  <2>4. Due(msg[w], att[w] + 2)'
    BY <1>2, <2>1, <2>2, <2>3 DEF Due, Undecided, CallOnLedger, Step
  <2> QED
    BY <2>1, <2>2, <2>4 DEF CallOnLedger, Step
<1>9. CASE Warm(w) \/ LogSent(w) \/ LogRetry(w)
  BY <1>1, <1>9, AfterStep, Unrecorded DEF CallOnLedger, Step, Results
<1> QED
  BY <1>3, <1>4, <1>5, <1>6, <1>7, <1>8, <1>9 DEF ProcessorStep

-----------------------------------------------------------------------------
(* Where each line of processing is, as long as nothing fails.              *)

\* An await of one call leaves everything else where it was.
LEMMA ProcessLedger ==
  ASSUME IInv, RowsExist, Line, LedgerLine, Clean, TablesFit,
         NEW w \in Workers, Process(w)
  PROVE  LedgerLine'
<1>1. /\ ProcessorStep(w) /\ CallOnLedger(w)
      /\ UNCHANGED <<polled, inbox, copies, taken>>
  BY DEF Process, LedgerLine
<1>2. /\ UNCHANGED <<msg, att>>
      /\ \A q \in Messages \ {msg[w]} :
           /\ rows'[q] = rows[q]
           /\ accepted'[q] = accepted[q]
           /\ Tried'[q] = Tried[q]
           /\ Closed(q)' <=> Closed(q)
      /\ CallOnLedger(w)'
      /\ \/ retries' = retries
         \/ /\ retries' = retries \cup {[message |-> msg[w],
                                         attempt |-> att[w] + 1]}
            /\ Due(msg[w], att[w] + 2)'
  BY <1>1, OwnLine
<1>3. /\ InCall(w) /\ msg[w] \in Messages /\ att[w] \in Nat
      /\ \A v \in Workers \ {w} : pc'[v] = pc[v]
      /\ pc[w] \notin Passed \/ pc[w] = "logRetry"
      /\ pc[w] = "logRetry" =>
           UNCHANGED <<rows, accepted, audit, dlqTopic, retries>>
  <2>1. InCall(w) /\ msg[w] \in Messages /\ \A v \in Workers \ {w} : pc'[v] = pc[v]
    BY <1>1, StepEffect DEF RowsExist
  <2>2. pc[w] \notin Passed \/ pc[w] = "logRetry"
    BY <1>1 DEF Passed, Results, ProcessorStep, Exists, SetNX, GetStatus, Send,
         MarkSent, SaveSuccess, Warm, LogSent, SaveFailed, MarkFailed,
         SaveDLQEntry, PublishDLQ, MarkPending, ScheduleRetry, LogRetry
  <2>3. pc[w] = "logRetry" =>
          UNCHANGED <<rows, accepted, audit, dlqTopic, retries>>
    BY <1>1 DEF ProcessorStep, Exists, SetNX, GetStatus, Send, MarkSent,
         SaveSuccess, Warm, LogSent, SaveFailed, MarkFailed, SaveDLQEntry,
         PublishDLQ, MarkPending, ScheduleRetry, LogRetry
  <2> QED
    BY <2>1, <2>2, <2>3, TypeParts DEF IInv, CallTypeOK
<1>4. \A q \in Messages : q # msg[w] \/ pc[w] = "logRetry" =>
        /\ rows'[q] = rows[q]
        /\ accepted'[q] = accepted[q]
        /\ Tried'[q] = Tried[q]
        /\ Closed(q)' <=> Closed(q)
  BY <1>2, <1>3, Unrecorded
<1>5. ASSUME NEW q \in Messages, q # msg[w] \/ pc[w] = "logRetry"
      PROVE  /\ Undecided(q)' <=> Undecided(q)
             /\ \A n : Due(q, n)' <=> Due(q, n)
  BY <1>4, <1>5, SameMessage
<1>6. ASSUME NEW v \in Workers, v # w
      PROVE  CallOnLedger(v)'
  <2>1. CallOnLedger(v) /\ pc'[v] = pc[v] /\ msg'[v] = msg[v] /\ att'[v] = att[v]
    BY <1>2, <1>3, <1>6 DEF LedgerLine
  <2>2. CASE ~InCall(v) \/ pc[v] \in Passed
    BY <2>1, <2>2 DEF CallOnLedger, Step, InCall, Passed, Results
  <2>3. CASE InCall(v) /\ pc[v] \notin Passed
    <3>1. msg[v] \in Messages /\ (msg[v] # msg[w] \/ pc[w] = "logRetry")
      BY <1>3, <1>6, <2>3, Alone, CallIsTyped DEF CallTypes, Line
    <3>2. /\ rows'[msg[v]] = rows[msg[v]]
          /\ Tried'[msg[v]] = Tried[msg[v]]
          /\ Closed(msg[v])' <=> Closed(msg[v])
          /\ Undecided(msg[v])' <=> Undecided(msg[v])
          /\ Due(msg[v], att[v])' <=> Due(msg[v], att[v])
      <4>1. PICK q \in Messages : q = msg[v] /\ (q # msg[w] \/ pc[w] = "logRetry")
        BY <3>1
      <4>2. PICK n : n = att[v]
        OBVIOUS
      <4>3. /\ rows'[q] = rows[q] /\ Tried'[q] = Tried[q]
            /\ Closed(q)' <=> Closed(q)
        BY <1>4, <4>1
      <4>4. /\ Undecided(q)' <=> Undecided(q)
            /\ Due(q, n)' <=> Due(q, n)
        BY <1>5, <4>1
      <4>5. msg'[v] = q /\ att'[v] = n
        BY <2>1, <4>1, <4>2
      <4> QED
        BY <2>1, <4>1, <4>2, <4>3, <4>4, <4>5 DEF Closed, Undecided, Due
    <3> QED
      BY <2>1, <3>2 DEF CallOnLedger, Step
  <2> QED
    BY <2>2, <2>3
<1>7. ASSUME NEW r, r.message \in Messages,
             r.message # msg[w] \/ pc[w] = "logRetry",
             Due(r.message, r.attempt + 1)
      PROVE  Due(r.message, r.attempt + 1)'
  <2>1. PICK q \in Messages : q = r.message
    BY <1>7
  <2>2. PICK n : n = r.attempt + 1
    OBVIOUS
  <2>3. Due(q, n)' <=> Due(q, n)
    BY <1>5, <1>7, <2>1
  <2> QED
    BY <1>7, <2>1, <2>2, <2>3
<1>8. ASSUME NEW r \in inbox, \A v \in Workers : taken[v] # r
      PROVE  Due(r.message, r.attempt + 1)'
  <2>1. r.message \in Messages
    BY TypeParts DEF IInv, LoopTypeOK, Record
  <2>2. r.message # msg[w] \/ pc[w] = "logRetry"
    BY <1>3, <1>8, Alone DEF Line
  <2> QED
    BY <1>7, <1>8, <2>1, <2>2 DEF LedgerLine
<1>9. ASSUME NEW r \in Waiting
      PROVE  Due(r.message, r.attempt + 1)'
  <2>1. r.message \in Messages
    BY <1>9, WaitingParts, TypeParts DEF IInv, StoreTypeOK, LoopTypeOK, PollTypeOK, Retry
  <2>2. r.message # msg[w] \/ pc[w] = "logRetry"
    BY <1>3, <1>9, Alone DEF Line
  <2> QED
    BY <1>7, <1>9, <2>1, <2>2 DEF LedgerLine
<1>10. ASSUME NEW r \in Waiting'
       PROVE  Due(r.message, r.attempt + 1)'
  <2> DEFINE next == [message |-> msg[w], attempt |-> att[w] + 1]
  <2>1. CASE r \in Waiting
    BY <1>9, <2>1
  <2>2. CASE r \notin Waiting
    <3>1. r = next /\ Due(msg[w], att[w] + 2)'
      BY <1>1, <1>2, <2>2 DEF Waiting
    <3>2. r.message = msg[w] /\ r.attempt + 1 = att[w] + 2
      BY <1>3, <3>1
    <3> QED
      BY <1>2, <3>1, <3>2
  <2> QED
    BY <2>1, <2>2
<1> QED
  BY <1>1, <1>2, <1>6, <1>8, <1>10 DEF LedgerLine

\* The steps around the calls write nothing of the ledger.
LEMMA SameStores ==
  ASSUME UNCHANGED <<rows, accepted, audit, dlqTopic>>
  PROVE  /\ \A m \in Messages : \A n : Due(m, n)' <=> Due(m, n)
         /\ \A w \in Workers :
              CallOnLedger(w) /\ pc'[w] = pc[w] /\ msg'[w] = msg[w]
                /\ att'[w] = att[w] => CallOnLedger(w)'
<1>1. /\ Tried' = Tried
      /\ \A q : /\ Closed(q)' <=> Closed(q)
                /\ Undecided(q)' <=> Undecided(q)
  BY DEF Tried, Closed, Undecided
<1>2. \A q, n : Due(q, n)' <=> Due(q, n)
  BY <1>1 DEF Due
<1>3. ASSUME NEW w \in Workers, CallOnLedger(w), pc'[w] = pc[w],
             msg'[w] = msg[w], att'[w] = att[w]
      PROVE  CallOnLedger(w)'
  <2>1. PICK q : q = msg[w]
    OBVIOUS
  <2>2. PICK n : n = att[w]
    OBVIOUS
  <2>3. /\ Closed(q)' <=> Closed(q)
        /\ Undecided(q)' <=> Undecided(q)
        /\ Due(q, n)' <=> Due(q, n)
    BY <1>1, <1>2
  <2>4. /\ Closed(msg[w])' <=> Closed(msg[w])
        /\ Undecided(msg[w])' <=> Undecided(msg[w])
        /\ Due(msg[w], att[w])' <=> Due(msg[w], att[w])
    BY <1>3, <2>1, <2>2, <2>3 DEF Closed, Undecided, Due
  <2> QED
    BY <1>1, <1>3, <2>4 DEF CallOnLedger, Step
<1> QED
  BY <1>2, <1>3

\* A record handed out for the first time is the attempt that is due.
LEMMA TakeLedger ==
  ASSUME IInv, Line, LedgerLine, NEW w \in Workers, NEW r \in inbox, Take(w, r),
         overlaps' = 0
  PROVE  LedgerLine'
<1>0. /\ pc \in [Workers -> {"idle"} \cup Awaits \cup Results]
      /\ msg \in [Workers -> Messages \cup {NoMessage}]
      /\ att \in [Workers -> Nat] /\ overlaps \in Nat
      /\ taken \in [Workers -> Record \cup {NoRecord}]
      /\ \A q \in inbox : q.message \in Messages
      /\ \A q \in Waiting : q.message \in Messages
  BY TypeParts, WaitingParts, BoundsAssumption
  DEF IInv, CallTypeOK, LoopTypeOK, PollTypeOK, StoreTypeOK, Record, Retry
<1>1. /\ \A v \in Workers : taken[v] # r
      /\ UNCHANGED <<rows, accepted, audit, dlqTopic, retries, polled, inbox>>
      /\ pc' = [pc EXCEPT ![w] = "exists"]
      /\ msg' = [msg EXCEPT ![w] = r.message]
      /\ att' = [att EXCEPT ![w] = r.attempt + 1]
      /\ taken' = [taken EXCEPT ![w] = r] /\ taken[w] = NoRecord
  <2>1. pc[w] = "idle"
    BY DEF Take, StartDelivery
  <2> QED
    BY <1>0, <2>1 DEF Take, StartDelivery, Line, Handling, CallsHoldRecords, InCall
<1>2. Due(r.message, r.attempt + 1)
  BY <1>1 DEF LedgerLine
<1>3. CallOnLedger(w)'
  <2>1. PICK q \in Messages : q = r.message
    BY <1>0
  <2>2. PICK n : n = r.attempt + 1
    OBVIOUS
  <2>3. Due(q, n)'
    BY <1>1, <1>2, <2>1, <2>2, SameStores
  <2>4. pc'[w] = "exists" /\ msg'[w] = q /\ att'[w] = n
    BY <1>0, <1>1, <2>1, <2>2
  <2>5. Due(msg[w], att[w])'
    BY <2>3, <2>4 DEF Due, Undecided, Closed
  <2> QED
    BY <2>4, <2>5 DEF CallOnLedger, Step
<1>4. ASSUME NEW v \in Workers, v # w PROVE CallOnLedger(v)'
  BY <1>0, <1>1, <1>4, SameStores DEF LedgerLine
<1>5. ASSUME NEW q \in inbox, \A v \in Workers : taken'[v] # q
      PROVE  Due(q.message, q.attempt + 1)'
  <2>1. \A v \in Workers : taken[v] # q
    <3>1. q # NoRecord
      BY <1>0, MessagesAssumption DEF NoRecord
    <3> QED
      BY <1>0, <1>1, <1>5, <3>1
  <2> QED
    BY <1>0, <1>1, <2>1, SameStores DEF LedgerLine
<1>6. ASSUME NEW q \in Waiting' PROVE Due(q.message, q.attempt + 1)'
  BY <1>0, <1>1, <1>6, SameStores DEF LedgerLine, Waiting
<1> QED
  BY <1>1, <1>3, <1>4, <1>5, <1>6 DEF LedgerLine

\* A call that ends takes its record along.
LEMMA FinishLedger ==
  ASSUME IInv, Line, LedgerLine, NEW w \in Workers, Finish(w)
  PROVE  LedgerLine'
<1>0. /\ pc \in [Workers -> {"idle"} \cup Awaits \cup Results]
      /\ msg \in [Workers -> Messages \cup {NoMessage}]
      /\ att \in [Workers -> Nat]
      /\ taken \in [Workers -> Record \cup {NoRecord}]
      /\ \A q \in inbox : q.message \in Messages
      /\ \A q \in Waiting : q.message \in Messages
  BY TypeParts, WaitingParts
  DEF IInv, CallTypeOK, LoopTypeOK, PollTypeOK, StoreTypeOK, Record, Retry
<1>1. /\ UNCHANGED <<rows, accepted, audit, dlqTopic, retries, polled>>
      /\ pc' = [pc EXCEPT ![w] = "idle"] /\ msg' = [msg EXCEPT ![w] = NoMessage]
      /\ att' = [att EXCEPT ![w] = 0] /\ inbox' = inbox \ {taken[w]}
      /\ taken' = [taken EXCEPT ![w] = NoRecord]
  BY DEF Finish, EndCall
<1>2. ASSUME NEW v \in Workers PROVE CallOnLedger(v)'
  <2>1. CASE v = w
    BY <1>0, <1>1, <2>1 DEF CallOnLedger, Step
  <2>2. CASE v # w
    BY <1>0, <1>1, <2>2, SameStores DEF LedgerLine
  <2> QED
    BY <2>1, <2>2
<1>3. ASSUME NEW q \in inbox', \A v \in Workers : taken'[v] # q
      PROVE  Due(q.message, q.attempt + 1)'
  <2>1. q \in inbox /\ \A v \in Workers : taken[v] # q
    BY <1>0, <1>1, <1>3
  <2> QED
    BY <1>0, <1>1, <2>1, SameStores DEF LedgerLine
<1>4. ASSUME NEW q \in Waiting' PROVE Due(q.message, q.attempt + 1)'
  BY <1>0, <1>1, <1>4, SameStores DEF LedgerLine, Waiting
<1> QED
  BY <1>2, <1>3, <1>4 DEF LedgerLine

\* A poll moves retries, and brings in none.
LEMMA RemoveLedger ==
  ASSUME IInv, LedgerLine, NEW p \in Pollers, RemoveRetries(p), overlaps' = 0
  PROVE  LedgerLine'
<1>0. /\ \A q \in inbox : q.message \in Messages
      /\ \A q \in Waiting : q.message \in Messages
  BY TypeParts, WaitingParts
  DEF IInv, LoopTypeOK, PollTypeOK, StoreTypeOK, Record, Retry
<1>1. /\ UNCHANGED <<rows, accepted, audit, dlqTopic, pc, msg, att, inbox, taken>>
      /\ Waiting' \subseteq Waiting
  BY RemoveMoves, TimerWaiting DEF IInv
<1>3. \A v \in Workers : CallOnLedger(v)'
  BY <1>1, SameStores DEF LedgerLine
<1>4. ASSUME NEW q \in inbox, \A v \in Workers : taken[v] # q
      PROVE  Due(q.message, q.attempt + 1)'
  BY <1>0, <1>1, <1>4, SameStores DEF LedgerLine
<1>5. ASSUME NEW q \in Waiting' PROVE Due(q.message, q.attempt + 1)'
  BY <1>0, <1>1, <1>5, SameStores DEF LedgerLine
<1> QED
  BY <1>1, <1>3, <1>4, <1>5 DEF LedgerLine

\* The record published for a retry is the attempt that was due.
LEMMA RepublishLedger ==
  ASSUME IInv, LedgerLine, NEW p \in Pollers, NEW r \in polled[p],
         RepublishRetry(p, r)
  PROVE  LedgerLine'
<1> DEFINE record == [message |-> r.message, attempt |-> r.attempt,
                      copy |-> copies + 1]
<1>0. /\ polled \in [Pollers -> SUBSET Retry]
      /\ \A q \in inbox : q.message \in Messages
      /\ \A q \in Waiting : q.message \in Messages
  BY TypeParts, WaitingParts DEF IInv, LoopTypeOK, PollTypeOK, StoreTypeOK, Record, Retry
<1>1. /\ UNCHANGED <<rows, accepted, audit, dlqTopic, pc, msg, att, retries, taken>>
      /\ \/ polled' = [polled EXCEPT ![p] = @ \ {r}]
         \/ polled' = [polled EXCEPT ![p] = {}]
      /\ inbox' = inbox \cup {record} \/ inbox' = inbox
  BY DEF RepublishRetry, Republish
<1>2. record.message = r.message /\ record.attempt = r.attempt
  OBVIOUS
<1> HIDE DEF record
<1>3. Waiting' \subseteq Waiting /\ r \in Waiting
  <2> SUFFICES ASSUME NEW q \in Waiting' PROVE q \in Waiting
    BY WaitingParts
  <2>1. q \in retries' \/ \E v \in Pollers : q \in polled'[v]
    BY DEF Waiting
  <2> QED
    BY <1>0, <1>1, <2>1, WaitingParts
<1>4. \A v \in Workers : CallOnLedger(v)'
  BY <1>1, SameStores DEF LedgerLine
<1>5. ASSUME NEW q \in inbox', \A v \in Workers : taken'[v] # q
      PROVE  Due(q.message, q.attempt + 1)'
  <2>1. CASE q \in inbox
    BY <1>0, <1>1, <1>5, <2>1, SameStores DEF LedgerLine
  <2>2. CASE q = record
    <3>1. q.message = r.message /\ q.attempt = r.attempt /\ r.message \in Messages
      BY <1>0, <1>2, <1>3, <2>2
    <3>2. Due(q.message, q.attempt + 1)
      BY <1>3, <3>1 DEF LedgerLine
    <3> QED
      BY <1>1, <3>1, <3>2, SameStores
  <2> QED
    BY <1>1, <1>5, <2>1, <2>2
<1>6. ASSUME NEW q \in Waiting' PROVE Due(q.message, q.attempt + 1)'
  BY <1>0, <1>1, <1>3, <1>6, SameStores DEF LedgerLine
<1> QED
  BY <1>4, <1>5, <1>6 DEF LedgerLine

-----------------------------------------------------------------------------
(* Every step is a step of the ledger or none.                              *)

\* Rows may change as long as their messages are open.
LEMMA SameOutcome ==
  ASSUME \A m \in Messages : /\ Closed(m)' <=> Closed(m)
                             /\ Closed(m) => rows'[m] = rows[m]
  PROVE  Outcome' = Outcome
BY DEF Outcome

\* What the ledger is mapped to is all that it sees.
LEMMA NothingForTheLedger ==
  ASSUME Tried' = Tried, Outcome' = Outcome, accepted' = accepted
  PROVE  UNCHANGED Ledger!ledger
BY DEF Ledger!ledger

\* Steps that write no store are none of the ledger's.
LEMMA StoresUnchanged ==
  ASSUME UNCHANGED <<rows, accepted, audit, dlqTopic>>
  PROVE  UNCHANGED Ledger!ledger
<1>1. Tried' = Tried /\ Outcome' = Outcome
  BY DEF Tried, Outcome, Closed
<1> QED
  BY <1>1, NothingForTheLedger

\* The number of an attempt that is due is the next one on the ledger.
LEMMA DueIsNext ==
  ASSUME NEW m \in Messages, NEW n \in Nat, ~Closed(m), n >= 1,
         Tried \in [Messages -> SUBSET Nat],
         \A k \in Tried[m] : k < n,
         \/ Tried[m] = {} /\ n = 1
         \/ n - 2 \in Tried[m] /\ n - 2 < MaxAttempts
  PROVE  n \in 1 .. MaxAttempts + 2 /\ Ledger!IsNext(m, n)
<1>1. Outcome[m] = "open"
  BY DEF Outcome
<1>2. n \notin Tried[m]
  OBVIOUS
<1>3. CASE Tried[m] = {} /\ n = 1
  BY <1>1, <1>3, MaxAttemptsAssumption DEF Ledger!IsNext
<1>4. CASE n - 2 \in Tried[m] /\ n - 2 < MaxAttempts
  <2>1. PICK k \in Tried[m] : k = n - 2
    BY <1>4
  <2>2. k \in Nat /\ k < MaxAttempts /\ n = k + 2
    BY <1>4, <2>1
  <2> QED
    BY <1>1, <1>2, <2>1, <2>2, MaxAttemptsAssumption DEF Ledger!IsNext
<1> QED
  BY <1>3, <1>4

\* An await of a call is a step of the ledger at its message, or none.
LEMMA ProcessRefines ==
  ASSUME IInv, RowsExist, Clean, TablesFit, NEW w \in Workers,
         CallOnLedger(w), ProcessorStep(w)
  PROVE  Ledger!Next \/ UNCHANGED Ledger!ledger
<1>0. InCall(w)
  BY DEF InCall, ProcessorStep, Exists, SetNX, GetStatus, Send, MarkSent,
         SaveSuccess, Warm, LogSent, SaveFailed, MarkFailed, SaveDLQEntry,
         PublishDLQ, MarkPending, ScheduleRetry, LogRetry
<1>1. CallTypes(w) /\ rows[msg[w]] # Absent
  BY <1>0, CallIsTyped
<1>2. /\ msg[w] \in Messages /\ att[w] \in Nat /\ att[w] >= 1
      /\ accepted \in [Messages -> Nat]
      /\ Tried \in [Messages -> SUBSET Nat] /\ MaxAttempts \in Nat
  BY <1>1, TriedNumbers, MaxAttemptsAssumption DEF CallTypes
<1>m. PICK m \in Messages : m = msg[w]
  BY <1>2
<1>3. CASE Exists(w) \/ SetNX(w) \/ GetStatus(w)
  <2>1. Due(msg[w], att[w])
    BY <1>3 DEF CallOnLedger, Step, Exists, SetNX, GetStatus
  <2> QED
    BY <1>1, <1>3, <2>1, SilentStep, StoresUnchanged
<1>4. CASE Send(w)
  <2>1. Due(msg[w], att[w])
    BY <1>4 DEF CallOnLedger, Step, Send
  <2>2. /\ UNCHANGED <<rows, audit, dlqTopic, retries, msg, att>>
        /\ \A q \in Messages \ {msg[w]} : accepted'[q] = accepted[q]
        /\ \/ accepted'[msg[w]] = accepted[msg[w]] + 1
           \/ accepted' = accepted
    BY <1>1, <1>4, SendStep
  <2>3. CASE accepted' = accepted
    BY <2>2, <2>3, StoresUnchanged
  <2>4. CASE accepted'[msg[w]] = accepted[msg[w]] + 1
    <3>1. Tried' = Tried /\ Outcome' = Outcome
      BY <2>2 DEF Tried, Outcome, Closed
    <3>2. accepted[msg[w]] = 0 /\ att[w] \in 1 .. MaxAttempts + 2
          /\ Ledger!IsNext(msg[w], att[w])
      BY <1>2, <2>1, DueIsNext DEF Due, Undecided
    <3>3. accepted' = [accepted EXCEPT ![msg[w]] = 1]
      BY <1>2, <1>4, <2>2, <2>4, <3>2 DEF Send
    <3> QED
      BY <1>m, <3>1, <3>2, <3>3 DEF Ledger!Next, Ledger!Step, Ledger!Accept
  <2> QED
    BY <2>2, <2>3, <2>4
<1>5. CASE MarkSent(w) \/ MarkFailed(w) \/ MarkPending(w)
  <2>1. /\ UNCHANGED <<accepted, audit, dlqTopic>>
        /\ \A q \in Messages \ {msg[w]} : rows'[q] = rows[q]
    BY <1>1, <1>5, MarkStep
  <2>2. Tried' = Tried /\ \A q \in Messages : Closed(q)' <=> Closed(q)
    BY <2>1, Unrecorded
  <2>3. ~Closed(msg[w])
    BY <1>5 DEF CallOnLedger, Step, Undecided, MarkSent, MarkFailed, MarkPending
  <2>4. Outcome' = Outcome
    BY <2>1, <2>2, <2>3, SameOutcome
  <2> QED
    BY <2>1, <2>2, <2>4, NothingForTheLedger
<1>6. CASE SaveSuccess(w)
  <2>1. /\ UNCHANGED <<rows, accepted>> /\ pc[w] = "saveSuccess"
        /\ Tried' = [Tried EXCEPT ![msg[w]] = Tried[msg[w]] \cup {att[w]}]
        /\ \A q \in Messages : Closed(q)' <=> Closed(q) \/ q = msg[w]
    BY <1>1, <1>6, RecordStep DEF SaveSuccess
  <2>2. ~Closed(msg[w]) /\ rows[msg[w]].status = "SENT"
    BY <2>1 DEF CallOnLedger, Step
  <2>3. Outcome' = [Outcome EXCEPT ![msg[w]] = "SENT"]
    BY <1>2, <2>1, <2>2 DEF Outcome
  <2>4. att[w] \in 1 .. MaxAttempts + 2 /\ Ledger!IsNext(msg[w], att[w])
    BY <1>2, <2>1, DueIsNext DEF CallOnLedger, Step
  <2>5. accepted[msg[w]] > 0
    BY <2>1 DEF IInv, CallInv, AcceptedBeforeRecorded, Step
  <2> QED
    BY <1>2, <1>m, <2>1, <2>3, <2>4, <2>5
    DEF Ledger!Next, Ledger!Step, Ledger!Succeed, Ledger!Record
<1>7. CASE SaveFailed(w)
  <2>1. /\ UNCHANGED <<rows, accepted>> /\ pc[w] = "saveFailed"
        /\ Tried' = [Tried EXCEPT ![msg[w]] = Tried[msg[w]] \cup {att[w]}]
        /\ \A q \in Messages : Closed(q)' <=> Closed(q)
    BY <1>1, <1>7, RecordStep DEF SaveFailed
  <2>2. Due(msg[w], att[w])
    BY <2>1 DEF CallOnLedger, Step
  <2>3. Outcome' = Outcome
    BY <2>1, SameOutcome
  <2>4. /\ att[w] \in 1 .. MaxAttempts + 2 /\ Ledger!IsNext(msg[w], att[w])
        /\ accepted[msg[w]] = 0
    BY <1>2, <2>2, DueIsNext DEF Due, Undecided
  <2>5. accepted[msg[w]] = 0 /\ UNCHANGED <<accepted, Outcome>>
    BY <2>1, <2>3, <2>4
  <2>6. \E n \in 1 .. MaxAttempts + 2 :
          Ledger!IsNext(m, n) /\ Ledger!Record(m, n)
    BY <1>m, <2>1, <2>4 DEF Ledger!Record
  <2> QED
    BY <1>m, <2>5, <2>6 DEF Ledger!Next, Ledger!Step, Ledger!Fail
<1>8. CASE SaveDLQEntry(w)
  BY <1>1, <1>8, LeaveStep, StoresUnchanged DEF SaveDLQEntry
<1>9. CASE PublishDLQ(w)
  <2>1. /\ UNCHANGED <<rows, accepted, audit>> /\ pc[w] = "publishDLQ"
        /\ dlqTopic' = dlqTopic \cup {msg[w]}
    BY <1>1, <1>9, LeaveStep DEF PublishDLQ
  <2>2. Tried' = Tried /\ \A q \in Messages : Closed(q)' <=> Closed(q) \/ q = msg[w]
    BY <1>2, <2>1, Buried
  <2>3. /\ ~Closed(msg[w]) /\ accepted[msg[w]] = 0
        /\ rows[msg[w]].status = "FAILED"
    BY <2>1 DEF CallOnLedger, Step, Undecided
  <2>4. Outcome' = [Outcome EXCEPT ![msg[w]] = "FAILED"] /\ Outcome[msg[w]] = "open"
    BY <1>2, <2>1, <2>2, <2>3 DEF Outcome
  <2>5. att[w] \in Tried[msg[w]] /\ att[w] >= MaxAttempts
    BY <1>0, <2>1, FailedIsTried
  <2>6. accepted[m] = 0 /\ UNCHANGED <<Tried, accepted>>
    BY <1>m, <2>1, <2>2, <2>3
  <2>7. Outcome' = [Outcome EXCEPT ![m] = "FAILED"] /\ Outcome[m] = "open"
    BY <1>m, <2>4
  <2>8. \E n \in Tried[m] : n >= MaxAttempts
    BY <1>m, <2>5
  <2> QED
    BY <2>6, <2>7, <2>8 DEF Ledger!Next, Ledger!Step, Ledger!Bury
<1>10. CASE ScheduleRetry(w)
  BY <1>1, <1>10, LeaveStep, StoresUnchanged DEF ScheduleRetry
<1>11. CASE Warm(w) \/ LogSent(w) \/ LogRetry(w)
  BY <1>1, <1>11, AfterStep, StoresUnchanged
<1> QED
  BY <1>3, <1>4, <1>5, <1>6, <1>7, <1>8, <1>9, <1>10, <1>11 DEF ProcessorStep

-----------------------------------------------------------------------------
\* Initial states are initial on the ledger.
LEMMA InitMaps == Init => Ledger!Init
<1> SUFFICES ASSUME Init PROVE Ledger!Init
  OBVIOUS
<1>1. audit = {} /\ dlqTopic = {} /\ accepted = [m \in Messages |-> 0]
  BY DEF Init, ProcessorInit
<1>2. Tried = [m \in Messages |-> {}] /\ Outcome = [m \in Messages |-> "open"]
  BY <1>1 DEF Tried, Outcome, Closed
<1> QED
  BY <1>1, <1>2 DEF Ledger!Init

\* Before anything ran every message is due its first attempt.
LEMMA InitLedger == Init => OnLedger
<1> SUFFICES ASSUME Init PROVE LedgerLine
  BY DEF OnLedger, LedgerLine
<1> USE DEF Init, ProcessorInit, PollInit
<1>1. \A w \in Workers : CallOnLedger(w)
  BY DEF CallOnLedger, Step
<1>2. Waiting = {}
  BY DEF Waiting
<1>3. ASSUME NEW r \in inbox PROVE Due(r.message, r.attempt + 1)
  <2>1. r.message \in Messages /\ r.attempt = 0
    BY <1>3
  <2>2. Tried[r.message] = {}
    BY <2>1 DEF Tried
  <2> QED
    BY <2>1, <2>2 DEF Due, Undecided, Closed
<1> QED
  BY <1>1, <1>2, <1>3 DEF LedgerLine

\* As long as nothing else fails every step keeps the lines on the ledger,
\* and is a step of the ledger or none.
LEMMA NextLedger ==
  ASSUME TablesFit
  PROVE  IInv /\ LineInv /\ OnLedger /\ [Next]_vars =>
           /\ OnLedger'
           /\ faults' = 0 /\ overlaps' = 0 /\ crashes' = 0 =>
                [Ledger!Next]_(Ledger!ledger)
<1> SUFFICES ASSUME IInv, RowsExist, Undisturbed => Line,
                    faults = 0 /\ Undisturbed => LedgerLine, [Next]_vars,
                    faults' = 0, overlaps' = 0, crashes' = 0
             PROVE  LedgerLine' /\ [Ledger!Next]_(Ledger!ledger)
  BY LineInvParts DEF OnLedger, LedgerLine, Undisturbed
<1>0. /\ faults \in Nat /\ overlaps \in Nat /\ crashes \in Nat
      /\ \A w \in Workers : InCall(w) => msg[w] \in Messages
  BY TypeParts, BoundsAssumption, MaxFaultsAssumption
  DEF IInv, LoopTypeOK, FaultTypeOK, CallTypeOK, CallsAreFilled
<1>1. ASSUME NEW w \in Workers, Process(w)
      PROVE  LedgerLine' /\ [Ledger!Next]_(Ledger!ledger)
  <2>1. faults' = faults \/ faults' = faults + 1
    BY <1>1 DEF Process, ProcessorStep, Exists, SetNX, GetStatus, Send, MarkSent,
         SaveSuccess, Warm, LogSent, SaveFailed, MarkFailed, SaveDLQEntry,
         PublishDLQ, MarkPending, ScheduleRetry, LogRetry, Write, Answers, Fault
  <2>2. Clean /\ Line /\ LedgerLine
    BY <1>0, <1>1, <2>1 DEF Process, Clean, Undisturbed
  <2>3. LedgerLine'
    BY <1>1, <2>2, ProcessLedger
  <2>4. Ledger!Next \/ UNCHANGED Ledger!ledger
    BY <1>1, <2>2, ProcessRefines DEF Process, LedgerLine
  <2> QED
    BY <2>3, <2>4
<1>2. ASSUME NEW w \in Workers, NEW r \in inbox, Take(w, r)
      PROVE  LedgerLine' /\ [Ledger!Next]_(Ledger!ledger)
  <2>1. /\ overlaps' = overlaps \/ overlaps' = overlaps + 1
        /\ UNCHANGED <<rows, accepted, audit, dlqTopic, faults, crashes>>
    BY <1>2 DEF Take
  <2>2. Line /\ LedgerLine
    BY <1>0, <2>1 DEF Undisturbed
  <2> QED
    BY <1>2, <2>1, <2>2, TakeLedger, StoresUnchanged
<1>3. ASSUME NEW w \in Workers, Finish(w)
      PROVE  LedgerLine' /\ [Ledger!Next]_(Ledger!ledger)
  <2>1. UNCHANGED <<rows, accepted, audit, dlqTopic, faults, overlaps, crashes>>
    BY <1>3 DEF Finish
  <2>2. Line /\ LedgerLine
    BY <2>1 DEF Undisturbed
  <2> QED
    BY <1>3, <2>1, <2>2, FinishLedger, StoresUnchanged
<1>4. ASSUME NEW p \in Pollers, RemoveRetries(p)
      PROVE  LedgerLine' /\ [Ledger!Next]_(Ledger!ledger)
  <2>1. /\ UNCHANGED <<rows, accepted, audit, dlqTopic, crashes>>
        /\ overlaps = 0
        /\ faults' = faults \/ faults' = faults + 1
    BY <1>4, RemoveMoves DEF IInv, Fault
  <2>2. LedgerLine
    BY <1>0, <2>1 DEF Undisturbed
  <2> QED
    BY <1>4, <2>1, <2>2, RemoveLedger, StoresUnchanged
<1>5. ASSUME NEW p \in Pollers, NEW r \in polled[p], RepublishRetry(p, r)
      PROVE  LedgerLine' /\ [Ledger!Next]_(Ledger!ledger)
  <2>1. /\ UNCHANGED <<rows, accepted, audit, dlqTopic, overlaps, crashes>>
        /\ faults' = faults \/ faults' = faults + 1
    BY <1>5 DEF RepublishRetry, Republish, Fault
  <2>2. LedgerLine
    BY <1>0, <2>1 DEF Undisturbed
  <2> QED
    BY <1>5, <2>1, <2>2, RepublishLedger, StoresUnchanged
<1>6. ASSUME NEW w \in Workers, Crash(w)
      PROVE  LedgerLine' /\ [Ledger!Next]_(Ledger!ledger)
  BY <1>0, <1>6 DEF Crash
<1>7. CASE Quiet
  <2>1. /\ UNCHANGED <<rows, accepted, audit, dlqTopic, faults, overlaps, crashes>>
        /\ UNCHANGED <<pc, msg, att, inbox, taken, retries, polled>>
    BY <1>7 DEF Quiet
  <2>2. LedgerLine
    BY <2>1 DEF Undisturbed
  <2>3. /\ \A r \in inbox : r.message \in Messages
        /\ \A r \in Waiting : r.message \in Messages
        /\ Waiting' = Waiting
    <3>1. Waiting' = Waiting
      BY <2>1 DEF Waiting
    <3> QED
      BY <3>1, TypeParts, WaitingParts
      DEF IInv, LoopTypeOK, PollTypeOK, StoreTypeOK, Record, Retry
  <2>4. LedgerLine'
    BY <2>1, <2>2, <2>3, SameStores DEF LedgerLine
  <2> QED
    BY <2>1, <2>4, StoresUnchanged
<1> QED
  BY <1>1, <1>2, <1>3, <1>4, <1>5, <1>6, <1>7, ReadIsQuiet
  DEF Next, Work, Timer

\* Where the tables fit the statements, every line of processing stays on the
\* ledger until something other than a provider fails or two polls publish
\* one retry.
THEOREM OnLedgerHolds ==
  ASSUME TablesFit
  PROVE  Spec => []OnLedger
<1>1. IInv /\ LineInv /\ OnLedger /\ [Next]_vars => OnLedger'
  BY NextLedger
<1> QED
  BY <1>1, InitLedger, Inductive, LineIsKept, PTL DEF Spec

\* Until the first failed call, rebalance, crash or retry published by two
\* polls, every step of processor, retry loop and consumer is a step of
\* DeliveryLedger or none: attempts come in order and stop at MAX_ATTEMPTS, a
\* message is accepted at most once, and its outcome is decided once, by what
\* the providers did.
THEOREM LedgerStepHolds ==
  ASSUME TablesFit
  PROVE  Spec => LedgerStep
<1>1. IInv /\ LineInv /\ OnLedger /\ [Next]_vars =>
        [faults' = 0 /\ overlaps' = 0 /\ crashes' = 0 =>
           [Ledger!Next]_(Ledger!ledger)]_vars
  BY NextLedger
<1> QED
  BY <1>1, OnLedgerHolds, Inductive, LineIsKept, PTL DEF Spec, LedgerStep

\* The refinement: every behaviour in which nothing but providers fails and no
\* two polls publish one retry is one of the ledger, whatever the bounds on
\* failures allow other behaviours.
THEOREM ImplementsLedger ==
  ASSUME TablesFit
  PROVE  Spec /\ [](faults = 0 /\ Undisturbed) => Ledger!Spec
<1>1. /\ [faults' = 0 /\ overlaps' = 0 /\ crashes' = 0 =>
            [Ledger!Next]_(Ledger!ledger)]_vars
      /\ (faults = 0 /\ Undisturbed)'
      => [Ledger!Next]_(Ledger!ledger)
  <2>1. UNCHANGED vars => UNCHANGED <<rows, accepted, audit, dlqTopic>>
    BY DEF vars
  <2> QED
    BY <2>1, StoresUnchanged DEF Undisturbed
<1>2. Spec => LedgerStep /\ Ledger!Init
  BY LedgerStepHolds, InitMaps DEF Spec
<1> QED
  BY <1>1, <1>2, PTL DEF LedgerStep, Ledger!Spec

\* A step of the ledger keeps outcomes true.
LEMMA LedgerStaysTrue ==
  ASSUME IInv, Ledger!OutcomeIsTrue, [Ledger!Next]_(Ledger!ledger)
  PROVE  Ledger!OutcomeIsTrue'
<1>1. /\ accepted \in [Messages -> Nat] /\ Tried \in [Messages -> SUBSET Nat]
      /\ Outcome = [m \in Messages |-> Outcome[m]]
  BY TypeParts, TriedNumbers DEF IInv, StoreTypeOK, Outcome
<1> USE DEF Ledger!OutcomeIsTrue
<1>2. CASE UNCHANGED Ledger!ledger
  BY <1>2 DEF Ledger!ledger
<1>3. ASSUME NEW m \in Messages, Ledger!Accept(m) PROVE Ledger!OutcomeIsTrue'
  BY <1>1, <1>3 DEF Ledger!Accept, Ledger!IsNext
<1>4. ASSUME NEW m \in Messages, Ledger!Succeed(m) PROVE Ledger!OutcomeIsTrue'
  BY <1>1, <1>4 DEF Ledger!Succeed, Ledger!IsNext, Ledger!Record
<1>5. ASSUME NEW m \in Messages, Ledger!Fail(m) PROVE Ledger!OutcomeIsTrue'
  BY <1>1, <1>5 DEF Ledger!Fail, Ledger!IsNext, Ledger!Record
<1>6. ASSUME NEW m \in Messages, Ledger!Bury(m) PROVE Ledger!OutcomeIsTrue'
  BY <1>1, <1>6 DEF Ledger!Bury
<1> QED
  BY <1>2, <1>3, <1>4, <1>5, <1>6 DEF Ledger!Next, Ledger!Step

\* What has failed stays failed.
LEMMA FailuresLast ==
  ASSUME IInv, [Next]_vars, faults' = 0, overlaps' = 0, crashes' = 0
  PROVE  faults = 0 /\ Undisturbed
<1>1. faults \in Nat /\ overlaps \in Nat /\ crashes \in Nat
  BY TypeParts, BoundsAssumption, MaxFaultsAssumption
  DEF IInv, LoopTypeOK, FaultTypeOK
<1>2. ASSUME NEW w \in Workers, Process(w) PROVE faults = 0 /\ Undisturbed
  BY <1>1, <1>2, StepMoves DEF Process, Fault, Undisturbed
<1>3. ASSUME NEW w \in Workers, ~Process(w), Work(w) \/ Crash(w)
      PROVE  faults = 0 /\ Undisturbed
  BY <1>1, <1>3 DEF Work, Take, Finish, Crash, Undisturbed
<1>5. ASSUME NEW p \in Pollers, Timer(p)
      PROVE  faults = 0 /\ Undisturbed
  BY <1>1, <1>5, TimerFrame DEF IInv, Fault, Undisturbed
<1>4. CASE UNCHANGED vars
  BY <1>4 DEF vars, Undisturbed
<1> QED
  BY <1>2, <1>3, <1>4, <1>5 DEF Next

\* What the ledger promises of its outcomes the cycle keeps, until something
\* other than a provider fails or two polls publish one retry: no message is
\* accepted twice, one closed as SENT was accepted, one closed as FAILED was
\* not and used its attempts up.
THEOREM OutcomeIsTrueHolds ==
  ASSUME TablesFit
  PROVE  Spec => [](faults = 0 /\ Undisturbed => Ledger!OutcomeIsTrue)
<1> DEFINE True == faults = 0 /\ Undisturbed => Ledger!OutcomeIsTrue
<1>1. Init => True
  BY InitMaps DEF Ledger!Init, Ledger!OutcomeIsTrue
<1>2. IInv /\ LineInv /\ OnLedger /\ [Next]_vars /\ True => True'
  <2> SUFFICES ASSUME IInv, LineInv, OnLedger, [Next]_vars, True,
                      faults' = 0, Undisturbed'
               PROVE  Ledger!OutcomeIsTrue'
    OBVIOUS
  <2>1. [Ledger!Next]_(Ledger!ledger)
    BY NextLedger DEF Undisturbed
  <2>2. faults = 0 /\ Undisturbed
    BY FailuresLast DEF Undisturbed
  <2> QED
    BY <2>1, <2>2, LedgerStaysTrue
<1> HIDE DEF True
<1>3. Spec => []True
  BY <1>1, <1>2, Inductive, LineIsKept, OnLedgerHolds, PTL DEF Spec
<1> QED
  BY <1>3, PTL DEF True

-----------------------------------------------------------------------------
(* SENT outlives crashes: one call for each first record, told by cache and *)
(* row.                                                                    *)

\* CachedInv of a state in which nothing but crashes has happened.
Cached == FirstRecords /\ SentIsCached /\ \A w \in Workers : CallMeetsSent(w)

\* Any other disturbance lasts.
LEMMA DisturbanceLasts ==
  ASSUME IInv, IInv', [Next]_vars, OnlyCrashes'
  PROVE  OnlyCrashes
<1>1. /\ faults \in Nat /\ faults' \in Nat /\ overlaps \in Nat
      /\ overlaps' \in Nat /\ copies \in Nat /\ copies' \in Nat
  BY BoundsAssumption, MaxFaultsAssumption
  DEF IInv, TypeOK, ProcessorTypeOK
<1>2. faults' >= faults /\ overlaps' >= overlaps /\ copies' >= copies
  <2>1. ASSUME NEW w \in Workers, Process(w)
        PROVE  faults' >= faults /\ overlaps' >= overlaps /\ copies' >= copies
    BY <1>1, <2>1, StepMoves DEF Process, Fault
  <2>2. ASSUME NEW w \in Workers, ~Process(w), Work(w) \/ Crash(w)
        PROVE  faults' >= faults /\ overlaps' >= overlaps /\ copies' >= copies
    BY <1>1, <2>2 DEF Work, Take, Finish, Crash
  <2>4. ASSUME NEW p \in Pollers, Timer(p)
        PROVE  faults' >= faults /\ overlaps' >= overlaps /\ copies' >= copies
    BY <1>1, <2>4, TimerFrame DEF IInv, Fault
  <2>3. CASE UNCHANGED vars
    BY <1>1, <2>3 DEF vars
  <2> QED BY <2>1, <2>2, <2>3, <2>4 DEF Next
<1> QED BY <1>1, <1>2 DEF OnlyCrashes

\* The awaits that a call for a SENT message can be at write neither its row
\* nor to a provider, whatever fails.
LEMMA SentIsLeft ==
  ASSUME IInv, Cached, NEW w \in Workers, ProcessorStep(w),
         NEW m \in Messages, rows[m].status = "SENT"
  PROVE  accepted'[m] = accepted[m] /\ rows'[m] = rows[m]
<1>0. /\ rows \in [Messages -> Row] /\ accepted \in [Messages -> Nat]
      /\ InCall(w) /\ CallMeetsSent(w)
  BY TypeParts, StepMoves DEF IInv, StoreTypeOK, Cached, InCall
<1>1. CASE msg[w] = m
  <2>1. pc[w] \in AfterSent
    BY <1>0, <1>1 DEF CallMeetsSent, Step
  <2>2. UNCHANGED <<rows, accepted>>
    BY <2>1 DEF AfterSent, Results, ProcessorStep, Exists, SetNX, GetStatus, Send,
                MarkSent, SaveSuccess, Warm, LogSent, SaveFailed, MarkFailed,
                SaveDLQEntry, PublishDLQ, MarkPending, ScheduleRetry, LogRetry
  <2> QED BY <2>2
<1>2. CASE msg[w] # m
  <2>1. CASE MarkSent(w) \/ MarkFailed(w) \/ MarkPending(w)
    BY <1>0, <1>2, <2>1 DEF MarkSent, MarkFailed, MarkPending, Write, SetStatus
  <2>2. CASE Send(w)
    BY <1>0, <1>2, <2>2 DEF Send
  <2>3. CASE UNCHANGED <<rows, accepted>>
    BY <2>3
  <2> QED
    BY <2>1, <2>2, <2>3
    DEF ProcessorStep, Exists, SetNX, GetStatus, SaveSuccess, Warm, LogSent,
        SaveFailed, SaveDLQEntry, PublishDLQ, ScheduleRetry, LogRetry
<1> QED BY <1>1, <1>2

\* An await, no call failing: what SENT rows and the cache know is kept.
LEMMA ProcessCached ==
  ASSUME IInv, RowsExist, Cached, TablesFit, Clean,
         NEW w \in Workers, Process(w)
  PROVE  Cached'
<1>0. /\ ProcessorStep(w) /\ UNCHANGED <<polled, inboxVars>>
      /\ FirstRecords /\ SentIsCached /\ CallMeetsSent(w) /\ ~Fault
  BY NoFaultWhenClean DEF Process, Cached
<1>1. InCall(w)
  BY <1>0, StepMoves DEF InCall
<1>2. CallTypes(w) /\ rows[msg[w]] # Absent /\ HasRow(msg[w])
  BY <1>1, CallIsTyped DEF HasRow
<1>3. att[w] = 1 /\ CallKey(w) = DedupKey[msg[w]]
  BY <1>0, <1>1 DEF FirstRecords, CallKey
<1> DEFINE m == msg[w]
           key == DedupKey[msg[w]]
<1>4. /\ UNCHANGED <<msg, att>> /\ delivered \subseteq delivered'
      /\ pc'[w] # "idle" /\ \A v \in Workers \ {w} : pc'[v] = pc[v]
      /\ \A q \in Messages \ {m} : rows'[q] = rows[q]
      /\ rows'[m].status = "SENT" =>
           rows'[m].finalDelivered /\ key \in delivered' /\ pc'[w] \in AfterSent
      /\ pc'[w] \in {"getStatus", "send", "markSent"} => key \in delivered'
  <2> USE <1>0, <1>2, <1>3
      DEF CallMeetsSent, Step, SentIsCached, CallTypes, Answers, Goto
  <2>1. CASE Exists(w)
    BY <2>1 DEF Exists, AfterSent
  <2>2. CASE SetNX(w)
    BY <2>2, <1>1 DEF SetNX, Write, AfterSent, Results
  <2>3. CASE GetStatus(w)
    <3>1. /\ pc[w] = "getStatus" /\ UNCHANGED <<storeVars, msg, att>>
          /\ pc' = [pc EXCEPT ![w] = IF rows[m].finalDelivered
                                     THEN "succeeded" ELSE "send"]
      BY <2>3 DEF GetStatus, TablesFit
    <3>2. key \in delivered
      BY <3>1
    <3>3. rows[m].status = "SENT" => rows[m].finalDelivered
      BY <1>2
    <3> QED BY <3>1, <3>2, <3>3 DEF AfterSent, Results
  <2>4. CASE Send(w)
    BY <2>4, <1>1 DEF Send, AfterSent, Results
  <2>5. CASE MarkSent(w) \/ MarkFailed(w) \/ MarkPending(w)
    <3>1. /\ UNCHANGED <<delivered, msg, att>>
          /\ \/ /\ MarkSent(w) /\ SetStatus(m, "SENT", TRUE)
                /\ pc[w] = "markSent" /\ pc' = [pc EXCEPT ![w] = "saveSuccess"]
             \/ /\ SetStatus(m, "FAILED", FALSE)
                /\ pc' = [pc EXCEPT ![w] = "saveDLQ"]
             \/ /\ SetStatus(m, "PENDING", FALSE)
                /\ pc' = [pc EXCEPT ![w] = "schedule"]
      BY <2>5 DEF MarkSent, MarkFailed, MarkPending, Write, TablesFit
    <3>2. \A status, final : SetStatus(m, status, final) =>
            /\ rows'[m].status = status /\ rows'[m].finalDelivered = final
            /\ \A q \in Messages \ {m} : rows'[q] = rows[q]
      BY <1>2 DEF SetStatus
    <3>3. pc'[w] # "idle" /\ \A v \in Workers \ {w} : pc'[v] = pc[v]
      BY <3>1
    <3>4. CASE SetStatus(m, "SENT", TRUE)
      <4>1. /\ \A q \in Messages \ {m} : rows'[q] = rows[q]
            /\ rows'[m].status = "SENT" /\ rows'[m].finalDelivered
        BY <3>2, <3>4
      <4>2. pc[w] = "markSent" /\ pc'[w] = "saveSuccess"
        BY <3>1, <4>1, <3>2
      <4> QED BY <3>1, <3>3, <4>1, <4>2 DEF AfterSent
    <3>5. ASSUME NEW status \in {"FAILED", "PENDING"},
                 SetStatus(m, status, FALSE),
                 pc'[w] \in {"saveDLQ", "schedule"}
          PROVE  /\ \A q \in Messages \ {m} : rows'[q] = rows[q]
                 /\ rows'[m].status # "SENT"
      BY <3>2, <3>5
    <3>6. CASE \E status \in {"FAILED", "PENDING"} :
                 SetStatus(m, status, FALSE) /\ pc'[w] \in {"saveDLQ", "schedule"}
      BY <3>1, <3>3, <3>5, <3>6
    <3>7. \/ SetStatus(m, "SENT", TRUE)
          \/ SetStatus(m, "FAILED", FALSE) /\ pc'[w] = "saveDLQ"
          \/ SetStatus(m, "PENDING", FALSE) /\ pc'[w] = "schedule"
      BY <3>1
    <3> QED BY <3>4, <3>6, <3>7
  <2>6. CASE SaveSuccess(w) \/ Warm(w) \/ LogSent(w)
    BY <2>6, <1>1 DEF SaveSuccess, Warm, LogSent, Write, TablesFit, AfterSent,
                      Results
  <2>7. CASE SaveFailed(w) \/ SaveDLQEntry(w) \/ PublishDLQ(w)
             \/ ScheduleRetry(w) \/ LogRetry(w)
    BY <2>7, <1>1 DEF SaveFailed, SaveDLQEntry, PublishDLQ, ScheduleRetry,
                      LogRetry, Write, TablesFit, AfterSent, Results
  <2> QED
    BY <2>1, <2>2, <2>3, <2>4, <2>5, <2>6, <2>7 DEF ProcessorStep
<1>5. FirstRecords'
  BY <1>0, <1>1, <1>4 DEF FirstRecords, InCall
<1>6. SentIsCached'
  BY <1>0, <1>4 DEF SentIsCached
<1>7. ASSUME NEW v \in Workers PROVE CallMeetsSent(v)'
  <2>1. CASE v = w
    BY <1>4, <2>1 DEF CallMeetsSent, Step
  <2>2. CASE v # w
    <3>1. InCall(v) => msg[v] \in Messages \ {m}
      BY <1>0, <1>1, <2>2, TypeParts
      DEF FirstRecords, IInv, CallTypeOK, CallsAreFilled
    <3> QED
      BY <1>4, <2>2, <3>1 DEF Cached, CallMeetsSent, Step, InCall
  <2> QED BY <2>1, <2>2
<1> QED BY <1>4, <1>5, <1>6, <1>7 DEF Cached

\* A record is handed out: to no two workers, so that no message has two calls.
LEMMA TakeCached ==
  ASSUME IInv, Cached, NEW w \in Workers, NEW r \in inbox, Take(w, r),
         overlaps' = 0
  PROVE  Cached'
<1>0. /\ FirstRecords /\ SentIsCached /\ \A v \in Workers : CallMeetsSent(v)
      /\ pc \in [Workers -> {"idle"} \cup Awaits \cup Results]
      /\ msg \in [Workers -> Messages \cup {NoMessage}]
      /\ att \in [Workers -> Nat] /\ overlaps \in Nat
      /\ taken \in [Workers -> Record \cup {NoRecord}] /\ inbox \subseteq Record
  BY TypeParts, BoundsAssumption DEF Cached, IInv, CallTypeOK, LoopTypeOK
<1>1. /\ \A v \in Workers : taken[v] # r
      /\ UNCHANGED <<rows, accepted, delivered, inbox>>
      /\ pc[w] = "idle" /\ pc' = [pc EXCEPT ![w] = "exists"]
      /\ msg' = [msg EXCEPT ![w] = r.message]
      /\ att' = [att EXCEPT ![w] = r.attempt + 1]
      /\ taken' = [taken EXCEPT ![w] = r]
  BY <1>0 DEF Take, StartDelivery
<1>2. \A q \in inbox : q.message = r.message => q = r
  <2>1. \A q \in inbox : /\ q = [message |-> q.message, attempt |-> q.attempt,
                                 copy |-> q.copy]
                         /\ q.attempt = 0 /\ q.copy = 0
    BY <1>0 DEF FirstRecords, Record
  <2> QED BY <2>1
<1>3. \A v \in Workers \ {w} : InCall(v) => msg[v] # r.message
  BY <1>0, <1>1, <1>2 DEF FirstRecords
<1>4. \A v \in Workers \ {w} : /\ pc'[v] = pc[v] /\ msg'[v] = msg[v]
                               /\ att'[v] = att[v] /\ taken'[v] = taken[v]
  BY <1>0, <1>1
<1>5. /\ pc'[w] = "exists" /\ msg'[w] = r.message /\ att'[w] = 1
      /\ taken'[w] = r
  BY <1>0, <1>1 DEF FirstRecords
<1>6. FirstRecords'
  BY <1>0, <1>1, <1>3, <1>4, <1>5 DEF FirstRecords, InCall
<1>7. SentIsCached'
  BY <1>0, <1>1 DEF SentIsCached
<1>8. \A v \in Workers : CallMeetsSent(v)'
  BY <1>0, <1>1, <1>4, <1>5 DEF CallMeetsSent, Step, InCall, AfterSent
<1> QED BY <1>1, <1>6, <1>7, <1>8 DEF Cached

\* A call ends, or its process dies, and others go on.
LEMMA LeaveCached ==
  ASSUME IInv, Cached, NEW w \in Workers, EndCall(w),
         taken' = [taken EXCEPT ![w] = NoRecord],
         inbox' = inbox \/ (inbox' = inbox \ {taken[w]} /\ InCall(w)),
         UNCHANGED <<rows, delivered>>
  PROVE  Cached'
<1>0. /\ FirstRecords /\ SentIsCached /\ \A v \in Workers : CallMeetsSent(v)
      /\ pc \in [Workers -> {"idle"} \cup Awaits \cup Results]
      /\ msg \in [Workers -> Messages \cup {NoMessage}]
      /\ att \in [Workers -> Nat]
      /\ taken \in [Workers -> Record \cup {NoRecord}]
  BY TypeParts DEF Cached, IInv, CallTypeOK, LoopTypeOK
<1>1. \A v \in Workers \ {w} : /\ pc'[v] = pc[v] /\ msg'[v] = msg[v]
                               /\ att'[v] = att[v] /\ taken'[v] = taken[v]
  BY <1>0 DEF EndCall
<1>2. pc'[w] = "idle" /\ taken'[w] = NoRecord
  BY <1>0 DEF EndCall
<1>3. \A v \in Workers \ {w} : InCall(v) => taken[v] \in inbox'
  BY <1>0 DEF FirstRecords
<1>4. FirstRecords'
  BY <1>0, <1>1, <1>2, <1>3 DEF FirstRecords, InCall
<1>5. SentIsCached'
  BY <1>0 DEF SentIsCached
<1>6. \A v \in Workers : CallMeetsSent(v)'
  BY <1>0, <1>1, <1>2 DEF CallMeetsSent, Step, InCall, AfterSent, Results
<1> QED BY <1>4, <1>5, <1>6 DEF Cached

\* Calls, records, rows and cache left alone.
LEMMA SameCached ==
  ASSUME Cached, UNCHANGED <<rows, delivered, pc, msg, att, inbox, taken>>
  PROVE  Cached'
BY DEF Cached, FirstRecords, SentIsCached, CallMeetsSent, Step, InCall

\* At first there is one record of each message, and no call.
LEMMA InitCached == Init => CachedInv
BY DEF Init, ProcessorInit, CachedInv, FirstRecords, SentIsCached,
       CallMeetsSent, Step, InCall

\* Every step keeps it.
LEMMA NextCached ==
  ASSUME TablesFit
  PROVE  IInv /\ IInv' /\ RowsExist /\ CachedInv /\ [Next]_vars => CachedInv'
<1> SUFFICES ASSUME IInv, IInv', RowsExist, CachedInv, [Next]_vars, OnlyCrashes'
             PROVE  Cached'
  BY DEF CachedInv, Cached
<1>0. Cached /\ Clean /\ overlaps' = 0 /\ copies' = 0 /\ copies = 0
  BY DisturbanceLasts DEF CachedInv, Cached, OnlyCrashes, Clean
<1>1. ASSUME NEW w \in Workers, NEW r \in inbox, Take(w, r)
      PROVE  Cached'
  BY <1>0, <1>1, TakeCached
<1>2. ASSUME NEW w \in Workers, Finish(w) \/ Crash(w)
      PROVE  Cached'
  <2>1. /\ EndCall(w) /\ taken' = [taken EXCEPT ![w] = NoRecord]
        /\ inbox' = inbox \/ (inbox' = inbox \ {taken[w]} /\ InCall(w))
        /\ UNCHANGED <<rows, delivered>>
    BY <1>2 DEF Finish, Crash, InCall, Results
  <2> QED BY <1>0, <2>1, LeaveCached
<1>3. ASSUME NEW p \in Pollers, Timer(p)
      PROVE  Cached'
  <2>1. UNCHANGED <<rows, delivered, pc, msg, att, taken, inbox>>
    BY <1>0, <1>3, TimerFrame DEF IInv
  <2> QED BY <1>0, <2>1, SameCached
<1>4. CASE UNCHANGED vars
  BY <1>0, <1>4, SameCached DEF vars
<1> QED
  BY <1>0, <1>1, <1>2, <1>3, <1>4, ProcessCached DEF Next, Work

\* From such a state no step sends a SENT message or takes its row back.
LEMMA NextLeavesSent ==
  IInv /\ CachedInv /\ [Next]_vars =>
    [\A m \in Messages : OnlyCrashes /\ rows[m].status = "SENT" =>
       accepted'[m] = accepted[m] /\ rows'[m] = rows[m]]_vars
<1> SUFFICES ASSUME IInv, CachedInv, Next, OnlyCrashes,
                    NEW m \in Messages, rows[m].status = "SENT"
             PROVE  accepted'[m] = accepted[m] /\ rows'[m] = rows[m]
  OBVIOUS
<1>1. Cached
  BY DEF CachedInv, Cached
<1>2. ASSUME NEW w \in Workers, Process(w)
      PROVE  accepted'[m] = accepted[m] /\ rows'[m] = rows[m]
  BY <1>1, <1>2, SentIsLeft DEF Process
<1>3. ASSUME NEW w \in Workers, Work(w) \/ Crash(w), ~Process(w)
      PROVE  UNCHANGED <<rows, accepted>>
  BY <1>3 DEF Work, Take, Finish, Crash
<1>4. ASSUME NEW p \in Pollers, Timer(p)
      PROVE  UNCHANGED <<rows, accepted>>
  BY <1>4, TimerFrame DEF IInv
<1> QED BY <1>2, <1>3, <1>4 DEF Next

\* Where the tables fit the statements, cache and row know of every message
\* that is SENT, and every call will be told, through any number of crashes.
THEOREM SentIsKnown ==
  ASSUME TablesFit
  PROVE  Spec => []CachedInv
<1>1. IInv /\ IInv' /\ LineInv /\ CachedInv /\ [Next]_vars => CachedInv'
  BY NextCached, LineInvParts
<1> QED
  BY <1>1, InitCached, Inductive, LineIsKept, PTL DEF Spec

\* However often workers die and records are handed out again, no provider
\* accepts a message that is SENT once more and no failed send takes SENT back.
THEOREM SentOutlivesCrashesHolds ==
  ASSUME TablesFit
  PROVE  Spec => SentOutlivesCrashes
<1>1. IInv /\ CachedInv /\ [Next]_vars =>
        [\A m \in Messages :
           OnlyCrashes /\ rows[m].status = "SENT" =>
             accepted'[m] = accepted[m] /\ rows'[m] = rows[m]]_vars
  BY NextLeavesSent
<1> QED
  BY <1>1, SentIsKnown, Inductive, PTL DEF Spec, SentOutlivesCrashes

-----------------------------------------------------------------------------
(* Acceptances, and what may lead to more of them, are owed to failures.   *)

\* What a finite set is mapped onto is finite and no larger.
LEMMA MappedIsNoLarger ==
  ASSUME NEW S, IsFiniteSet(S), NEW f, DOMAIN f = S, f = [x \in S |-> f[x]],
         NEW T, \A y \in T : \E x \in S : f[x] = y
  PROVE  IsFiniteSet(T) /\ Cardinality(T) <= Cardinality(S)
<1> DEFINE U == {f[x] : x \in S}
<1>1. f \in Surjection(S, U)
  BY DEF Surjection
<1>2. IsFiniteSet(U) /\ Cardinality(U) <= Cardinality(S)
  BY <1>1, FS_Surjection
<1>3. T \in SUBSET U
  OBVIOUS
<1>4. IsFiniteSet(T) /\ Cardinality(T) <= Cardinality(U)
  BY <1>2, <1>3, FS_Subset
<1>5. Cardinality(S) \in Nat /\ Cardinality(U) \in Nat /\ Cardinality(T) \in Nat
  BY <1>2, <1>4, FS_CardinalityType
<1> QED
  BY <1>2, <1>4, <1>5

\* A part of a finite set, without an element or with one more.
LEMMA PartIsNoLarger ==
  ASSUME NEW S, IsFiniteSet(S), NEW T
  PROVE  /\ T \subseteq S =>
              IsFiniteSet(T) /\ Cardinality(T) <= Cardinality(S)
         /\ \A y : T \subseteq S \cup {y} =>
              IsFiniteSet(T) /\ Cardinality(T) <= Cardinality(S) + 1
         /\ \A x \in S : T \subseteq S \ {x} =>
              IsFiniteSet(T) /\ Cardinality(T) + 1 <= Cardinality(S)
         /\ \A x \in S : \A y : T \subseteq (S \ {x}) \cup {y} =>
              IsFiniteSet(T) /\ Cardinality(T) <= Cardinality(S)
<1>0. Cardinality(S) \in Nat
  BY FS_CardinalityType
<1>1. ASSUME NEW U, IsFiniteSet(U), T \subseteq U
      PROVE  /\ IsFiniteSet(T) /\ Cardinality(T) <= Cardinality(U)
             /\ Cardinality(T) \in Nat /\ Cardinality(U) \in Nat
  BY <1>1, FS_Subset, FS_CardinalityType
<1>2. ASSUME NEW y, T \subseteq S \cup {y}
      PROVE  IsFiniteSet(T) /\ Cardinality(T) <= Cardinality(S) + 1
  <2>1. /\ IsFiniteSet(S \cup {y})
        /\ Cardinality(S \cup {y}) <= Cardinality(S) + 1
    BY <1>0, FS_AddElement
  <2> QED
    BY <1>0, <1>1, <1>2, <2>1
<1>3. ASSUME NEW x \in S
      PROVE  IsFiniteSet(S \ {x}) /\ Cardinality(S \ {x}) = Cardinality(S) - 1
  BY FS_RemoveElement
<1>4. ASSUME NEW x \in S, T \subseteq S \ {x}
      PROVE  IsFiniteSet(T) /\ Cardinality(T) + 1 <= Cardinality(S)
  <2>1. /\ IsFiniteSet(T) /\ Cardinality(T) <= Cardinality(S \ {x})
        /\ Cardinality(T) \in Nat
    BY <1>1, <1>3, <1>4
  <2> QED
    BY <1>0, <1>3, <2>1
<1>5. ASSUME NEW x \in S, NEW y, T \subseteq (S \ {x}) \cup {y}
      PROVE  IsFiniteSet(T) /\ Cardinality(T) <= Cardinality(S)
  <2> DEFINE U == S \ {x}
  <2>0. IsFiniteSet(U) /\ Cardinality(U) = Cardinality(S) - 1
    BY <1>3
  <2> HIDE DEF U
  <2>1. /\ IsFiniteSet(U \cup {y})
        /\ \/ Cardinality(U \cup {y}) = Cardinality(U)
           \/ Cardinality(U \cup {y}) = Cardinality(U) + 1
    BY <2>0, FS_AddElement
  <2>2. T \subseteq U \cup {y}
    BY <1>5 DEF U
  <2>3. /\ IsFiniteSet(T) /\ Cardinality(T) <= Cardinality(U \cup {y})
        /\ Cardinality(T) \in Nat /\ Cardinality(U \cup {y}) \in Nat
    BY <1>1, <2>1, <2>2
  <2> QED
    BY <1>0, <2>0, <2>1, <2>3
<1> QED
  BY <1>1, <1>2, <1>4, <1>5
\* Chances by their kind.
LEMMA ChancesByKind == \A m, x :
  x \in Chances(m) <=>
    \/ \E r \in inbox : /\ x = <<"record", r>> /\ r.message = m
                        /\ \A w \in Workers : taken[w] # r
    \/ \E w \in Workers : /\ x = <<"call", w>> /\ msg[w] = m
                          /\ pc[w] \in MaySchedule
    \/ \E r \in retries : x = <<"retry", r>> /\ r.message = m
    \/ \E p \in Pollers : \E r \in polled[p] :
         x = <<"polled", p, r>> /\ r.message = m
BY DEF Chances

\* The same after a step.
LEMMA ChancesByKindNext == \A m, x :
  x \in Chances(m)' <=>
    \/ \E r \in inbox' : /\ x = <<"record", r>> /\ r.message = m
                         /\ \A w \in Workers : taken'[w] # r
    \/ \E w \in Workers : /\ x = <<"call", w>> /\ msg'[w] = m
                          /\ pc'[w] \in MaySchedule
    \/ \E r \in retries' : x = <<"retry", r>> /\ r.message = m
    \/ \E p \in Pollers : \E r \in polled'[p] :
         x = <<"polled", p, r>> /\ r.message = m
BY DEF Chances

\* What an await of w may do to the acceptances and to what leads to them,
\* where the tables fit and the message has its row.
AwaitCounts(w) ==
  \/ /\ UNCHANGED <<accepted, retries>> /\ faults' >= faults
     /\ pc'[w] \in MaySchedule => pc[w] \in MaySchedule
  \/ UNCHANGED <<accepted, retries>> /\ faults' = faults + 1
  \/ /\ pc[w] \in MaySchedule /\ pc'[w] \notin MaySchedule
     /\ accepted' = [accepted EXCEPT ![msg[w]] = @ + 1]
     /\ UNCHANGED <<retries, faults>>
  \/ /\ pc[w] \in MaySchedule /\ pc'[w] \notin MaySchedule
     /\ \E n \in Nat :
          retries' \subseteq retries \cup {[message |-> msg[w], attempt |-> n]}
     /\ UNCHANGED accepted /\ faults' >= faults

\* Every await is of one of these kinds.
LEMMA StepCounts ==
  ASSUME TablesFit, CallTypeOK, FaultTypeOK, NEW w \in Workers, HasRow(msg[w]),
         ProcessorStep(w)
  PROVE  AwaitCounts(w)
<1> USE DEF AwaitCounts, MaySchedule, Answers, Goto, Write, CallTypeOK
<1>0. faults \in Nat /\ (Fault => faults' = faults + 1)
  BY MaxFaultsAssumption DEF Fault, FaultTypeOK
<1>1. CASE Exists(w) BY <1>0, <1>1 DEF Exists
<1>2. CASE SetNX(w) BY <1>0, <1>2 DEF SetNX
<1>3. CASE GetStatus(w) BY <1>0, <1>3 DEF GetStatus
<1>4. CASE Send(w) BY <1>0, <1>4 DEF Send
<1>5. CASE MarkSent(w) BY <1>0, <1>5 DEF MarkSent, TablesFit, SetStatus
<1>6. CASE SaveSuccess(w) BY <1>0, <1>6 DEF SaveSuccess, TablesFit
<1>7. CASE Warm(w) BY <1>0, <1>7 DEF Warm
<1>8. CASE LogSent(w) BY <1>0, <1>8 DEF LogSent
<1>9. CASE SaveFailed(w) BY <1>0, <1>9 DEF SaveFailed
<1>10. CASE MarkFailed(w) BY <1>0, <1>10 DEF MarkFailed, SetStatus
<1>11. CASE SaveDLQEntry(w) BY <1>0, <1>11 DEF SaveDLQEntry
<1>12. CASE PublishDLQ(w) BY <1>0, <1>12 DEF PublishDLQ
<1>13. CASE MarkPending(w) BY <1>0, <1>13 DEF MarkPending, SetStatus
<1>14. CASE ScheduleRetry(w)
  <2>1. att[w] + 1 \in Nat
    BY DEF CallTypeOK
  <2> QED
    BY <1>0, <1>14, <2>1 DEF ScheduleRetry
<1>15. CASE LogRetry(w) BY <1>0, <1>15 DEF LogRetry
<1> QED
  BY <1>1, <1>2, <1>3, <1>4, <1>5, <1>6, <1>7, <1>8, <1>9, <1>10, <1>11,
     <1>12, <1>13, <1>14, <1>15 DEF ProcessorStep

\* All that the counting needs to know of the types.
CountTypeOK == /\ accepted \in [Messages -> Nat]
               /\ Failures \in Nat

\* How the chances of m may change with the acceptances and the failures.
LEMMA OwedStays ==
  ASSUME NEW m \in Messages, CountTypeOK, CountTypeOK', Owed(m),
         \/ /\ Chances(m)' \subseteq Chances(m)
            /\ accepted'[m] = accepted[m] /\ Failures' >= Failures
         \/ /\ \E y : Chances(m)' \subseteq Chances(m) \cup {y}
            /\ accepted'[m] = accepted[m] /\ Failures' >= Failures + 1
         \/ /\ \E x \in Chances(m) : Chances(m)' \subseteq Chances(m) \ {x}
            /\ accepted'[m] = accepted[m] + 1 /\ Failures' >= Failures
         \/ /\ \E x \in Chances(m) : \E y :
                 Chances(m)' \subseteq (Chances(m) \ {x}) \cup {y}
            /\ accepted'[m] = accepted[m] /\ Failures' >= Failures
  PROVE  Owed(m)'
<1> DEFINE S == Chances(m)
           T == Chances(m)'
<1>1. /\ accepted[m] \in Nat /\ accepted'[m] \in Nat
      /\ Failures \in Nat /\ Failures' \in Nat
  BY DEF CountTypeOK
<1>2. IsFiniteSet(S) /\ accepted[m] + Cardinality(S) <= 1 + Failures
  BY DEF Owed
<1>3. Cardinality(S) \in Nat
  BY <1>2, FS_CardinalityType
<1> SUFFICES IsFiniteSet(T) /\ accepted'[m] + Cardinality(T) <= 1 + Failures'
  BY DEF Owed
<1>4. IsFiniteSet(T) => Cardinality(T) \in Nat
  BY FS_CardinalityType
<1> HIDE DEF S, T
<1>5. CASE T \subseteq S /\ accepted'[m] = accepted[m] /\ Failures' >= Failures
  <2>1. IsFiniteSet(T) /\ Cardinality(T) <= Cardinality(S)
    BY <1>2, <1>5, PartIsNoLarger
  <2> QED BY <1>1, <1>2, <1>3, <1>4, <1>5, <2>1
<1>6. CASE /\ \E y : T \subseteq S \cup {y}
           /\ accepted'[m] = accepted[m] /\ Failures' >= Failures + 1
  <2>1. IsFiniteSet(T) /\ Cardinality(T) <= Cardinality(S) + 1
    BY <1>2, <1>6, PartIsNoLarger
  <2> QED BY <1>1, <1>2, <1>3, <1>4, <1>6, <2>1
<1>7. CASE /\ \E x \in S : T \subseteq S \ {x}
           /\ accepted'[m] = accepted[m] + 1 /\ Failures' >= Failures
  <2>1. IsFiniteSet(T) /\ Cardinality(T) + 1 <= Cardinality(S)
    BY <1>2, <1>7, PartIsNoLarger
  <2> QED BY <1>1, <1>2, <1>3, <1>4, <1>7, <2>1
<1>8. CASE /\ \E x \in S : \E y : T \subseteq (S \ {x}) \cup {y}
           /\ accepted'[m] = accepted[m] /\ Failures' >= Failures
  <2>1. IsFiniteSet(T) /\ Cardinality(T) <= Cardinality(S)
    BY <1>2, <1>8, PartIsNoLarger
  <2> QED BY <1>1, <1>2, <1>3, <1>4, <1>8, <2>1
<1> QED
  BY <1>5, <1>6, <1>7, <1>8 DEF S, T

\* What the lemmas on the steps assume.
Counting == /\ StoreTypeOK /\ CallTypeOK /\ LoopTypeOK /\ FaultTypeOK
            /\ (StoreTypeOK /\ LoopTypeOK /\ FaultTypeOK)'
            /\ ChancesAreOwed

\* It gives the types to count with.
LEMMA CountingTypes ==
  ASSUME Counting
  PROVE  /\ CountTypeOK /\ CountTypeOK'
         /\ faults \in Nat /\ overlaps \in Nat /\ crashes \in Nat
         /\ faults' \in Nat /\ overlaps' \in Nat /\ crashes' \in Nat
<1>1. /\ faults \in Nat /\ overlaps \in Nat /\ crashes \in Nat
      /\ faults' \in Nat /\ overlaps' \in Nat /\ crashes' \in Nat
  BY MaxFaultsAssumption, BoundsAssumption DEF Counting, LoopTypeOK, FaultTypeOK
<1>2. accepted \in [Messages -> Nat] /\ accepted' \in [Messages -> Nat]
  BY DEF Counting, StoreTypeOK
<1>3. Failures \in Nat
  BY <1>1 DEF Failures
<1>4. Failures' \in Nat
  <2>1. \A i, j, k \in Nat : i + j + k \in Nat
    OBVIOUS
  <2> QED
    BY <1>1, <2>1 DEF Failures
<1> QED
  BY <1>1, <1>2, <1>3, <1>4 DEF CountTypeOK

\* An await of that kind keeps the count.
LEMMA AwaitOwed ==
  ASSUME Counting, NEW w \in Workers, AwaitCounts(w), msg[w] \in Messages,
         pc[w] # "idle", pc'[w] # "idle",
         \A v \in Workers \ {w} : pc'[v] = pc[v],
         UNCHANGED <<msg, polled, inboxVars>>
  PROVE  ChancesAreOwed'
<1>1. UNCHANGED <<msg, polled, inbox, taken, overlaps, crashes>>
  OBVIOUS
<1>2. IdleIsEmptyHanded'
  BY <1>1 DEF IdleIsEmptyHanded, InCall, Counting, ChancesAreOwed
<1>3. ASSUME NEW m \in Messages
      PROVE  Owed(m)'
  <2>0. /\ Owed(m) /\ CountTypeOK /\ CountTypeOK' /\ accepted \in [Messages -> Nat]
        /\ faults \in Nat /\ overlaps \in Nat /\ crashes \in Nat
        /\ faults' \in Nat /\ overlaps' \in Nat /\ crashes' \in Nat
    BY CountingTypes DEF Counting, ChancesAreOwed, CountTypeOK
  <2>1. Failures' >= Failures /\ (faults' = faults + 1 => Failures' >= Failures + 1)
    <3>1. faults' >= faults
      BY <2>0 DEF AwaitCounts
    <3>2. overlaps' = overlaps /\ crashes' = crashes
      BY <1>1
    <3>3. \A i, j, k, l \in Nat :
             /\ j >= i => j + k + l >= i + k + l
             /\ j = i + 1 => j + k + l >= i + k + l + 1
      OBVIOUS
    <3> QED
      BY <2>0, <3>1, <3>2, <3>3 DEF Failures
  <2>2. \A x \in Chances(m)' :
           \/ x \in Chances(m)
           \/ x = <<"call", w>> /\ pc'[w] \in MaySchedule
           \/ \E r \in retries' \ retries :
                x = <<"retry", r>> /\ r.message = m
    <3> SUFFICES ASSUME NEW x \in Chances(m)'
                 PROVE  \/ x \in Chances(m)
                        \/ x = <<"call", w>> /\ pc'[w] \in MaySchedule
                        \/ \E r \in retries' \ retries :
                             x = <<"retry", r>> /\ r.message = m
      OBVIOUS
    <3>1. CASE \E r \in inbox' : /\ x = <<"record", r>> /\ r.message = m
                                /\ \A v \in Workers : taken'[v] # r
      BY <1>1, <3>1, ChancesByKind
    <3>2. CASE \E v \in Workers : /\ x = <<"call", v>> /\ msg'[v] = m
                                 /\ pc'[v] \in MaySchedule
      BY <3>2, ChancesByKind
    <3>3. CASE \E r \in retries' : x = <<"retry", r>> /\ r.message = m
      BY <3>3, ChancesByKind
    <3>4. CASE \E v \in Pollers : \E r \in polled'[v] :
                 x = <<"polled", v, r>> /\ r.message = m
      BY <1>1, <3>4, ChancesByKind
    <3> QED
      BY <3>1, <3>2, <3>3, <3>4, ChancesByKindNext
  <2>3. m = msg[w] /\ pc[w] \in MaySchedule => <<"call", w>> \in Chances(m)
    BY ChancesByKind
  <2>4. <<"call", w>> \in Chances(m)' => pc'[w] \in MaySchedule /\ m = msg[w]
    BY ChancesByKindNext
  <2>5. CASE /\ UNCHANGED <<accepted, retries>> /\ faults' >= faults
             /\ pc'[w] \in MaySchedule => pc[w] \in MaySchedule
    <3>1. Chances(m)' \subseteq Chances(m)
      BY <2>2, <2>3, <2>4, <2>5
    <3> QED
      BY <2>0, <2>1, <2>5, <3>1, OwedStays
  <2>6. CASE UNCHANGED <<accepted, retries>> /\ faults' = faults + 1
    <3>1. Chances(m)' \subseteq Chances(m) \cup {<<"call", w>>}
      BY <2>2, <2>6
    <3> QED
      BY <2>0, <2>1, <2>6, <3>1, OwedStays
  <2>7. CASE /\ pc[w] \in MaySchedule /\ pc'[w] \notin MaySchedule
             /\ accepted' = [accepted EXCEPT ![msg[w]] = @ + 1]
             /\ UNCHANGED <<retries, faults>>
    <3>1. Chances(m)' \subseteq Chances(m) \ {<<"call", w>>}
      BY <2>2, <2>4, <2>7
    <3>2. CASE m = msg[w]
      <4>1. accepted'[m] = accepted[m] + 1
        BY <2>0, <2>7, <3>2
      <4> QED
        BY <2>0, <2>1, <2>3, <2>7, <3>1, <3>2, <4>1, OwedStays
    <3>3. CASE m # msg[w]
      <4>1. accepted'[m] = accepted[m] /\ Chances(m)' \subseteq Chances(m)
        BY <2>0, <2>7, <3>1, <3>3
      <4> QED
        BY <2>0, <2>1, <4>1, OwedStays
    <3> QED
      BY <3>2, <3>3
  <2>8. CASE /\ pc[w] \in MaySchedule /\ pc'[w] \notin MaySchedule
             /\ \E n \in Nat :
                  retries' \subseteq retries \cup {[message |-> msg[w], attempt |-> n]}
             /\ UNCHANGED accepted /\ faults' >= faults
    <3>1. PICK n \in Nat :
             retries' \subseteq retries \cup {[message |-> msg[w], attempt |-> n]}
      BY <2>8
    <3> DEFINE q == [message |-> msg[w], attempt |-> n]
    <3>2. q.message = msg[w]
      OBVIOUS
    <3> HIDE DEF q
    <3>3. \A r \in retries' \ retries : r = q
      BY <3>1 DEF q
    <3>4. CASE m = msg[w]
      <4>1. Chances(m)' \subseteq (Chances(m) \ {<<"call", w>>}) \cup {<<"retry", q>>}
        BY <2>2, <2>4, <2>8, <3>3
      <4> QED
        BY <2>0, <2>1, <2>3, <2>8, <3>4, <4>1, OwedStays
    <3>5. CASE m # msg[w]
      <4>1. Chances(m)' \subseteq Chances(m)
        BY <2>2, <2>4, <2>8, <3>2, <3>3, <3>5
      <4> QED
        BY <2>0, <2>1, <2>8, <4>1, OwedStays
    <3> QED
      BY <3>4, <3>5
  <2> QED
    BY <2>5, <2>6, <2>7, <2>8 DEF AwaitCounts
<1> QED
  BY <1>2, <1>3 DEF ChancesAreOwed

\* The deployed processor's awaits are of that kind.
LEMMA ProcessOwed ==
  ASSUME TablesFit, Counting, \A m \in Messages : HasRow(m),
         NEW w \in Workers, Process(w)
  PROVE  ChancesAreOwed'
<1>1. /\ ProcessorStep(w) /\ UNCHANGED <<polled, inboxVars>>
      /\ CallTypeOK /\ FaultTypeOK /\ StoreTypeOK
  BY DEF Process, Counting
<1>2. /\ pc[w] # "idle" /\ pc'[w] # "idle" /\ UNCHANGED msg
      /\ \A v \in Workers \ {w} : pc'[v] = pc[v]
      /\ msg[w] \in Messages
  BY <1>1, StepKeeps DEF CallTypeOK, CallsAreFilled, InCall
<1>3. AwaitCounts(w)
  BY <1>1, <1>2, StepCounts
<1> QED
  BY <1>1, <1>2, <1>3, AwaitOwed

\* A record goes into a worker's hands, by a rebalance a second time.
LEMMA TakeOwed ==
  ASSUME Counting, NEW w \in Workers, NEW r \in inbox, Take(w, r)
  PROVE  ChancesAreOwed'
<1>1. /\ pc[w] = "idle" /\ pc' = [pc EXCEPT ![w] = "exists"]
      /\ msg' = [msg EXCEPT ![w] = r.message]
      /\ taken' = [taken EXCEPT ![w] = r]
      /\ UNCHANGED <<accepted, retries, faults, inbox, polled, crashes>>
  BY DEF Take, StartDelivery
<1>2. \/ (\A v \in Workers : taken[v] # r) /\ UNCHANGED overlaps
      \/ overlaps' = overlaps + 1
  BY DEF Take
<1>3. /\ pc \in [Workers -> {"idle"} \cup Awaits \cup Results]
      /\ msg \in [Workers -> Messages \cup {NoMessage}]
      /\ taken \in [Workers -> Record \cup {NoRecord}]
      /\ \A q \in inbox : q.message \in Messages /\ q # NoRecord
      /\ taken[w] = NoRecord
  <2>1. taken[w] = NoRecord
    BY <1>1 DEF Counting, ChancesAreOwed, IdleIsEmptyHanded, InCall
  <2>2. \A q \in Record : q.message \in Messages
    BY DEF Record
  <2>3. NoRecord.message \notin Messages
    BY MessagesAssumption DEF NoRecord
  <2> QED
    BY <2>1, <2>2, <2>3 DEF Counting, CallTypeOK, LoopTypeOK
<1>4. IdleIsEmptyHanded'
  BY <1>1, <1>3 DEF IdleIsEmptyHanded, InCall, Counting, ChancesAreOwed
<1>5. ASSUME NEW m \in Messages
      PROVE  Owed(m)'
  <2>0. /\ Owed(m) /\ CountTypeOK /\ CountTypeOK' /\ accepted'[m] = accepted[m]
        /\ faults \in Nat /\ overlaps \in Nat /\ crashes \in Nat
        /\ overlaps' \in Nat
    BY <1>1, CountingTypes DEF Counting, ChancesAreOwed
  <2>1. \A x \in Chances(m)' :
           \/ x \in Chances(m) /\ x # <<"record", r>>
           \/ x = <<"call", w>> /\ m = r.message
    <3> SUFFICES ASSUME NEW x \in Chances(m)'
                 PROVE  \/ x \in Chances(m) /\ x # <<"record", r>>
                        \/ x = <<"call", w>> /\ m = r.message
      OBVIOUS
    <3>1. CASE \E q \in inbox' : /\ x = <<"record", q>> /\ q.message = m
                                /\ \A v \in Workers : taken'[v] # q
      <4>1. PICK q \in inbox : /\ x = <<"record", q>> /\ q.message = m
                               /\ \A v \in Workers : taken'[v] # q
        BY <1>1, <3>1
      <4>2. q # r /\ \A v \in Workers : taken[v] # q
        BY <1>1, <1>3, <4>1
      <4> QED
        BY <4>1, <4>2, ChancesByKind
    <3>2. CASE \E v \in Workers : /\ x = <<"call", v>> /\ msg'[v] = m
                                 /\ pc'[v] \in MaySchedule
      BY <1>1, <1>3, <3>2, ChancesByKind
    <3>3. CASE \E q \in retries' : x = <<"retry", q>> /\ q.message = m
      BY <1>1, <3>3, ChancesByKind
    <3>4. CASE \E v \in Pollers : \E q \in polled'[v] :
                 x = <<"polled", v, q>> /\ q.message = m
      BY <1>1, <3>4, ChancesByKind
    <3> QED
      BY <3>1, <3>2, <3>3, <3>4, ChancesByKindNext
  <2>2. CASE overlaps' = overlaps + 1
    <3>1. Failures' >= Failures + 1
      BY <1>1, <2>0, <2>2 DEF Failures
    <3>2. Chances(m)' \subseteq Chances(m) \cup {<<"call", w>>}
      BY <2>1
    <3> QED
      BY <2>0, <3>1, <3>2, OwedStays
  <2>3. CASE (\A v \in Workers : taken[v] # r) /\ UNCHANGED overlaps
    <3>1. Failures' = Failures
      BY <1>1, <2>3 DEF Failures
    <3>2. Failures' >= Failures
      BY <2>0, <3>1 DEF CountTypeOK
    <3>3. CASE m = r.message
      <4>1. <<"record", r>> \in Chances(m)
        BY <2>3, <3>3, ChancesByKind
      <4>2. Chances(m)' \subseteq (Chances(m) \ {<<"record", r>>})
                                   \cup {<<"call", w>>}
        BY <2>1
      <4> QED
        BY <2>0, <3>2, <4>1, <4>2, OwedStays
    <3>4. CASE m # r.message
      <4>1. Chances(m)' \subseteq Chances(m)
        BY <2>1, <3>4
      <4> QED
        BY <2>0, <3>2, <4>1, OwedStays
    <3> QED
      BY <3>3, <3>4
  <2> QED
    BY <1>2, <2>2, <2>3
<1> QED
  BY <1>4, <1>5 DEF ChancesAreOwed

\* The offset passes a record.
LEMMA FinishOwed ==
  ASSUME Counting, NEW w \in Workers, Finish(w)
  PROVE  ChancesAreOwed'
<1>1. /\ pc' = [pc EXCEPT ![w] = "idle"]
      /\ msg' = [msg EXCEPT ![w] = NoMessage]
      /\ inbox' = inbox \ {taken[w]}
      /\ taken' = [taken EXCEPT ![w] = NoRecord]
      /\ UNCHANGED <<accepted, retries, faults, polled, overlaps, crashes>>
  BY DEF Finish, EndCall
<1>2. /\ pc \in [Workers -> {"idle"} \cup Awaits \cup Results]
      /\ msg \in [Workers -> Messages \cup {NoMessage}]
      /\ taken \in [Workers -> Record \cup {NoRecord}]
  BY DEF Counting, CallTypeOK, LoopTypeOK
<1>3. IdleIsEmptyHanded'
  BY <1>1, <1>2 DEF IdleIsEmptyHanded, InCall, Counting, ChancesAreOwed
<1>4. ASSUME NEW m \in Messages
      PROVE  Owed(m)'
  <2>1. Chances(m)' \subseteq Chances(m)
    <3> SUFFICES ASSUME NEW x \in Chances(m)'
                 PROVE  x \in Chances(m)
      OBVIOUS
    <3>1. CASE \E q \in inbox' : /\ x = <<"record", q>> /\ q.message = m
                                /\ \A v \in Workers : taken'[v] # q
      <4>1. PICK q \in inbox' : /\ x = <<"record", q>> /\ q.message = m
                                /\ \A v \in Workers : taken'[v] # q
        BY <3>1
      <4>2. q \in inbox /\ q # taken[w] /\ \A v \in Workers \ {w} : taken[v] # q
        BY <1>1, <1>2, <4>1
      <4> QED
        BY <4>1, <4>2, ChancesByKind
    <3>2. CASE \E v \in Workers : /\ x = <<"call", v>> /\ msg'[v] = m
                                 /\ pc'[v] \in MaySchedule
      <4>1. PICK v \in Workers : /\ x = <<"call", v>> /\ msg'[v] = m
                                 /\ pc'[v] \in MaySchedule
        BY <3>2
      <4>2. v # w
        BY <1>1, <1>2, <4>1 DEF MaySchedule
      <4> QED
        BY <1>1, <1>2, <4>1, <4>2, ChancesByKind
    <3>3. CASE \E q \in retries' : x = <<"retry", q>> /\ q.message = m
      BY <1>1, <3>3, ChancesByKind
    <3>4. CASE \E v \in Pollers : \E q \in polled'[v] :
                 x = <<"polled", v, q>> /\ q.message = m
      BY <1>1, <3>4, ChancesByKind
    <3> QED
      BY <3>1, <3>2, <3>3, <3>4, ChancesByKindNext
  <2>2. Failures' = Failures
    BY <1>1 DEF Failures
  <2>3. Owed(m) /\ CountTypeOK /\ CountTypeOK' /\ accepted'[m] = accepted[m]
    BY <1>1, CountingTypes DEF Counting, ChancesAreOwed
  <2>4. Failures' >= Failures
    BY <2>2, <2>3 DEF CountTypeOK
  <2> QED
    BY <2>1, <2>3, <2>4, OwedStays
<1> QED
  BY <1>3, <1>4 DEF ChancesAreOwed

\* A crash puts the record in hand back into the topic.
LEMMA CrashOwed ==
  ASSUME Counting, NEW w \in Workers, Crash(w)
  PROVE  ChancesAreOwed'
<1>1. /\ pc' = [pc EXCEPT ![w] = "idle"]
      /\ msg' = [msg EXCEPT ![w] = NoMessage]
      /\ taken' = [taken EXCEPT ![w] = NoRecord]
      /\ \A p \in Pollers : polled'[p] \subseteq polled[p]
      /\ crashes' = crashes + 1
      /\ UNCHANGED <<accepted, retries, faults, inbox, overlaps>>
  BY DEF Crash, EndCall, PollsDie
<1>2. /\ pc \in [Workers -> {"idle"} \cup Awaits \cup Results]
      /\ msg \in [Workers -> Messages \cup {NoMessage}]
      /\ taken \in [Workers -> Record \cup {NoRecord}]
  BY DEF Counting, CallTypeOK, LoopTypeOK
<1>3. IdleIsEmptyHanded'
  BY <1>1, <1>2 DEF IdleIsEmptyHanded, InCall, Counting, ChancesAreOwed
<1>4. ASSUME NEW m \in Messages
      PROVE  Owed(m)'
  <2>1. Chances(m)' \subseteq Chances(m) \cup {<<"record", taken[w]>>}
    <3> SUFFICES ASSUME NEW x \in Chances(m)'
                 PROVE  x \in Chances(m) \/ x = <<"record", taken[w]>>
      OBVIOUS
    <3>1. CASE \E q \in inbox' : /\ x = <<"record", q>> /\ q.message = m
                                /\ \A v \in Workers : taken'[v] # q
      <4>1. PICK q \in inbox : /\ x = <<"record", q>> /\ q.message = m
                               /\ \A v \in Workers : taken'[v] # q
        BY <1>1, <3>1
      <4>2. \A v \in Workers \ {w} : taken[v] # q
        BY <1>1, <1>2, <4>1
      <4> QED
        BY <4>1, <4>2, ChancesByKind
    <3>2. CASE \E v \in Workers : /\ x = <<"call", v>> /\ msg'[v] = m
                                 /\ pc'[v] \in MaySchedule
      <4>1. PICK v \in Workers : /\ x = <<"call", v>> /\ msg'[v] = m
                                 /\ pc'[v] \in MaySchedule
        BY <3>2
      <4>2. v # w
        BY <1>1, <1>2, <4>1 DEF MaySchedule
      <4> QED
        BY <1>1, <1>2, <4>1, <4>2, ChancesByKind
    <3>3. CASE \E q \in retries' : x = <<"retry", q>> /\ q.message = m
      BY <1>1, <3>3, ChancesByKind
    <3>4. CASE \E v \in Pollers : \E q \in polled'[v] :
                 x = <<"polled", v, q>> /\ q.message = m
      BY <1>1, <1>2, <3>4, ChancesByKind
    <3> QED
      BY <3>1, <3>2, <3>3, <3>4, ChancesByKindNext
  <2>2. Owed(m) /\ CountTypeOK /\ CountTypeOK' /\ accepted'[m] = accepted[m]
    BY <1>1, CountingTypes DEF Counting, ChancesAreOwed
  <2>3. Failures' >= Failures + 1
    BY <1>1, CountingTypes DEF Failures
  <2> QED
    BY <2>1, <2>2, <2>3, OwedStays
<1> QED
  BY <1>3, <1>4 DEF ChancesAreOwed

\* Retries go from Redis into a timer's hands, each with its chance.  Those
\* that another poll has removed are a chance more, and an overlap each.
LEMMA RemoveOwed ==
  ASSUME Counting, NEW p \in Pollers, RemoveRetries(p)
  PROVE  ChancesAreOwed'
<1> DEFINE there == reads[p].there
           twice == polled'[p] \cap reads[p].gone
           Extra == {<<"polled", p, r>> : r \in twice}
<1>1. /\ PollTypeOK /\ PollsAreOrderly
      /\ faults \in Nat /\ overlaps \in Nat /\ crashes \in Nat
      /\ faults' \in Nat /\ overlaps' \in Nat /\ crashes' \in Nat
  BY CountingTypes DEF Counting, LoopTypeOK
<1>2. /\ there \subseteq retries /\ polled[p] = {} /\ IsFiniteSet(twice)
      /\ Cardinality(twice) \in Nat
  <2>1. there \subseteq retries /\ polled[p] = {} /\ IsFiniteSet(reads[p].gone)
    BY <1>1 DEF PollsAreOrderly, RemoveRetries, Remove
  <2> QED
    BY <2>1, FS_Subset, FS_CardinalityType
<1>3. /\ retries' \subseteq retries
      /\ polled' = polled \/ retries' = retries \ there
      /\ \A v \in Pollers \ {p} : polled'[v] = polled[v]
      /\ polled'[p] \subseteq there \cup twice
      /\ faults' >= faults
      /\ overlaps' = overlaps + Cardinality(twice)
      /\ UNCHANGED <<accepted, pc, msg, inbox, taken, crashes>>
  BY <1>1, <1>2 DEF RemoveRetries, Remove, Fault, PollTypeOK
<1>4. IdleIsEmptyHanded'
  BY <1>3 DEF IdleIsEmptyHanded, InCall, Counting, ChancesAreOwed
<1>5. IsFiniteSet(Extra) /\ Cardinality(Extra) <= Cardinality(twice)
  <2> DEFINE g == [r \in twice |-> <<"polled", p, r>>]
  <2>1. /\ DOMAIN g = twice /\ g = [r \in twice |-> g[r]]
        /\ \A y \in Extra : \E r \in twice : g[r] = y
    OBVIOUS
  <2> HIDE DEF g, Extra, twice
  <2> QED
    BY <1>2, <2>1, MappedIsNoLarger
<1>6. Cardinality(Extra) \in Nat
  BY <1>5, FS_CardinalityType
<1> HIDE DEF there, twice
<1>7. ASSUME NEW m \in Messages
      PROVE  Owed(m)'
  <2>0. /\ Owed(m) /\ CountTypeOK /\ CountTypeOK' /\ accepted'[m] = accepted[m]
        /\ IsFiniteSet(Chances(m))
    BY <1>3, CountingTypes DEF Counting, ChancesAreOwed, Owed
  <2>1. Failures' >= Failures + Cardinality(twice)
    BY <1>1, <1>2, <1>3 DEF Failures
  <2>2. ASSUME NEW y \in Chances(m)', y \notin Extra
        PROVE  \/ y \in Chances(m) /\ \A r \in retries \ retries' : y # <<"retry", r>>
               \/ /\ polled' # polled
                  /\ \E q \in there : /\ y = <<"polled", p, q>>
                                      /\ <<"retry", q>> \in Chances(m)
    <3>1. CASE \E q \in inbox' : /\ y = <<"record", q>> /\ q.message = m
                                /\ \A v \in Workers : taken'[v] # q
      BY <1>3, <3>1, ChancesByKind
    <3>2. CASE \E v \in Workers : /\ y = <<"call", v>> /\ msg'[v] = m
                                 /\ pc'[v] \in MaySchedule
      BY <1>3, <3>2, ChancesByKind
    <3>3. CASE \E q \in retries' : y = <<"retry", q>> /\ q.message = m
      BY <1>3, <3>3, ChancesByKind
    <3>4. CASE \E v \in Pollers : \E q \in polled'[v] :
                 y = <<"polled", v, q>> /\ q.message = m
      <4>0. PICK v \in Pollers : \E q \in polled'[v] :
               y = <<"polled", v, q>> /\ q.message = m
        BY <3>4
      <4>1. PICK q \in polled'[v] : y = <<"polled", v, q>> /\ q.message = m
        BY <4>0
      <4>2. CASE polled'[v] = polled[v]
        BY <4>1, <4>2, ChancesByKind
      <4>3. CASE polled'[v] # polled[v]
        <5>1. v = p
          BY <1>3, <4>3
        <5>2. q \in there
          BY <1>3, <2>2, <4>1, <5>1
        <5>3. <<"retry", q>> \in Chances(m)
          BY <1>2, <4>1, <5>2, ChancesByKind
        <5> QED
          BY <4>1, <4>3, <5>1, <5>2, <5>3
      <4> QED
        BY <4>2, <4>3
    <3> QED
      BY <3>1, <3>2, <3>3, <3>4, ChancesByKindNext
  <2> DEFINE f == [x \in Chances(m) |->
                     IF \E r \in retries \ retries' : x = <<"retry", r>>
                       THEN <<"polled", p, x[2]>> ELSE x]
             Rest == Chances(m)' \ Extra
  <2>3. ASSUME NEW y \in Rest
        PROVE  \E x \in Chances(m) : f[x] = y
    <3>1. CASE y \in Chances(m) /\ \A r \in retries \ retries' : y # <<"retry", r>>
      BY <3>1
    <3>2. CASE /\ polled' # polled
               /\ \E q \in there : /\ y = <<"polled", p, q>>
                                   /\ <<"retry", q>> \in Chances(m)
      <4>1. PICK q \in there : /\ y = <<"polled", p, q>>
                               /\ <<"retry", q>> \in Chances(m)
        BY <3>2
      <4>2. q \in retries \ retries'
        BY <1>2, <1>3, <3>2, <4>1
      <4>3. f[<<"retry", q>>] = <<"polled", p, q>>
        BY <4>1, <4>2
      <4> QED
        BY <4>1, <4>3
    <3> QED
      BY <2>2, <3>1, <3>2
  <2>4. DOMAIN f = Chances(m) /\ f = [x \in Chances(m) |-> f[x]]
    OBVIOUS
  <2> HIDE DEF f, Rest
  <2>5. IsFiniteSet(Rest) /\ Cardinality(Rest) <= Cardinality(Chances(m))
    BY <2>0, <2>3, <2>4, MappedIsNoLarger
  <2>6. Chances(m)' \subseteq Rest \cup Extra
    BY DEF Rest
  <2> HIDE DEF Extra
  <2>7. /\ IsFiniteSet(Rest \cup Extra)
        /\ Cardinality(Rest \cup Extra) =
             Cardinality(Rest) + Cardinality(Extra) - Cardinality(Rest \cap Extra)
        /\ Cardinality(Rest \cap Extra) \in Nat
        /\ Cardinality(Rest) \in Nat /\ Cardinality(Chances(m)) \in Nat
    BY <1>5, <2>0, <2>5, FS_Union, FS_Intersection, FS_CardinalityType
  <2>8. /\ IsFiniteSet(Chances(m)')
        /\ Cardinality(Chances(m)') <= Cardinality(Rest \cup Extra)
        /\ Cardinality(Chances(m)') \in Nat
    BY <2>6, <2>7, FS_Subset, FS_CardinalityType
  <2>9. Cardinality(Chances(m)') <= Cardinality(Chances(m)) + Cardinality(twice)
    BY <1>2, <1>5, <1>6, <2>5, <2>7, <2>8
  <2> QED
    BY <1>2, <2>0, <2>1, <2>7, <2>8, <2>9 DEF Owed, CountTypeOK
<1> QED
  BY <1>4, <1>7 DEF ChancesAreOwed

\* A retry becomes a record, or is lost with those polled beside it.
LEMMA RepublishOwed ==
  ASSUME Counting, NEW p \in Pollers, NEW r \in polled[p], RepublishRetry(p, r)
  PROVE  ChancesAreOwed'
<1> DEFINE c == [message |-> r.message, attempt |-> r.attempt, copy |-> copies + 1]
<1>0. c.message = r.message
  OBVIOUS
<1>1. /\ \/ inbox' = inbox \cup {c} /\ polled' = [polled EXCEPT ![p] = @ \ {r}]
         \/ inbox' = inbox \cup {c} /\ polled' = [polled EXCEPT ![p] = {}]
         \/ inbox' = inbox /\ polled' = [polled EXCEPT ![p] = {}]
      /\ faults' = faults \/ faults' = faults + 1
      /\ UNCHANGED <<accepted, retries, pc, msg, taken, overlaps, crashes>>
  BY DEF RepublishRetry, Republish, Fault
<1> HIDE DEF c
<1>2. polled \in [Pollers -> SUBSET Retry]
  BY DEF Counting, LoopTypeOK, PollTypeOK
<1>3. /\ \A v \in Pollers : polled'[v] \subseteq polled[v]
      /\ r \notin polled'[p]
      /\ \A q \in inbox' : q \in inbox \/ q = c
  BY <1>1, <1>2
<1>4. IdleIsEmptyHanded'
  BY <1>1 DEF IdleIsEmptyHanded, InCall, Counting, ChancesAreOwed
<1>5. ASSUME NEW m \in Messages
      PROVE  Owed(m)'
  <2>1. \A x \in Chances(m)' :
           \/ x \in Chances(m) /\ x # <<"polled", p, r>>
           \/ x = <<"record", c>> /\ m = r.message
    <3> SUFFICES ASSUME NEW x \in Chances(m)'
                 PROVE  \/ x \in Chances(m) /\ x # <<"polled", p, r>>
                        \/ x = <<"record", c>> /\ m = r.message
      OBVIOUS
    <3>1. CASE \E q \in inbox' : /\ x = <<"record", q>> /\ q.message = m
                                /\ \A v \in Workers : taken'[v] # q
      BY <1>0, <1>1, <1>3, <3>1, ChancesByKind
    <3>2. CASE \E v \in Workers : /\ x = <<"call", v>> /\ msg'[v] = m
                                 /\ pc'[v] \in MaySchedule
      BY <1>1, <3>2, ChancesByKind
    <3>3. CASE \E q \in retries' : x = <<"retry", q>> /\ q.message = m
      BY <1>1, <3>3, ChancesByKind
    <3>4. CASE \E v \in Pollers : \E q \in polled'[v] :
                 x = <<"polled", v, q>> /\ q.message = m
      <4>0. PICK v \in Pollers : \E q \in polled'[v] :
               x = <<"polled", v, q>> /\ q.message = m
        BY <3>4
      <4>1. PICK q \in polled'[v] : x = <<"polled", v, q>> /\ q.message = m
        BY <4>0
      <4>2. q \in polled[v] /\ (v = p => q # r)
        BY <1>3, <4>1
      <4>3. x \in Chances(m)
        BY <4>1, <4>2, ChancesByKind
      <4> QED
        BY <4>1, <4>2, <4>3
    <3> QED
      BY <3>1, <3>2, <3>3, <3>4, ChancesByKindNext
  <2>2. /\ Owed(m) /\ CountTypeOK /\ CountTypeOK' /\ accepted'[m] = accepted[m]
        /\ faults \in Nat /\ overlaps \in Nat /\ crashes \in Nat
    BY <1>1, CountingTypes DEF Counting, ChancesAreOwed
  <2>3. Failures' >= Failures
    BY <1>1, <2>2, CountingTypes DEF Failures
  <2>4. CASE m = r.message
    <3>1. <<"polled", p, r>> \in Chances(m)
      BY <2>4, ChancesByKind
    <3>2. Chances(m)' \subseteq (Chances(m) \ {<<"polled", p, r>>})
                                 \cup {<<"record", c>>}
      BY <2>1
    <3> QED
      BY <2>2, <2>3, <3>1, <3>2, OwedStays
  <2>5. CASE m # r.message
    <3>1. Chances(m)' \subseteq Chances(m)
      BY <2>1, <2>5
    <3> QED
      BY <2>2, <2>3, <3>1, OwedStays
  <2> QED
    BY <2>4, <2>5
<1> QED
  BY <1>4, <1>5 DEF ChancesAreOwed

\* At first every message has its one record.
LEMMA InitOwed == Init => ChancesAreOwed
<1> SUFFICES ASSUME Init
             PROVE  ChancesAreOwed
  OBVIOUS
<1>1. IdleIsEmptyHanded
  BY DEF Init, IdleIsEmptyHanded
<1>2. ASSUME NEW m \in Messages
      PROVE  Owed(m)
  <2> DEFINE r == [message |-> m, attempt |-> 0, copy |-> 0]
  <2>1. \A q \in inbox : q.message = m => q = r
    BY DEF Init
  <2> HIDE DEF r
  <2>2. /\ pc = [w \in Workers |-> "idle"] /\ retries = {}
        /\ polled = [p \in Pollers |-> {}]
        /\ accepted = [n \in Messages |-> 0]
        /\ faults = 0 /\ overlaps = 0 /\ crashes = 0
    BY DEF Init, ProcessorInit, PollInit
  <2>3. Chances(m) \subseteq {<<"record", r>>}
    BY <2>1, <2>2, ChancesByKind DEF MaySchedule
  <2>4. /\ IsFiniteSet({<<"record", r>>})
        /\ Cardinality({<<"record", r>>}) = 1
    BY FS_Singleton
  <2>5. IsFiniteSet(Chances(m)) /\ Cardinality(Chances(m)) <= 1
    BY <2>3, <2>4, FS_Subset
  <2>6. Failures = 0 /\ accepted[m] = 0
    BY <2>2 DEF Failures
  <2>7. Cardinality(Chances(m)) \in Nat
    BY <2>5, FS_CardinalityType
  <2> QED
    BY <2>5, <2>6, <2>7 DEF Owed
<1> QED
  BY <1>1, <1>2 DEF ChancesAreOwed

\* No step takes more chances than it pays for.
LEMMA NextOwed ==
  ASSUME TablesFit
  PROVE  IInv /\ IInv' /\ LineInv /\ ChancesAreOwed /\ [Next]_vars
           => ChancesAreOwed'
<1> SUFFICES ASSUME IInv, IInv', LineInv, ChancesAreOwed, [Next]_vars
             PROVE  ChancesAreOwed'
  OBVIOUS
<1>1. /\ StoreTypeOK /\ CallTypeOK /\ LoopTypeOK /\ FaultTypeOK
      /\ (StoreTypeOK /\ LoopTypeOK /\ FaultTypeOK)'
  <2>1. TypeOK /\ TypeOK'
    BY DEF IInv
  <2> QED
    BY <2>1, TypeParts, PTL
<1>2. Counting
  BY <1>1 DEF Counting
<1>3. \A m \in Messages : HasRow(m)
  BY DEF LineInv, HasRow, Absent
<1>4. CASE Quiet
  <2>1. \A m : Chances(m)' = Chances(m)
    BY <1>4 DEF Chances, Quiet
  <2> QED
    BY <1>4, <2>1 DEF ChancesAreOwed, Owed, Failures, IdleIsEmptyHanded,
                      InCall, Quiet
<1>5. ASSUME NEW w \in Workers, Work(w) \/ Crash(w)
      PROVE  ChancesAreOwed'
  <2>1. ASSUME NEW r \in inbox, Take(w, r)
        PROVE  ChancesAreOwed'
    BY <1>2, <2>1, TakeOwed
  <2>2. CASE Process(w)
    BY <1>2, <1>3, <2>2, ProcessOwed
  <2>3. CASE Finish(w)
    BY <1>2, <2>3, FinishOwed
  <2>4. CASE Crash(w)
    BY <1>2, <2>4, CrashOwed
  <2> QED
    BY <1>5, <2>1, <2>2, <2>3, <2>4 DEF Work
<1>6. ASSUME NEW p \in Pollers, Timer(p)
      PROVE  ChancesAreOwed'
  <2>1. ASSUME NEW due, ReadRetries(p, due)
        PROVE  ChancesAreOwed'
    BY <1>4, <2>1, ReadIsQuiet
  <2>2. CASE RemoveRetries(p)
    BY <1>2, <2>2, RemoveOwed
  <2>3. ASSUME NEW r \in polled[p], RepublishRetry(p, r)
        PROVE  ChancesAreOwed'
    BY <1>2, <2>3, RepublishOwed
  <2> QED
    BY <1>6, <2>1, <2>2, <2>3 DEF Timer
<1> QED
  BY <1>4, <1>5, <1>6, ReadIsQuiet DEF Next

\* No message is accepted more often than once and once more for each failed
\* call, each record handed out twice, each retry a poll publishes that another
\* removed, and each crash: what is retried once adds none.
THEOREM AcceptancesAreOwedHolds ==
  ASSUME TablesFit
  PROVE  Spec => []AcceptancesAreOwed
<1>1. IInv /\ IInv' /\ LineInv /\ ChancesAreOwed /\ [Next]_vars => ChancesAreOwed'
  BY NextOwed
<1>2. IInv /\ ChancesAreOwed => AcceptancesAreOwed
  <2> SUFFICES ASSUME IInv, ChancesAreOwed, NEW m \in Messages
               PROVE  accepted[m] <= 1 + Failures
    BY DEF AcceptancesAreOwed
  <2>1. /\ IsFiniteSet(Chances(m))
        /\ accepted[m] + Cardinality(Chances(m)) <= 1 + Failures
    BY DEF ChancesAreOwed, Owed
  <2>2. Cardinality(Chances(m)) \in Nat
    BY <2>1, FS_CardinalityType
  <2>3. /\ accepted[m] \in Nat /\ faults \in Nat /\ overlaps \in Nat
        /\ crashes \in Nat
    BY TypeParts, MaxFaultsAssumption, BoundsAssumption
    DEF IInv, StoreTypeOK, FaultTypeOK, LoopTypeOK
  <2> QED
    BY <2>1, <2>2, <2>3 DEF Failures
<1> QED
  BY <1>1, <1>2, InitOwed, Inductive, LineIsKept, PTL DEF Spec

=============================================================================
