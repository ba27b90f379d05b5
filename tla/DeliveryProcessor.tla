-------------------------- MODULE DeliveryProcessor --------------------------
(***************************************************************************)
(* DeliveryProcessorService.processDelivery with the services it awaits:   *)
(* DeliveryDeduplicationService (Redis), DeliveryRepository (MySQL), the   *)
(* provider, RetrySchedulerService.scheduleRetry (Redis) and               *)
(* EventPublisherService (Kafka).                                          *)
(*                                                                         *)
(* Each await is one action, so calls of several workers interleave        *)
(* exactly where JavaScript lets them.  Every awaited call may fail; a     *)
(* failed write may have been applied before its answer was lost.          *)
(*                                                                         *)
(* This module is a component: BatchConsumer and RetryCycle make the       *)
(* calls, with StartDelivery, and consume the results.                     *)
(***************************************************************************)
EXTENDS Naturals, FiniteSets, Database, Providers

CONSTANTS Workers,       \* aggregator processes
          Messages,      \* messageIds
          NoMessage,     \* a worker that processes nothing
          DedupKeys,     \* content hashes (HashService)
          DedupKey,      \* message |-> its content hash
          NoKey,         \* the dedupKey of a record that carries none
          MaxAttempts,   \* MAX_ATTEMPTS
          Channel,       \* message |-> the channel it is sent over
          MaxFaults      \* bound: infrastructure calls that fail

ASSUME MaxAttemptsAssumption == MaxAttempts \in Nat \ {0}
ASSUME MessagesAssumption == /\ NoMessage \notin Messages
                             /\ DedupKey \in [Messages -> DedupKeys]
                             /\ NoKey \in DedupKeys
                             /\ Channel \in [Messages -> Channels]
ASSUME MaxFaultsAssumption == MaxFaults \in Nat

VARIABLES rows,        \* messages table: status and finalDelivered
          audit,       \* delivery_attempts table
          dlqEntries,  \* dlq_entries table
          dlqTopic,    \* Kafka topics dlq.<channel>
          delivered,   \* Redis keys delivered:<dedupKey>
          retries,     \* members of the Redis ZSET "retries"
          accepted,    \* sends the provider accepted, per message
          pc,          \* the await each worker's call has reached
          msg,         \* the message it processes
          att,         \* currentAttempt
          faults       \* failed calls so far

storeVars == <<rows, audit, dlqEntries, dlqTopic, delivered, retries, accepted>>
callVars  == <<pc, msg, att>>
processorVars == <<storeVars, callVars, faults>>

Absent == [status |-> "absent", finalDelivered |-> FALSE]
Row == [status : {"absent", "IN_PROGRESS", "PENDING", "SENT", "FAILED"},
        finalDelivered : BOOLEAN]
Attempt == [message : Messages, number : Nat, status : {"SUCCESS", "FAILED"}]
Retry == [message : Messages, attempt : Nat]

Awaits == {"exists", "setNX", "getStatus", "send", "markSent", "saveSuccess",
           "warm", "logSent", "saveFailed", "markFailed", "saveDLQ",
           "publishDLQ", "markPending", "schedule", "logRetry"}
Results == {"succeeded", "unsuccessful"}

ProcessorTypeOK ==
  /\ rows \in [Messages -> Row]
  /\ audit \subseteq Attempt
  /\ dlqEntries \subseteq Messages
  /\ dlqTopic \subseteq Messages
  /\ delivered \subseteq DedupKeys
  /\ retries \subseteq Retry
  /\ accepted \in [Messages -> Nat]
  /\ pc \in [Workers -> {"idle"} \cup Awaits \cup Results]
  /\ msg \in [Workers -> Messages \cup {NoMessage}]
  /\ att \in [Workers -> Nat]
  /\ faults \in 0 .. MaxFaults

\* A worker inside a call holds a message and an attempt number.
InCall(w) == pc[w] # "idle"

CallsAreFilled == \A w \in Workers : InCall(w) => /\ msg[w] \in Messages
                                                  /\ att[w] >= 1

ProcessorInit(initialRow) ==
  /\ rows = [m \in Messages |-> initialRow]
  /\ audit = {}
  /\ dlqEntries = {}
  /\ dlqTopic = {}
  /\ delivered = {}
  /\ retries = {}
  /\ accepted = [m \in Messages |-> 0]
  /\ pc = [w \in Workers |-> "idle"]
  /\ msg = [w \in Workers |-> NoMessage]
  /\ att = [w \in Workers |-> 0]
  /\ faults = 0

-----------------------------------------------------------------------------
(* How an awaited call ends. *)

Goto(w, next) == /\ pc' = [pc EXCEPT ![w] = next]
                 /\ UNCHANGED <<msg, att>>

Answers(w, next) == Goto(w, next) /\ UNCHANGED faults

Fault == faults < MaxFaults /\ faults' = faults + 1

\* A write: applied and answered, applied with the answer lost, or refused
\* (by a fault, or always when the tables do not fit the statement).
Write(w, fits, effect, unchanged, next, onError) ==
  \/ fits /\ effect /\ (Answers(w, next) \/ (Fault /\ Goto(w, onError)))
  \/ unchanged /\ ((Fault /\ Goto(w, onError))
                     \/ (~fits /\ Answers(w, onError)))

\* UPDATE messages ... WHERE messageId = ?: no error when no row matches.
SetStatus(m, status, final) ==
  rows' = IF rows[m] = Absent THEN rows
          ELSE [rows EXCEPT ![m] = [status |-> status,
                                    finalDelivered |-> final]]

\* delivery_attempts and dlq_entries have a foreign key on messages.
SaveAttempt(w, status) ==
  audit' = audit \cup {[message |-> msg[w], number |-> att[w],
                        status |-> status]}

HasRow(m) == rows[m] # Absent

-----------------------------------------------------------------------------
(* processDelivery, await by await. *)

\* Mutation: currentAttempt = message.attempt.
StartDelivery_KeepsAttempt(w, m, attempt) ==
  /\ pc[w] = "idle"
  /\ pc' = [pc EXCEPT ![w] = "exists"]
  /\ msg' = [msg EXCEPT ![w] = m]
  /\ att' = [att EXCEPT ![w] = attempt]

\* The call: currentAttempt = message.attempt + 1.
StartDelivery(w, m, attempt) ==
  /\ pc[w] = "idle"
  /\ pc' = [pc EXCEPT ![w] = "exists"]
  /\ msg' = [msg EXCEPT ![w] = m]
  /\ att' = [att EXCEPT ![w] = attempt + 1]

\* The records of the retry loop, whose attempt is not 0, carry no dedupKey:
\* they all share the cache key "delivered:undefined".
CallKey(w) == IF att[w] = 1 THEN DedupKey[msg[w]] ELSE NoKey

\* checkDeliveryDedup, first await.  A Redis error answers "new".
Exists(w) ==
  /\ pc[w] = "exists"
  /\ \/ CallKey(w) \in delivered /\ Answers(w, "getStatus")
     \/ CallKey(w) \notin delivered /\ Answers(w, "setNX")
     \/ Fault /\ Goto(w, "send")
  /\ UNCHANGED storeVars

\* checkDeliveryDedup, second await.  The result of setNX is not looked at.
SetNX(w) ==
  /\ pc[w] = "setNX"
  /\ Write(w, TRUE, delivered' = delivered \cup {CallKey(w)},
           UNCHANGED delivered, "send", "send")
  /\ UNCHANGED <<rows, audit, dlqEntries, dlqTopic, retries, accepted>>

\* Mutation: finalDelivered is not looked at.
GetStatus_Ignored(w) ==
  /\ pc[w] = "getStatus"
  /\ Answers(w, "send")
  /\ UNCHANGED storeVars

\* On a cache hit the row decides; anything but finalDelivered falls through.
GetStatus(w) ==
  /\ pc[w] = "getStatus"
  /\ \/ /\ GetStatusFits
        /\ Answers(w, IF rows[msg[w]].finalDelivered THEN "succeeded"
                                                     ELSE "send")
     \/ Fault /\ Goto(w, "saveFailed")
     \/ ~GetStatusFits /\ Answers(w, "saveFailed")
  /\ UNCHANGED storeVars

\* Mutation: a rejected send is taken for an accepted one.
Send_IgnoresError(w) ==
  /\ pc[w] = "send"
  /\ \/ accepted' = [accepted EXCEPT ![msg[w]] = @ + 1]
     \/ UNCHANGED accepted
  /\ Answers(w, "markSent")
  /\ UNCHANGED <<rows, audit, dlqEntries, dlqTopic, delivered, retries>>

\* provider.send of the message's channel.
Send(w) ==
  /\ pc[w] = "send"
  /\ \/ /\ MaySend(Channel[msg[w]])
        /\ accepted' = [accepted EXCEPT ![msg[w]] = @ + 1]
        /\ Answers(w, "markSent")
     \/ /\ MayThrow(Channel[msg[w]])
        /\ UNCHANGED accepted
        /\ Answers(w, "saveFailed")
  /\ UNCHANGED <<rows, audit, dlqEntries, dlqTopic, delivered, retries>>

\* updateStatus("SENT", true).  From here to the log, an error is caught by
\* the same handler as a failed send.
MarkSent(w) ==
  /\ pc[w] = "markSent"
  /\ Write(w, UpdateStatusFits, SetStatus(msg[w], "SENT", TRUE),
           UNCHANGED rows, "saveSuccess", "saveFailed")
  /\ UNCHANGED <<audit, dlqEntries, dlqTopic, delivered, retries, accepted>>

SaveSuccess(w) ==
  /\ pc[w] = "saveSuccess"
  /\ Write(w, SaveAttemptFits /\ HasRow(msg[w]), SaveAttempt(w, "SUCCESS"),
           UNCHANGED audit, "warm", "saveFailed")
  /\ UNCHANGED <<rows, dlqEntries, dlqTopic, delivered, retries, accepted>>

\* setDeliveredCache swallows its errors.
Warm(w) ==
  /\ pc[w] = "warm"
  /\ Write(w, TRUE, delivered' = delivered \cup {CallKey(w)},
           UNCHANGED delivered, "logSent", "logSent")
  /\ UNCHANGED <<rows, audit, dlqEntries, dlqTopic, retries, accepted>>

LogSent(w) ==
  /\ pc[w] = "logSent"
  /\ Answers(w, "succeeded") \/ (Fault /\ Goto(w, "saveFailed"))
  /\ UNCHANGED storeVars

\* Mutation: the last attempt is MAX_ATTEMPTS - 1.
SaveFailed_OneEarly(w) ==
  /\ pc[w] = "saveFailed"
  /\ Write(w, SaveAttemptFits /\ HasRow(msg[w]), SaveAttempt(w, "FAILED"),
           UNCHANGED audit,
           IF att[w] >= MaxAttempts - 1 THEN "markFailed" ELSE "markPending",
           "unsuccessful")
  /\ UNCHANGED <<rows, dlqEntries, dlqTopic, delivered, retries, accepted>>

\* Mutation: an error of saveAttempt is swallowed.
SaveFailed_Swallows(w) ==
  /\ pc[w] = "saveFailed"
  /\ Write(w, SaveAttemptFits /\ HasRow(msg[w]), SaveAttempt(w, "FAILED"),
           UNCHANGED audit,
           IF att[w] >= MaxAttempts THEN "markFailed" ELSE "markPending",
           IF att[w] >= MaxAttempts THEN "markFailed" ELSE "markPending")
  /\ UNCHANGED <<rows, dlqEntries, dlqTopic, delivered, retries, accepted>>

\* The catch block.  An error here rejects the call.
SaveFailed(w) ==
  /\ pc[w] = "saveFailed"
  /\ Write(w, SaveAttemptFits /\ HasRow(msg[w]), SaveAttempt(w, "FAILED"),
           UNCHANGED audit,
           IF att[w] >= MaxAttempts THEN "markFailed" ELSE "markPending",
           "unsuccessful")
  /\ UNCHANGED <<rows, dlqEntries, dlqTopic, delivered, retries, accepted>>

\* handleMaxAttemptsReached.
MarkFailed(w) ==
  /\ pc[w] = "markFailed"
  /\ Write(w, UpdateStatusFits, SetStatus(msg[w], "FAILED", FALSE),
           UNCHANGED rows, "saveDLQ", "unsuccessful")
  /\ UNCHANGED <<audit, dlqEntries, dlqTopic, delivered, retries, accepted>>

SaveDLQEntry(w) ==
  /\ pc[w] = "saveDLQ"
  /\ Write(w, SaveDLQFits /\ HasRow(msg[w]),
           dlqEntries' = dlqEntries \cup {msg[w]},
           UNCHANGED dlqEntries, "publishDLQ", "unsuccessful")
  /\ UNCHANGED <<rows, audit, dlqTopic, delivered, retries, accepted>>

\* Mutation: after the DLQ the call goes on to schedule a retry.
PublishDLQ_FallsThrough(w) ==
  /\ pc[w] = "publishDLQ"
  /\ Write(w, TRUE, dlqTopic' = dlqTopic \cup {msg[w]},
           UNCHANGED dlqTopic, "markPending", "unsuccessful")
  /\ UNCHANGED <<rows, audit, dlqEntries, delivered, retries, accepted>>

\* The log and the error event that follow change nothing modelled, and
\* their errors end the call as its return value does.
PublishDLQ(w) ==
  /\ pc[w] = "publishDLQ"
  /\ Write(w, TRUE, dlqTopic' = dlqTopic \cup {msg[w]},
           UNCHANGED dlqTopic, "unsuccessful", "unsuccessful")
  /\ UNCHANGED <<rows, audit, dlqEntries, delivered, retries, accepted>>

\* Mutation: the row is not set back before the retry is scheduled.
MarkPending_Skipped(w) ==
  /\ pc[w] = "markPending"
  /\ Answers(w, "schedule")
  /\ UNCHANGED storeVars

\* handleRetry.
MarkPending(w) ==
  /\ pc[w] = "markPending"
  /\ Write(w, UpdateStatusFits, SetStatus(msg[w], "PENDING", FALSE),
           UNCHANGED rows, "schedule", "unsuccessful")
  /\ UNCHANGED <<audit, dlqEntries, dlqTopic, delivered, retries, accepted>>

\* Mutation: the retry is logged but not put into the ZSET.
ScheduleRetry_Dropped(w) ==
  /\ pc[w] = "schedule"
  /\ Answers(w, "logRetry")
  /\ UNCHANGED storeVars

\* scheduleRetry adds one to the attempt it is given.
ScheduleRetry(w) ==
  /\ pc[w] = "schedule"
  /\ Write(w, TRUE,
           retries' = retries \cup {[message |-> msg[w],
                                     attempt |-> att[w] + 1]},
           UNCHANGED retries, "logRetry", "unsuccessful")
  /\ UNCHANGED <<rows, audit, dlqEntries, dlqTopic, delivered, accepted>>

LogRetry(w) ==
  /\ pc[w] = "logRetry"
  /\ Answers(w, "unsuccessful") \/ (Fault /\ Goto(w, "unsuccessful"))
  /\ UNCHANGED storeVars

ProcessorStep(w) ==
  \/ Exists(w)      \/ SetNX(w)        \/ GetStatus(w)  \/ Send(w)
  \/ MarkSent(w)    \/ SaveSuccess(w)  \/ Warm(w)       \/ LogSent(w)
  \/ SaveFailed(w)  \/ MarkFailed(w)   \/ SaveDLQEntry(w)
  \/ PublishDLQ(w)  \/ MarkPending(w)  \/ ScheduleRetry(w) \/ LogRetry(w)

\* The caller takes the result, or the process dies: the call's memory goes.
EndCall(w) ==
  /\ pc' = [pc EXCEPT ![w] = "idle"]
  /\ msg' = [msg EXCEPT ![w] = NoMessage]
  /\ att' = [att EXCEPT ![w] = 0]

=============================================================================
