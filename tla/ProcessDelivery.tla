--------------------------- MODULE ProcessDelivery ---------------------------
(***************************************************************************)
(* ProcessDeliveryUseCase.execute of the aggregator's layered              *)
(* implementation, with RedisDeliveryService and MySQLDeliveryRepository.  *)
(* It is DeliveryProcessor rewritten: the row is read on every call, the   *)
(* cache is never warmed, no status is written before a retry, and the     *)
(* attempt is counted up once.  What the two have in common (the awaits    *)
(* GetStatus, Send, MarkSent, LogSent, MarkFailed, LogRetry) is taken from *)
(* DeliveryProcessor.                                                      *)
(***************************************************************************)
EXTENDS DeliveryProcessor

\* setNX answers true or false, never null: every call is "new" but one
\* that Redis fails, which is taken for delivered.
CheckDeliveryDedup(w) ==
  /\ pc[w] = "exists"
  /\ Write(w, TRUE, delivered' = delivered \cup {CallKey(w)},
           UNCHANGED delivered, "getStatus", "succeeded")
  /\ UNCHANGED <<rows, audit, dlqEntries, dlqTopic, retries, accepted>>

SaveSuccessfulAttempt(w) ==
  /\ pc[w] = "saveSuccess"
  /\ Write(w, SaveAttemptFits /\ HasRow(msg[w]), SaveAttempt(w, "SUCCESS"),
           UNCHANGED audit, "logSent", "saveFailed")
  /\ UNCHANGED <<rows, dlqEntries, dlqTopic, delivered, retries, accepted>>

\* The catch block.  The row is left as it is when a retry is to follow.
SaveFailedAttempt(w) ==
  /\ pc[w] = "saveFailed"
  /\ Write(w, SaveAttemptFits /\ HasRow(msg[w]), SaveAttempt(w, "FAILED"),
           UNCHANGED audit,
           IF att[w] >= MaxAttempts THEN "markFailed" ELSE "schedule",
           "unsuccessful")
  /\ UNCHANGED <<rows, dlqEntries, dlqTopic, delivered, retries, accepted>>

\* The log that follows changes nothing modelled and its error ends the
\* call as well.  Nothing is published to dlq.<channel>.
SaveDLQ(w) ==
  /\ pc[w] = "saveDLQ"
  /\ Write(w, SaveDLQFits /\ HasRow(msg[w]),
           dlqEntries' = dlqEntries \cup {msg[w]},
           UNCHANGED dlqEntries, "unsuccessful", "unsuccessful")
  /\ UNCHANGED <<rows, audit, dlqTopic, delivered, retries, accepted>>

\* Mutation: the retry is logged but not put into the ZSET.
ScheduleNextAttempt_Dropped(w) ==
  /\ pc[w] = "schedule"
  /\ Answers(w, "logRetry")
  /\ UNCHANGED storeVars

\* Mutation: the attempt is counted up here as well.
ScheduleNextAttempt_CountsTwice(w) ==
  /\ pc[w] = "schedule"
  /\ Write(w, TRUE,
           retries' = retries \cup {[message |-> msg[w],
                                     attempt |-> att[w] + 1]},
           UNCHANGED retries, "logRetry", "unsuccessful")
  /\ UNCHANGED <<rows, audit, dlqEntries, dlqTopic, delivered, accepted>>

ScheduleNextAttempt(w) ==
  /\ pc[w] = "schedule"
  /\ Write(w, TRUE,
           retries' = retries \cup {[message |-> msg[w], attempt |-> att[w]]},
           UNCHANGED retries, "logRetry", "unsuccessful")
  /\ UNCHANGED <<rows, audit, dlqEntries, dlqTopic, delivered, accepted>>

DeliveryStep(w) ==
  \/ CheckDeliveryDedup(w) \/ GetStatus(w)             \/ Send(w)
  \/ MarkSent(w)           \/ SaveSuccessfulAttempt(w) \/ LogSent(w)
  \/ SaveFailedAttempt(w)  \/ MarkFailed(w)            \/ SaveDLQ(w)
  \/ ScheduleNextAttempt(w) \/ LogRetry(w)

=============================================================================
