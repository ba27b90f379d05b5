------------------------------ MODULE Database ------------------------------
(***************************************************************************)
(* The MySQL tables of scripts/init.sql and the statements the two         *)
(* repositories of the aggregator run against them.  A statement is        *)
(* abstracted to the columns it names: MySQL rejects a statement that      *)
(* names a column its table lacks, and (in strict mode, the default) an    *)
(* INSERT that leaves out a column that is NOT NULL and has no default.    *)
(***************************************************************************)

CONSTANT Schema     \* table |-> [columns, required]

\* The tables as scripts/init.sql creates them.  "required" columns are
\* NOT NULL without a DEFAULT.
InitSqlSchema ==
  [messages |->
     [columns  |-> {"messageId", "idempotencyKey", "tenantId", "dedupKey",
                    "userId", "channel", "recipient", "body", "status",
                    "finalDelivered", "attemptCount", "maxAttempts",
                    "lastProviderResponse", "lastProviderError",
                    "lastAttemptAt", "createdAt", "updatedAt"},
      required |-> {"messageId", "idempotencyKey", "tenantId", "dedupKey",
                    "userId", "channel", "recipient", "body"}],
   delivery_attempts |->
     [columns  |-> {"id", "messageId", "attemptNumber", "status",
                    "providerResponse", "providerError", "providerCode",
                    "attemptAt"},
      required |-> {"messageId", "attemptNumber", "status"}],
   dlq_entries |->
     [columns  |-> {"id", "messageId", "tenantId", "channel",
                    "failureReason", "finalAttemptNumber",
                    "maxAttemptsReached", "manualReviewRequired",
                    "createdAt"},
      required |-> {"messageId", "tenantId", "channel"}]]

\* Columns named by DeliveryRepository.
UpdateStatusColumns == {"status", "finalDelivered", "attempts", "messageId"}
GetStatusColumns    == {"finalDelivered", "status", "attempts", "messageId"}
SaveAttemptColumns  == {"messageId", "attemptNumber", "status", "error",
                        "providerResponse"}
SaveDLQColumns      == {"messageId", "channel", "failureReason",
                        "maxAttemptsReached"}

\* Columns named by MySQLMessageRepository of the router.
SaveMessageColumns  == {"messageId", "dedupKey", "userId", "tenantId",
                        "channel", "recipient", "body", "status"}

\* The tables the repositories are written for: init.sql with the columns
\* that they name added, and nothing required that they omit.
RepositorySchema ==
  [messages |->
     [columns  |-> InitSqlSchema.messages.columns \cup UpdateStatusColumns,
      required |-> InitSqlSchema.messages.required
                     \cap SaveMessageColumns],
   delivery_attempts |->
     [columns  |-> InitSqlSchema.delivery_attempts.columns
                     \cup SaveAttemptColumns,
      required |-> InitSqlSchema.delivery_attempts.required],
   dlq_entries |->
     [columns  |-> InitSqlSchema.dlq_entries.columns \cup SaveDLQColumns,
      required |-> InitSqlSchema.dlq_entries.required \cap SaveDLQColumns]]

Names(table, columns)   == columns \subseteq Schema[table].columns
Inserts(table, columns) == /\ Names(table, columns)
                           /\ Schema[table].required \subseteq columns

\* Which statements the tables let through.
UpdateStatusFits == Names("messages", UpdateStatusColumns)
GetStatusFits    == Names("messages", GetStatusColumns)
SaveAttemptFits  == Inserts("delivery_attempts", SaveAttemptColumns)
SaveDLQFits      == Inserts("dlq_entries", SaveDLQColumns)
SaveMessageFits  == Inserts("messages", SaveMessageColumns)

=============================================================================
