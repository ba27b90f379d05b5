--------------------------- MODULE LayeredPipeline ---------------------------
(***************************************************************************)
(* The layered implementation from end to end: AcceptMessage stores and    *)
(* publishes a message, ProcessDelivery delivers it, and what it schedules *)
(* comes back through Redis.  Router and aggregator share the messages     *)
(* table.                                                                  *)
(*                                                                         *)
(* The layer has no consumer and no timer of its own yet.  They are taken  *)
(* from RetryCycle: a record stays in its topic until the call made for it *)
(* ended and is handed out again after a crash, and its attempt is that of *)
(* its header.                                                             *)
(***************************************************************************)
EXTENDS AcceptMessage, ProcessDelivery, RetryCycle

VARIABLE published    \* messages the router has put into messages.<channel>

layerVars == <<routerVars, published>>
pipelineVars == <<vars, layerVars>>

PipelineTypeOK == TypeOK /\ RouterTypeOK /\ published \subseteq Messages

PipelineInit ==
  /\ ProcessorInit(Absent)
  /\ RouterInit
  /\ published = {}
  /\ inbox = {}
  /\ copies = 0
  /\ taken = [w \in Workers |-> NoRecord]
  /\ PollInit
  /\ overlaps = 0
  /\ crashes = 0

-----------------------------------------------------------------------------
Router(m) ==
  /\ \/ /\ Execute(m) \/ CheckExists(m) \/ CheckSet(m) \/ Save(m)
          \/ PublishLog(m)
        /\ UNCHANGED <<inbox, published>>
     \/ PublishMessage(m,
          /\ inbox' = inbox \cup {[message |-> m, attempt |-> 0, copy |-> 0]}
          /\ published' = published \cup {m},
          UNCHANGED <<inbox, published>>)
  /\ UNCHANGED <<audit, dlqEntries, dlqTopic, delivered, retries, accepted,
                 callVars, pollVars, copies, taken, overlaps, crashes>>

KeyExpires(key) ==
  /\ Expire(key)
  /\ UNCHANGED <<audit, dlqEntries, dlqTopic, delivered, retries, accepted,
                 callVars, pollVars, inboxVars, published>>

RouterCrash ==
  /\ crashes < MaxCrashes
  /\ crashes' = crashes + 1
  /\ RouterDies
  /\ UNCHANGED <<audit, dlqEntries, dlqTopic, delivered, retries, accepted,
                 callVars, pollVars, inbox, copies, taken, overlaps, published>>

Deliver(w) ==
  /\ \/ \E r \in inbox : Take(w, r)
     \/ /\ DeliveryStep(w)
        /\ Rescored(w, att[w])
        /\ UNCHANGED <<polled, inboxVars>>
     \/ Finish(w)
  /\ UNCHANGED layerVars

RetryTimer(p) == Timer(p) /\ UNCHANGED layerVars

WorkerCrash(w) == Crash(w) /\ UNCHANGED layerVars

PipelineNext ==
  \/ \E m \in Messages : Router(m)
  \/ \E key \in DedupKeys : KeyExpires(key)
  \/ RouterCrash
  \/ \E w \in Workers : Deliver(w) \/ WorkerCrash(w)
  \/ \E p \in Pollers : RetryTimer(p)

PipelineSpec == PipelineInit /\ [][PipelineNext]_pipelineVars

\* Event loops resume answered awaits and fire timers; crashes and new
\* requests are not owed, and keys may expire or not.
PipelineFairSpec ==
  /\ PipelineSpec
  /\ \A m \in Messages : WF_pipelineVars(InProgress(m) /\ Router(m))
  /\ \A w \in Workers : WF_pipelineVars(Deliver(w))
  /\ \A p \in Pollers : WF_pipelineVars(RetryTimer(p))

-----------------------------------------------------------------------------
\* However requests with the same content overlap, fail, or come after the
\* Redis key expired, one of them at most is published: the row, unique per
\* dedupKey, is written before the record (AcceptMessageUseCase.ts:66-70).
PublishedOncePerContent ==
  \A m, n \in published : SameContent(m, n) => m = n

\* "Which attempt is this (1, 2, 3, ...)": attempt n + 1 of a message
\* follows a failed and audited attempt n, through faults and crashes.
AttemptsFollow ==
  \A a \in audit : a.number > 1 => Audited(a.message, a.number - 1, "FAILED")

\* A message marked SENT is not sent again, whatever calls fail, until a
\* rebalance or a crash hands one record out twice or two polls publish one
\* retry (ProcessDeliveryUseCase.ts:45-51).
SentIsNotResent ==
  [][\A m \in Messages :
       Undisturbed /\ rows[m].status = "SENT" =>
         accepted'[m] = accepted[m]]_pipelineVars

\* A request answered ACCEPTED ends SENT or dead-lettered with its entry,
\* unless calls fail or processes die.
AcceptedSettles ==
  [](faults = 0 /\ crashes = 0) =>
    \A m \in Messages :
      (reply[m] = "ACCEPTED") ~>
        \/ rows[m].status = "SENT"
        \/ rows[m].status = "FAILED" /\ m \in dlqEntries

-----------------------------------------------------------------------------
(* What makes the first three inductive: what records and calls rest on,   *)
(* and, until the first overlap or crash, who may still send.              *)

\* Retries on their way: also those a poll has read and another has removed.
Underway == Waiting \cup UNION {reads[p].gone : p \in Pollers}

RowsBeforeRecords ==
  /\ \A m \in Messages : m \in published \/ stage[m] = "publish" => HasRow(m)
  /\ \A m, n \in Messages : HasRow(m) /\ HasRow(n) /\ SameContent(m, n) => m = n

\* Deliveries know no message before it is published.
PublishedFirst ==
  /\ \A m \in Messages :
       stage[m] \in {"new", "exists", "set", "save", "publish"} =>
         m \notin published
  /\ \A r \in inbox \cup Underway : r.message \in published
  /\ \A w \in Workers : InCall(w) => msg[w] \in published

\* An "attempt" other than 0 is that of a failed attempt.
Follows(m, attempt) == attempt > 0 => Audited(m, attempt, "FAILED")

AttemptsRest ==
  /\ \A r \in inbox \cup Underway : Follows(r.message, r.attempt)
  /\ \A w \in Workers :
       /\ InCall(w) => Follows(msg[w], att[w] - 1)
       /\ Step(w, {"schedule"}) => Follows(msg[w], att[w])

SentIsFinal ==
  \A m \in Messages : rows[m].status = "SENT" => rows[m].finalDelivered

SendMeetsUnsent ==
  \A w \in Workers : Step(w, {"send"}) => rows[msg[w]].status # "SENT"

PipelineInv ==
  /\ PipelineTypeOK /\ RowsBeforeRecords /\ PublishedFirst
  /\ AttemptsFollow /\ AttemptsRest /\ SentIsFinal
  /\ Undisturbed => /\ CallsHoldRecords /\ RetriesAreDistinct /\ OneLine
                    /\ SendMeetsUnsent

\* What makes AcceptancesAreOwed of RetryCycle inductive here: its chances,
\* and that nothing is accepted before it is published.
UnpublishedIsUnsent ==
  \A m \in Messages : accepted[m] > 0 => m \in published

PipelineOwed == ChancesAreOwed /\ UnpublishedIsUnsent

-----------------------------------------------------------------------------
(* The layered implementation keeps the ledger as well, and numbers the    *)
(* attempts as documented.                                                 *)

LayeredClosed(m) ==
  \/ \E a \in audit : a.message = m /\ a.status = "SUCCESS"
  \/ m \in dlqEntries

LayeredOutcome ==
  [m \in Messages |-> IF LayeredClosed(m) THEN rows[m].status ELSE "open"]

LayeredLedger == INSTANCE DeliveryLedger WITH
  Stride <- 1, tried <- Tried, outcome <- LayeredOutcome,
  taken <- accepted

\* Up to the first failed call, crash or overlap, whatever the requests and
\* the expiry of keys, every step is a step of the ledger or none.
LayeredLedgerStep ==
  [][faults' = 0 /\ overlaps' = 0 /\ crashes' = 0 =>
       [LayeredLedger!Next]_(LayeredLedger!ledger)]_pipelineVars

-----------------------------------------------------------------------------
(* What makes every step a ledger step: where each line of processing is,  *)
(* until something other than a provider fails.                            *)

NextNumber(m, n) ==
  /\ \A k \in Tried[m] : k < n
  /\ \/ Tried[m] = {} /\ n = 1
     \/ n - 1 \in Tried[m] /\ n - 1 < MaxAttempts

LayeredUndecided(m) ==
  ~LayeredClosed(m) /\ accepted[m] = 0 /\ ~rows[m].finalDelivered

LayeredDue(m, n) == LayeredUndecided(m) /\ NextNumber(m, n)

\* Attempt n at m has reached an await.
Stands(m, n, await) ==
  /\ await \in {"exists", "getStatus", "send", "saveFailed"} => LayeredDue(m, n)
  /\ await \in {"markSent", "saveSuccess"} =>
       ~LayeredClosed(m) /\ accepted[m] > 0 /\ NextNumber(m, n)
  /\ await = "saveSuccess" => rows[m].status = "SENT"
  /\ await \in {"schedule", "markFailed", "saveDLQ"} =>
       /\ LayeredUndecided(m)
       /\ n \in Tried[m] /\ \A k \in Tried[m] : k <= n
       /\ await = "schedule" <=> n < MaxAttempts
  /\ await = "saveDLQ" => rows[m].status = "FAILED"

\* A message that was not published yet is due its first attempt.
LayeredOnLedger ==
  faults = 0 /\ Undisturbed =>
    /\ \A w \in Workers : Stands(msg[w], att[w], pc[w])
    /\ \A r \in inbox : (\A w \in Workers : taken[w] # r) =>
         LayeredDue(r.message, r.attempt + 1)
    /\ \A r \in Waiting : LayeredDue(r.message, r.attempt + 1)
    /\ \A m \in Messages \ published : LayeredDue(m, 1)

=============================================================================
