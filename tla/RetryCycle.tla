------------------------------ MODULE RetryCycle ------------------------------
(***************************************************************************)
(* The delivery life cycle: every message is handed to processDelivery,    *)
(* what the processor schedules comes back through the retry loop of       *)
(* index.ts, and is handed to processDelivery again ("Consumer processes   *)
(* as same messageId", RetrySchedulerService.ts:9) until it is SENT or     *)
(* dead-lettered.                                                          *)
(*                                                                         *)
(* The consumer is reduced to what the processor relies on: a record stays *)
(* in its topic until the call made for it ended, whatever the result, and *)
(* is handed out again after a crash.  The batch layer between topic and   *)
(* processor, which today refuses every retry record, is modelled in       *)
(* BatchConsumer: this module shows what processor, scheduler and timer    *)
(* do for a record that gets through.  Retry delays are "any time later".  *)
(***************************************************************************)
EXTENDS RetryLoop

CONSTANTS MaxOverlaps,  \* bound: with so many overlaps, no worker is given a
                        \* record another has, no poll reads a retry that
                        \* another has read
          MaxCrashes    \* bound: process crashes

ASSUME BoundsAssumption == MaxOverlaps \in Nat /\ MaxCrashes \in Nat

VARIABLES inbox,    \* records of messages.<channel> not yet passed
          copies,   \* records published by the retry loop so far
          taken,    \* the record each worker processes
          overlaps, \* records handed to a second worker by a rebalance, and
                    \* retries taken by a poll that did not remove them
          crashes

inboxVars == <<inbox, copies, taken, overlaps, crashes>>
vars == <<processorVars, pollVars, inboxVars>>

\* "copy" tells records with equal contents apart.
Record == [message : Messages, attempt : Nat, copy : Nat]
NoRecord == [message |-> NoMessage, attempt |-> 0, copy |-> 0]

TypeOK == /\ ProcessorTypeOK
          /\ CallsAreFilled
          /\ inbox \subseteq Record
          /\ copies \in Nat
          /\ taken \in [Workers -> Record \cup {NoRecord}]
          /\ PollTypeOK
          /\ PollsAreOrderly
          /\ overlaps \in Nat
          /\ crashes \in 0 .. MaxCrashes

\* The consumer has inserted every message IN_PROGRESS and published
\* records carry attempt 0 (MessagePublisher sends no "attempt" field).
Init ==
  /\ ProcessorInit([status |-> "IN_PROGRESS", finalDelivered |-> FALSE])
  /\ inbox = {[message |-> m, attempt |-> 0, copy |-> 0] : m \in Messages}
  /\ copies = 0
  /\ taken = [w \in Workers |-> NoRecord]
  /\ PollInit
  /\ overlaps = 0
  /\ crashes = 0

-----------------------------------------------------------------------------
Take(w, r) ==
  /\ \/ (\A v \in Workers : taken[v] # r) /\ UNCHANGED overlaps
     \/ /\ \E v \in Workers : taken[v] = r
        /\ overlaps < MaxOverlaps
        /\ overlaps' = overlaps + 1
  /\ StartDelivery(w, r.message, r.attempt)
  /\ taken' = [taken EXCEPT ![w] = r]
  /\ UNCHANGED <<storeVars, faults, inbox, copies, pollVars, crashes>>

Process(w) == /\ ProcessorStep(w)
              /\ Rescored(w, att[w] + 1)
              /\ UNCHANGED <<polled, inboxVars>>

\* eachBatch returns: the offset passes the record whatever the result.
Finish(w) ==
  /\ pc[w] \in Results
  /\ EndCall(w)
  /\ inbox' = inbox \ {taken[w]}
  /\ taken' = [taken EXCEPT ![w] = NoRecord]
  /\ UNCHANGED <<storeVars, faults, copies, pollVars, overlaps, crashes>>

ReadRetries(p, due) ==
  /\ Read(p, due)
  /\ BeingRead(due) => overlaps < MaxOverlaps
  /\ UNCHANGED inboxVars

RemoveRetries(p) ==
  /\ Remove(p)
  /\ overlaps' = overlaps + Cardinality(polled'[p] \cap reads[p].gone)
  /\ UNCHANGED <<inbox, copies, taken, crashes>>

RepublishRetry(p, r) ==
  /\ Republish(p, r,
               /\ inbox' = inbox \cup {[message |-> r.message,
                                        attempt |-> r.attempt,
                                        copy |-> copies + 1]}
               /\ copies' = copies + 1,
               UNCHANGED <<inbox, copies>>)
  /\ UNCHANGED <<taken, overlaps, crashes>>

Crash(w) ==
  /\ crashes < MaxCrashes
  /\ InCall(w) \/ \E p \in Pollers : Host[p] = w /\ Polling(p)
  /\ crashes' = crashes + 1
  /\ EndCall(w)
  /\ taken' = [taken EXCEPT ![w] = NoRecord]
  /\ PollsDie(w)
  /\ UNCHANGED <<storeVars, faults, inbox, copies, overlaps>>

Work(w) == \/ \E r \in inbox : Take(w, r)
           \/ Process(w)
           \/ Finish(w)

Timer(p) == \/ \E due \in SUBSET retries : ReadRetries(p, due)
            \/ RemoveRetries(p)
            \/ \E r \in polled[p] : RepublishRetry(p, r)

Next == \/ \E w \in Workers : Work(w) \/ Crash(w)
        \/ \E p \in Pollers : Timer(p)

Spec == Init /\ [][Next]_vars

\* The event loop of a live process resumes answered awaits and runs its
\* timer; a crash is never owed.
FairSpec == /\ Spec
            /\ \A w \in Workers : WF_vars(Work(w))
            /\ \A p \in Pollers : WF_vars(Timer(p))

-----------------------------------------------------------------------------
(* Safety under crashes, failed calls and overlapping workers. *)

Audited(m, n, status) ==
  [message |-> m, number |-> n, status |-> status] \in audit

\* Success is never recorded for a message no provider accepted: neither in
\* its row nor in the audit trail (DeliveryProcessorService.ts:100-120).
SentIsAccepted ==
  /\ \A m \in Messages :
       rows[m].status = "SENT" \/ rows[m].finalDelivered => accepted[m] > 0
  /\ \A a \in audit : a.status = "SUCCESS" => accepted[a.message] > 0

\* A message reaches the DLQ topic only after the dlq_entries row, and that
\* row only after a failed attempt numbered MAX_ATTEMPTS or more
\* (DeliveryProcessorService.ts:162-206).
DLQEarned ==
  /\ dlqTopic \subseteq dlqEntries
  /\ \A m \in dlqEntries :
       \E a \in audit : /\ a.message = m /\ a.status = "FAILED"
                        /\ a.number >= MaxAttempts

\* Every retry on its way, in Redis, in a poller's hands or back in Kafka,
\* is owed to the failed attempt just before it, and none is numbered past
\* MAX_ATTEMPTS (DeliveryProcessorService.ts:162-168).
Earned(m, attempt) == /\ attempt <= MaxAttempts
                      /\ Audited(m, attempt - 1, "FAILED")
RetryEarned ==
  /\ \A r \in retries : Earned(r.message, r.attempt)
  /\ \A p \in Pollers : \A r \in reads[p].gone \cup polled[p] :
       Earned(r.message, r.attempt)
  /\ \A r \in inbox : r.attempt # 0 => Earned(r.message, r.attempt)

-----------------------------------------------------------------------------
(* What a call has established by the time it reaches an await: the       *)
(* strengthening that makes the three invariants inductive.                *)

Step(w, steps) == pc[w] \in steps

AcceptedBeforeRecorded(w) ==
  Step(w, {"markSent", "saveSuccess", "warm", "logSent"}) =>
    accepted[msg[w]] > 0

FailedBeforeDecided(w) ==
  /\ Step(w, {"markFailed", "saveDLQ", "publishDLQ"}) =>
       Audited(msg[w], att[w], "FAILED") /\ att[w] >= MaxAttempts
  /\ Step(w, {"publishDLQ"}) => msg[w] \in dlqEntries
  /\ Step(w, {"markPending", "schedule"}) =>
       Audited(msg[w], att[w], "FAILED") /\ att[w] < MaxAttempts

CallInv == \A w \in Workers : AcceptedBeforeRecorded(w)
                             /\ FailedBeforeDecided(w)

IInv == TypeOK /\ SentIsAccepted /\ DLQEarned /\ RetryEarned /\ CallInv

-----------------------------------------------------------------------------
(* Until the first rebalance, crash or doubly read retry a message has one  *)
(* line of processing, however many calls fail.                            *)

Undisturbed == overlaps = 0 /\ crashes = 0

Delivering == Awaits \ {"logRetry"}

\* Two workers never deliver the same message at the same time, until a
\* record is handed out twice or a retry published by two polls.
OneDeliverer ==
  Undisturbed => \A v, w \in Workers :
    v # w /\ pc[v] \in Delivering /\ pc[w] \in Delivering => msg[v] # msg[w]

Waiting == retries \cup UNION {polled[p] : p \in Pollers}

\* A retry that waits finds its message PENDING, not SENT or FAILED: until
\* then the outcome is never decided while an attempt is still owed.
RetryFindsPending ==
  Undisturbed => \A r \in Waiting : rows[r.message].status = "PENDING"

\* The strengthening that makes them inductive.  A record is live until the
\* call made for it can have scheduled the next attempt; of every message
\* one live record, or one waiting retry, exists at most.
Passed == {"logRetry"} \cup Results

Live(r) == \A w \in Workers : taken[w] = r => pc[w] \notin Passed

CallsHoldRecords ==
  /\ \A w \in Workers :
       IF InCall(w) THEN /\ taken[w] \in inbox
                         /\ msg[w] = taken[w].message
                         /\ att[w] = taken[w].attempt + 1
                    ELSE taken[w] = NoRecord
  /\ \A v, w \in Workers : InCall(v) /\ taken[v] = taken[w] => v = w
  /\ \A r \in inbox : r.copy <= copies

RetriesAreDistinct ==
  /\ \A q, r \in Waiting : q.message = r.message => q = r
  /\ \A p \in Pollers : polled[p] \cap retries = {}
  /\ \A p, q \in Pollers : p # q => polled[p] \cap polled[q] = {}

OneLine ==
  /\ \A q, r \in inbox : Live(q) /\ Live(r) /\ q.message = r.message => q = r
  /\ \A r \in inbox : Live(r) => \A q \in Waiting : q.message # r.message

ScheduledIsPending ==
  \A w \in Workers : pc[w] = "schedule" => rows[msg[w]].status = "PENDING"

LineInv ==
  /\ \A m \in Messages : rows[m].status # "absent"
  /\ Undisturbed => /\ CallsHoldRecords /\ RetriesAreDistinct /\ OneLine
                    /\ ScheduledIsPending /\ RetryFindsPending

-----------------------------------------------------------------------------
(* How often a message may be accepted. *)

\* "Never call provider twice for same message" (DeliveryProcessorService.ts
\* :25): every acceptance of a message beyond the first is owed to a failed
\* call, a crash, a record handed out twice or a retry published twice, each
\* to one of its own; what is retried once adds none.
Failures == faults + overlaps + crashes

AcceptancesAreOwed == \A m \in Messages : accepted[m] <= 1 + Failures

\* What may lead to an acceptance of m: a record nobody has taken, a call that
\* has yet to send or to schedule, a retry in Redis or in a timer's hands.
MaySchedule == {"exists", "setNX", "getStatus", "send", "saveFailed",
                "markPending", "schedule"}

Chances(m) ==
  {<<"record", r>> : r \in {q \in inbox : /\ q.message = m
                                        /\ \A w \in Workers : taken[w] # q}}
    \cup {<<"call", w>> : w \in {v \in Workers : /\ msg[v] = m
                                                 /\ pc[v] \in MaySchedule}}
    \cup {<<"retry", r>> : r \in {q \in retries : q.message = m}}
    \cup UNION {{<<"polled", p, r>> : r \in {q \in polled[p] : q.message = m}} :
                  p \in Pollers}

\* The strengthening: what may still be accepted is owed like what was.
IdleIsEmptyHanded == \A w \in Workers : ~InCall(w) => taken[w] = NoRecord

Owed(m) == /\ IsFiniteSet(Chances(m))
           /\ accepted[m] + Cardinality(Chances(m)) <= 1 + Failures

ChancesAreOwed == IdleIsEmptyHanded /\ \A m \in Messages : Owed(m)

-----------------------------------------------------------------------------
(* Until the first failed call. *)

\* No rebalance and no retry record: all that repeats a call is a crash.
OnlyCrashes == faults = 0 /\ overlaps = 0 /\ copies = 0

\* "Never call provider twice for same message" (DeliveryProcessorService.ts
\* :25), as far as cache and row can tell: when a record is handed out again
\* after a crash, no provider accepts a message that is SENT once more, and
\* no failed send takes SENT back.  Retry records, which carry no dedupKey,
\* do not have this protection.
SentOutlivesCrashes ==
  [][\A m \in Messages :
       OnlyCrashes /\ rows[m].status = "SENT" =>
         accepted'[m] = accepted[m] /\ rows'[m] = rows[m]]_vars

\* What makes every step one of those, where the tables fit the statements:
\* the records are first ones, and one call at most is made for each; a message
\* that is SENT is in the cache and final in its row; and a call that meets it
\* SENT is past its send or about to be told.
FirstRecords ==
  /\ \A r \in inbox : r.attempt = 0 /\ r.copy = 0
  /\ \A w \in Workers :
       IF InCall(w) THEN /\ taken[w] \in inbox /\ att[w] = 1
                         /\ msg[w] = taken[w].message
                    ELSE taken[w] = NoRecord
  /\ \A v, w \in Workers : InCall(v) /\ InCall(w) /\ msg[v] = msg[w] => v = w

SentIsCached ==
  \A m \in Messages : rows[m].status = "SENT" =>
    rows[m].finalDelivered /\ DedupKey[m] \in delivered

AfterSent == {"exists", "getStatus", "saveSuccess", "warm", "logSent"}
               \cup Results

CallMeetsSent(w) ==
  /\ Step(w, {"getStatus", "send", "markSent"}) => DedupKey[msg[w]] \in delivered
  /\ InCall(w) /\ rows[msg[w]].status = "SENT" => Step(w, AfterSent)

CachedInv == OnlyCrashes =>
  FirstRecords /\ SentIsCached /\ \A w \in Workers : CallMeetsSent(w)

\* Every message is delivered or dead-lettered in the end, and the retry
\* queue holds nothing of it then.
Settled(m) == /\ \/ rows[m].status = "SENT"
                 \/ rows[m].status = "FAILED" /\ m \in dlqTopic
              /\ \A r \in retries : r.message # m
EveryMessageSettles == \A m \in Messages : <>[]Settled(m)

-----------------------------------------------------------------------------
(* The cycle implements DeliveryLedger.  An attempt is on the ledger when   *)
(* it is in the audit trail; a message is closed, with the status of its    *)
(* row for an outcome, once a success is audited or a dead letter is out.   *)

Tried == [m \in Messages |-> {a.number : a \in {b \in audit : b.message = m}}]

Closed(m) == \/ \E a \in audit : a.message = m /\ a.status = "SUCCESS"
             \/ m \in dlqTopic

Outcome == [m \in Messages |-> IF Closed(m) THEN rows[m].status ELSE "open"]

Ledger == INSTANCE DeliveryLedger WITH
  Stride <- 2, tried <- Tried, outcome <- Outcome,
  taken <- accepted

\* As long as nothing but a provider fails, a step is a ledger step or none:
\* what was promised is kept up to the first failed call, crash, record handed
\* out twice or retry published twice.
LedgerStep ==
  [][faults' = 0 /\ overlaps' = 0 /\ crashes' = 0 =>
       [Ledger!Next]_(Ledger!ledger)]_vars

\* A behaviour without any of these is one of the ledger, fairness included.
LedgerIsKept ==
  Ledger!Init /\ LedgerStep /\ ([](faults = 0 /\ Undisturbed) => Ledger!Fairness)

\* What makes every step a ledger step, as long as nothing else fails: where
\* each line of processing is.
Undecided(m) == ~Closed(m) /\ accepted[m] = 0

\* n is the number the next attempt at m will have.
Due(m, n) ==
  /\ Undecided(m) /\ ~rows[m].finalDelivered
  /\ \A k \in Tried[m] : k < n
  /\ \/ Tried[m] = {} /\ n = 1
     \/ n - 2 \in Tried[m] /\ n - 2 < MaxAttempts

CallOnLedger(w) ==
  /\ Step(w, {"exists", "setNX", "getStatus", "send", "saveFailed"}) =>
       Due(msg[w], att[w])
  /\ Step(w, {"markSent", "saveSuccess"}) =>
       /\ ~Closed(msg[w])
       /\ \A k \in Tried[msg[w]] : k < att[w]
       /\ \/ Tried[msg[w]] = {} /\ att[w] = 1
          \/ att[w] - 2 \in Tried[msg[w]] /\ att[w] - 2 < MaxAttempts
  /\ Step(w, {"saveSuccess"}) => rows[msg[w]].status = "SENT"
  /\ Step(w, {"markFailed", "saveDLQ", "publishDLQ", "markPending",
              "schedule"}) =>
       /\ Undecided(msg[w]) /\ ~rows[msg[w]].finalDelivered
       /\ \A k \in Tried[msg[w]] : k <= att[w]
  /\ Step(w, {"saveDLQ", "publishDLQ"}) => rows[msg[w]].status = "FAILED"

OnLedger ==
  faults = 0 /\ Undisturbed =>
    /\ \A w \in Workers : CallOnLedger(w)
    /\ \A r \in inbox : (\A w \in Workers : taken[w] # r) =>
         Due(r.message, r.attempt + 1)
    /\ \A r \in Waiting : Due(r.message, r.attempt + 1)

-----------------------------------------------------------------------------
(* What the comments and the documentation say. *)

\* "IN_PROGRESS -> SENT (success)" (DeliveryProcessorService.ts:18), and no
\* transition out of SENT, whatever fails.
SentIsTerminal ==
  [][\A m \in Messages :
       rows[m].status = "SENT" => rows'[m].status = "SENT"]_vars

\* "Which attempt is this (1, 2, 3, ...)" (ProviderFactory.ts:9): a second
\* attempt follows a first, a third a second.
AttemptsConsecutive ==
  \A a \in audit : a.number > 1 =>
    \E b \in audit : b.message = a.message /\ b.number = a.number - 1

\* "On success: Update DB status=SENT" (DeliveryProcessorService.ts:50).
AcceptedIsMarked ==
  \A m \in Messages : (accepted[m] > 0) ~> (rows[m].status = "SENT")

=============================================================================
