------------------------ MODULE LayeredPipelineProofs ------------------------
(***************************************************************************)
(* LayeredPipeline!PipelineInv is inductive: types, one published request  *)
(* per content, and attempts that follow failed ones, for every number of  *)
(* workers, requests, faults, overlaps and crashes, every MAX_ATTEMPTS and *)
(* every schema; and until the first overlap or crash no message that is   *)
(* SENT is sent again.  Where the tables fit the statements,               *)
(* LayeredOnLedger makes every step up to the first failure one of         *)
(* DeliveryLedger, and PipelineOwed counts acceptances through all of      *)
(* them.                                                                   *)
(***************************************************************************)
EXTENDS LayeredPipeline, RetryCycleProofs

USE DEF processorVars, storeVars, callVars, pollVars, inboxVars, routerVars,
        layerVars, Queue!Publish

\* PipelineInv with the parts that RetryCycleProofs knows.
LEMMA PipelineParts ==
  PipelineInv <=>
    /\ PipelineTypeOK /\ RowsBeforeRecords /\ PublishedFirst
    /\ AttemptsFollow /\ AttemptsRest /\ SentIsFinal
    /\ Undisturbed => Handling /\ SendMeetsUnsent
BY DEF PipelineInv, Handling

\* A retry is underway in Redis, or read or removed by a poll.
LEMMA UnderwayParts ==
  \A q : q \in Underway <=>
           \/ q \in retries
           \/ \E p \in Pollers : q \in polled[p] \/ q \in reads[p].gone
BY DEF Underway, Waiting

-----------------------------------------------------------------------------
(* One await of ProcessDelivery. *)

\* It adds the retry it schedules to the ZSET, or nothing.
LEMMA DeliveryRetries ==
  ASSUME NEW w \in Workers, DeliveryStep(w)
  PROVE  \/ retries' = retries
         \/ retries' = retries \cup {[message |-> msg[w], attempt |-> att[w]]}
BY DEF DeliveryStep, CheckDeliveryDedup, GetStatus, Send, MarkSent,
       SaveSuccessfulAttempt, LogSent, SaveFailedAttempt, MarkFailed, SaveDLQ,
       ScheduleNextAttempt, LogRetry, Write

\* It is left for another one or for the result of the call.
LEMMA DeliveryMoves ==
  ASSUME NEW w \in Workers, DeliveryStep(w)
  PROVE  /\ pc[w] # "idle"
         /\ \E next \in Awaits \cup Results :
              Goto(w, next) /\ (faults' = faults \/ Fault)
<1> USE DEF Answers, Write, Awaits, Results
<1>1. CASE CheckDeliveryDedup(w) \/ GetStatus(w) \/ Send(w)
  BY <1>1 DEF CheckDeliveryDedup, GetStatus, Send
<1>2. CASE MarkSent(w) \/ SaveSuccessfulAttempt(w) \/ LogSent(w)
  BY <1>2 DEF MarkSent, SaveSuccessfulAttempt, LogSent
<1>3. CASE SaveFailedAttempt(w) \/ MarkFailed(w) \/ SaveDLQ(w)
  BY <1>3 DEF SaveFailedAttempt, MarkFailed, SaveDLQ
<1>4. CASE ScheduleNextAttempt(w) \/ LogRetry(w)
  BY <1>4 DEF ScheduleNextAttempt, LogRetry
<1> QED BY <1>1, <1>2, <1>3, <1>4 DEF DeliveryStep

\* It keeps the types.
LEMMA DeliveryType ==
  ASSUME TypeOK, NEW w \in Workers, DeliveryStep(w), Rescored(w, att[w]),
         UNCHANGED <<polled, inboxVars>>
  PROVE  TypeOK'
<1>0. /\ StoreTypeOK /\ CallTypeOK /\ LoopTypeOK /\ FaultTypeOK
      /\ msg[w] \in Messages /\ att[w] \in Nat
  BY DeliveryMoves, TypeParts DEF CallTypeOK, CallsAreFilled, InCall
<1>1. PICK next \in Awaits \cup Results :
        Goto(w, next) /\ (faults' = faults \/ Fault)
  BY DeliveryMoves
<1>2. CallTypeOK' /\ FaultTypeOK'
  BY <1>0, <1>1, DeliveryMoves, GotoType, FaultType DEF FaultTypeOK
<1>3. LoopTypeOK'
  <2>1. PollTypeOK' /\ PollsAreOrderly'
    BY <1>0, DeliveryRetries, RescoredType, RescoredOrderly DEF LoopTypeOK
  <2> QED
    BY <1>0, <2>1 DEF LoopTypeOK
<1>4. StoreTypeOK'
  <2> USE <1>0 DEF StoreTypeOK, Write
  <2>1. CASE CheckDeliveryDedup(w)
    BY <2>1, MessagesAssumption DEF CheckDeliveryDedup, CallKey
  <2>2. CASE GetStatus(w) \/ LogSent(w) \/ LogRetry(w)
    BY <2>2 DEF GetStatus, LogSent, LogRetry
  <2>3. CASE Send(w)
    BY <2>3 DEF Send
  <2>4. CASE MarkSent(w)
    BY <2>4, SetStatusType DEF MarkSent
  <2>5. CASE MarkFailed(w)
    BY <2>5, SetStatusType DEF MarkFailed
  <2>6. CASE SaveSuccessfulAttempt(w)
    BY <2>6 DEF SaveSuccessfulAttempt, SaveAttempt, Attempt
  <2>7. CASE SaveFailedAttempt(w)
    BY <2>7 DEF SaveFailedAttempt, SaveAttempt, Attempt
  <2>8. CASE SaveDLQ(w)
    BY <2>8 DEF SaveDLQ
  <2>9. CASE ScheduleNextAttempt(w)
    BY <2>9 DEF ScheduleNextAttempt, Retry
  <2> QED
    BY <2>1, <2>2, <2>3, <2>4, <2>5, <2>6, <2>7, <2>8, <2>9 DEF DeliveryStep
<1> QED BY <1>2, <1>3, <1>4, TypeParts, PTL

\* Rows neither come nor go, only the row of the message in hand is written,
\* and SENT is written final.
LEMMA DeliveryRows ==
  ASSUME TypeOK, SentIsFinal, NEW w \in Workers, DeliveryStep(w)
  PROVE  /\ \A m \in Messages : HasRow(m)' <=> HasRow(m)
         /\ \A m \in Messages : rows'[m] = rows[m] \/ m = msg[w]
         /\ rows' = rows \/ pc[w] \in {"markSent", "markFailed"}
         /\ SentIsFinal'
<1>0. rows \in [Messages -> Row] /\ msg[w] \in Messages
  BY DeliveryMoves, TypeParts DEF StoreTypeOK, CallTypeOK, CallsAreFilled, InCall
<1>1. CASE rows' = rows
  BY <1>1 DEF HasRow, SentIsFinal
<1>2. ASSUME NEW status \in {"SENT", "FAILED"}, NEW final \in BOOLEAN,
             SetStatus(msg[w], status, final), status = "SENT" => final,
             pc[w] \in {"markSent", "markFailed"}
      PROVE  /\ \A m \in Messages : HasRow(m)' <=> HasRow(m)
             /\ \A m \in Messages : rows'[m] = rows[m] \/ m = msg[w]
             /\ SentIsFinal'
  <2>1. \A m \in Messages : HasRow(m)' <=> HasRow(m)
    BY <1>0, <1>2, SetStatusRows
  <2>2. \A m \in Messages : \/ rows'[m] = rows[m]
                            \/ m = msg[w] /\ rows'[m].status = status
                                          /\ rows'[m].finalDelivered = final
    BY <1>0, <1>2 DEF SetStatus
  <2> QED
    BY <1>2, <2>1, <2>2 DEF SentIsFinal
<1>3. CASE MarkSent(w)
  <2>1. \/ rows' = rows
        \/ pc[w] = "markSent" /\ SetStatus(msg[w], "SENT", TRUE)
    BY <1>3 DEF MarkSent, Write
  <2> QED BY <1>1, <1>2, <2>1
<1>4. CASE MarkFailed(w)
  <2>1. \/ rows' = rows
        \/ pc[w] = "markFailed" /\ SetStatus(msg[w], "FAILED", FALSE)
    BY <1>4 DEF MarkFailed, Write
  <2> QED BY <1>1, <1>2, <2>1
<1> QED
  BY <1>1, <1>3, <1>4
  DEF DeliveryStep, CheckDeliveryDedup, GetStatus, Send, SaveSuccessfulAttempt,
      LogSent, SaveFailedAttempt, SaveDLQ, ScheduleNextAttempt, LogRetry

\* Where it leads, what it schedules and what it records.
LEMMA DeliveryEffect ==
  ASSUME TypeOK, NEW w \in Workers, DeliveryStep(w)
  PROVE  /\ InCall(w) /\ msg[w] \in Messages /\ att[w] \in Nat /\ att[w] >= 1
         /\ UNCHANGED <<msg, att>> /\ pc'[w] # "idle"
         /\ \A v \in Workers \ {w} : pc'[v] = pc[v]
         /\ pc[w] \in Passed => pc'[w] \in Passed
         /\ pc[w] = "schedule" => pc'[w] \in Passed
         /\ \/ retries' = retries
            \/ /\ pc[w] = "schedule"
               /\ retries' = retries \cup {[message |-> msg[w],
                                            attempt |-> att[w]]}
         /\ \/ audit' = audit
            \/ \E status \in {"SUCCESS", "FAILED"} : SaveAttempt(w, status)
         /\ pc'[w] = "schedule" => SaveAttempt(w, "FAILED")
         /\ pc'[w] = "send" => ~rows[msg[w]].finalDelivered /\ rows' = rows
<1>0. /\ pc \in [Workers -> {"idle"} \cup Awaits \cup Results]
      /\ InCall(w) /\ msg[w] \in Messages /\ att[w] \in Nat /\ att[w] >= 1
  BY DeliveryMoves, TypeParts DEF CallTypeOK, CallsAreFilled, InCall
<1>1. /\ UNCHANGED <<msg, att>> /\ pc'[w] # "idle"
      /\ \A v \in Workers \ {w} : pc'[v] = pc[v]
  BY <1>0, DeliveryMoves DEF Goto, Awaits, Results
<1> USE <1>0, <1>1 DEF Answers, Goto, Write, Passed, Results
<1>2. CASE CheckDeliveryDedup(w)
  BY <1>2 DEF CheckDeliveryDedup
<1>3. CASE GetStatus(w)
  BY <1>3 DEF GetStatus
<1>4. CASE Send(w)
  BY <1>4 DEF Send
<1>5. CASE MarkSent(w)
  BY <1>5 DEF MarkSent
<1>6. CASE SaveSuccessfulAttempt(w)
  BY <1>6 DEF SaveSuccessfulAttempt
<1>7. CASE LogSent(w)
  BY <1>7 DEF LogSent
<1>8. CASE SaveFailedAttempt(w)
  BY <1>8 DEF SaveFailedAttempt
<1>9. CASE MarkFailed(w)
  BY <1>9 DEF MarkFailed
<1>10. CASE SaveDLQ(w)
  BY <1>10 DEF SaveDLQ
<1>11. CASE ScheduleNextAttempt(w)
  BY <1>11 DEF ScheduleNextAttempt
<1>12. CASE LogRetry(w)
  BY <1>12 DEF LogRetry
<1> QED
  BY <1>2, <1>3, <1>4, <1>5, <1>6, <1>7, <1>8, <1>9, <1>10, <1>11, <1>12
  DEF DeliveryStep

\* It preserves the invariant: what it records and schedules goes by its own
\* attempt, and it alone may write the row of its message.
LEMMA DeliveryInv ==
  ASSUME PipelineInv, NEW w \in Workers, DeliveryStep(w), Rescored(w, att[w]),
         UNCHANGED <<polled, inboxVars, layerVars>>
  PROVE  PipelineInv'
<1> DEFINE next == [message |-> msg[w], attempt |-> att[w]]
<1>0. /\ PipelineTypeOK /\ TypeOK /\ RowsBeforeRecords /\ PublishedFirst
      /\ AttemptsFollow /\ AttemptsRest /\ SentIsFinal
      /\ Undisturbed => Handling /\ SendMeetsUnsent
  BY PipelineParts DEF PipelineTypeOK
<1>1. /\ InCall(w) /\ msg[w] \in Messages /\ att[w] \in Nat /\ att[w] >= 1
      /\ UNCHANGED <<msg, att>> /\ pc'[w] # "idle"
      /\ \A v \in Workers \ {w} : pc'[v] = pc[v]
      /\ pc[w] \in Passed => pc'[w] \in Passed
      /\ pc[w] = "schedule" => pc'[w] \in Passed
      /\ \/ retries' = retries
         \/ pc[w] = "schedule" /\ retries' = retries \cup {next}
      /\ \/ audit' = audit
         \/ \E status \in {"SUCCESS", "FAILED"} : SaveAttempt(w, status)
      /\ pc'[w] = "schedule" => SaveAttempt(w, "FAILED")
      /\ pc'[w] = "send" => ~rows[msg[w]].finalDelivered /\ rows' = rows
  BY <1>0, DeliveryEffect
<1>2. /\ \A m \in Messages : HasRow(m)' <=> HasRow(m)
      /\ \A m \in Messages : rows'[m] = rows[m] \/ m = msg[w]
      /\ rows' = rows \/ pc[w] \in {"markSent", "markFailed"}
      /\ SentIsFinal'
  BY <1>0, DeliveryRows
<1>3. next.message = msg[w] /\ next.attempt = att[w]
  OBVIOUS
<1> HIDE DEF next
<1>4. PipelineTypeOK'
  BY <1>0, DeliveryType DEF PipelineTypeOK, RouterTypeOK
<1>5. RowsBeforeRecords'
  BY <1>0, <1>2 DEF RowsBeforeRecords, RouterTypeOK, PipelineTypeOK, SameContent
<1>6. \A q \in Underway' : q \in Underway \/ (q = next /\ pc[w] = "schedule")
  <2>1. \A p \in Pollers : reads'[p].gone \subseteq reads[p].gone \cup retries
    BY <1>0, TypeParts, RescoredReads DEF LoopTypeOK
  <2> QED
    BY <1>1, <2>1 DEF Underway, Waiting
<1>7. PublishedFirst'
  BY <1>0, <1>1, <1>3, <1>6 DEF PublishedFirst, InCall
<1>8. /\ audit \subseteq audit'
      /\ \A a \in audit' : a \in audit \/ (a.message = msg[w] /\ a.number = att[w])
      /\ pc'[w] = "schedule" => Audited(msg[w], att[w], "FAILED")'
  BY <1>1 DEF SaveAttempt, Audited
<1>9. \A m, n, status : Audited(m, n, status) => Audited(m, n, status)'
  BY <1>8 DEF Audited
<1>10. AttemptsFollow'
  BY <1>0, <1>1, <1>8, <1>9 DEF AttemptsFollow, AttemptsRest, Follows
<1>11. AttemptsRest'
  <2>1. \A m, n : Follows(m, n) => Follows(m, n)'
    BY <1>9 DEF Follows
  <2>2. \A r \in inbox' \cup Underway' : Follows(r.message, r.attempt)'
    BY <1>0, <1>3, <1>6, <2>1 DEF AttemptsRest, Step
  <2>3. \A v \in Workers : InCall(v)' => Follows(msg[v], att[v] - 1)'
    BY <1>0, <1>1, <2>1 DEF AttemptsRest, InCall
  <2>4. \A v \in Workers : Step(v, {"schedule"})' => Follows(msg[v], att[v])'
    BY <1>0, <1>1, <1>8, <2>1 DEF AttemptsRest, Step, Follows
  <2> QED
    BY <1>1, <2>2, <2>3, <2>4 DEF AttemptsRest, Follows, Audited
<1>12. Undisturbed' => Handling' /\ SendMeetsUnsent'
  <2> SUFFICES ASSUME Undisturbed, Handling, SendMeetsUnsent
               PROVE  Handling' /\ SendMeetsUnsent'
    BY <1>0 DEF Undisturbed
  <2>1. Handling'
    BY <1>0, <1>1, <1>3, AwaitHandling
  <2>2. ASSUME NEW v \in Workers, pc'[v] = "send"
        PROVE  rows'[msg[v]].status # "SENT"
    <3>1. CASE v = w
      BY <1>0, <1>1, <2>2, <3>1 DEF SentIsFinal
    <3>2. CASE v # w
      <4>1. pc[v] = "send" /\ msg[v] \in Messages
        BY <1>0, <1>1, <2>2, <3>2, TypeParts
        DEF CallTypeOK, CallsAreFilled, InCall
      <4>2. rows' = rows \/ msg[v] # msg[w]
        <5> SUFFICES ASSUME pc[w] \in {"markSent", "markFailed"}, msg[v] = msg[w]
                     PROVE  FALSE
          BY <1>2
        <5>1. /\ InCall(v) /\ InCall(w)
              /\ pc[v] \notin Passed /\ pc[w] \notin Passed
          BY <4>1 DEF InCall, Passed, Results
        <5> QED
          BY <3>2, <5>1, HeldIsLive DEF Handling, OneLine, CallsHoldRecords
      <4> QED
        BY <1>2, <4>1, <4>2 DEF SendMeetsUnsent, Step
    <3> QED BY <3>1, <3>2
  <2> QED
    BY <1>1, <2>1, <2>2 DEF SendMeetsUnsent, Step
<1> QED
  BY <1>2, <1>4, <1>5, <1>7, <1>10, <1>11, <1>12, PipelineParts, PTL

-----------------------------------------------------------------------------
(* The steps of consumer and timer leave rows, audit trail and router alone. *)

\* What such a step has to show, besides types and handling.
LEMMA AroundDelivery ==
  ASSUME PipelineInv, TypeOK', UNCHANGED <<rows, audit, layerVars>>,
         \A r \in inbox' \cup Underway' :
           \E q \in inbox \cup Underway : /\ r.message = q.message
                                        /\ r.attempt = q.attempt,
         \A w \in Workers :
           \/ pc'[w] = "idle"
           \/ pc'[w] = pc[w] /\ msg'[w] = msg[w] /\ att'[w] = att[w]
           \/ pc'[w] = "exists" /\ \E r \in inbox : /\ msg'[w] = r.message
                                                   /\ att'[w] = r.attempt + 1,
         Undisturbed' => Undisturbed /\ (Handling => Handling')
  PROVE  PipelineInv'
<1>0. /\ PipelineTypeOK /\ TypeOK /\ RowsBeforeRecords /\ PublishedFirst
      /\ AttemptsFollow /\ AttemptsRest /\ SentIsFinal
      /\ Undisturbed => Handling /\ SendMeetsUnsent
      /\ \A r \in inbox : r.attempt \in Nat
  BY PipelineParts, TypeParts DEF PipelineTypeOK, LoopTypeOK, Record
<1>1. PipelineTypeOK' /\ SentIsFinal'
  BY <1>0 DEF PipelineTypeOK, RouterTypeOK, SentIsFinal
<1>2. RowsBeforeRecords'
  BY <1>0 DEF RowsBeforeRecords, HasRow, SameContent
<1>3. PublishedFirst'
  BY <1>0 DEF PublishedFirst, InCall
<1>4. \A m, n : Follows(m, n) => Follows(m, n)'
  BY DEF Follows, Audited
<1>5. AttemptsFollow'
  BY <1>0 DEF AttemptsFollow, Audited
<1>6. AttemptsRest'
  <2>1. \A r \in inbox' \cup Underway' : Follows(r.message, r.attempt)'
    BY <1>0, <1>4 DEF AttemptsRest
  <2>2. \A r \in inbox : r.attempt + 1 - 1 = r.attempt
    BY <1>0
  <2>3. ASSUME NEW w \in Workers
        PROVE  (/\ InCall(w) => Follows(msg[w], att[w] - 1)
                /\ Step(w, {"schedule"}) => Follows(msg[w], att[w]))'
    BY <1>0, <2>2 DEF AttemptsRest, InCall, Step, Follows, Audited
  <2> QED
    BY <2>1, <2>3 DEF AttemptsRest
<1>7. Undisturbed' => Handling' /\ SendMeetsUnsent'
  BY <1>0 DEF SendMeetsUnsent, Step
<1> QED
  BY <1>1, <1>2, <1>3, <1>5, <1>6, <1>7, PipelineParts, PTL

\* Handing a record out.
LEMMA TakeKeeps ==
  ASSUME PipelineInv, NEW w \in Workers, NEW r \in inbox, Take(w, r),
         UNCHANGED layerVars
  PROVE  PipelineInv'
<1>0. /\ TypeOK /\ pc \in [Workers -> {"idle"} \cup Awaits \cup Results]
      /\ msg \in [Workers -> Messages \cup {NoMessage}]
      /\ att \in [Workers -> Nat] /\ overlaps \in Nat
  BY PipelineParts, TypeParts, BoundsAssumption
  DEF PipelineTypeOK, CallTypeOK, LoopTypeOK
<1>1. TypeOK'
  BY <1>0, TakeType
<1>2. Undisturbed' => Undisturbed /\ (Handling => Handling')
  <2>1. crashes' = crashes /\ (overlaps' = overlaps \/ overlaps' = overlaps + 1)
    BY DEF Take
  <2> QED
    BY <1>0, <2>1, TakeHandling DEF Undisturbed
<1>3. UNCHANGED <<rows, audit, inbox, Underway>>
  BY DEF Take, Underway, Waiting
<1>4. \A v \in Workers :
        \/ pc'[v] = pc[v] /\ msg'[v] = msg[v] /\ att'[v] = att[v]
        \/ pc'[v] = "exists" /\ msg'[v] = r.message /\ att'[v] = r.attempt + 1
  BY <1>0 DEF Take, StartDelivery
<1> QED
  BY <1>1, <1>2, <1>3, <1>4, AroundDelivery

\* Passing a record.
LEMMA FinishKeeps ==
  ASSUME PipelineInv, NEW w \in Workers, Finish(w), UNCHANGED layerVars
  PROVE  PipelineInv'
<1>0. /\ TypeOK /\ pc \in [Workers -> {"idle"} \cup Awaits \cup Results]
      /\ msg \in [Workers -> Messages \cup {NoMessage}]
      /\ att \in [Workers -> Nat]
  BY PipelineParts, TypeParts DEF PipelineTypeOK, CallTypeOK
<1>1. TypeOK'
  BY <1>0, FinishType
<1>2. Undisturbed' => Undisturbed /\ (Handling => Handling')
  BY <1>0, FinishHandling DEF Finish, Undisturbed
<1>3. UNCHANGED <<rows, audit, Underway>> /\ inbox' \subseteq inbox
  BY DEF Finish, Underway, Waiting
<1>4. \A v \in Workers :
        \/ pc'[v] = "idle"
        \/ pc'[v] = pc[v] /\ msg'[v] = msg[v] /\ att'[v] = att[v]
  BY <1>0 DEF Finish, EndCall
<1> QED
  BY <1>1, <1>2, <1>3, <1>4, AroundDelivery

\* One step of a timer: a poll, or a retry published again.
LEMMA TimerKeeps ==
  ASSUME PipelineInv, NEW p \in Pollers, Timer(p), UNCHANGED layerVars
  PROVE  PipelineInv'
<1>0. /\ TypeOK /\ PollTypeOK /\ PollsAreOrderly /\ overlaps \in Nat
  BY PipelineParts, TypeParts DEF PipelineTypeOK, LoopTypeOK
<1>1. TypeOK'
  BY <1>0, ReadKeepsTypes, RemoveType, RepublishType DEF Timer
<1>2. Undisturbed' => Undisturbed /\ (Handling => Handling')
  <2>1. crashes' = crashes /\ (overlaps' = 0 => overlaps = 0)
    BY <1>0, TimerFrame
  <2>2. ASSUME NEW due, ReadRetries(p, due), Handling
        PROVE  Handling'
    BY <2>2, ReadIsQuiet DEF Quiet, Handling, CallsHoldRecords, InCall,
       RetriesAreDistinct, OneLine, Live, Waiting
  <2> QED
    BY <1>0, <2>1, <2>2, RemoveHandling, RepublishHandling DEF Timer, Undisturbed
<1>3. UNCHANGED <<rows, audit, pc, msg, att>>
  BY <1>0, TimerFrame
<1>4. \A r \in inbox' \cup Underway' :
        \E q \in inbox \cup Underway : r.message = q.message /\ r.attempt = q.attempt
  <2>1. ASSUME NEW due, ReadRetries(p, due)
        PROVE  inbox' = inbox /\ Underway' \subseteq Underway
    <3>1. /\ UNCHANGED <<retries, polled, inbox>>
          /\ reads' = [reads EXCEPT ![p] = [there |-> due, gone |-> {}]]
      BY <2>1 DEF ReadRetries, Read
    <3>2. \A q \in Pollers : reads'[q].gone \subseteq reads[q].gone
      BY <1>0, <3>1 DEF PollTypeOK
    <3> QED
      BY <3>1, <3>2 DEF Underway, Waiting
  <2>2. CASE RemoveRetries(p)
    <3>1. inbox' = inbox /\ Remove(p)
      BY <2>2 DEF RemoveRetries
    <3>2. /\ retries' \subseteq retries
          /\ \A q \in Pollers :
               /\ reads'[q].gone \subseteq reads[q].gone \cup retries
               /\ polled'[q] \subseteq polled[q] \cup reads[q].gone \cup retries
      BY <1>0, <3>1, RemovedWereRead
    <3>3. Underway' \subseteq Underway
      BY <3>2 DEF Underway, Waiting
    <3> QED
      BY <3>1, <3>3
  <2>3. ASSUME NEW r \in polled[p], RepublishRetry(p, r)
        PROVE  \A s \in inbox' \cup Underway' :
                 \E q \in inbox \cup Underway :
                   s.message = q.message /\ s.attempt = q.attempt
    <3>1. /\ retries' = retries /\ reads' = reads
          /\ \A q \in Pollers : polled'[q] \subseteq polled[q]
      BY <1>0, <2>3 DEF RepublishRetry, Republish, PollTypeOK
    <3>2. Underway' \subseteq Underway
      BY <3>1 DEF Underway, Waiting
    <3>3. \A s \in inbox' :
            s \in inbox \/ (s.message = r.message /\ s.attempt = r.attempt)
      BY <2>3 DEF RepublishRetry, Republish
    <3>4. r \in Underway
      BY <2>3, UnderwayParts
    <3> QED
      BY <3>2, <3>3, <3>4
  <2> QED
    BY <2>1, <2>2, <2>3 DEF Timer
<1> QED
  BY <1>1, <1>2, <1>3, <1>4, AroundDelivery

\* The crash of a worker.
LEMMA CrashKeeps ==
  ASSUME PipelineInv, NEW w \in Workers, Crash(w), UNCHANGED layerVars
  PROVE  PipelineInv'
<1>0. /\ TypeOK /\ pc \in [Workers -> {"idle"} \cup Awaits \cup Results]
      /\ msg \in [Workers -> Messages \cup {NoMessage}]
      /\ att \in [Workers -> Nat] /\ crashes \in Nat
  BY PipelineParts, TypeParts, BoundsAssumption
  DEF PipelineTypeOK, CallTypeOK, LoopTypeOK
<1>1. TypeOK'
  BY <1>0, CrashType
<1>2. ~Undisturbed'
  BY <1>0 DEF Crash, Undisturbed
<1>3. UNCHANGED <<rows, audit, inbox>> /\ Underway' \subseteq Underway
  <2>1. \A p \in Pollers : /\ polled'[p] \subseteq polled[p]
                           /\ reads'[p].gone \subseteq reads[p].gone
    BY DEF Crash, PollsDie, NothingRead
  <2> QED
    BY <2>1 DEF Crash, Underway, Waiting
<1>4. \A v \in Workers :
        \/ pc'[v] = "idle"
        \/ pc'[v] = pc[v] /\ msg'[v] = msg[v] /\ att'[v] = att[v]
  BY <1>0 DEF Crash, EndCall
<1> QED
  BY <1>1, <1>2, <1>3, <1>4, AroundDelivery

-----------------------------------------------------------------------------
(* The steps of the router leave calls, retries and audit trail alone. *)

DeliveryUntouched ==
  UNCHANGED <<audit, dlqEntries, dlqTopic, delivered, retries, accepted,
              callVars, pollVars, copies, taken, overlaps>>

\* They keep types.
LEMMA RouterTypes ==
  ASSUME PipelineTypeOK, DeliveryUntouched, RouterTypeOK',
         faults' = faults \/ Fault, crashes' \in 0 .. MaxCrashes,
         rows' \in [Messages -> Row], inbox' \subseteq Record,
         published' \subseteq Messages
  PROVE  PipelineTypeOK'
<1>1. StoreTypeOK /\ CallTypeOK /\ LoopTypeOK /\ FaultTypeOK
  BY TypeParts DEF PipelineTypeOK
<1>2. StoreTypeOK' /\ LoopTypeOK'
  BY <1>1 DEF StoreTypeOK, LoopTypeOK, PollTypeOK, PollsAreOrderly,
              DeliveryUntouched
<1>3. CallTypeOK'
  BY <1>1 DEF CallTypeOK, CallsAreFilled, InCall, DeliveryUntouched
<1>4. FaultTypeOK'
  BY <1>1, FaultType DEF FaultTypeOK
<1>5. TypeOK'
  BY <1>2, <1>3, <1>4, TypeParts, PTL
<1> QED
  BY <1>5 DEF PipelineTypeOK

\* Attempts rest on what they rested on when the records are the same, or
\* first ones.
LEMMA RouterAttempts ==
  ASSUME AttemptsFollow, AttemptsRest, DeliveryUntouched,
         \A r \in inbox' : r \in inbox \/ r.attempt = 0
  PROVE  AttemptsFollow' /\ AttemptsRest'
<1>1. UNCHANGED <<audit, pc, msg, att, Underway>>
  BY DEF DeliveryUntouched, Underway, Waiting
<1>2. AttemptsFollow'
  BY <1>1 DEF AttemptsFollow, Audited
<1>3. AttemptsRest'
  BY <1>1 DEF AttemptsRest, Follows, Audited, InCall, Step
<1> QED BY <1>2, <1>3

\* Handling is kept when the records are the same.
LEMMA RouterHandling ==
  ASSUME Handling, DeliveryUntouched, inbox' = inbox
  PROVE  Handling'
BY DEF Handling, DeliveryUntouched, CallsHoldRecords, InCall, RetriesAreDistinct,
       OneLine, Live, Waiting

\* A request that touches neither rows nor topic, the expiry of a key, and
\* the router's death.
LEMMA QuietKeeps ==
  ASSUME PipelineInv, DeliveryUntouched, RouterTypeOK',
         UNCHANGED <<rows, inbox, published>>, faults' = faults \/ Fault,
         crashes' \in 0 .. MaxCrashes, crashes' = 0 => crashes = 0,
         \A m \in Messages :
           \/ stage'[m] = stage[m]
           \/ stage'[m] \in {"log", "done"}
           \/ stage[m] \in {"new", "exists", "set"} /\ stage'[m] \in {"exists", "set", "save"}
  PROVE  PipelineInv'
<1>0. /\ PipelineTypeOK /\ RowsBeforeRecords /\ PublishedFirst
      /\ AttemptsFollow /\ AttemptsRest /\ SentIsFinal
      /\ Undisturbed => Handling /\ SendMeetsUnsent
  BY PipelineParts
<1>1. PipelineTypeOK'
  BY <1>0, RouterTypes, TypeParts DEF PipelineTypeOK, StoreTypeOK, LoopTypeOK
<1>2. RowsBeforeRecords'
  BY <1>0 DEF RowsBeforeRecords, HasRow, SameContent
<1>3. PublishedFirst'
  BY <1>0 DEF PublishedFirst, InCall, DeliveryUntouched, Underway, Waiting
<1>4. AttemptsFollow' /\ AttemptsRest'
  BY <1>0, RouterAttempts
<1>5. SentIsFinal'
  BY <1>0 DEF SentIsFinal
<1>6. Undisturbed' => Handling' /\ SendMeetsUnsent'
  BY <1>0, RouterHandling
  DEF Undisturbed, SendMeetsUnsent, Step, DeliveryUntouched
<1> QED
  BY <1>1, <1>2, <1>3, <1>4, <1>5, <1>6, PipelineParts, PTL

\* The INSERT: a row of its own content, PENDING.
LEMMA SaveKeeps ==
  ASSUME PipelineInv, NEW m \in Messages, Save(m), DeliveryUntouched,
         UNCHANGED <<inbox, published, crashes>>
  PROVE  PipelineInv'
<1>0. /\ PipelineTypeOK /\ RowsBeforeRecords /\ PublishedFirst
      /\ AttemptsFollow /\ AttemptsRest /\ SentIsFinal
      /\ Undisturbed => Handling /\ SendMeetsUnsent
      /\ rows \in [Messages -> Row] /\ RouterTypeOK
      /\ inbox \subseteq Record /\ crashes \in 0 .. MaxCrashes
      /\ published \subseteq Messages
  BY PipelineParts, TypeParts DEF PipelineTypeOK, StoreTypeOK, LoopTypeOK
<1> DEFINE row == [status |-> "PENDING", finalDelivered |-> FALSE]
<1>1. row \in Row /\ row # Absent /\ row.status = "PENDING"
  BY DEF Row, Absent
<1> HIDE DEF row
<1>2. /\ stage[m] = "save" /\ UNCHANGED dedup
      /\ \/ Insertable(m) /\ rows' = [rows EXCEPT ![m] = row]
         \/ UNCHANGED rows /\ stage'[m] # "publish"
      /\ \/ stage' = [stage EXCEPT ![m] = "publish"] /\ reply' = reply
         \/ /\ stage' = [stage EXCEPT ![m] = "done"]
            /\ reply' = [reply EXCEPT ![m] = "ERROR"]
      /\ faults' = faults \/ Fault
  BY <1>0 DEF Save, Advance, Respond, NoFault, row, RouterTypeOK
<1>3. RouterTypeOK' /\ rows' \in [Messages -> Row]
  BY <1>0, <1>1, <1>2 DEF RouterTypeOK, AcceptAwaits
<1>4. PipelineTypeOK'
  BY <1>0, <1>2, <1>3, RouterTypes
<1>5. \A n \in Messages : stage'[n] = stage[n] \/ n = m
  BY <1>0, <1>2 DEF RouterTypeOK
<1>6. \A n \in Messages : HasRow(n) => HasRow(n)'
  BY <1>0, <1>1, <1>2 DEF HasRow
<1>7. RowsBeforeRecords'
  <2>1. CASE UNCHANGED rows /\ stage'[m] # "publish"
    BY <1>0, <1>5, <2>1 DEF RowsBeforeRecords, HasRow, SameContent
  <2>2. CASE Insertable(m) /\ rows' = [rows EXCEPT ![m] = row]
    <3>1. \A n \in Messages : HasRow(n)' <=> HasRow(n) \/ n = m
      BY <1>0, <1>1, <2>2 DEF HasRow
    <3>2. \A n \in Messages : n \in published \/ stage'[n] = "publish" => HasRow(n)'
      BY <1>0, <1>5, <3>1 DEF RowsBeforeRecords
    <3>3. \A n, k \in Messages : HasRow(n)' /\ HasRow(k)' /\ SameContent(n, k) => n = k
      BY <1>0, <2>2, <3>1 DEF RowsBeforeRecords, Insertable, SameContent
    <3> QED
      BY <3>2, <3>3 DEF RowsBeforeRecords, SameContent
  <2> QED
    BY <1>2, <2>1, <2>2
<1>8. PublishedFirst'
  BY <1>0, <1>2, <1>5 DEF PublishedFirst, InCall, DeliveryUntouched, Underway, Waiting
<1>9. AttemptsFollow' /\ AttemptsRest'
  BY <1>0, RouterAttempts
<1>10. \A n \in Messages : rows'[n] = rows[n] \/ rows'[n].status = "PENDING"
  BY <1>0, <1>1, <1>2
<1>11. SentIsFinal'
  BY <1>0, <1>10 DEF SentIsFinal
<1>12. Undisturbed' => Handling' /\ SendMeetsUnsent'
  <2>1. \A w \in Workers : pc[w] = "send" => msg[w] \in Messages
    BY <1>0, TypeParts DEF PipelineTypeOK, CallTypeOK, CallsAreFilled, InCall
  <2> QED
    BY <1>0, <1>10, <2>1, RouterHandling
    DEF Undisturbed, SendMeetsUnsent, Step, DeliveryUntouched
<1> QED
  BY <1>4, <1>7, <1>8, <1>9, <1>11, <1>12, PipelineParts, PTL

\* The first record of a message: deliveries know nothing of it before.
LEMMA PublishKeeps ==
  ASSUME PipelineInv, NEW m \in Messages, DeliveryUntouched,
         PublishMessage(m,
           /\ inbox' = inbox \cup {[message |-> m, attempt |-> 0, copy |-> 0]}
           /\ published' = published \cup {m},
           UNCHANGED <<inbox, published>>),
         UNCHANGED crashes
  PROVE  PipelineInv'
<1> DEFINE record == [message |-> m, attempt |-> 0, copy |-> 0]
<1>0. /\ PipelineTypeOK /\ RowsBeforeRecords /\ PublishedFirst
      /\ AttemptsFollow /\ AttemptsRest /\ SentIsFinal
      /\ Undisturbed => Handling /\ SendMeetsUnsent
      /\ rows \in [Messages -> Row] /\ RouterTypeOK
      /\ inbox \subseteq Record /\ crashes \in 0 .. MaxCrashes
      /\ published \subseteq Messages /\ copies \in Nat
  BY PipelineParts, TypeParts DEF PipelineTypeOK, StoreTypeOK, LoopTypeOK
<1>1. /\ record \in Record /\ record.message = m /\ record.attempt = 0
      /\ record.copy = 0
  BY DEF Record
<1> HIDE DEF record
<1>2. /\ stage[m] = "publish" /\ UNCHANGED <<dedup, rows>>
      /\ \/ inbox' = inbox \cup {record} /\ published' = published \cup {m}
         \/ UNCHANGED <<inbox, published>>
      /\ \/ stage' = [stage EXCEPT ![m] = "log"] /\ reply' = reply
         \/ /\ stage' = [stage EXCEPT ![m] = "done"]
            /\ reply' = [reply EXCEPT ![m] = "ERROR"]
      /\ faults' = faults \/ Fault
  BY DEF PublishMessage, Advance, Respond, NoFault, record
<1>3. RouterTypeOK'
  BY <1>0, <1>2 DEF RouterTypeOK, AcceptAwaits
<1>4. PipelineTypeOK'
  BY <1>0, <1>1, <1>2, <1>3, RouterTypes
<1>5. \A n \in Messages : \/ n # m /\ stage'[n] = stage[n]
                          \/ n = m /\ stage'[n] \in {"log", "done"}
  BY <1>0, <1>2 DEF RouterTypeOK
<1>6. RowsBeforeRecords'
  BY <1>0, <1>2, <1>5 DEF RowsBeforeRecords, HasRow, SameContent
<1>7. PublishedFirst'
  <2>1. UNCHANGED <<pc, msg, Underway>> /\ published \subseteq published'
    BY <1>2 DEF DeliveryUntouched, Underway, Waiting
  <2>2. \A n \in Messages :
          stage'[n] \in {"new", "exists", "set", "save", "publish"} =>
            n \notin published'
    BY <1>0, <1>2, <1>5 DEF PublishedFirst
  <2>3. \A r \in inbox' : r.message \in published'
    BY <1>0, <1>1, <1>2 DEF PublishedFirst
  <2>4. \A r \in Underway : r.message \in published
    BY <1>0 DEF PublishedFirst
  <2> QED
    BY <1>0, <2>1, <2>2, <2>3, <2>4 DEF PublishedFirst, InCall
<1>8. AttemptsFollow' /\ AttemptsRest'
  BY <1>0, <1>1, <1>2, RouterAttempts
<1>9. SentIsFinal'
  BY <1>0, <1>2 DEF SentIsFinal
<1>10. ASSUME Handling
       PROVE  Handling'
  <2>1. UNCHANGED <<pc, msg, att, retries, polled, taken, copies, Waiting>>
    BY DEF DeliveryUntouched, Waiting
  <2>2. \A q \in inbox \cup Underway : q.message # m
    BY <1>0, <1>2 DEF PublishedFirst, Underway
  <2>3. inbox \subseteq inbox' /\ inbox' \subseteq inbox \cup {record}
    BY <1>2
  <2>4. CallsHoldRecords'
    BY <1>0, <1>1, <1>10, <2>1, <2>3 DEF Handling, CallsHoldRecords, InCall
  <2>5. RetriesAreDistinct'
    BY <1>10, <2>1 DEF Handling, RetriesAreDistinct
  <2>6. OneLine'
    BY <1>1, <1>10, <2>1, <2>2, <2>3 DEF Handling, OneLine, Live, Underway
  <2> QED
    BY <2>4, <2>5, <2>6 DEF Handling
<1>11. Undisturbed' => Handling' /\ SendMeetsUnsent'
  BY <1>0, <1>2, <1>10 DEF Undisturbed, SendMeetsUnsent, Step, DeliveryUntouched
<1> QED
  BY <1>4, <1>6, <1>7, <1>8, <1>9, <1>11, PipelineParts, PTL

\* One await of a request.
LEMMA RouterKeeps ==
  ASSUME PipelineInv, NEW m \in Messages, Router(m)
  PROVE  PipelineInv'
<1>0. /\ RouterTypeOK /\ crashes \in 0 .. MaxCrashes
      /\ DeliveryUntouched /\ crashes' = crashes
  BY PipelineParts, TypeParts
  DEF PipelineTypeOK, LoopTypeOK, Router, DeliveryUntouched
<1>1. CASE /\ Execute(m) \/ CheckExists(m) \/ CheckSet(m) \/ PublishLog(m)
           /\ UNCHANGED <<inbox, published>>
  <2>1. /\ UNCHANGED rows /\ (faults' = faults \/ Fault)
        /\ dedup' = dedup \/ dedup' = dedup \cup {DedupKey[m]}
        /\ \/ /\ stage[m] \in {"new", "exists", "set"} /\ reply' = reply
              /\ \E next \in {"exists", "set", "save"} :
                   stage' = [stage EXCEPT ![m] = next]
           \/ /\ stage' = [stage EXCEPT ![m] = "done"]
              /\ \E status \in {"ACCEPTED", "DUPLICATE", "ERROR"} :
                   reply' = [reply EXCEPT ![m] = status]
    BY <1>1 DEF Execute, CheckExists, CheckSet, PublishLog, Advance, Respond,
                NoFault
  <2>2. RouterTypeOK'
    BY <1>0, <2>1, MessagesAssumption DEF RouterTypeOK, AcceptAwaits
  <2>3. \A n \in Messages :
          \/ stage'[n] = stage[n]
          \/ stage'[n] \in {"log", "done"}
          \/ stage[n] \in {"new", "exists", "set"} /\ stage'[n] \in {"exists", "set", "save"}
    BY <1>0, <2>1 DEF RouterTypeOK
  <2> QED
    BY <1>0, <1>1, <2>1, <2>2, <2>3, QuietKeeps
<1>2. CASE Save(m) /\ UNCHANGED <<inbox, published>>
  BY <1>0, <1>2, SaveKeeps
<1>3. CASE PublishMessage(m,
             /\ inbox' = inbox \cup {[message |-> m, attempt |-> 0, copy |-> 0]}
             /\ published' = published \cup {m},
             UNCHANGED <<inbox, published>>)
  BY <1>0, <1>3, PublishKeeps
<1> QED
  BY <1>1, <1>2, <1>3 DEF Router

\* A key expires.
LEMMA ExpiryKeeps ==
  ASSUME PipelineInv, NEW key \in DedupKeys, KeyExpires(key)
  PROVE  PipelineInv'
<1>1. /\ RouterTypeOK /\ crashes \in 0 .. MaxCrashes
      /\ DeliveryUntouched /\ UNCHANGED <<rows, inbox, published, crashes>>
      /\ UNCHANGED <<stage, reply, faults>> /\ dedup' \subseteq dedup
  BY PipelineParts, TypeParts
  DEF PipelineTypeOK, LoopTypeOK, KeyExpires, Expire, DeliveryUntouched
<1>2. RouterTypeOK'
  BY <1>1 DEF RouterTypeOK
<1> QED
  BY <1>1, <1>2, QuietKeeps

\* The router dies.
LEMMA RouterCrashKeeps ==
  ASSUME PipelineInv, RouterCrash
  PROVE  PipelineInv'
<1>1. /\ RouterTypeOK /\ crashes \in 0 .. MaxCrashes
      /\ DeliveryUntouched /\ UNCHANGED <<rows, inbox, published, faults>>
      /\ UNCHANGED <<reply, dedup>> /\ crashes < MaxCrashes /\ crashes' = crashes + 1
      /\ stage' = [m \in Messages |-> IF InProgress(m) THEN "done" ELSE stage[m]]
  BY PipelineParts, TypeParts
  DEF PipelineTypeOK, LoopTypeOK, RouterCrash, RouterDies, DeliveryUntouched
<1>2. RouterTypeOK'
  BY <1>1 DEF RouterTypeOK
<1>3. crashes' \in 0 .. MaxCrashes /\ crashes' # 0
  BY <1>1, BoundsAssumption
<1> QED
  BY <1>1, <1>2, <1>3, QuietKeeps

-----------------------------------------------------------------------------
\* The invariant holds before anything was requested.
LEMMA PipelineInitInv == PipelineInit => PipelineInv
<1> SUFFICES ASSUME PipelineInit PROVE PipelineInv
  OBVIOUS
<1> USE DEF PipelineInit, ProcessorInit, RouterInit, PollInit, NothingRead
<1>1. StoreTypeOK BY DEF StoreTypeOK, Row, Absent
<1>2. CallTypeOK BY DEF CallTypeOK, CallsAreFilled, InCall
<1>3. LoopTypeOK
  <2>1. PollTypeOK
    BY PollInitType DEF PollTypeOK
  <2>2. PollsAreOrderly
    BY FS_EmptySet DEF PollsAreOrderly
  <2> QED
    BY <2>1, <2>2, BoundsAssumption DEF LoopTypeOK
<1>4. FaultTypeOK BY MaxFaultsAssumption DEF FaultTypeOK
<1>5. PipelineTypeOK
  BY <1>1, <1>2, <1>3, <1>4, TypeParts DEF PipelineTypeOK, RouterTypeOK
<1>6. Underway = {} /\ Waiting = {}
  BY DEF Underway, Waiting
<1>7. RowsBeforeRecords /\ SentIsFinal
  BY DEF RowsBeforeRecords, HasRow, SentIsFinal, Absent
<1>8. PublishedFirst /\ AttemptsFollow /\ AttemptsRest
  BY <1>6 DEF PublishedFirst, AttemptsFollow, AttemptsRest, InCall, Step
<1>9. Handling /\ SendMeetsUnsent
  BY <1>6 DEF Handling, CallsHoldRecords, RetriesAreDistinct, OneLine, InCall,
              SendMeetsUnsent, Step
<1> QED
  BY <1>5, <1>7, <1>8, <1>9, PipelineParts

\* Every step preserves it.
LEMMA PipelineNextInv == PipelineInv /\ [PipelineNext]_pipelineVars => PipelineInv'
<1> SUFFICES ASSUME PipelineInv, [PipelineNext]_pipelineVars PROVE PipelineInv'
  OBVIOUS
<1>1. ASSUME NEW w \in Workers, Deliver(w) PROVE PipelineInv'
  BY <1>1, TakeKeeps, DeliveryInv, FinishKeeps DEF Deliver
<1>2. ASSUME NEW w \in Workers, WorkerCrash(w) PROVE PipelineInv'
  BY <1>2, CrashKeeps DEF WorkerCrash
<1>4. ASSUME NEW p \in Pollers, RetryTimer(p) PROVE PipelineInv'
  BY <1>4, TimerKeeps DEF RetryTimer
<1>3. CASE UNCHANGED pipelineVars
  <2>1. /\ UNCHANGED <<rows, audit, inbox, Underway, pc, msg, att, layerVars>>
        /\ UNCHANGED vars
    BY <1>3 DEF pipelineVars, vars, Underway, Waiting
  <2>2. TypeOK'
    BY <2>1, PipelineParts
    DEF PipelineTypeOK, vars, TypeOK, ProcessorTypeOK, PollTypeOK, PollsAreOrderly,
        CallsAreFilled, InCall
  <2>3. Undisturbed' => Undisturbed /\ (Handling => Handling')
    BY <2>1 DEF vars, Undisturbed, Handling, CallsHoldRecords, InCall,
                RetriesAreDistinct, OneLine, Live, Waiting
  <2> QED
    BY <2>1, <2>2, <2>3, AroundDelivery
<1> QED
  BY <1>1, <1>2, <1>3, <1>4, RouterKeeps, ExpiryKeeps, RouterCrashKeeps DEF PipelineNext

\* The strengthened invariant holds in every reachable state.
THEOREM PipelineInductive == PipelineSpec => []PipelineInv
BY PipelineInitInv, PipelineNextInv, PTL DEF PipelineSpec

\* Types of the tables, of Redis and Kafka, of requests and calls.
THEOREM PipelineTypeCorrect == PipelineSpec => []PipelineTypeOK
BY PipelineInductive, PTL DEF PipelineInv

\* Of the requests with one content one at most is published, however they
\* overlap, whatever fails or dies, and whenever the Redis key expires.
THEOREM PublishedOncePerContentHolds == PipelineSpec => []PublishedOncePerContent
<1>1. PipelineInv => PublishedOncePerContent
  BY DEF PipelineInv, PipelineTypeOK, RowsBeforeRecords, PublishedOncePerContent
<1> QED
  BY <1>1, PipelineInductive, PTL

\* Attempt n + 1 follows a failed and audited attempt n.
THEOREM AttemptsFollowHolds == PipelineSpec => []AttemptsFollow
BY PipelineInductive, PTL DEF PipelineInv

\* Until the first overlap or crash no message that is SENT is sent again,
\* whatever calls fail.
THEOREM SentIsNotResentHolds == PipelineSpec => SentIsNotResent
<1>1. PipelineInv /\ [PipelineNext]_pipelineVars =>
        [\A m \in Messages :
           Undisturbed /\ rows[m].status = "SENT" =>
             accepted'[m] = accepted[m]]_pipelineVars
  <2> SUFFICES ASSUME PipelineInv, [PipelineNext]_pipelineVars, NEW m \in Messages,
                      Undisturbed, rows[m].status = "SENT"
               PROVE  accepted'[m] = accepted[m]
    OBVIOUS
  <2>1. CASE accepted' = accepted
    BY <2>1
  <2>2. ASSUME NEW w \in Workers, Send(w) PROVE accepted'[m] = accepted[m]
    <3>1. accepted \in [Messages -> Nat] /\ SendMeetsUnsent
      BY TypeParts DEF PipelineInv, PipelineTypeOK, StoreTypeOK
    <3>2. msg[w] # m
      BY <2>2, <3>1 DEF Send, SendMeetsUnsent, Step
    <3> QED
      BY <2>2, <3>1, <3>2 DEF Send
  <2>3. CASE UNCHANGED pipelineVars
    BY <2>3 DEF pipelineVars, vars
  <2>4. ASSUME NEW w \in Workers, DeliveryStep(w) PROVE accepted' = accepted \/ Send(w)
    BY <2>4
    DEF DeliveryStep, CheckDeliveryDedup, GetStatus, MarkSent,
        SaveSuccessfulAttempt, LogSent, SaveFailedAttempt, MarkFailed, SaveDLQ,
        ScheduleNextAttempt, LogRetry
  <2>5. ASSUME NEW w \in Workers, Deliver(w) \/ WorkerCrash(w)
        PROVE  accepted'[m] = accepted[m]
    BY <2>1, <2>2, <2>4, <2>5
    DEF Deliver, Take, Finish, WorkerCrash, Crash
  <2>6. ASSUME NEW p \in Pollers, RetryTimer(p)
        PROVE  accepted'[m] = accepted[m]
    BY <2>6, TimerFrame DEF RetryTimer, PipelineInv, PipelineTypeOK
  <2> QED
    BY <2>1, <2>3, <2>5, <2>6 DEF PipelineNext, Router, KeyExpires, RouterCrash
<1> QED
  BY <1>1, PipelineInductive, PTL DEF PipelineSpec, SentIsNotResent

-----------------------------------------------------------------------------
(* Until the first failed call: the layered refinement of DeliveryLedger.  *)

\* What LayeredOnLedger says of a state in which nothing has failed.
LayeredLine ==
  /\ \A w \in Workers : Stands(msg[w], att[w], pc[w])
  /\ \A r \in inbox : (\A w \in Workers : taken[w] # r) =>
       LayeredDue(r.message, r.attempt + 1)
  /\ \A r \in Waiting : LayeredDue(r.message, r.attempt + 1)
  /\ \A m \in Messages \ published : LayeredDue(m, 1)

\* What the ledger reads of a message.
SameLedger(m) == /\ rows'[m] = rows[m] /\ accepted'[m] = accepted[m]
                 /\ Tried'[m] = Tried[m]
                 /\ LayeredClosed(m)' <=> LayeredClosed(m)

\* It decides what the message is due and where its calls stand.
LEMMA SameStanding ==
  ASSUME NEW m \in Messages, SameLedger(m)
  PROVE  /\ \A n : LayeredDue(m, n)' <=> LayeredDue(m, n)
         /\ \A n, await : Stands(m, n, await)' <=> Stands(m, n, await)
<1>1. /\ LayeredUndecided(m)' <=> LayeredUndecided(m)
      /\ \A n : NextNumber(m, n)' <=> NextNumber(m, n)
  BY DEF SameLedger, LayeredUndecided, NextNumber
<1>2. \A n : LayeredDue(m, n)' <=> LayeredDue(m, n)
  BY <1>1 DEF LayeredDue
<1>3. \A n, await : Stands(m, n, await)' <=> Stands(m, n, await)
  BY <1>1, <1>2 DEF SameLedger, Stands
<1> QED
  BY <1>2, <1>3

\* The attempts on record, as numbers.
LEMMA LayeredTried ==
  ASSUME TypeOK
  PROVE  Tried \in [Messages -> SUBSET Nat]
BY TypeParts DEF StoreTypeOK, Tried, Attempt

\* A step that writes neither audit trail nor DLQ.
LEMMA LayeredUnrecorded ==
  ASSUME UNCHANGED <<audit, dlqEntries>>
  PROVE  Tried' = Tried /\ \A m : LayeredClosed(m)' <=> LayeredClosed(m)
BY DEF Tried, LayeredClosed

\* An audit entry adds its number, and closes its message if a success.
LEMMA LayeredRecorded ==
  ASSUME NEW m \in Messages, NEW n \in Nat, NEW status,
         audit' = audit \cup {[message |-> m, number |-> n, status |-> status]},
         UNCHANGED <<dlqEntries, dlqTopic>>
  PROVE  /\ Tried' = [Tried EXCEPT ![m] = Tried[m] \cup {n}]
         /\ \A q \in Messages : LayeredClosed(q)' <=>
              LayeredClosed(q) \/ (q = m /\ status = "SUCCESS")
<1> DEFINE a == [message |-> m, number |-> n, status |-> status]
<1>1. a.message = m /\ a.status = status /\ audit' = audit \cup {a}
  OBVIOUS
<1> HIDE DEF a
<1>2. \A q \in Messages : LayeredClosed(q)' <=>
        LayeredClosed(q) \/ (q = m /\ status = "SUCCESS")
  BY <1>1 DEF LayeredClosed
<1> QED
  BY <1>2, Recorded

\* The entry of the DLQ closes its message.
LEMMA LayeredBuried ==
  ASSUME NEW m \in Messages, UNCHANGED audit, dlqEntries' = dlqEntries \cup {m}
  PROVE  /\ Tried' = Tried
         /\ \A q \in Messages : LayeredClosed(q)' <=> LayeredClosed(q) \/ q = m
BY DEF Tried, LayeredClosed

-----------------------------------------------------------------------------
(* One await, as the ledger sees it: at most the message in hand moves.    *)

\* The ledger when the message in hand alone changed.
OnlyLedger(m) == \A q \in Messages \ {m} : SameLedger(q)

\* Steps that write no store are none of the ledger's.
LEMMA LayeredUnchanged ==
  ASSUME UNCHANGED <<rows, accepted, audit, dlqEntries>>
  PROVE  /\ UNCHANGED LayeredLedger!ledger
         /\ \A q \in Messages : SameLedger(q)
<1>1. /\ Tried' = Tried
      /\ \A q : LayeredClosed(q)' <=> LayeredClosed(q)
  BY LayeredUnrecorded
<1>2. LayeredOutcome' = LayeredOutcome
  BY <1>1 DEF LayeredOutcome
<1> QED
  BY <1>1, <1>2 DEF LayeredLedger!ledger, SameLedger

\* The number that is due is the next one on the ledger.
LEMMA LayeredNext ==
  ASSUME NEW m \in Messages, NEW n \in Nat, ~LayeredClosed(m), n >= 1,
         Tried[m] \in SUBSET Nat, NextNumber(m, n)
  PROVE  n \in 1 .. MaxAttempts + 1 /\ LayeredLedger!IsNext(m, n)
<1>1. LayeredOutcome[m] = "open"
  BY DEF LayeredOutcome
<1>2. n \notin Tried[m]
  BY DEF NextNumber
<1>3. CASE Tried[m] = {} /\ n = 1
  BY <1>1, <1>3, MaxAttemptsAssumption DEF LayeredLedger!IsNext
<1>4. CASE n - 1 \in Tried[m] /\ n - 1 < MaxAttempts
  <2>1. PICK k \in Tried[m] : k = n - 1
    BY <1>4
  <2>2. k \in Nat /\ k < MaxAttempts /\ n = k + 1
    BY <1>4, <2>1
  <2> QED
    BY <1>1, <1>2, <2>1, <2>2, MaxAttemptsAssumption DEF LayeredLedger!IsNext
<1> QED
  BY <1>3, <1>4 DEF NextNumber

-----------------------------------------------------------------------------
\* The call a worker has in hand, attempt n at m, and where it stands.
AtHand(w, m, n) ==
  /\ m = msg[w] /\ n = att[w] /\ n >= 1 /\ Stands(m, n, pc[w])
  /\ pc \in [Workers -> {"idle"} \cup Awaits \cup Results]
  /\ rows \in [Messages -> Row] /\ rows[m] # Absent
  /\ accepted \in [Messages -> Nat]
  /\ Tried \in [Messages -> SUBSET Nat]

\* What its next await does: the call stays where the ledger has it, or
\* leaves a retry that is due, and no other message is touched.
Moves(w, m, n) ==
  /\ UNCHANGED <<msg, att>>
  /\ \A q \in Messages \ {m} : SameLedger(q)
  /\ Stands(m, n, pc[w])'
  /\ \/ retries' = retries
     \/ /\ retries' = retries \cup {[message |-> m, attempt |-> n]}
        /\ LayeredDue(m, n + 1)'
  /\ LayeredLedger!Next \/ UNCHANGED LayeredLedger!ledger

\* Awaits that write nothing the ledger sees.
LEMMA QuietAwait ==
  ASSUME Clean, TablesFit, NEW w \in Workers, NEW m \in Messages, NEW n \in Nat,
         AtHand(w, m, n),
         CheckDeliveryDedup(w) \/ GetStatus(w) \/ LogSent(w) \/ LogRetry(w)
  PROVE  Moves(w, m, n)
<1>1. ~Fault
  BY NoFaultWhenClean
<1>2. /\ UNCHANGED <<rows, accepted, audit, dlqEntries, retries, msg, att>>
      /\ \/ pc[w] = "exists" /\ pc'[w] = "getStatus"
         \/ /\ pc[w] = "getStatus"
            /\ pc'[w] = IF rows[m].finalDelivered THEN "succeeded" ELSE "send"
         \/ pc'[w] \in Results
  BY <1>1 DEF CheckDeliveryDedup, GetStatus, LogSent, LogRetry, Write, Answers,
              Goto, TablesFit, AtHand, Results
<1>3. /\ UNCHANGED LayeredLedger!ledger
      /\ \A q \in Messages : SameLedger(q)
  BY <1>2, LayeredUnchanged
<1>4. Stands(m, n, pc'[w])
  BY <1>2 DEF AtHand, Stands, Results, LayeredDue, LayeredUndecided
<1>5. Stands(m, n, pc[w])'
  <2>1. PICK await : await = pc'[w]
    OBVIOUS
  <2>2. Stands(m, n, await)'
    BY <1>3, <1>4, <2>1, SameStanding
  <2> QED
    BY <2>1, <2>2
<1> QED
  BY <1>2, <1>3, <1>5 DEF Moves

\* The send: accepted once, or not at all.
LEMMA SendAwait ==
  ASSUME Clean, NEW w \in Workers, NEW m \in Messages, NEW n \in Nat,
         AtHand(w, m, n), Send(w)
  PROVE  Moves(w, m, n)
<1>1. /\ LayeredDue(m, n) /\ ~LayeredClosed(m) /\ accepted[m] = 0
      /\ NextNumber(m, n)
  BY DEF AtHand, Stands, Send, LayeredDue, LayeredUndecided
<1>2. /\ UNCHANGED <<rows, audit, dlqEntries, retries, msg, att>>
      /\ \/ /\ accepted' = [accepted EXCEPT ![m] = @ + 1]
            /\ pc'[w] = "markSent"
         \/ /\ accepted' = accepted
            /\ pc'[w] = "saveFailed"
  BY DEF Send, Answers, Goto, AtHand
<1>3. /\ Tried' = Tried
      /\ \A q \in Messages : LayeredClosed(q)' <=> LayeredClosed(q)
  BY <1>2, LayeredUnrecorded
<1>4. CASE accepted' = accepted /\ pc'[w] = "saveFailed"
  <2>1. /\ UNCHANGED LayeredLedger!ledger
        /\ \A q \in Messages : SameLedger(q)
    BY <1>2, <1>4, LayeredUnchanged
  <2>2. LayeredDue(m, n)'
    BY <1>1, <2>1, SameStanding
  <2> QED
    BY <1>2, <1>4, <2>1, <2>2 DEF Moves, Stands
<1>5. CASE accepted' = [accepted EXCEPT ![m] = @ + 1] /\ pc'[w] = "markSent"
  <2>1. \A q \in Messages \ {m} : SameLedger(q)
    BY <1>2, <1>3, <1>5 DEF SameLedger, AtHand
  <2>2. Stands(m, n, pc[w])'
    BY <1>1, <1>3, <1>5 DEF Stands, NextNumber, AtHand
  <2>3. accepted' = [accepted EXCEPT ![m] = 1]
    BY <1>1, <1>5 DEF AtHand
  <2>4. UNCHANGED <<Tried, LayeredOutcome>>
    BY <1>2, <1>3 DEF LayeredOutcome
  <2>5. n \in 1 .. MaxAttempts + 1 /\ LayeredLedger!IsNext(m, n)
    BY <1>1, LayeredNext DEF AtHand
  <2>6. LayeredLedger!Next
    BY <1>1, <2>3, <2>4, <2>5
    DEF LayeredLedger!Next, LayeredLedger!Step, LayeredLedger!Accept
  <2> QED
    BY <1>2, <2>1, <2>2, <2>6 DEF Moves
<1> QED
  BY <1>2, <1>4, <1>5

\* The two updates of the row: the message is open before and after.
LEMMA MarkAwait ==
  ASSUME Clean, TablesFit, NEW w \in Workers, NEW m \in Messages, NEW n \in Nat,
         AtHand(w, m, n), MarkSent(w) \/ MarkFailed(w)
  PROVE  Moves(w, m, n)
<1>1. ~Fault
  BY NoFaultWhenClean
<1>2. /\ UNCHANGED <<accepted, audit, dlqEntries, retries, msg, att>>
      /\ \/ /\ pc[w] = "markSent" /\ pc'[w] = "saveSuccess"
            /\ SetStatus(m, "SENT", TRUE)
         \/ /\ pc[w] = "markFailed" /\ pc'[w] = "saveDLQ"
            /\ SetStatus(m, "FAILED", FALSE)
  <2>1. CASE MarkSent(w)
    BY <1>1, <2>1 DEF MarkSent, Write, Answers, Goto, TablesFit, AtHand
  <2>2. CASE MarkFailed(w)
    BY <1>1, <2>2 DEF MarkFailed, Write, Answers, Goto, TablesFit, AtHand
  <2> QED
    BY <2>1, <2>2
<1>3. /\ \A q \in Messages \ {m} : rows'[q] = rows[q]
      /\ \/ /\ pc[w] = "markSent" /\ pc'[w] = "saveSuccess"
            /\ rows'[m].status = "SENT"
         \/ /\ pc[w] = "markFailed" /\ pc'[w] = "saveDLQ"
            /\ rows'[m].status = "FAILED" /\ rows'[m].finalDelivered = FALSE
  BY <1>2 DEF SetStatus, AtHand
<1>4. /\ Tried' = Tried
      /\ \A q \in Messages : LayeredClosed(q)' <=> LayeredClosed(q)
  BY <1>2, LayeredUnrecorded
<1>5. ~LayeredClosed(m)
  BY <1>2 DEF AtHand, Stands, LayeredUndecided
<1>6. Stands(m, n, pc[w])'
  BY <1>2, <1>3, <1>4 DEF AtHand, Stands, LayeredUndecided, NextNumber
<1>7. LayeredOutcome' = LayeredOutcome
  BY <1>3, <1>4, <1>5 DEF LayeredOutcome
<1>8. UNCHANGED LayeredLedger!ledger
  BY <1>2, <1>4, <1>7 DEF LayeredLedger!ledger
<1> QED
  BY <1>2, <1>3, <1>4, <1>6, <1>8 DEF Moves, SameLedger

\* The entry of a success closes the message as SENT.
LEMMA SuccessAwait ==
  ASSUME Clean, TablesFit, NEW w \in Workers, NEW m \in Messages, NEW n \in Nat,
         AtHand(w, m, n), SaveSuccessfulAttempt(w)
  PROVE  Moves(w, m, n)
<1>1. ~Fault
  BY NoFaultWhenClean
<1>2. /\ UNCHANGED <<rows, accepted, dlqEntries, dlqTopic, retries, msg, att>>
      /\ pc[w] = "saveSuccess" /\ pc'[w] = "logSent"
      /\ audit' = audit \cup {[message |-> m, number |-> n, status |-> "SUCCESS"]}
  BY <1>1 DEF SaveSuccessfulAttempt, Write, Answers, Goto, SaveAttempt, HasRow,
              TablesFit, AtHand
<1>3. /\ ~LayeredClosed(m) /\ accepted[m] > 0 /\ NextNumber(m, n)
      /\ rows[m].status = "SENT"
  BY <1>2 DEF AtHand, Stands
<1>4. /\ Tried' = [Tried EXCEPT ![m] = Tried[m] \cup {n}]
      /\ \A q \in Messages : LayeredClosed(q)' <=>
           LayeredClosed(q) \/ (q = m /\ "SUCCESS" = "SUCCESS")
  BY <1>2, LayeredRecorded
<1>5. LayeredOutcome' = [LayeredOutcome EXCEPT ![m] = "SENT"]
  BY <1>2, <1>3, <1>4 DEF LayeredOutcome
<1>6. n \in 1 .. MaxAttempts + 1 /\ LayeredLedger!IsNext(m, n)
  BY <1>3, LayeredNext DEF AtHand
<1>7. LayeredLedger!Next
  BY <1>2, <1>3, <1>4, <1>5, <1>6
  DEF LayeredLedger!Next, LayeredLedger!Step, LayeredLedger!Succeed,
      LayeredLedger!Record
<1>8. \A q \in Messages \ {m} : SameLedger(q)
  BY <1>2, <1>4 DEF SameLedger, AtHand
<1> QED
  BY <1>2, <1>7, <1>8 DEF Moves, Stands

\* The entry of a failure: the next attempt, or the last.
LEMMA FailureAwait ==
  ASSUME Clean, TablesFit, NEW w \in Workers, NEW m \in Messages, NEW n \in Nat,
         AtHand(w, m, n), SaveFailedAttempt(w)
  PROVE  Moves(w, m, n)
<1>1. ~Fault
  BY NoFaultWhenClean
<1>2. /\ UNCHANGED <<rows, accepted, dlqEntries, dlqTopic, retries, msg, att>>
      /\ pc[w] = "saveFailed"
      /\ pc'[w] = IF n >= MaxAttempts THEN "markFailed" ELSE "schedule"
      /\ audit' = audit \cup {[message |-> m, number |-> n, status |-> "FAILED"]}
  BY <1>1 DEF SaveFailedAttempt, Write, Answers, Goto, SaveAttempt, HasRow,
              TablesFit, AtHand
<1>3. LayeredUndecided(m) /\ NextNumber(m, n)
  BY <1>2 DEF AtHand, Stands, LayeredDue
<1>4. /\ Tried' = [Tried EXCEPT ![m] = Tried[m] \cup {n}]
      /\ \A q \in Messages : LayeredClosed(q)' <=>
           LayeredClosed(q) \/ (q = m /\ "FAILED" = "SUCCESS")
  BY <1>2, LayeredRecorded
<1>5. \A q \in Messages : LayeredClosed(q)' <=> LayeredClosed(q)
  BY <1>4
<1>6. LayeredOutcome' = LayeredOutcome
  BY <1>2, <1>5 DEF LayeredOutcome
<1>7. n \in 1 .. MaxAttempts + 1 /\ LayeredLedger!IsNext(m, n)
  BY <1>3, LayeredNext DEF AtHand, LayeredUndecided
<1>8. LayeredLedger!Next
  <2>1. accepted[m] = 0 /\ UNCHANGED <<accepted, LayeredOutcome>>
    BY <1>2, <1>3, <1>6 DEF LayeredUndecided
  <2>2. \E k \in 1 .. MaxAttempts + 1 :
          LayeredLedger!IsNext(m, k) /\ LayeredLedger!Record(m, k)
    BY <1>4, <1>7 DEF LayeredLedger!Record
  <2> QED
    BY <2>1, <2>2 DEF LayeredLedger!Next, LayeredLedger!Step, LayeredLedger!Fail
<1>9. \A q \in Messages \ {m} : SameLedger(q)
  BY <1>2, <1>4, <1>5 DEF SameLedger, AtHand
<1>10. Stands(m, n, pc[w])'
  <2>1. LayeredUndecided(m)'
    BY <1>2, <1>3, <1>5 DEF LayeredUndecided
  <2>2. /\ n \in Tried'[m] /\ \A k \in Tried'[m] : k <= n
        /\ pc'[w] = "schedule" <=> n < MaxAttempts
        /\ pc'[w] \in {"schedule", "markFailed"}
    BY <1>2, <1>3, <1>4, MaxAttemptsAssumption DEF AtHand, NextNumber
  <2> QED
    BY <2>1, <2>2 DEF Stands
<1> QED
  BY <1>2, <1>8, <1>9, <1>10 DEF Moves

\* The entry of the DLQ closes the message as FAILED.
LEMMA BuryAwait ==
  ASSUME Clean, TablesFit, NEW w \in Workers, NEW m \in Messages, NEW n \in Nat,
         AtHand(w, m, n), SaveDLQ(w)
  PROVE  Moves(w, m, n)
<1>1. ~Fault
  BY NoFaultWhenClean
<1>2. /\ UNCHANGED <<rows, accepted, audit, retries, msg, att>>
      /\ pc[w] = "saveDLQ" /\ pc'[w] = "unsuccessful"
      /\ dlqEntries' = dlqEntries \cup {m}
  BY <1>1 DEF SaveDLQ, Write, Answers, Goto, HasRow, TablesFit, AtHand
<1>3. /\ LayeredUndecided(m) /\ rows[m].status = "FAILED"
      /\ n \in Tried[m] /\ n >= MaxAttempts
  BY <1>2, MaxAttemptsAssumption DEF AtHand, Stands
<1>4. /\ Tried' = Tried
      /\ \A q \in Messages : LayeredClosed(q)' <=> LayeredClosed(q) \/ q = m
  BY <1>2, LayeredBuried
<1>5. /\ LayeredOutcome' = [LayeredOutcome EXCEPT ![m] = "FAILED"]
      /\ LayeredOutcome[m] = "open"
  BY <1>2, <1>3, <1>4 DEF LayeredOutcome, LayeredUndecided
<1>6. LayeredLedger!Next
  <2>1. accepted[m] = 0 /\ UNCHANGED <<Tried, accepted>>
    BY <1>2, <1>3, <1>4 DEF LayeredUndecided
  <2>2. \E k \in Tried[m] : k >= MaxAttempts
    BY <1>3
  <2> QED
    BY <1>5, <2>1, <2>2
    DEF LayeredLedger!Next, LayeredLedger!Step, LayeredLedger!Bury
<1>7. \A q \in Messages \ {m} : SameLedger(q)
  BY <1>2, <1>4 DEF SameLedger
<1> QED
  BY <1>2, <1>6, <1>7 DEF Moves, Stands

\* The next attempt is due when it is scheduled.
LEMMA ScheduleAwait ==
  ASSUME Clean, NEW w \in Workers, NEW m \in Messages, NEW n \in Nat,
         AtHand(w, m, n), ScheduleNextAttempt(w)
  PROVE  Moves(w, m, n)
<1>1. ~Fault
  BY NoFaultWhenClean
<1>2. /\ UNCHANGED <<rows, accepted, audit, dlqEntries, msg, att>>
      /\ pc[w] = "schedule" /\ pc'[w] = "logRetry"
      /\ retries' = retries \cup {[message |-> m, attempt |-> n]}
  BY <1>1 DEF ScheduleNextAttempt, Write, Answers, Goto, AtHand
<1>3. /\ UNCHANGED LayeredLedger!ledger
      /\ \A q \in Messages : SameLedger(q)
  BY <1>2, LayeredUnchanged
<1>4. LayeredDue(m, n + 1)
  <2>1. /\ LayeredUndecided(m) /\ n \in Tried[m] /\ n < MaxAttempts
        /\ \A k \in Tried[m] : k <= n
    BY <1>2 DEF AtHand, Stands
  <2>2. NextNumber(m, n + 1)
    BY <2>1 DEF NextNumber, AtHand
  <2> QED
    BY <2>1, <2>2 DEF LayeredDue
<1>5. LayeredDue(m, n + 1)'
  <2>1. PICK k : k = n + 1
    OBVIOUS
  <2>2. LayeredDue(m, k)'
    BY <1>3, <1>4, <2>1, SameStanding
  <2> QED
    BY <2>1, <2>2
<1> QED
  BY <1>2, <1>3, <1>5 DEF Moves, Stands

\* Every await is one of these.
LEMMA AwaitMoves ==
  ASSUME Clean, TablesFit, NEW w \in Workers, NEW m \in Messages, NEW n \in Nat,
         AtHand(w, m, n), DeliveryStep(w)
  PROVE  Moves(w, m, n)
BY QuietAwait, SendAwait, MarkAwait, SuccessAwait, FailureAwait, BuryAwait,
   ScheduleAwait
DEF DeliveryStep

-----------------------------------------------------------------------------
(* Where each line of processing is, as long as nothing fails.              *)

\* A step keeps the lines on the ledger when calls, records and retries come
\* from what was due, and the ledger of published messages is as it was.
LEMMA AroundLedger ==
  ASSUME PublishedFirst', published' \subseteq Messages,
         \A q \in published' : SameLedger(q),
         \A v \in Workers :
           pc'[v] = "idle" \/ Stands(msg'[v], att'[v], pc'[v]),
         \A r \in inbox' : (\A v \in Workers : taken'[v] # r) =>
           LayeredDue(r.message, r.attempt + 1),
         \A r \in Waiting' : LayeredDue(r.message, r.attempt + 1),
         \A m \in Messages \ published' : LayeredDue(m, 1)'
  PROVE  LayeredLine'
<1>1. ASSUME NEW q \in published'
      PROVE  /\ \A n : LayeredDue(q, n)' <=> LayeredDue(q, n)
             /\ \A n, await : Stands(q, n, await)' <=> Stands(q, n, await)
  BY <1>1, SameStanding
<1>2. ASSUME NEW v \in Workers
      PROVE  Stands(msg[v], att[v], pc[v])'
  <2>1. CASE pc'[v] = "idle"
    BY <2>1 DEF Stands
  <2>2. CASE pc'[v] # "idle"
    <3>1. PICK q, n, await : q = msg'[v] /\ n = att'[v] /\ await = pc'[v]
      OBVIOUS
    <3>2. q \in published' /\ Stands(q, n, await)
      BY <2>2, <3>1 DEF PublishedFirst, InCall
    <3>3. Stands(q, n, await)'
      BY <1>1, <3>2
    <3> QED
      BY <3>1, <3>3
  <2> QED
    BY <2>1, <2>2
<1>3. ASSUME NEW r \in inbox', \A v \in Workers : taken'[v] # r
      PROVE  LayeredDue(r.message, r.attempt + 1)'
  BY <1>1, <1>3 DEF PublishedFirst
<1>4. ASSUME NEW r \in Waiting'
      PROVE  LayeredDue(r.message, r.attempt + 1)'
  BY <1>1, <1>4 DEF PublishedFirst, Underway
<1> QED
  BY <1>2, <1>3, <1>4 DEF LayeredLine

\* An await of one call leaves everything else where it was.
LEMMA DeliveryOnLedger ==
  ASSUME PipelineInv, Handling, LayeredLine, Clean, TablesFit,
         NEW w \in Workers, DeliveryStep(w),
         UNCHANGED <<polled, inboxVars, layerVars>>
  PROVE  LayeredLine' /\ [LayeredLedger!Next]_(LayeredLedger!ledger)
<1>0. /\ PipelineTypeOK /\ TypeOK /\ PublishedFirst /\ RowsBeforeRecords
      /\ rows \in [Messages -> Row] /\ accepted \in [Messages -> Nat]
      /\ pc \in [Workers -> {"idle"} \cup Awaits \cup Results]
      /\ Tried \in [Messages -> SUBSET Nat] /\ published \subseteq Messages
      /\ InCall(w) /\ msg[w] \in Messages /\ att[w] \in Nat /\ att[w] >= 1
      /\ \A v \in Workers \ {w} : pc'[v] = pc[v]
  BY PipelineParts, TypeParts, LayeredTried, DeliveryEffect
  DEF PipelineTypeOK, StoreTypeOK, CallTypeOK
<1>1. PICK m \in Messages, n \in Nat : m = msg[w] /\ n = att[w]
  BY <1>0
<1>2. Stands(m, n, pc[w]) /\ m \in published /\ rows[m] # Absent
  BY <1>0, <1>1 DEF LayeredLine, PublishedFirst, RowsBeforeRecords, HasRow
<1>3. Moves(w, m, n)
  BY <1>0, <1>1, <1>2, AwaitMoves DEF AtHand
<1>4. pc[w] \notin Passed \/ pc[w] = "logRetry"
  BY DEF Passed, Results, DeliveryStep, CheckDeliveryDedup, GetStatus, Send,
         MarkSent, SaveSuccessfulAttempt, LogSent, SaveFailedAttempt, MarkFailed,
         SaveDLQ, ScheduleNextAttempt, LogRetry
<1>5. pc[w] = "logRetry" => UNCHANGED <<rows, accepted, audit, dlqEntries>>
  BY DEF DeliveryStep, CheckDeliveryDedup, GetStatus, Send,
         MarkSent, SaveSuccessfulAttempt, LogSent, SaveFailedAttempt, MarkFailed,
         SaveDLQ, ScheduleNextAttempt, LogRetry
<1>6. ASSUME NEW q \in Messages, q # m \/ pc[w] \in Passed
      PROVE  /\ \A k : LayeredDue(q, k)' <=> LayeredDue(q, k)
             /\ \A k, await : Stands(q, k, await)' <=> Stands(q, k, await)
  <2>1. SameLedger(q)
    BY <1>3, <1>4, <1>5, <1>6, LayeredUnchanged DEF Moves
  <2> QED
    BY <2>1, SameStanding
<1>7. ASSUME NEW v \in Workers
      PROVE  Stands(msg[v], att[v], pc[v])'
  <2>1. CASE v = w
    <3>1. msg'[v] = m /\ att'[v] = n
      BY <1>1, <1>3, <2>1 DEF Moves
    <3> QED
      BY <1>3, <2>1, <3>1 DEF Moves
  <2>2. CASE v # w
    <3>1. PICK q, k, await : q = msg'[v] /\ k = att'[v] /\ await = pc'[v]
      OBVIOUS
    <3>2. q = msg[v] /\ await = pc[v] /\ Stands(q, k, await)
      BY <1>0, <1>3, <2>2, <3>1 DEF Moves, LayeredLine
    <3>3. Stands(q, k, await)'
      <4>1. CASE await = "idle" \/ await \in Passed
        BY <4>1 DEF Stands, Passed, Results
      <4>2. CASE InCall(v) /\ await \notin Passed
        <5>1. q \in Messages /\ (q # m \/ pc[w] \in Passed)
          BY <1>0, <1>1, <2>2, <3>2, <4>2, Alone DEF PublishedFirst
        <5> QED
          BY <1>6, <3>2, <5>1
      <4> QED
        BY <3>2, <4>1, <4>2 DEF InCall
    <3> QED
      BY <3>1, <3>3
  <2> QED
    BY <2>1, <2>2
<1>8. ASSUME NEW r \in inbox, \A v \in Workers : taken[v] # r
      PROVE  LayeredDue(r.message, r.attempt + 1)'
  <2>1. r.message \in Messages /\ (r.message # m \/ pc[w] \in Passed)
    BY <1>0, <1>1, <1>8, Alone DEF PublishedFirst
  <2> QED
    BY <1>6, <1>8, <2>1 DEF LayeredLine
<1>9. ASSUME NEW r \in Waiting'
      PROVE  LayeredDue(r.message, r.attempt + 1)'
  <2> DEFINE next == [message |-> m, attempt |-> n]
  <2>1. CASE r \in Waiting
    <3>1. r.message \in Messages /\ (r.message # m \/ pc[w] \in Passed)
      BY <1>0, <1>1, <2>1, Alone DEF PublishedFirst, Underway
    <3> QED
      BY <1>6, <2>1, <3>1 DEF LayeredLine
  <2>2. CASE r \notin Waiting
    <3>1. r = next /\ LayeredDue(m, n + 1)'
      BY <1>3, <2>2 DEF Moves, Waiting
    <3>2. r.message = m /\ r.attempt = n
      BY <3>1
    <3> QED
      BY <3>1, <3>2
  <2> QED
    BY <2>1, <2>2
<1>10. ASSUME NEW q \in Messages \ published
       PROVE  LayeredDue(q, 1)'
  BY <1>2, <1>6, <1>10 DEF LayeredLine
<1>11. LayeredLine'
  BY <1>7, <1>8, <1>9, <1>10 DEF LayeredLine
<1> QED
  BY <1>3, <1>11 DEF Moves

\* A record handed out for the first time is the attempt that is due.
LEMMA TakeOnLedger ==
  ASSUME PipelineInv, PublishedFirst', Handling, LayeredLine,
         NEW w \in Workers, NEW r \in inbox, Take(w, r), overlaps' = 0,
         UNCHANGED layerVars
  PROVE  LayeredLine'
<1>0. /\ pc \in [Workers -> {"idle"} \cup Awaits \cup Results]
      /\ msg \in [Workers -> Messages \cup {NoMessage}]
      /\ att \in [Workers -> Nat] /\ overlaps \in Nat
      /\ taken \in [Workers -> Record \cup {NoRecord}]
      /\ published \subseteq Messages
  BY PipelineParts, TypeParts, BoundsAssumption
  DEF PipelineTypeOK, CallTypeOK, LoopTypeOK
<1>1. /\ \A v \in Workers : taken[v] # r
      /\ UNCHANGED <<rows, accepted, audit, dlqEntries, retries, polled, inbox>>
      /\ pc' = [pc EXCEPT ![w] = "exists"]
      /\ msg' = [msg EXCEPT ![w] = r.message]
      /\ att' = [att EXCEPT ![w] = r.attempt + 1]
      /\ taken' = [taken EXCEPT ![w] = r] /\ taken[w] = NoRecord
  <2>1. pc[w] = "idle"
    BY DEF Take, StartDelivery
  <2> QED
    BY <1>0, <2>1 DEF Take, StartDelivery, Handling, CallsHoldRecords, InCall
<1>2. \A q \in Messages : SameLedger(q)
  BY <1>1, LayeredUnchanged
<1>3. LayeredDue(r.message, r.attempt + 1)
  BY <1>1 DEF LayeredLine
<1>4. \A v \in Workers : Stands(msg'[v], att'[v], pc'[v])
  <2>1. Stands(r.message, r.attempt + 1, "exists")
    BY <1>3 DEF Stands
  <2> QED
    BY <1>0, <1>1, <2>1 DEF LayeredLine
<1>5. ASSUME NEW q \in inbox', \A v \in Workers : taken'[v] # q
      PROVE  LayeredDue(q.message, q.attempt + 1)
  <2>1. q # NoRecord
    BY <1>1, PipelineParts, TypeParts, MessagesAssumption
    DEF PipelineTypeOK, LoopTypeOK, Record, NoRecord
  <2> QED
    BY <1>0, <1>1, <1>5, <2>1 DEF LayeredLine
<1>6. Waiting' = Waiting
  BY <1>1 DEF Waiting
<1>7. \A m \in Messages \ published : LayeredDue(m, 1)'
  BY <1>2, SameStanding DEF LayeredLine
<1> QED
  BY <1>0, <1>2, <1>4, <1>5, <1>6, <1>7, AroundLedger DEF LayeredLine

\* A call that ends takes its record along.
LEMMA FinishOnLedger ==
  ASSUME PipelineInv, PublishedFirst', LayeredLine, NEW w \in Workers, Finish(w),
         UNCHANGED layerVars
  PROVE  LayeredLine'
<1>0. /\ pc \in [Workers -> {"idle"} \cup Awaits \cup Results]
      /\ taken \in [Workers -> Record \cup {NoRecord}]
      /\ msg \in [Workers -> Messages \cup {NoMessage}]
      /\ att \in [Workers -> Nat]
      /\ published \subseteq Messages
  BY PipelineParts, TypeParts DEF PipelineTypeOK, CallTypeOK, LoopTypeOK
<1>1. /\ UNCHANGED <<rows, accepted, audit, dlqEntries, retries, polled>>
      /\ pc' = [pc EXCEPT ![w] = "idle"] /\ inbox' = inbox \ {taken[w]}
      /\ taken' = [taken EXCEPT ![w] = NoRecord]
      /\ msg' = [msg EXCEPT ![w] = NoMessage] /\ att' = [att EXCEPT ![w] = 0]
  BY DEF Finish, EndCall
<1>2. \A q \in Messages : SameLedger(q)
  BY <1>1, LayeredUnchanged
<1>3. \A v \in Workers : pc'[v] = "idle" \/ Stands(msg'[v], att'[v], pc'[v])
  BY <1>0, <1>1 DEF LayeredLine
<1>4. ASSUME NEW q \in inbox', \A v \in Workers : taken'[v] # q
      PROVE  LayeredDue(q.message, q.attempt + 1)
  BY <1>0, <1>1, <1>4 DEF LayeredLine
<1>5. Waiting' = Waiting
  BY <1>1 DEF Waiting
<1>6. \A m \in Messages \ published : LayeredDue(m, 1)'
  BY <1>2, SameStanding DEF LayeredLine
<1> QED
  BY <1>0, <1>2, <1>3, <1>4, <1>5, <1>6, AroundLedger DEF LayeredLine

\* The record published for a retry is the attempt that was due.
LEMMA TimerOnLedger ==
  ASSUME PipelineInv, PublishedFirst', LayeredLine, NEW p \in Pollers,
         RemoveRetries(p) \/ \E r \in polled[p] : RepublishRetry(p, r),
         overlaps' = 0, UNCHANGED layerVars
  PROVE  LayeredLine'
<1>0. TypeOK /\ published \subseteq Messages
  BY PipelineParts DEF PipelineTypeOK
<1>1. /\ UNCHANGED <<rows, accepted, audit, dlqEntries, pc, msg, att, taken>>
      /\ \A q \in inbox' :
           \/ q \in inbox
           \/ \E r \in polled[p] : q.message = r.message /\ q.attempt = r.attempt
  BY DEF RemoveRetries, Remove, RepublishRetry, Republish
<1>2. Waiting' \subseteq Waiting
  BY <1>0, TimerWaiting
<1>3. \A q \in Messages : SameLedger(q)
  BY <1>1, LayeredUnchanged
<1>4. \A v \in Workers : Stands(msg'[v], att'[v], pc'[v])
  BY <1>1 DEF LayeredLine
<1>5. ASSUME NEW q \in inbox', \A v \in Workers : taken'[v] # q
      PROVE  LayeredDue(q.message, q.attempt + 1)
  BY <1>1, <1>5, WaitingParts DEF LayeredLine
<1>6. \A m \in Messages \ published : LayeredDue(m, 1)'
  BY <1>3, SameStanding DEF LayeredLine
<1> QED
  BY <1>0, <1>2, <1>3, <1>4, <1>5, <1>6, AroundLedger DEF LayeredLine

\* A request writes the row of a message that is not published yet, and its
\* first record makes the first attempt due.
LEMMA RouterOnLedger ==
  ASSUME PipelineInv, PublishedFirst', LayeredLine, NEW m \in Messages, Router(m)
  PROVE  LayeredLine' /\ UNCHANGED LayeredLedger!ledger
<1> DEFINE record == [message |-> m, attempt |-> 0, copy |-> 0]
<1>0. /\ PublishedFirst /\ published \subseteq Messages
      /\ rows \in [Messages -> Row]
  BY PipelineParts, TypeParts DEF PipelineTypeOK, StoreTypeOK
<1>1. /\ UNCHANGED <<audit, dlqEntries, accepted, retries, polled, pc, msg, att, taken>>
      /\ \/ inbox' = inbox \cup {record} /\ published' = published \cup {m}
            /\ UNCHANGED rows
         \/ UNCHANGED <<inbox, published>>
      /\ \/ UNCHANGED rows
         \/ /\ stage[m] = "save" /\ published' = published
            /\ rows' = [rows EXCEPT ![m] = [status |-> "PENDING",
                                            finalDelivered |-> FALSE]]
  BY DEF Router, Execute, CheckExists, CheckSet, Save, PublishLog, PublishMessage
<1>2. record.message = m /\ record.attempt = 0 /\ 0 + 1 = 1
  OBVIOUS
<1> HIDE DEF record
<1>3. /\ Tried' = Tried
      /\ \A q : LayeredClosed(q)' <=> LayeredClosed(q)
  BY <1>1, LayeredUnrecorded
<1>4. stage[m] = "save" => m \notin published
  BY <1>0 DEF PublishedFirst
<1>5. \A q \in Messages : rows'[q] = rows[q] \/ (q = m /\ stage[m] = "save")
  BY <1>0, <1>1
<1>6. \A q \in published' : SameLedger(q)
  BY <1>0, <1>1, <1>3, <1>4, <1>5 DEF SameLedger
<1>7. \A q \in Messages \ published : LayeredDue(q, 1)'
  <2>1. \A q \in Messages : rows'[q].finalDelivered => rows[q].finalDelivered
    BY <1>0, <1>1
  <2> QED
    BY <1>1, <1>3, <2>1
    DEF LayeredLine, LayeredDue, LayeredUndecided, NextNumber
<1>8. \A v \in Workers : Stands(msg'[v], att'[v], pc'[v])
  BY <1>1 DEF LayeredLine
<1>9. ASSUME NEW r \in inbox', \A v \in Workers : taken'[v] # r
      PROVE  LayeredDue(r.message, r.attempt + 1)
  <2>1. CASE r \in inbox
    BY <1>1, <1>9, <2>1 DEF LayeredLine
  <2>2. CASE r \notin inbox
    <3>1. r = record
      BY <1>1, <1>9, <2>2
    <3>2. m \notin published
      BY <1>0, <1>1, <1>9, <2>2 DEF Router, PublishMessage, PublishedFirst
    <3> QED
      BY <1>2, <3>1, <3>2 DEF LayeredLine
  <2> QED
    BY <2>1, <2>2
<1>10. Waiting' = Waiting
  BY <1>1 DEF Waiting
<1>11. LayeredLine'
  <2>1. published' \subseteq Messages /\ \A q \in Messages \ published' : q \notin published
    BY <1>0, <1>1
  <2> QED
    BY <1>6, <1>7, <1>8, <1>9, <1>10, <2>1, AroundLedger DEF LayeredLine
<1>12. UNCHANGED LayeredLedger!ledger
  <2>1. \A q \in Messages : LayeredClosed(q) => rows'[q] = rows[q]
    BY <1>4, <1>5 DEF LayeredLine, LayeredDue, LayeredUndecided
  <2>2. LayeredOutcome' = LayeredOutcome
    BY <1>3, <2>1 DEF LayeredOutcome
  <2> QED
    BY <1>1, <1>3, <2>2 DEF LayeredLedger!ledger
<1> QED
  BY <1>11, <1>12

\* Steps that touch keys and requests only.
LEMMA IdleOnLedger ==
  ASSUME PipelineInv, PublishedFirst', LayeredLine,
         UNCHANGED <<rows, audit, dlqEntries, accepted, retries, callVars, polled,
                     inbox, taken, published>>
  PROVE  LayeredLine'
<1>1. published \subseteq Messages /\ Waiting' = Waiting
  BY PipelineParts DEF PipelineTypeOK, Waiting
<1>2. \A q \in Messages : SameLedger(q)
  BY LayeredUnchanged
<1>3. \A m \in Messages \ published : LayeredDue(m, 1)'
  BY <1>2, SameStanding DEF LayeredLine
<1> QED
  BY <1>1, <1>2, <1>3, AroundLedger DEF LayeredLine

\* Before anything was requested every message is due its first attempt.
LEMMA InitOnLedger ==
  PipelineInit => LayeredOnLedger /\ LayeredLedger!Init
<1> SUFFICES ASSUME PipelineInit PROVE LayeredLine /\ LayeredLedger!Init
  BY DEF LayeredOnLedger, LayeredLine
<1> USE DEF PipelineInit, ProcessorInit, RouterInit, PollInit, NothingRead
<1>1. /\ audit = {} /\ dlqEntries = {} /\ accepted = [m \in Messages |-> 0]
      /\ rows = [m \in Messages |-> Absent]
  OBVIOUS
<1>2. /\ Tried = [m \in Messages |-> {}] /\ \A m : ~LayeredClosed(m)
  BY <1>1 DEF Tried, LayeredClosed
<1>3. LayeredLedger!Init
  <2>1. LayeredOutcome = [m \in Messages |-> "open"]
    BY <1>2 DEF LayeredOutcome
  <2> QED
    BY <1>1, <1>2, <2>1 DEF LayeredLedger!Init
<1>4. \A m \in Messages : LayeredDue(m, 1)
  BY <1>1, <1>2 DEF LayeredDue, LayeredUndecided, NextNumber, Absent
<1>5. /\ \A w \in Workers : Stands(msg[w], att[w], pc[w])
      /\ inbox = {} /\ Waiting = {}
  BY DEF Stands, Waiting
<1> QED
  BY <1>3, <1>4, <1>5 DEF LayeredLine

\* As long as nothing else fails every step keeps the lines on the ledger,
\* and is a step of the ledger or none.
LEMMA NextOnLedger ==
  ASSUME TablesFit
  PROVE  PipelineInv /\ LayeredOnLedger /\ [PipelineNext]_pipelineVars =>
           /\ LayeredOnLedger'
           /\ faults' = 0 /\ overlaps' = 0 /\ crashes' = 0 =>
                [LayeredLedger!Next]_(LayeredLedger!ledger)
<1> SUFFICES ASSUME PipelineInv, [PipelineNext]_pipelineVars,
                    faults = 0 /\ Undisturbed => LayeredLine,
                    faults' = 0, overlaps' = 0, crashes' = 0
             PROVE  LayeredLine' /\ [LayeredLedger!Next]_(LayeredLedger!ledger)
  BY DEF LayeredOnLedger, LayeredLine, Undisturbed
<1>0. /\ faults \in Nat /\ overlaps \in Nat /\ crashes \in Nat
      /\ PublishedFirst' /\ (Undisturbed => Handling)
  <2>1. PipelineInv'
    BY PipelineNextInv
  <2>2. PublishedFirst'
    BY <2>1 DEF PipelineInv
  <2> QED
    BY <2>2, PipelineParts, TypeParts, BoundsAssumption, MaxFaultsAssumption
    DEF PipelineTypeOK, LoopTypeOK, FaultTypeOK
<1>1. ASSUME NEW w \in Workers, DeliveryStep(w),
             UNCHANGED <<polled, inboxVars, layerVars>>
      PROVE  LayeredLine' /\ [LayeredLedger!Next]_(LayeredLedger!ledger)
  <2>1. faults' = faults \/ faults' = faults + 1
    BY <1>1, DeliveryMoves DEF Fault
  <2>2. Clean /\ Handling /\ LayeredLine
    BY <1>0, <1>1, <2>1 DEF Clean, Undisturbed
  <2> QED
    BY <1>1, <2>2, DeliveryOnLedger
<1>2. ASSUME NEW w \in Workers, NEW r \in inbox, Take(w, r), UNCHANGED layerVars
      PROVE  LayeredLine' /\ [LayeredLedger!Next]_(LayeredLedger!ledger)
  <2>1. /\ overlaps' = overlaps \/ overlaps' = overlaps + 1
        /\ UNCHANGED <<rows, accepted, audit, dlqEntries, faults, crashes>>
    BY <1>2 DEF Take
  <2>2. Handling /\ LayeredLine
    BY <1>0, <2>1 DEF Undisturbed
  <2> QED
    BY <1>0, <1>2, <2>1, <2>2, TakeOnLedger, LayeredUnchanged
<1>3. ASSUME NEW w \in Workers, Finish(w), UNCHANGED layerVars
      PROVE  LayeredLine' /\ [LayeredLedger!Next]_(LayeredLedger!ledger)
  <2>1. UNCHANGED <<rows, accepted, audit, dlqEntries, faults, overlaps, crashes>>
    BY <1>3 DEF Finish
  <2>2. LayeredLine
    BY <2>1 DEF Undisturbed
  <2> QED
    BY <1>0, <1>3, <2>1, <2>2, FinishOnLedger, LayeredUnchanged
<1>4. ASSUME NEW p \in Pollers, Timer(p), UNCHANGED layerVars
      PROVE  LayeredLine' /\ [LayeredLedger!Next]_(LayeredLedger!ledger)
  <2>1. /\ UNCHANGED <<rows, accepted, audit, dlqEntries, crashes>>
        /\ overlaps' >= overlaps
        /\ faults' = faults \/ faults' = faults + 1
    BY <1>4, PipelineParts, TimerFrame DEF PipelineTypeOK, Fault
  <2>2. LayeredLine
    BY <1>0, <2>1 DEF Undisturbed
  <2>3. CASE \E due : ReadRetries(p, due)
    BY <1>0, <1>4, <2>2, <2>3, ReadIsQuiet, IdleOnLedger, LayeredUnchanged DEF Quiet
  <2>4. CASE RemoveRetries(p) \/ \E r \in polled[p] : RepublishRetry(p, r)
    BY <1>0, <1>4, <2>1, <2>2, <2>4, TimerOnLedger, LayeredUnchanged
  <2> QED
    BY <1>4, <2>3, <2>4 DEF Timer
<1>5. ASSUME NEW w \in Workers, Crash(w) PROVE FALSE
  BY <1>0, <1>5 DEF Crash
<1>6. RouterCrash => FALSE
  BY <1>0 DEF RouterCrash
<1>7. ASSUME NEW m \in Messages, Router(m)
      PROVE  LayeredLine' /\ [LayeredLedger!Next]_(LayeredLedger!ledger)
  <2>1. /\ UNCHANGED <<overlaps, crashes>>
        /\ faults' = faults \/ faults' = faults + 1
    BY <1>7 DEF Router, Execute, CheckExists, CheckSet, Save, PublishLog,
                PublishMessage, NoFault, Fault
  <2>2. LayeredLine
    BY <1>0, <2>1 DEF Undisturbed
  <2> QED
    BY <1>0, <1>7, <2>2, RouterOnLedger
<1>8. CASE UNCHANGED pipelineVars \/ \E key \in DedupKeys : KeyExpires(key)
  <2>1. UNCHANGED <<rows, audit, dlqEntries, accepted, retries, callVars, polled,
                    inbox, taken, published, faults, overlaps, crashes>>
    BY <1>8 DEF pipelineVars, vars, KeyExpires, Expire
  <2>2. LayeredLine
    BY <2>1 DEF Undisturbed
  <2> QED
    BY <1>0, <2>1, <2>2, IdleOnLedger, LayeredUnchanged
<1> QED
  BY <1>1, <1>2, <1>3, <1>4, <1>5, <1>6, <1>7, <1>8
  DEF PipelineNext, Deliver, RetryTimer, WorkerCrash

\* Where the tables fit the statements, every line of processing of the
\* layered implementation stays on the ledger, too, until something other than
\* a provider fails or two polls publish one retry.
THEOREM LayeredOnLedgerHolds ==
  ASSUME TablesFit
  PROVE  PipelineSpec => []LayeredOnLedger
<1>1. PipelineInv /\ LayeredOnLedger /\ [PipelineNext]_pipelineVars => LayeredOnLedger'
  BY NextOnLedger
<1>2. PipelineInit => LayeredOnLedger
  BY InitOnLedger
<1> QED
  BY <1>1, <1>2, PipelineInductive, PTL DEF PipelineSpec

\* Until the first failed call, rebalance, crash or retry published by two
\* polls every step of the layered router and aggregator is a step of
\* DeliveryLedger or none: attempts are numbered 1, 2, 3, ... and stop at
\* MAX_ATTEMPTS, a message is accepted at most once, and its outcome is decided
\* once, by what the providers did.
THEOREM LayeredLedgerStepHolds ==
  ASSUME TablesFit
  PROVE  PipelineSpec => LayeredLedgerStep
<1>1. PipelineInv /\ LayeredOnLedger /\ [PipelineNext]_pipelineVars =>
        [faults' = 0 /\ overlaps' = 0 /\ crashes' = 0 =>
           [LayeredLedger!Next]_(LayeredLedger!ledger)]_pipelineVars
  BY NextOnLedger
<1> QED
  BY <1>1, LayeredOnLedgerHolds, PipelineInductive, PTL
  DEF PipelineSpec, LayeredLedgerStep

\* The refinement: every behaviour of the layered implementation in which
\* nothing but providers fails and no two polls publish one retry is one of
\* the ledger, however requests overlap and keys expire.
THEOREM LayeredImplementsLedger ==
  ASSUME TablesFit
  PROVE  PipelineSpec /\ [](faults = 0 /\ Undisturbed) => LayeredLedger!Spec
<1>1. /\ [faults' = 0 /\ overlaps' = 0 /\ crashes' = 0 =>
            [LayeredLedger!Next]_(LayeredLedger!ledger)]_pipelineVars
      /\ (faults = 0 /\ Undisturbed)'
      => [LayeredLedger!Next]_(LayeredLedger!ledger)
  <2>1. UNCHANGED pipelineVars => UNCHANGED <<rows, accepted, audit, dlqEntries>>
    BY DEF pipelineVars, vars
  <2> QED
    BY <2>1, LayeredUnchanged DEF Undisturbed
<1>2. PipelineSpec => LayeredLedgerStep /\ LayeredLedger!Init
  BY LayeredLedgerStepHolds, InitOnLedger DEF PipelineSpec
<1> QED
  BY <1>1, <1>2, PTL DEF LayeredLedgerStep, LayeredLedger!Spec

\* A step of the ledger keeps outcomes true.
LEMMA LayeredStaysTrue ==
  ASSUME TypeOK, LayeredLedger!OutcomeIsTrue,
         [LayeredLedger!Next]_(LayeredLedger!ledger)
  PROVE  LayeredLedger!OutcomeIsTrue'
<1>1. /\ accepted \in [Messages -> Nat] /\ Tried \in [Messages -> SUBSET Nat]
      /\ LayeredOutcome = [m \in Messages |-> LayeredOutcome[m]]
  BY TypeParts, LayeredTried DEF StoreTypeOK, LayeredOutcome
<1> USE DEF LayeredLedger!OutcomeIsTrue
<1>2. CASE UNCHANGED LayeredLedger!ledger
  BY <1>2 DEF LayeredLedger!ledger
<1>3. ASSUME NEW m \in Messages, LayeredLedger!Accept(m)
      PROVE  LayeredLedger!OutcomeIsTrue'
  BY <1>1, <1>3 DEF LayeredLedger!Accept, LayeredLedger!IsNext
<1>4. ASSUME NEW m \in Messages, LayeredLedger!Succeed(m)
      PROVE  LayeredLedger!OutcomeIsTrue'
  BY <1>1, <1>4
  DEF LayeredLedger!Succeed, LayeredLedger!IsNext, LayeredLedger!Record
<1>5. ASSUME NEW m \in Messages, LayeredLedger!Fail(m)
      PROVE  LayeredLedger!OutcomeIsTrue'
  BY <1>1, <1>5
  DEF LayeredLedger!Fail, LayeredLedger!IsNext, LayeredLedger!Record
<1>6. ASSUME NEW m \in Messages, LayeredLedger!Bury(m)
      PROVE  LayeredLedger!OutcomeIsTrue'
  BY <1>1, <1>6 DEF LayeredLedger!Bury
<1> QED
  BY <1>2, <1>3, <1>4, <1>5, <1>6 DEF LayeredLedger!Next, LayeredLedger!Step

\* What has failed stays failed.
LEMMA PipelineFailuresLast ==
  ASSUME PipelineInv, [PipelineNext]_pipelineVars,
         faults' = 0, overlaps' = 0, crashes' = 0
  PROVE  faults = 0 /\ Undisturbed
<1>1. faults \in Nat /\ overlaps \in Nat /\ crashes \in Nat
  BY PipelineParts, TypeParts, BoundsAssumption, MaxFaultsAssumption
  DEF PipelineTypeOK, LoopTypeOK, FaultTypeOK
<1> USE DEF Undisturbed
<1>2. ASSUME NEW w \in Workers, DeliveryStep(w), UNCHANGED inboxVars
      PROVE  faults = 0 /\ Undisturbed
  BY <1>1, <1>2, DeliveryMoves DEF Fault
<1>3. ASSUME NEW w \in Workers,
             (\E r \in inbox : Take(w, r)) \/ Finish(w) \/ Crash(w)
      PROVE  faults = 0 /\ Undisturbed
  BY <1>1, <1>3 DEF Take, Finish, Crash
<1>6. ASSUME NEW p \in Pollers, Timer(p)
      PROVE  faults = 0 /\ Undisturbed
  BY <1>1, <1>6, PipelineParts, TimerFrame DEF PipelineTypeOK, Fault
<1>4. ASSUME NEW m \in Messages, Router(m) PROVE faults = 0 /\ Undisturbed
  BY <1>1, <1>4
  DEF Router, Execute, CheckExists, CheckSet, Save, PublishLog, PublishMessage,
      NoFault, Fault
<1>5. CASE UNCHANGED pipelineVars \/ (\E key \in DedupKeys : KeyExpires(key))
             \/ RouterCrash
  BY <1>1, <1>5 DEF pipelineVars, vars, KeyExpires, Expire, RouterCrash, RouterDies
<1> QED
  BY <1>2, <1>3, <1>4, <1>5, <1>6
  DEF PipelineNext, Deliver, RetryTimer, WorkerCrash

\* What the ledger promises of its outcomes the layered implementation keeps,
\* until something other than a provider fails or two polls publish one retry:
\* no message is accepted twice,
\* one closed as SENT was accepted, one closed as FAILED was not and used its
\* attempts up.
THEOREM LayeredOutcomeIsTrueHolds ==
  ASSUME TablesFit
  PROVE  PipelineSpec =>
           [](faults = 0 /\ Undisturbed => LayeredLedger!OutcomeIsTrue)
<1> DEFINE True == faults = 0 /\ Undisturbed => LayeredLedger!OutcomeIsTrue
<1>1. PipelineInit => True
  BY InitOnLedger DEF LayeredLedger!Init, LayeredLedger!OutcomeIsTrue
<1>2. /\ PipelineInv /\ LayeredOnLedger /\ [PipelineNext]_pipelineVars /\ True
      => True'
  <2> SUFFICES ASSUME PipelineInv, LayeredOnLedger, [PipelineNext]_pipelineVars,
                      True, faults' = 0, Undisturbed'
               PROVE  LayeredLedger!OutcomeIsTrue'
    OBVIOUS
  <2>1. [LayeredLedger!Next]_(LayeredLedger!ledger)
    BY NextOnLedger DEF Undisturbed
  <2>2. (faults = 0 /\ Undisturbed) /\ TypeOK
    BY PipelineFailuresLast, PipelineParts DEF Undisturbed, PipelineTypeOK
  <2> QED
    BY <2>1, <2>2, LayeredStaysTrue
<1> HIDE DEF True
<1>3. PipelineSpec => []True
  BY <1>1, <1>2, PipelineInductive, LayeredOnLedgerHolds, PTL DEF PipelineSpec
<1> QED
  BY <1>3, PTL DEF True

-----------------------------------------------------------------------------
(* Acceptances are owed to failures here as well.                          *)

\* Every await of ProcessDelivery is of one of the kinds of AwaitCounts.
LEMMA DeliveryCounts ==
  ASSUME TablesFit, CallTypeOK, FaultTypeOK, NEW w \in Workers, HasRow(msg[w]),
         DeliveryStep(w)
  PROVE  AwaitCounts(w)
<1> USE DEF AwaitCounts, MaySchedule, Answers, Goto, Write, CallTypeOK
<1>0. faults \in Nat /\ (Fault => faults' = faults + 1)
  BY MaxFaultsAssumption DEF Fault, FaultTypeOK
<1>1. CASE CheckDeliveryDedup(w) BY <1>0, <1>1 DEF CheckDeliveryDedup
<1>2. CASE GetStatus(w) BY <1>0, <1>2 DEF GetStatus
<1>3. CASE Send(w) BY <1>0, <1>3 DEF Send
<1>4. CASE MarkSent(w) BY <1>0, <1>4 DEF MarkSent, TablesFit, SetStatus
<1>5. CASE SaveSuccessfulAttempt(w)
  BY <1>0, <1>5 DEF SaveSuccessfulAttempt, TablesFit
<1>6. CASE LogSent(w) BY <1>0, <1>6 DEF LogSent
<1>7. CASE SaveFailedAttempt(w) BY <1>0, <1>7 DEF SaveFailedAttempt
<1>8. CASE MarkFailed(w) BY <1>0, <1>8 DEF MarkFailed, SetStatus
<1>9. CASE SaveDLQ(w) BY <1>0, <1>9 DEF SaveDLQ
<1>10. CASE ScheduleNextAttempt(w)
  <2>1. att[w] \in Nat
    BY DEF CallTypeOK
  <2> QED
    BY <1>0, <1>10, <2>1 DEF ScheduleNextAttempt
<1>11. CASE LogRetry(w) BY <1>0, <1>11 DEF LogRetry
<1> QED
  BY <1>1, <1>2, <1>3, <1>4, <1>5, <1>6, <1>7, <1>8, <1>9, <1>10, <1>11
  DEF DeliveryStep

\* Only a send is counted, and that of the message in hand.
LEMMA DeliveryAccepts ==
  ASSUME StoreTypeOK, NEW w \in Workers, DeliveryStep(w)
  PROVE  \A m \in Messages : accepted'[m] = accepted[m] \/ m = msg[w]
<1>1. CASE Send(w)
  BY <1>1 DEF Send, StoreTypeOK
<1>2. CASE ~Send(w)
  BY <1>2 DEF DeliveryStep, CheckDeliveryDedup, GetStatus, MarkSent,
     SaveSuccessfulAttempt, LogSent, SaveFailedAttempt, MarkFailed, SaveDLQ,
     ScheduleNextAttempt, LogRetry
<1> QED
  BY <1>1, <1>2

\* An await of a delivery keeps the count.
LEMMA DeliveryOwed ==
  ASSUME TablesFit, Counting, PipelineInv, UnpublishedIsUnsent,
         NEW w \in Workers, DeliveryStep(w),
         UNCHANGED <<polled, inboxVars, layerVars>>
  PROVE  PipelineOwed'
<1>1. /\ TypeOK /\ StoreTypeOK /\ CallTypeOK /\ FaultTypeOK
      /\ RowsBeforeRecords /\ PublishedFirst
  BY PipelineParts DEF Counting, PipelineTypeOK
<1>2. /\ InCall(w) /\ msg[w] \in Messages /\ UNCHANGED msg /\ pc'[w] # "idle"
      /\ \A v \in Workers \ {w} : pc'[v] = pc[v]
  BY <1>1, DeliveryEffect
<1>3. msg[w] \in published /\ HasRow(msg[w])
  BY <1>1, <1>2 DEF PublishedFirst, RowsBeforeRecords
<1>4. AwaitCounts(w)
  BY <1>1, <1>3, DeliveryCounts
<1>5. ChancesAreOwed'
  BY <1>2, <1>4, AwaitOwed DEF InCall
<1>6. UnpublishedIsUnsent'
  BY <1>1, <1>3, DeliveryAccepts DEF UnpublishedIsUnsent
<1> QED
  BY <1>5, <1>6 DEF PipelineOwed

\* A step that leaves deliveries, records and acceptances alone.
LEMMA QuietOwed ==
  ASSUME Counting, UnpublishedIsUnsent, DeliveryUntouched,
         UNCHANGED <<inbox, published>>,
         faults' = faults \/ faults' = faults + 1,
         crashes' = crashes \/ crashes' = crashes + 1
  PROVE  PipelineOwed'
<1>1. UNCHANGED <<accepted, retries, polled, pc, msg, taken, overlaps>>
  BY DEF DeliveryUntouched
<1>2. IdleIsEmptyHanded'
  BY <1>1 DEF IdleIsEmptyHanded, InCall, Counting, ChancesAreOwed
<1>3. UnpublishedIsUnsent'
  BY <1>1 DEF UnpublishedIsUnsent
<1>4. Failures' >= Failures
  <2>1. \A i, j, k, l, n \in Nat : j >= i /\ n >= l => j + k + n >= i + k + l
    OBVIOUS
  <2>2. faults' >= faults /\ crashes' >= crashes
    BY CountingTypes
  <2> QED
    BY <1>1, <2>1, <2>2, CountingTypes DEF Failures
<1>5. ASSUME NEW m \in Messages
      PROVE  Owed(m)'
  <2>1. Chances(m)' \subseteq Chances(m)
    BY <1>1 DEF Chances
  <2>2. Owed(m) /\ CountTypeOK /\ CountTypeOK' /\ accepted'[m] = accepted[m]
    BY <1>1, CountingTypes DEF Counting, ChancesAreOwed
  <2> QED
    BY <1>4, <2>1, <2>2, OwedStays
<1> QED
  BY <1>2, <1>3, <1>5 DEF PipelineOwed, ChancesAreOwed

\* The one record of a message is its first chance: before it there was none,
\* and nothing was accepted.
LEMMA PublishOwed ==
  ASSUME Counting, PipelineInv, UnpublishedIsUnsent, NEW m \in Messages,
         DeliveryUntouched, crashes' = crashes, stage[m] = "publish",
         inbox' = inbox \cup {[message |-> m, attempt |-> 0, copy |-> 0]},
         published' = published \cup {m},
         faults' = faults \/ faults' = faults + 1
  PROVE  PipelineOwed'
<1> DEFINE record == [message |-> m, attempt |-> 0, copy |-> 0]
<1>0. record.message = m /\ inbox' = inbox \cup {record}
  OBVIOUS
<1> HIDE DEF record
<1>1. UNCHANGED <<accepted, retries, polled, pc, msg, taken, overlaps>>
  BY DEF DeliveryUntouched
<1>2. IdleIsEmptyHanded'
  BY <1>1 DEF IdleIsEmptyHanded, InCall, Counting, ChancesAreOwed
<1>3. UnpublishedIsUnsent'
  BY <1>1 DEF UnpublishedIsUnsent
<1>4. Failures' >= Failures
  <2>1. \A i, j, k, l \in Nat : j >= i => j + k + l >= i + k + l
    OBVIOUS
  <2>2. faults' >= faults
    BY CountingTypes
  <2> QED
    BY <1>1, <2>1, <2>2, CountingTypes DEF Failures
<1>5. \A n \in Messages : \A x \in Chances(n)' :
        \/ x \in Chances(n)
        \/ n = m /\ x = <<"record", record>>
  <2> SUFFICES ASSUME NEW n \in Messages, NEW x \in Chances(n)'
               PROVE  \/ x \in Chances(n)
                      \/ n = m /\ x = <<"record", record>>
    OBVIOUS
  <2>1. CASE \E q \in inbox' : /\ x = <<"record", q>> /\ q.message = n
                              /\ \A v \in Workers : taken'[v] # q
    BY <1>0, <1>1, <2>1, ChancesByKind
  <2>2. CASE \E v \in Workers : /\ x = <<"call", v>> /\ msg'[v] = n
                               /\ pc'[v] \in MaySchedule
    BY <1>1, <2>2, ChancesByKind
  <2>3. CASE \E q \in retries' : x = <<"retry", q>> /\ q.message = n
    BY <1>1, <2>3, ChancesByKind
  <2>4. CASE \E v \in Pollers : \E q \in polled'[v] :
               x = <<"polled", v, q>> /\ q.message = n
    BY <1>1, <2>4, ChancesByKind
  <2> QED
    BY <2>1, <2>2, <2>3, <2>4, ChancesByKindNext
<1>6. ASSUME NEW n \in Messages, n # m
      PROVE  Owed(n)'
  <2>1. Chances(n)' \subseteq Chances(n)
    BY <1>5, <1>6
  <2>2. Owed(n) /\ CountTypeOK /\ CountTypeOK' /\ accepted'[n] = accepted[n]
    BY <1>1, CountingTypes DEF Counting, ChancesAreOwed
  <2> QED
    BY <1>4, <2>1, <2>2, OwedStays
<1>7. Owed(m)'
  <2>1. PublishedFirst /\ m \notin published
    BY DEF PipelineInv, PublishedFirst
  <2>2. \A q \in inbox \cup Underway : q.message # m
    BY <2>1 DEF PublishedFirst
  <2>3. \A w \in Workers : InCall(w) => msg[w] # m
    BY <2>1 DEF PublishedFirst
  <2>4. Chances(m) = {}
    BY <2>2, <2>3, UnderwayParts, ChancesByKind DEF InCall, MaySchedule
  <2>5. Chances(m)' \subseteq {<<"record", record>>}
    BY <1>5, <2>4
  <2>6. /\ IsFiniteSet({<<"record", record>>})
        /\ Cardinality({<<"record", record>>}) = 1
    BY FS_Singleton
  <2>7. /\ IsFiniteSet(Chances(m)') /\ Cardinality(Chances(m)') <= 1
        /\ Cardinality(Chances(m)') \in Nat
    BY <2>5, <2>6, FS_Subset, FS_CardinalityType
  <2>8. accepted'[m] = 0 /\ Failures' \in Nat
    BY <1>1, <2>1, CountingTypes DEF UnpublishedIsUnsent, CountTypeOK
  <2> QED
    BY <2>7, <2>8 DEF Owed
<1> QED
  BY <1>2, <1>3, <1>6, <1>7 DEF PipelineOwed, ChancesAreOwed

\* An await of a request, the expiry of a key, the router's death.
LEMMA RouterOwed ==
  ASSUME Counting, PipelineInv, UnpublishedIsUnsent,
         \/ \E m \in Messages : Router(m)
         \/ \E key \in DedupKeys : KeyExpires(key)
         \/ RouterCrash
  PROVE  PipelineOwed'
<1>0. Fault => faults' = faults + 1
  BY DEF Fault
<1>1. ASSUME NEW m \in Messages, Router(m)
      PROVE  PipelineOwed'
  <2>1. DeliveryUntouched /\ crashes' = crashes
    BY <1>1 DEF Router, DeliveryUntouched
  <2>2. CASE /\ \/ Execute(m) \/ CheckExists(m) \/ CheckSet(m) \/ Save(m)
                \/ PublishLog(m)
             /\ UNCHANGED <<inbox, published>>
    <3>1. faults' = faults \/ faults' = faults + 1
      BY <1>0, <2>2 DEF Execute, CheckExists, CheckSet, Save, PublishLog, NoFault
    <3> QED
      BY <2>1, <2>2, <3>1, QuietOwed
  <2>3. CASE PublishMessage(m,
               /\ inbox' = inbox \cup {[message |-> m, attempt |-> 0, copy |-> 0]}
               /\ published' = published \cup {m},
               UNCHANGED <<inbox, published>>)
    <3>1. /\ stage[m] = "publish"
          /\ faults' = faults \/ faults' = faults + 1
          /\ \/ UNCHANGED <<inbox, published>>
             \/ /\ inbox' = inbox \cup {[message |-> m, attempt |-> 0, copy |-> 0]}
                /\ published' = published \cup {m}
      BY <1>0, <2>3 DEF PublishMessage, NoFault
    <3> QED
      BY <2>1, <3>1, QuietOwed, PublishOwed
  <2> QED
    BY <1>1, <2>2, <2>3 DEF Router
<1>2. ASSUME NEW key \in DedupKeys, KeyExpires(key)
      PROVE  PipelineOwed'
  <2>1. /\ DeliveryUntouched /\ crashes' = crashes /\ faults' = faults
        /\ UNCHANGED <<inbox, published>>
    BY <1>2 DEF KeyExpires, Expire, DeliveryUntouched
  <2> QED
    BY <2>1, QuietOwed
<1>3. CASE RouterCrash
  <2>1. /\ DeliveryUntouched /\ crashes' = crashes + 1 /\ faults' = faults
        /\ UNCHANGED <<inbox, published>>
    BY <1>3 DEF RouterCrash, RouterDies, DeliveryUntouched
  <2> QED
    BY <2>1, QuietOwed
<1> QED
  BY <1>1, <1>2, <1>3

\* Before the first request there is neither a chance nor an acceptance.
LEMMA PipelineInitOwed == PipelineInit => PipelineOwed
<1> SUFFICES ASSUME PipelineInit
             PROVE  PipelineOwed
  OBVIOUS
<1>1. /\ pc = [w \in Workers |-> "idle"] /\ retries = {} /\ inbox = {}
      /\ polled = [p \in Pollers |-> {}]
      /\ taken = [w \in Workers |-> NoRecord]
      /\ accepted = [n \in Messages |-> 0]
      /\ faults = 0 /\ overlaps = 0 /\ crashes = 0
  BY DEF PipelineInit, ProcessorInit, PollInit
<1>2. IdleIsEmptyHanded /\ UnpublishedIsUnsent
  BY <1>1 DEF IdleIsEmptyHanded, UnpublishedIsUnsent
<1>3. ASSUME NEW m \in Messages
      PROVE  Owed(m)
  <2>1. Chances(m) = {}
    BY <1>1, ChancesByKind DEF MaySchedule
  <2>2. IsFiniteSet({}) /\ Cardinality({}) = 0
    BY FS_EmptySet
  <2>3. Failures = 0 /\ accepted[m] = 0
    BY <1>1 DEF Failures
  <2> QED
    BY <2>1, <2>2, <2>3 DEF Owed
<1> QED
  BY <1>2, <1>3 DEF PipelineOwed, ChancesAreOwed

\* No step of either layer takes more chances than it pays for.
LEMMA PipelineNextOwed ==
  ASSUME TablesFit
  PROVE  PipelineInv /\ PipelineInv' /\ PipelineOwed
           /\ [PipelineNext]_pipelineVars => PipelineOwed'
<1> SUFFICES ASSUME PipelineInv, PipelineInv', PipelineOwed,
                    [PipelineNext]_pipelineVars
             PROVE  PipelineOwed'
  OBVIOUS
<1>1. /\ StoreTypeOK /\ CallTypeOK /\ LoopTypeOK /\ FaultTypeOK
      /\ (StoreTypeOK /\ LoopTypeOK /\ FaultTypeOK)'
  <2>1. TypeOK /\ TypeOK'
    BY DEF PipelineInv, PipelineTypeOK
  <2> QED
    BY <2>1, TypeParts, PTL
<1>2. Counting /\ UnpublishedIsUnsent
  BY <1>1 DEF Counting, PipelineOwed
<1>3. CASE UNCHANGED pipelineVars
  <2>1. /\ DeliveryUntouched /\ UNCHANGED <<inbox, published>>
        /\ faults' = faults /\ crashes' = crashes
    BY <1>3 DEF pipelineVars, vars, DeliveryUntouched
  <2> QED
    BY <1>2, <2>1, QuietOwed
<1>4. CASE \/ \E m \in Messages : Router(m)
           \/ \E key \in DedupKeys : KeyExpires(key)
           \/ RouterCrash
  BY <1>2, <1>4, RouterOwed
<1>6. ASSUME ChancesAreOwed', UNCHANGED <<accepted, published>>
      PROVE  PipelineOwed'
  BY <1>2, <1>6 DEF PipelineOwed, UnpublishedIsUnsent
<1>5. ASSUME NEW w \in Workers, Deliver(w) \/ WorkerCrash(w)
      PROVE  PipelineOwed'
  <2>1. CASE DeliveryStep(w) /\ UNCHANGED <<polled, inboxVars, layerVars>>
    BY <1>2, <2>1, DeliveryOwed
  <2>3. ASSUME NEW r \in inbox, Take(w, r), UNCHANGED layerVars
        PROVE  PipelineOwed'
    BY <1>2, <1>6, <2>3, TakeOwed DEF Take
  <2>4. CASE Finish(w) /\ UNCHANGED layerVars
    BY <1>2, <1>6, <2>4, FinishOwed DEF Finish
  <2>5. CASE Crash(w) /\ UNCHANGED layerVars
    BY <1>2, <1>6, <2>5, CrashOwed DEF Crash
  <2> QED
    BY <1>5, <2>1, <2>3, <2>4, <2>5 DEF Deliver, WorkerCrash
<1>7. ASSUME NEW p \in Pollers, RetryTimer(p)
      PROVE  PipelineOwed'
  <2>1. UNCHANGED layerVars
    BY <1>7 DEF RetryTimer
  <2>2. ASSUME NEW due, ReadRetries(p, due)
        PROVE  PipelineOwed'
    <3>1. Quiet
      BY <2>2, ReadIsQuiet
    <3>2. \A m : Chances(m)' = Chances(m)
      BY <3>1 DEF Chances, Quiet
    <3> QED
      BY <1>2, <1>6, <2>1, <3>1, <3>2
      DEF Counting, ChancesAreOwed, Owed, Failures, IdleIsEmptyHanded, InCall, Quiet
  <2>3. CASE RemoveRetries(p)
    BY <1>2, <1>6, <2>1, <2>3, RemoveOwed DEF RemoveRetries, Remove
  <2>4. ASSUME NEW r \in polled[p], RepublishRetry(p, r)
        PROVE  PipelineOwed'
    BY <1>2, <1>6, <2>1, <2>4, RepublishOwed DEF RepublishRetry, Republish
  <2> QED
    BY <1>7, <2>2, <2>3, <2>4 DEF RetryTimer, Timer
<1> QED
  BY <1>3, <1>4, <1>5, <1>7 DEF PipelineNext

\* In the layered implementation as well no message is accepted more often
\* than once and once more for each failed call, overlap and crash.
THEOREM LayeredAcceptancesAreOwed ==
  ASSUME TablesFit
  PROVE  PipelineSpec => []AcceptancesAreOwed
<1>1. PipelineInv /\ PipelineInv' /\ PipelineOwed
        /\ [PipelineNext]_pipelineVars => PipelineOwed'
  BY PipelineNextOwed
<1>2. PipelineInv /\ PipelineOwed => AcceptancesAreOwed
  <2> SUFFICES ASSUME PipelineInv, PipelineOwed, NEW m \in Messages
               PROVE  accepted[m] <= 1 + Failures
    BY DEF AcceptancesAreOwed
  <2>1. /\ IsFiniteSet(Chances(m))
        /\ accepted[m] + Cardinality(Chances(m)) <= 1 + Failures
    BY DEF PipelineOwed, ChancesAreOwed, Owed
  <2>2. Cardinality(Chances(m)) \in Nat
    BY <2>1, FS_CardinalityType
  <2>3. /\ accepted[m] \in Nat /\ faults \in Nat /\ overlaps \in Nat
        /\ crashes \in Nat
    BY TypeParts, MaxFaultsAssumption, BoundsAssumption
    DEF PipelineInv, PipelineTypeOK, StoreTypeOK, FaultTypeOK, LoopTypeOK
  <2> QED
    BY <2>1, <2>2, <2>3 DEF Failures
<1> QED
  BY <1>1, <1>2, PipelineInitOwed, PipelineInductive, PTL DEF PipelineSpec

=============================================================================
