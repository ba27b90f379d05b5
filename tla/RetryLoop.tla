------------------------------ MODULE RetryLoop ------------------------------
(***************************************************************************)
(* The timer of index.ts:95-112 that moves due retries from Redis back to  *)
(* Kafka: getPendingRetries, which reads the due members and then removes  *)
(* them, and publishRetryMessage for each that was read.                   *)
(*                                                                         *)
(* A poller is one run of the timer's callback.  setInterval starts the    *)
(* next run whether or not the last has ended, and every worker has its    *)
(* own timer, so polls overlap: two that read a member before either       *)
(* removes it both publish it.  Until that happens the loop is RetryQueue. *)
(*                                                                         *)
(* Delays are abstracted to "any time later", and every zAdd is faster     *)
(* than the shortest of them: RetryScheduler has the clock.                *)
(***************************************************************************)
EXTENDS DeliveryProcessor

CONSTANTS Pollers,
          Host      \* poller |-> the worker whose timer runs it

ASSUME PollersAssumption == Host \in [Pollers -> Workers]

VARIABLES reads,    \* members each poller has read and not yet removed
          polled    \* retries it has removed and not yet republished

pollVars == <<reads, polled>>

\* A member that was read is still there as it was read, or gone: removed by
\* another poll, or put again with a later score.
NothingRead == [there |-> {}, gone |-> {}]

PollTypeOK == /\ reads \in [Pollers -> [there : SUBSET Retry,
                                        gone : SUBSET Retry]]
              /\ polled \in [Pollers -> SUBSET Retry]

PollInit == /\ reads = [p \in Pollers |-> NothingRead]
            /\ polled = [p \in Pollers |-> {}]

\* A poller reads only when it starts, and removes before it publishes.
PollsAreOrderly ==
  /\ IsFiniteSet(retries)
  /\ \A p \in Pollers : /\ reads[p].there \subseteq retries
                        /\ IsFiniteSet(reads[p].gone)
                        /\ reads[p] = NothingRead \/ polled[p] = {}

Polling(p) == reads[p] # NothingRead \/ polled[p] # {}

\* The members of S leave the place where they were read.
Leave(S) == [p \in Pollers |-> [there |-> reads[p].there \ S,
                                gone |-> reads[p].gone
                                           \cup (reads[p].there \cap S)]]

-----------------------------------------------------------------------------
\* zAdd of a member that is in the ZSET only moves it to a later score, past
\* the cutoff of every poll that has read it.
Rescored(w, attempt) ==
  LET r == [message |-> msg[w], attempt |-> attempt]
      added == pc[w] = "schedule" /\ r \in retries'
  IN \/ added /\ reads' = Leave({r})
     \/ ~(added /\ UNCHANGED faults) /\ UNCHANGED reads

\* getPendingRetries, first await.
Read(p, due) ==
  /\ ~Polling(p)
  /\ due # {} /\ due \subseteq retries
  /\ reads' = [reads EXCEPT ![p] = [there |-> due, gone |-> {}]]
  /\ UNCHANGED <<processorVars, polled>>

\* Has one of these been read by a poll that has not removed it?
BeingRead(due) == \E p \in Pollers : reads[p].there \cap due # {}

\* Mutation: the members that were read are not removed.
Remove_Skipped(p) ==
  /\ reads[p] # NothingRead
  /\ polled' = [polled EXCEPT ![p] = reads[p].there \cup reads[p].gone]
  /\ reads' = [reads EXCEPT ![p] = NothingRead]
  /\ UNCHANGED processorVars

\* getPendingRetries, second await.  What was read is returned, whether it was
\* still there or not; on an error [] is.
Remove(p) ==
  LET due == reads[p].there IN
  /\ reads[p] # NothingRead
  /\ \/ /\ retries' = retries \ due
        /\ reads' = [Leave(due) EXCEPT ![p] = NothingRead]
        /\ \/ /\ polled' = [polled EXCEPT ![p] = due \cup reads[p].gone]
              /\ UNCHANGED faults
           \/ UNCHANGED polled /\ Fault
     \/ /\ reads' = [reads EXCEPT ![p] = NothingRead]
        /\ UNCHANGED <<retries, polled>>
        /\ Fault
  /\ UNCHANGED <<rows, audit, dlqEntries, dlqTopic, delivered, accepted,
                 callVars>>

Queue == INSTANCE RetryQueue WITH waiting <- retries, claimed <- polled

\* publishRetryMessage, whose effect on the topic the composing module
\* gives.
Republish(p, r, effect, unchanged) ==
  /\ Queue!Publish(p, r, effect, unchanged, UNCHANGED faults, Fault)
  /\ UNCHANGED <<rows, audit, dlqEntries, dlqTopic, delivered, accepted,
                 callVars, reads>>

\* The process of the worker dies, and its polls with it.
PollsDie(w) ==
  /\ reads' = [p \in Pollers |-> IF Host[p] = w THEN NothingRead ELSE reads[p]]
  /\ polled' = [p \in Pollers |-> IF Host[p] = w THEN {} ELSE polled[p]]

=============================================================================
