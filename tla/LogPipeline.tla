----------------------------- MODULE LogPipeline -----------------------------
(***************************************************************************)
(* The logger: the topics "logs" and "errors", which router and aggregator *)
(* write with publishLog and publishError, the consumer of "logger-group"  *)
(* (LogConsumerService.consumeMultiple) and the index call of              *)
(* LogRepository.save.  One instance runs (docker-compose.yml:270-275),    *)
(* each topic has one partition, and kafkajs commits when it has handed    *)
(* every record of a batch to eachMessage.                                 *)
(*                                                                         *)
(* A record is its offset.  Producers send JSON objects only, so that      *)
(* JSON.parse does not throw.                                              *)
(***************************************************************************)
EXTENDS Naturals

CONSTANTS MaxRecords,   \* bound: records of a topic
          BatchSize,    \* bound: records of a fetch
          FreshGroup,   \* has the group never committed an offset?
          MaxFaults,    \* bound: Elasticsearch and Kafka calls that fail
          MaxCrashes    \* bound: crashes of the logger

ASSUME LoggerAssumption ==
  /\ MaxRecords \in Nat /\ BatchSize \in Nat \ {0}
  /\ FreshGroup \in BOOLEAN
  /\ MaxFaults \in Nat /\ MaxCrashes \in Nat

VARIABLES end,        \* records in each topic; offsets count from 1
          committed,  \* the group's committed offset, 0 for none
          position,   \* the next offset the consumer fetches
          consumer,   \* where the consumer is
          documents,  \* documents in Elasticsearch, per record
          errored,    \* records whose handler threw
          faults,
          crashes

vars == <<end, committed, position, consumer, documents, errored, faults,
          crashes>>

Topics == {"logs", "errors"}
Records == 1 .. MaxRecords

Consumer == [stage : {"down", "polling", "handling"}, topic : Topics,
             next : Nat \ {0}, last : 0 .. MaxRecords]
Down == [stage |-> "down", topic |-> "logs", next |-> 1, last |-> 0]
Polling == [Down EXCEPT !.stage = "polling"]

TypeOK ==
  /\ end \in [Topics -> 0 .. MaxRecords]
  /\ committed \in [Topics -> Nat]
  /\ position \in [Topics -> Nat \ {0}]
  /\ consumer \in Consumer
  /\ documents \in [Topics -> [Records -> Nat]]
  /\ errored \subseteq Topics \X Records
  /\ faults \in 0 .. MaxFaults
  /\ crashes \in 0 .. MaxCrashes
  /\ \A t \in Topics : committed[t] <= end[t] + 1

Init ==
  /\ end = [t \in Topics |-> 0]
  /\ committed = [t \in Topics |-> IF FreshGroup THEN 0 ELSE 1]
  /\ position = [t \in Topics |-> 1]
  /\ consumer = Down
  /\ documents = [t \in Topics |-> [i \in Records |-> 0]]
  /\ errored = {}
  /\ faults = 0
  /\ crashes = 0

Fault == faults < MaxFaults /\ faults' = faults + 1

-----------------------------------------------------------------------------
AppendTo(topic) ==
  /\ end[topic] < MaxRecords
  /\ end' = [end EXCEPT ![topic] = @ + 1]
  /\ UNCHANGED <<committed, position, consumer, documents, errored, faults,
                 crashes>>

PublishLog   == AppendTo("logs")
PublishError == AppendTo("errors")

\* Mutation: with fromBeginning: false every start is at the end.
StartAt_LogEnd(t) == end[t] + 1

StartAt(t) == IF committed[t] = 0 THEN end[t] + 1 ELSE committed[t]

\* bootstrap and consumeMultiple: connect, subscribe to both topics, run.
ConsumeMultiple ==
  /\ consumer.stage = "down"
  /\ consumer' = Polling
  /\ position' = [t \in Topics |-> StartAt(t)]
  /\ UNCHANGED <<end, committed, documents, errored, faults, crashes>>

\* Mutation: the batch is committed before it is handled.
Fetch_CommitsFirst(t) ==
  /\ consumer.stage = "polling"
  /\ \E last \in position[t] .. end[t] :
       /\ last < position[t] + BatchSize
       /\ consumer' = [stage |-> "handling", topic |-> t,
                       next |-> position[t], last |-> last]
       /\ committed' = [committed EXCEPT ![t] = last + 1]
  /\ UNCHANGED <<end, position, documents, errored, faults, crashes>>

Fetch(t) ==
  /\ consumer.stage = "polling"
  /\ \E last \in position[t] .. end[t] :
       /\ last < position[t] + BatchSize
       /\ consumer' = [stage |-> "handling", topic |-> t,
                       next |-> position[t], last |-> last]
  /\ UNCHANGED <<end, committed, position, documents, errored, faults,
                 crashes>>

NextRecord == consumer' = [consumer EXCEPT !.next = @ + 1]
AddDocument ==
  documents' = [documents EXCEPT ![consumer.topic][consumer.next] = @ + 1]

\* eachMessage: handleLog, persistLog, save.  The document gets no id, so a
\* record indexed again is a second document; an error is caught and logged,
\* and the record counts as handled.  The client may itself repeat a call
\* whose answer was lost.
HandleLog ==
  /\ consumer.stage = "handling"
  /\ consumer.next <= consumer.last
  /\ \/ AddDocument /\ NextRecord /\ UNCHANGED <<errored, faults>>
     \/ /\ AddDocument \/ UNCHANGED documents
        /\ errored' = errored \cup {<<consumer.topic, consumer.next>>}
        /\ NextRecord /\ Fault
     \/ AddDocument /\ Fault /\ UNCHANGED <<consumer, errored>>
  /\ UNCHANGED <<end, committed, position, crashes>>

\* Mutation: the offset is not resolved, the batch is fetched again.
Commit_Unresolved ==
  /\ consumer.stage = "handling" /\ consumer.next > consumer.last
  /\ consumer' = Polling
  /\ UNCHANGED <<end, committed, position, documents, errored, faults, crashes>>

\* The batch is done.  A failed commit makes the consumer join again.
Commit ==
  /\ consumer.stage = "handling" /\ consumer.next > consumer.last
  /\ \/ /\ committed' = [committed EXCEPT
                           ![consumer.topic] = consumer.last + 1]
        /\ position' = [position EXCEPT ![consumer.topic] = consumer.last + 1]
        /\ UNCHANGED faults
     \/ /\ position' = [position EXCEPT
                          ![consumer.topic] = StartAt(consumer.topic)]
        /\ UNCHANGED committed /\ Fault
  /\ consumer' = Polling
  /\ UNCHANGED <<end, documents, errored, crashes>>

Crash ==
  /\ consumer.stage # "down"
  /\ crashes < MaxCrashes
  /\ crashes' = crashes + 1
  /\ consumer' = Down
  /\ UNCHANGED <<end, committed, position, documents, errored, faults>>

Consume == \/ ConsumeMultiple \/ HandleLog \/ Commit
           \/ \E t \in Topics : Fetch(t)

Next == PublishLog \/ PublishError \/ Consume \/ Crash

Spec == Init /\ [][Next]_vars

\* The consumer runs, is started again when it died (DESIGN_README.md:846)
\* and fetches from both topics; nobody owes a record or a crash.
FairSpec == /\ Spec
            /\ WF_vars(Consume)
            /\ \A t \in Topics : SF_vars(Fetch(t))

-----------------------------------------------------------------------------
Handled(t, i) == documents[t][i] > 0 \/ <<t, i>> \in errored

\* "Prevents log gaps" (DESIGN_README.md:844), as far as the code does: a
\* record that lies before the committed offset, or before one that is
\* indexed, is indexed too unless its own handler threw; no crash, failed
\* commit or lost answer leaves a gap.
NoSilentGap ==
  ~FreshGroup => \A t \in Topics : \A i \in Records :
    \/ i < committed[t]
    \/ \E j \in Records : i < j /\ documents[t][j] > 0
    => Handled(t, i)

\* "Prevents ... duplicates", as far as the code does: every document of a
\* record beyond its first is owed to one crash or one failed call.
DuplicatesBounded ==
  \A t \in Topics : \A i \in Records :
    documents[t][i] <= 1 + faults + crashes

\* "If pod crashes, logs queue in Kafka until restart"
\* (DESIGN_README.md:846): every record is indexed, unless calls fail.
LogIsIndexed ==
  ~FreshGroup /\ [](faults = 0) =>
    \A t \in Topics : \A i \in Records :
      (i <= end[t]) ~> (documents[t][i] > 0)

-----------------------------------------------------------------------------
(* The strengthening that makes the safety properties inductive. *)

Handling(t) == consumer.stage = "handling" /\ consumer.topic = t

\* The first record of t that a running consumer has yet to hand over.
Frontier(t) == IF Handling(t) THEN consumer.next ELSE position[t]

BatchIsInTopic(t) ==
  Handling(t) => consumer.last <= end[t] /\ consumer.next <= consumer.last + 1

StartsAtCommitted(t) ==
  ~FreshGroup => /\ committed[t] >= 1
                 /\ consumer.stage # "down" => position[t] = committed[t]

HandlesInOrder(t) ==
  ~FreshGroup /\ Handling(t) =>
    \A i \in Records : i < consumer.next => Handled(t, i)

\* Ahead of the frontier lie the documents of interrupted batches only.
RepeatsAreOwed(t) ==
  \A i \in Records : consumer.stage = "down" \/ i >= Frontier(t) =>
    documents[t][i] <= faults + crashes

Progress ==
  \A t \in Topics : /\ BatchIsInTopic(t)
                    /\ StartsAtCommitted(t)
                    /\ HandlesInOrder(t)
                    /\ RepeatsAreOwed(t)

IInv == TypeOK /\ Progress /\ NoSilentGap /\ DuplicatesBounded

-----------------------------------------------------------------------------
(* What the documentation says. *)

\* "Prevents log gaps or duplicates" (DESIGN_README.md:844), whatever fails.
NoGapsOrDuplicates ==
  \A t \in Topics : \A i \in Records :
    i < committed[t] => documents[t][i] = 1

=============================================================================
