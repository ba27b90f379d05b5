-------------------------- MODULE LogPipelineProofs --------------------------
(* Proofs of the safety properties of LogPipeline, for every number of      *)
(* records, batch size, and bound on failed calls and crashes.              *)
EXTENDS LogPipeline, TLAPS

\* Initially nothing is indexed and nothing is committed past the topics.
LEMMA InitIInv == Init => IInv
BY LoggerAssumption
   DEF Init, IInv, TypeOK, Progress, BatchIsInTopic, StartsAtCommitted,
       HandlesInOrder, RepeatsAreOwed, NoSilentGap, DuplicatesBounded, Down,
       Consumer,
       Topics, Records, Handling, Frontier, Handled

\* Type correctness is kept by every step, given Progress.
LEMMA TypeStep == IInv /\ [Next]_vars => TypeOK'
<1> SUFFICES ASSUME IInv, [Next]_vars PROVE TypeOK'
  OBVIOUS
<1> USE LoggerAssumption DEF Records
<1>a. "logs" \in Topics /\ "errors" \in Topics
  BY DEF Topics
<1>b. Down \in Consumer /\ Polling \in Consumer
  BY <1>a DEF Down, Polling, Consumer
<1>c. /\ consumer.topic \in Topics
      /\ consumer.next \in Nat \ {0} /\ consumer.last \in 0 .. MaxRecords
  BY DEF Consumer, IInv, TypeOK
<1>1. ASSUME NEW topic \in Topics, AppendTo(topic) PROVE TypeOK'
  <2>1. end[topic] + 1 \in 0 .. MaxRecords
    BY <1>1 DEF AppendTo, IInv, TypeOK
  <2>2. end' \in [Topics -> 0 .. MaxRecords]
    BY <1>1, <2>1 DEF AppendTo, IInv, TypeOK
  <2>3. \A t \in Topics : end[t] <= end'[t]
    BY <1>1, <2>1 DEF AppendTo, IInv, TypeOK
  <2>4. \A t \in Topics : committed'[t] <= end'[t] + 1
    BY <1>1, <2>2, <2>3 DEF AppendTo, IInv, TypeOK
  <2> QED
    BY <1>1, <2>2, <2>4 DEF AppendTo, IInv, TypeOK
<1>2. CASE PublishLog \/ PublishError
  BY <1>1, <1>2, <1>a DEF PublishLog, PublishError
<1>3. CASE ConsumeMultiple
  <2>1. \A t \in Topics : StartAt(t) \in Nat \ {0}
    BY DEF StartAt, IInv, TypeOK
  <2>2. position' \in [Topics -> Nat \ {0}]
    BY <1>3, <2>1 DEF ConsumeMultiple
  <2> QED
    BY <1>3, <1>b, <2>2 DEF ConsumeMultiple, IInv, TypeOK
<1>4. ASSUME NEW t \in Topics, Fetch(t) PROVE TypeOK'
  <2> PICK last \in position[t] .. end[t] :
        consumer' = [stage |-> "handling", topic |-> t,
                     next |-> position[t], last |-> last]
    BY <1>4 DEF Fetch
  <2>1. last \in 0 .. MaxRecords /\ position[t] \in Nat \ {0}
    BY DEF IInv, TypeOK
  <2>2. consumer' \in Consumer
    BY <2>1 DEF Consumer
  <2> QED
    BY <1>4, <2>2 DEF Fetch, IInv, TypeOK
<1>5. CASE HandleLog
  <2>1. documents' = documents \/ AddDocument
    BY <1>5 DEF HandleLog
  <2>2. consumer.next \in Records
    BY <1>5, <1>c DEF HandleLog
  <2>3. documents' \in [Topics -> [Records -> Nat]]
    <3>1. documents[consumer.topic] \in [Records -> Nat]
      BY <1>c DEF IInv, TypeOK
    <3>2. documents[consumer.topic][consumer.next] + 1 \in Nat
      BY <2>2, <3>1
    <3>3. [documents[consumer.topic] EXCEPT ![consumer.next] = @ + 1]
            \in [Records -> Nat]
      BY <2>2, <3>1, <3>2
    <3>4. CASE AddDocument
      <4> DEFINE d == [documents[consumer.topic] EXCEPT
                         ![consumer.next] = @ + 1]
      <4>1. documents \in [Topics -> [Records -> Nat]]
        BY DEF IInv, TypeOK
      <4>2. documents' = [documents EXCEPT ![consumer.topic] = d]
        BY <3>4 DEF AddDocument
      <4>3. d \in [Records -> Nat]
        BY <3>3
      <4> HIDE DEF d
      <4> QED
        BY <1>c, <4>1, <4>2, <4>3
    <3> QED
      BY <2>1, <3>4 DEF IInv, TypeOK
  <2>4. errored' \subseteq Topics \X Records
    BY <1>5, <1>c, <2>2 DEF HandleLog, IInv, TypeOK
  <2>5. consumer' \in Consumer
    <3>1. CASE NextRecord
      <4>1. consumer \in Consumer
        BY DEF IInv, TypeOK
      <4>2. consumer.next + 1 \in Nat \ {0}
        BY <1>c
      <4> QED
        BY <3>1, <4>1, <4>2 DEF NextRecord, Consumer
    <3>2. CASE consumer' = consumer
      BY <3>2 DEF IInv, TypeOK
    <3> QED
      BY <1>5, <3>1, <3>2 DEF HandleLog
  <2>6. faults' \in 0 .. MaxFaults
    BY <1>5 DEF HandleLog, Fault, IInv, TypeOK
  <2> QED
    BY <1>5, <2>3, <2>4, <2>5, <2>6 DEF HandleLog, IInv, TypeOK
<1>6. CASE Commit
  <2> DEFINE t == consumer.topic
  <2>1. Handling(t)
    BY <1>6 DEF Commit, Handling
  <2>2. consumer.last <= end[t]
    BY <1>c, <2>1 DEF IInv, Progress, BatchIsInTopic
  <2>3. StartAt(t) \in Nat \ {0} /\ consumer.last + 1 \in Nat \ {0}
    BY <1>c DEF StartAt, IInv, TypeOK
  <2>4. position' \in [Topics -> Nat \ {0}]
    BY <1>6, <1>c, <2>3 DEF Commit, IInv, TypeOK
  <2>5. /\ committed' \in [Topics -> Nat]
        /\ \A s \in Topics : committed'[s] <= end[s] + 1
    <3>1. CASE committed' = [committed EXCEPT ![t] = consumer.last + 1]
      <4>1. committed' \in [Topics -> Nat]
        BY <3>1, <2>3 DEF IInv, TypeOK
      <4>2. ASSUME NEW s \in Topics PROVE committed'[s] <= end[s] + 1
        BY <3>1, <1>c, <2>2 DEF IInv, TypeOK
      <4> QED
        BY <4>1, <4>2
    <3>2. CASE committed' = committed
      BY <3>2 DEF IInv, TypeOK
    <3> QED
      BY <1>6, <3>1, <3>2 DEF Commit
  <2>6. faults' \in 0 .. MaxFaults
    BY <1>6 DEF Commit, Fault, IInv, TypeOK
  <2> QED
    BY <1>6, <1>b, <2>4, <2>5, <2>6 DEF Commit, IInv, TypeOK
<1>7. CASE Crash
  <2>1. crashes' \in 0 .. MaxCrashes
    BY <1>7 DEF Crash, IInv, TypeOK
  <2> QED
    BY <1>7, <1>b, <2>1 DEF Crash, IInv, TypeOK
<1>8. CASE UNCHANGED vars
  BY <1>8 DEF vars, IInv, TypeOK
<1> QED
  BY <1>2, <1>3, <1>4, <1>5, <1>6, <1>7, <1>8 DEF Next, Consume

\* What is handled stays handled.
LEMMA HandledStays ==
  IInv /\ [Next]_vars =>
    \A t \in Topics : \A i \in Records : Handled(t, i) => Handled(t, i)'
<1> SUFFICES ASSUME IInv, [Next]_vars,
                    NEW t \in Topics, NEW i \in Records, Handled(t, i)
             PROVE  Handled(t, i)'
  OBVIOUS
<1>1. errored \subseteq errored'
  BY DEF Next, vars, PublishLog, PublishError, AppendTo, Consume, Crash,
         ConsumeMultiple, Fetch, HandleLog, Commit
<1>2. documents' = documents \/ (HandleLog /\ AddDocument)
  BY DEF Next, vars, PublishLog, PublishError, AppendTo, Consume, Crash,
         ConsumeMultiple, Fetch, HandleLog, Commit
<1>3. documents'[t][i] >= documents[t][i]
  BY <1>2 DEF AddDocument, IInv, TypeOK
<1> QED
  BY <1>1, <1>3, TypeStep DEF Handled, IInv, TypeOK

\* Steps of producers: the topic grows, nothing else moves.
LEMMA AppendStep ==
  ASSUME IInv, NEW topic \in Topics, AppendTo(topic)
  PROVE  Progress' /\ NoSilentGap' /\ DuplicatesBounded'
<1>1. \A t \in Topics : end'[t] >= end[t] /\ end'[t] \in Nat /\ end[t] \in Nat
  BY LoggerAssumption DEF AppendTo, IInv, TypeOK
<1>2. /\ \A t \in Topics : Handling(t)' <=> Handling(t)
      /\ \A t \in Topics : Frontier(t)' = Frontier(t)
      /\ \A t \in Topics, i \in Records : Handled(t, i)' <=> Handled(t, i)
  BY DEF AppendTo, Handling, Frontier, Handled
<1>3. ASSUME NEW t \in Topics PROVE BatchIsInTopic(t)'
  BY <1>1, <1>2 DEF AppendTo, IInv, TypeOK, Consumer, Progress, BatchIsInTopic
<1>4. ASSUME NEW t \in Topics
      PROVE  (StartsAtCommitted(t) /\ HandlesInOrder(t) /\ RepeatsAreOwed(t))'
  BY <1>2 DEF AppendTo, IInv, Progress, StartsAtCommitted, HandlesInOrder,
              RepeatsAreOwed
<1>5. NoSilentGap' /\ DuplicatesBounded'
  BY <1>2 DEF AppendTo, IInv, NoSilentGap, DuplicatesBounded
<1> QED
  BY <1>3, <1>4, <1>5 DEF Progress

\* A start resumes each topic at the group's offset.
LEMMA StartStep ==
  ASSUME IInv, ConsumeMultiple
  PROVE  Progress' /\ NoSilentGap' /\ DuplicatesBounded'
<1>1. \A t \in Topics : ~Handling(t)'
  BY DEF ConsumeMultiple, Handling, Polling, Down
<1>2. \A t \in Topics, i \in Records : Handled(t, i)' <=> Handled(t, i)
  BY DEF ConsumeMultiple, Handled
<1>3. ASSUME NEW t \in Topics PROVE StartsAtCommitted(t)'
  <2>1. ~FreshGroup => committed[t] >= 1
    BY DEF IInv, Progress, StartsAtCommitted
  <2>2. ~FreshGroup => position'[t] = committed[t]
    BY <2>1 DEF ConsumeMultiple, StartAt, IInv, TypeOK
  <2> QED
    BY <2>1, <2>2 DEF ConsumeMultiple, StartsAtCommitted
<1>4. ASSUME NEW t \in Topics
      PROVE  (BatchIsInTopic(t) /\ HandlesInOrder(t) /\ RepeatsAreOwed(t))'
  BY <1>1 DEF ConsumeMultiple, IInv, Progress, BatchIsInTopic, HandlesInOrder,
              RepeatsAreOwed
<1>5. NoSilentGap' /\ DuplicatesBounded'
  BY <1>2 DEF ConsumeMultiple, IInv, NoSilentGap, DuplicatesBounded
<1> QED
  BY <1>3, <1>4, <1>5 DEF Progress

\* A fetch opens a batch at the position: what lies before is handled.
LEMMA FetchStep ==
  ASSUME IInv, NEW topic \in Topics, Fetch(topic)
  PROVE  Progress' /\ NoSilentGap' /\ DuplicatesBounded'
<1>1. PICK last \in position[topic] .. end[topic] :
        consumer' = [stage |-> "handling", topic |-> topic,
                     next |-> position[topic], last |-> last]
  BY DEF Fetch
<1>2. \A t \in Topics : position[t] \in Nat \ {0} /\ end[t] \in Nat
  BY LoggerAssumption DEF IInv, TypeOK
<1>3. \A t \in Topics, i \in Records : Handled(t, i)' <=> Handled(t, i)
  BY DEF Fetch, Handled
<1>4. \A t \in Topics : Handling(t)' => t = topic
  BY <1>1 DEF Handling
<1>5. \A t \in Topics : Frontier(t)' = Frontier(t)
  BY <1>1 DEF Fetch, Frontier, Handling
<1>6. ASSUME NEW t \in Topics PROVE BatchIsInTopic(t)'
  BY <1>1, <1>2, <1>4 DEF Fetch, BatchIsInTopic
<1>7. ASSUME NEW t \in Topics
      PROVE  StartsAtCommitted(t)' /\ RepeatsAreOwed(t)'
  BY <1>1, <1>5 DEF Fetch, IInv, Progress, StartsAtCommitted, RepeatsAreOwed
<1>8. ASSUME NEW t \in Topics PROVE HandlesInOrder(t)'
  <2>1. SUFFICES ASSUME ~FreshGroup, t = topic, NEW i \in Records,
                        i < position[t]
                 PROVE  Handled(t, i)
    BY <1>1, <1>3, <1>4 DEF HandlesInOrder
  <2>2. position[t] = committed[t]
    BY <2>1 DEF Fetch, IInv, Progress, StartsAtCommitted
  <2> QED
    BY <2>1, <2>2 DEF IInv, NoSilentGap
<1>9. NoSilentGap' /\ DuplicatesBounded'
  BY <1>3 DEF Fetch, IInv, NoSilentGap, DuplicatesBounded
<1> QED
  BY <1>6, <1>7, <1>8, <1>9 DEF Progress

\* What one handled record leaves: its document or its error, and the next
\* record is up, unless the client repeats the call.
LEMMA HandleEffect ==
  ASSUME IInv, HandleLog
  PROVE  /\ consumer.next \in Records
         /\ consumer'.stage = "handling" /\ consumer'.topic = consumer.topic
         /\ consumer'.last = consumer.last
         /\ \/ consumer'.next = consumer.next + 1
               /\ \A t \in Topics, i \in Records :
                    t = consumer.topic /\ i = consumer.next => Handled(t, i)'
            \/ consumer'.next = consumer.next /\ faults' = faults + 1
         /\ faults' >= faults
         /\ \A t \in Topics, i \in Records :
              \/ documents'[t][i] = documents[t][i]
              \/ /\ t = consumer.topic /\ i = consumer.next
                 /\ documents'[t][i] = documents[t][i] + 1
<1>1. /\ consumer.topic \in Topics /\ consumer.stage = "handling"
      /\ consumer.next \in Nat \ {0} /\ consumer.last \in 0 .. MaxRecords
      /\ consumer.next \in Records
  BY LoggerAssumption DEF HandleLog, Records, Consumer, IInv, TypeOK
<1>2. /\ faults \in Nat /\ faults' \in Nat
      /\ faults' = faults \/ faults' = faults + 1
  BY LoggerAssumption DEF HandleLog, Fault, IInv, TypeOK
<1>3. \A t \in Topics, i \in Records : documents[t][i] \in Nat
  BY DEF IInv, TypeOK
<1>4. AddDocument => documents'[consumer.topic][consumer.next]
                       = documents[consumer.topic][consumer.next] + 1
  BY <1>1 DEF AddDocument, IInv, TypeOK
<1>5. ASSUME NEW t \in Topics, NEW i \in Records,
             t # consumer.topic \/ i # consumer.next
      PROVE  documents'[t][i] = documents[t][i]
  BY <1>1, <1>5 DEF HandleLog, AddDocument, IInv, TypeOK
<1>6. \A t \in Topics, i \in Records :
        \/ documents'[t][i] = documents[t][i]
        \/ /\ t = consumer.topic /\ i = consumer.next
           /\ documents'[t][i] = documents[t][i] + 1
  BY <1>1, <1>4, <1>5 DEF HandleLog
<1>7. NextRecord => /\ consumer'.next = consumer.next + 1
                    /\ consumer'.stage = "handling"
                    /\ consumer'.topic = consumer.topic
                    /\ consumer'.last = consumer.last
  BY <1>1 DEF NextRecord, Consumer, IInv, TypeOK
<1>8. AddDocument =>
        \A t \in Topics, i \in Records :
          t = consumer.topic /\ i = consumer.next => Handled(t, i)'
  BY <1>1, <1>3, <1>4 DEF Handled
<1>9. errored' = errored \cup {<<consumer.topic, consumer.next>>} =>
        \A t \in Topics, i \in Records :
          t = consumer.topic /\ i = consumer.next => Handled(t, i)'
  BY DEF Handled
<1>10. \/ AddDocument /\ NextRecord
       \/ /\ errored' = errored \cup {<<consumer.topic, consumer.next>>}
          /\ NextRecord
       \/ faults' = faults + 1 /\ UNCHANGED consumer
  BY DEF HandleLog, Fault
<1> QED
  BY <1>1, <1>2, <1>6, <1>7, <1>8, <1>9, <1>10

\* A record's turn: everything before it in the batch is handled, and only
\* its own documents grow.
LEMMA HandleStep ==
  ASSUME IInv, HandleLog
  PROVE  Progress' /\ NoSilentGap' /\ DuplicatesBounded'
<1> USE HandleEffect
<1>0. /\ UNCHANGED <<end, committed, position, crashes>>
      /\ consumer.stage = "handling" /\ consumer.next <= consumer.last
      /\ consumer.topic \in Topics /\ consumer.next \in Nat \ {0}
      /\ consumer.last \in Nat /\ faults \in Nat /\ crashes \in Nat
      /\ consumer'.next \in Nat /\ faults' \in Nat
      /\ consumer'.next >= consumer.next
      /\ \A i \in Records : i \in Nat
  <2>1. /\ UNCHANGED <<end, committed, position, crashes>>
        /\ consumer.stage = "handling" /\ consumer.next <= consumer.last
    BY DEF HandleLog
  <2>2. faults' \in Nat
    BY LoggerAssumption DEF HandleLog, Fault, IInv, TypeOK
  <2>3. /\ consumer.topic \in Topics /\ consumer.next \in Nat \ {0}
        /\ consumer.last \in Nat
    BY LoggerAssumption DEF Consumer, IInv, TypeOK
  <2>4. faults \in Nat /\ crashes \in Nat
    BY LoggerAssumption DEF IInv, TypeOK
  <2>5. consumer'.next = consumer.next \/ consumer'.next = consumer.next + 1
    OBVIOUS
  <2>6. \A i \in Records : i \in Nat
    BY DEF Records
  <2> HIDE HandleEffect
  <2> QED
    BY <2>1, <2>2, <2>3, <2>4, <2>5, <2>6
<1>1. \A t \in Topics, i \in Records : /\ documents[t][i] \in Nat
                                       /\ documents'[t][i] \in Nat
  BY DEF IInv, TypeOK
<1>2. \A t \in Topics : Handling(t)' <=> Handling(t)
  BY <1>0 DEF Handling
<1>3. \A t \in Topics, i \in Records : Handled(t, i) => Handled(t, i)'
  BY HandledStays DEF Next, Consume
<1>4. ASSUME NEW t \in Topics PROVE BatchIsInTopic(t)'
  <2>1. SUFFICES ASSUME Handling(t)
                 PROVE  /\ consumer'.last <= end[t]
                        /\ consumer'.next <= consumer'.last + 1
    BY <1>0, <1>2 DEF BatchIsInTopic
  <2>2. consumer.last <= end[t]
    BY <2>1 DEF IInv, Progress, BatchIsInTopic
  <2> QED
    BY <1>0, <2>2
<1>5. ASSUME NEW t \in Topics PROVE StartsAtCommitted(t)'
  BY <1>0 DEF IInv, Progress, StartsAtCommitted
<1>6. ASSUME NEW t \in Topics PROVE HandlesInOrder(t)'
  <2>1. SUFFICES ASSUME ~FreshGroup, Handling(t), NEW i \in Records,
                        i < consumer'.next
                 PROVE  Handled(t, i)'
    BY <1>2 DEF HandlesInOrder
  <2>2. t = consumer.topic
    BY <2>1 DEF Handling
  <2>3. CASE i < consumer.next
    BY <1>3, <2>1, <2>3 DEF IInv, Progress, HandlesInOrder
  <2>4. CASE i = consumer.next
    BY <1>0, <2>1, <2>2, <2>4
  <2> QED
    BY <1>0, <2>1, <2>3, <2>4
<1>7. ASSUME NEW t \in Topics PROVE RepeatsAreOwed(t)'
  <2>1. SUFFICES ASSUME NEW i \in Records, i >= Frontier(t)'
                 PROVE  documents'[t][i] <= faults' + crashes
    BY <1>0 DEF RepeatsAreOwed
  <2>2. i >= Frontier(t)
    BY <1>0, <1>2, <2>1 DEF Frontier, Handling
  <2>3. documents[t][i] <= faults + crashes
    BY <2>2 DEF IInv, Progress, RepeatsAreOwed
  <2>4. CASE documents'[t][i] = documents[t][i]
    BY <1>0, <1>1, <2>3, <2>4
  <2>5. CASE /\ t = consumer.topic /\ i = consumer.next
             /\ documents'[t][i] = documents[t][i] + 1
    <3>1. consumer'.next = consumer.next
      BY <1>0, <2>1, <2>5 DEF Frontier, Handling
    <3>2. faults' = faults + 1
      BY <1>0, <3>1
    <3> QED
      BY <1>0, <1>1, <2>3, <2>5, <3>2
  <2> QED
    BY <2>4, <2>5
<1>8. NoSilentGap'
  <2>1. SUFFICES ASSUME ~FreshGroup, NEW t \in Topics, NEW i \in Records,
                        \/ i < committed[t]
                        \/ \E j \in Records : i < j /\ documents'[t][j] > 0
                 PROVE  Handled(t, i)'
    BY <1>0 DEF NoSilentGap
  <2>2. CASE i < committed[t]
    BY <1>3, <2>1, <2>2 DEF IInv, NoSilentGap
  <2>3. ASSUME NEW j \in Records, i < j, documents'[t][j] > 0
        PROVE  Handled(t, i)'
    <3>1. CASE documents[t][j] > 0
      BY <1>3, <2>1, <2>3, <3>1 DEF IInv, NoSilentGap
    <3>2. CASE t = consumer.topic /\ j = consumer.next
      <4>1. Handling(t)
        BY <1>0, <3>2 DEF Handling
      <4> QED
        BY <1>3, <2>1, <2>3, <3>2, <4>1 DEF IInv, Progress, HandlesInOrder
    <3> QED
      BY <2>3, <3>1, <3>2
  <2> QED
    BY <2>1, <2>2, <2>3
<1>9. DuplicatesBounded'
  <2>1. SUFFICES ASSUME NEW t \in Topics, NEW i \in Records
                 PROVE  documents'[t][i] <= 1 + faults' + crashes
    BY <1>0 DEF DuplicatesBounded
  <2>2. documents[t][i] <= 1 + faults + crashes
    BY DEF IInv, DuplicatesBounded
  <2>3. CASE documents'[t][i] = documents[t][i]
    BY <1>0, <1>1, <2>2, <2>3
  <2>4. CASE /\ t = consumer.topic /\ i = consumer.next
             /\ documents'[t][i] = documents[t][i] + 1
    <3>1. i >= Frontier(t)
      BY <1>0, <2>4 DEF Frontier, Handling
    <3>2. documents[t][i] <= faults + crashes
      BY <3>1 DEF IInv, Progress, RepeatsAreOwed
    <3> QED
      BY <1>0, <1>1, <2>4, <3>2
  <2> QED
    BY <2>3, <2>4
<1> QED
  BY <1>4, <1>5, <1>6, <1>7, <1>8, <1>9 DEF Progress

\* The end of a batch: all of it is handled, so that the offset may pass it.
LEMMA CommitStep ==
  ASSUME IInv, Commit
  PROVE  Progress' /\ NoSilentGap' /\ DuplicatesBounded'
<1>0. /\ UNCHANGED <<end, documents, errored, crashes>>
      /\ consumer' = Polling
      /\ Handling(consumer.topic) /\ consumer.topic \in Topics
      /\ consumer.next \in Nat /\ consumer.last \in Nat
      /\ consumer.next > consumer.last
      /\ faults \in Nat /\ faults' \in Nat /\ crashes \in Nat
      /\ faults' >= faults
      /\ \A i \in Records : i \in Nat
      /\ \A t \in Topics, i \in Records : documents[t][i] \in Nat
  <2>1. /\ UNCHANGED <<end, documents, errored, crashes>>
        /\ consumer' = Polling /\ consumer.stage = "handling"
        /\ consumer.next > consumer.last
    BY DEF Commit
  <2>2. faults' \in Nat /\ faults' >= faults
    BY LoggerAssumption DEF Commit, Fault, IInv, TypeOK
  <2>3. /\ consumer.topic \in Topics /\ consumer.next \in Nat
        /\ consumer.last \in Nat
    BY LoggerAssumption DEF Consumer, IInv, TypeOK
  <2>4. faults \in Nat /\ crashes \in Nat
    BY LoggerAssumption DEF IInv, TypeOK
  <2>5. \A i \in Records : i \in Nat
    BY DEF Records
  <2>6. \A t \in Topics, i \in Records : documents[t][i] \in Nat
    BY DEF IInv, TypeOK
  <2> QED
    BY <2>1, <2>2, <2>3, <2>4, <2>5, <2>6 DEF Handling
<1>1. \A t \in Topics : committed[t] \in Nat /\ position[t] \in Nat
  BY DEF IInv, TypeOK
<1>2. consumer.next = consumer.last + 1
  <2>1. BatchIsInTopic(consumer.topic)
    BY <1>0 DEF IInv, Progress
  <2>2. consumer.next <= consumer.last + 1
    BY <1>0, <2>1 DEF BatchIsInTopic
  <2> QED
    BY <1>0, <2>2
<1>3. ASSUME NEW t \in Topics
      PROVE  \/ committed'[t] = committed[t]
             \/ t = consumer.topic /\ committed'[t] = consumer.next
  <2>1. committed \in [Topics -> Nat]
    BY DEF IInv, TypeOK
  <2>2. CASE committed' = [committed EXCEPT ![consumer.topic]
                             = consumer.last + 1]
    BY <1>0, <1>2, <2>1, <2>2
  <2> QED
    BY <2>1, <2>2 DEF Commit
<1>4. \A t \in Topics, i \in Records : Handled(t, i)' <=> Handled(t, i)
  BY <1>0 DEF Handled
<1>5. \A t \in Topics : ~Handling(t)' /\ Frontier(t)' = position'[t]
  BY <1>0 DEF Handling, Frontier, Polling, Down
<1>6. ASSUME NEW t \in Topics
      PROVE  BatchIsInTopic(t)' /\ HandlesInOrder(t)'
  BY <1>5 DEF BatchIsInTopic, HandlesInOrder
<1>7. ASSUME NEW t \in Topics, ~FreshGroup
      PROVE  committed'[t] >= 1 /\ position'[t] = committed'[t]
  <2>1. committed[t] >= 1 /\ position[t] = committed[t]
    BY <1>0, <1>7 DEF IInv, Progress, StartsAtCommitted, Handling
  <2>2. CASE committed' = [committed EXCEPT ![consumer.topic]
                             = consumer.last + 1]
    <3>1. position' = [position EXCEPT ![consumer.topic] = consumer.last + 1]
      BY <1>0, <1>2, <2>2, <1>7 DEF Commit, StartAt, IInv, TypeOK, Progress,
                                   StartsAtCommitted, Handling
    <3>2. CASE t = consumer.topic
      BY <1>0, <2>2, <3>1, <3>2 DEF IInv, TypeOK
    <3>3. CASE t # consumer.topic
      BY <1>0, <2>1, <2>2, <3>1, <3>3 DEF IInv, TypeOK
    <3> QED
      BY <3>2, <3>3
  <2>3. CASE /\ position' = [position EXCEPT ![consumer.topic]
                               = StartAt(consumer.topic)]
             /\ UNCHANGED committed
    <3>1. committed[consumer.topic] >= 1
      BY <1>0, <1>7 DEF IInv, Progress, StartsAtCommitted
    <3>2. StartAt(consumer.topic) = committed[consumer.topic]
      BY <1>0, <1>1, <3>1 DEF StartAt
    <3> QED
      BY <1>0, <2>1, <2>3, <3>2 DEF IInv, TypeOK
  <2> QED
    BY <2>2, <2>3 DEF Commit
<1>8. ASSUME NEW t \in Topics PROVE StartsAtCommitted(t)'
  BY <1>7 DEF StartsAtCommitted
<1>9. ASSUME NEW t \in Topics, NEW i \in Records, i >= position'[t]
      PROVE  documents[t][i] <= faults' + crashes
  <2>1. CASE t # consumer.topic
    <3>1. position'[t] = position[t]
      BY <1>0, <2>1 DEF Commit, IInv, TypeOK
    <3>2. Frontier(t) = position[t]
      BY <2>1 DEF Frontier, Handling
    <3>3. documents[t][i] <= faults + crashes
      BY <1>9, <3>1, <3>2 DEF IInv, Progress, RepeatsAreOwed
    <3> QED
      BY <1>0, <3>3
  <2>2. CASE t = consumer.topic /\ i >= consumer.next
    <3>1. Frontier(t) = consumer.next
      BY <1>0, <2>2 DEF Frontier
    <3>2. documents[t][i] <= faults + crashes
      BY <2>2, <3>1 DEF IInv, Progress, RepeatsAreOwed
    <3> QED
      BY <1>0, <3>2
  <2>3. CASE t = consumer.topic /\ i < consumer.next
    <3>1. position'[t] # consumer.last + 1
      BY <1>0, <1>2, <1>9, <2>3
    <3>2. faults' = faults + 1
      BY <1>0, <2>3, <3>1 DEF Commit, Fault, IInv, TypeOK
    <3>3. documents[t][i] <= 1 + faults + crashes
      BY DEF IInv, DuplicatesBounded
    <3> QED
      BY <1>0, <3>2, <3>3
  <2> QED
    BY <1>0, <2>1, <2>2, <2>3
<1>10. ASSUME NEW t \in Topics PROVE RepeatsAreOwed(t)'
  BY <1>0, <1>5, <1>9 DEF RepeatsAreOwed, Polling, Down
<1>11. NoSilentGap'
  <2>1. SUFFICES ASSUME ~FreshGroup, NEW t \in Topics, NEW i \in Records,
                        \/ i < committed'[t]
                        \/ \E j \in Records : i < j /\ documents[t][j] > 0
                 PROVE  Handled(t, i)
    BY <1>0, <1>4 DEF NoSilentGap
  <2>2. CASE i < committed[t] \/ \E j \in Records : i < j /\ documents[t][j] > 0
    BY <2>1, <2>2 DEF IInv, NoSilentGap
  <2>3. CASE t = consumer.topic /\ i < consumer.next
    BY <1>0, <2>1, <2>3 DEF IInv, Progress, HandlesInOrder
  <2> QED
    BY <1>3, <2>1, <2>2, <2>3
<1>12. DuplicatesBounded'
  <2>1. SUFFICES ASSUME NEW t \in Topics, NEW i \in Records
                 PROVE  documents[t][i] <= 1 + faults' + crashes
    BY <1>0 DEF DuplicatesBounded
  <2>2. documents[t][i] <= 1 + faults + crashes
    BY DEF IInv, DuplicatesBounded
  <2> QED
    BY <1>0, <2>2
<1> QED
  BY <1>6, <1>8, <1>10, <1>11, <1>12 DEF Progress

\* A crash pays for the documents that the next start may repeat.
LEMMA CrashStep ==
  ASSUME IInv, Crash
  PROVE  Progress' /\ NoSilentGap' /\ DuplicatesBounded'
<1>0. /\ UNCHANGED <<end, committed, position, documents, errored, faults>>
      /\ consumer' = Down /\ crashes' = crashes + 1
      /\ faults \in Nat /\ crashes \in Nat
      /\ \A t \in Topics, i \in Records : documents[t][i] \in Nat
  BY LoggerAssumption DEF Crash, IInv, TypeOK
<1>1. \A t \in Topics, i \in Records : Handled(t, i)' <=> Handled(t, i)
  BY <1>0 DEF Handled
<1>2. \A t \in Topics, i \in Records : documents[t][i] <= 1 + faults + crashes
  BY DEF IInv, DuplicatesBounded
<1>3. \A t \in Topics, i \in Records : documents[t][i] <= faults + crashes'
  BY <1>0, <1>2
<1>4. ASSUME NEW t \in Topics
      PROVE  (/\ BatchIsInTopic(t) /\ HandlesInOrder(t)
              /\ StartsAtCommitted(t) /\ RepeatsAreOwed(t))'
  BY <1>0, <1>3 DEF Down, Handling, IInv, Progress, BatchIsInTopic,
                    HandlesInOrder, StartsAtCommitted, RepeatsAreOwed
<1>5. NoSilentGap'
  BY <1>0, <1>1 DEF IInv, NoSilentGap
<1>6. DuplicatesBounded'
  BY <1>0, <1>3 DEF DuplicatesBounded
<1> QED
  BY <1>4, <1>5, <1>6 DEF Progress

\* The inductive step.
LEMMA Inductive == IInv /\ [Next]_vars => IInv'
<1> SUFFICES ASSUME IInv, [Next]_vars
             PROVE  Progress' /\ NoSilentGap' /\ DuplicatesBounded'
  BY TypeStep DEF IInv
<1>1. CASE PublishLog \/ PublishError
  BY <1>1, AppendStep DEF PublishLog, PublishError, Topics
<1>2. CASE ConsumeMultiple
  BY <1>2, StartStep
<1>3. CASE \E t \in Topics : Fetch(t)
  BY <1>3, FetchStep
<1>4. CASE HandleLog
  BY <1>4, HandleStep
<1>5. CASE Commit
  BY <1>5, CommitStep
<1>6. CASE Crash
  BY <1>6, CrashStep
<1>7. CASE UNCHANGED vars
  BY <1>7 DEF vars, IInv, Progress, BatchIsInTopic, HandlesInOrder,
              StartsAtCommitted, RepeatsAreOwed, Handling, Frontier, Handled,
              NoSilentGap, DuplicatesBounded
<1> QED
  BY <1>1, <1>2, <1>3, <1>4, <1>5, <1>6, <1>7 DEF Next, Consume

\* The invariant of the logger.
THEOREM Invariant == Spec => []IInv
BY InitIInv, Inductive, PTL DEF Spec

\* Every variable keeps its type, and no offset is committed past the end of
\* its topic.
THEOREM TypeCorrect == Spec => []TypeOK
<1>1. IInv => TypeOK
  BY DEF IInv
<1> QED
  BY <1>1, Invariant, PTL

\* A crash, a failed commit or a lost answer never leaves a gap among the
\* indexed logs: what is missing lost its own index call
\* (LogConsumerService.ts:49-56).
THEOREM NoGapWithoutError == Spec => []NoSilentGap
<1>1. IInv => NoSilentGap
  BY DEF IInv
<1> QED
  BY <1>1, Invariant, PTL

\* However often the logger restarts, each crash or failed call costs at most
\* one more document of a record (LogRepository.ts:12-27 gives it no id).
THEOREM DuplicatesAreBounded == Spec => []DuplicatesBounded
<1>1. IInv => DuplicatesBounded
  BY DEF IInv
<1> QED
  BY <1>1, Invariant, PTL

=============================================================================
