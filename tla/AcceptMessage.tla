---------------------------- MODULE AcceptMessage ----------------------------
(***************************************************************************)
(* AcceptMessageUseCase.execute of the router's layered implementation     *)
(* (domain/ and infrastructure/), with RedisDeduplicationService,          *)
(* MySQLMessageRepository and KafkaMessagePublisher.  No index.ts wires it *)
(* yet; it is the router's next version: unlike the deployed one it        *)
(* deduplicates by content, with a key that expires, and writes the        *)
(* message's row before it publishes.                                      *)
(*                                                                         *)
(* A request is named by the messageId drawn for it.  Every await is one   *)
(* action.  The Kafka topic belongs to the composing module.               *)
(***************************************************************************)
EXTENDS DeliveryProcessor

VARIABLES stage,    \* the await each request has reached
          reply,    \* the status its client was answered
          dedup     \* Redis keys dedup:<dedupKey>

routerVars == <<stage, reply, dedup>>

AcceptAwaits == {"exists", "set", "save", "publish", "log"}

RouterTypeOK ==
  /\ stage \in [Messages -> {"new", "done"} \cup AcceptAwaits]
  /\ reply \in [Messages -> {"none", "ACCEPTED", "DUPLICATE", "ERROR"}]
  /\ dedup \subseteq DedupKeys

RouterInit == /\ stage = [m \in Messages |-> "new"]
              /\ reply = [m \in Messages |-> "none"]
              /\ dedup = {}

InProgress(m) == stage[m] \in AcceptAwaits

-----------------------------------------------------------------------------
Advance(m, next) == stage' = [stage EXCEPT ![m] = next] /\ UNCHANGED reply

\* createMessage: 202, 200, or 400 for whatever execute throws.
Respond(m, status) == /\ stage' = [stage EXCEPT ![m] = "done"]
                      /\ reply' = [reply EXCEPT ![m] = status]

NoFault == UNCHANGED faults

\* validateRequest throws or not: either kind of request may come.
Execute(m) ==
  /\ stage[m] = "new"
  /\ Advance(m, "exists") \/ Respond(m, "ERROR")
  /\ UNCHANGED <<dedup, rows, faults>>

\* checkDuplicate, first await.  A Redis error answers "duplicate".
CheckExists(m) ==
  /\ stage[m] = "exists"
  /\ \/ DedupKey[m] \in dedup /\ Respond(m, "DUPLICATE") /\ NoFault
     \/ DedupKey[m] \notin dedup /\ Advance(m, "set") /\ NoFault
     \/ Respond(m, "DUPLICATE") /\ Fault
  /\ UNCHANGED <<dedup, rows>>

\* checkDuplicate, second await: SET overwrites, so that whoever got here
\* is new.
CheckSet(m) ==
  /\ stage[m] = "set"
  /\ \/ /\ dedup' = dedup \cup {DedupKey[m]}
        /\ \/ Advance(m, "save") /\ NoFault
           \/ Respond(m, "DUPLICATE") /\ Fault
     \/ UNCHANGED dedup /\ Respond(m, "DUPLICATE") /\ Fault
  /\ UNCHANGED rows

\* PRIMARY KEY and uk_dedup; the INSERT leaves idempotencyKey out.
SameContent(m, n) == DedupKey[m] = DedupKey[n]

\* Mutation: the table has no unique key on dedupKey.
Insertable_NoUniqueKey(m) == SaveMessageFits

Insertable(m) == /\ SaveMessageFits
                 /\ \A n \in Messages : HasRow(n) => ~SameContent(m, n)

Save(m) ==
  /\ stage[m] = "save"
  /\ \/ /\ Insertable(m)
        /\ rows' = [rows EXCEPT ![m] = [status |-> "PENDING",
                                        finalDelivered |-> FALSE]]
        /\ \/ Advance(m, "publish") /\ NoFault
           \/ Respond(m, "ERROR") /\ Fault
     \/ ~Insertable(m) /\ UNCHANGED rows /\ Respond(m, "ERROR") /\ NoFault
     \/ UNCHANGED rows /\ Respond(m, "ERROR") /\ Fault
  /\ UNCHANGED dedup

\* publishMessageEvent, whose effect on the topic the composing module gives.
PublishMessage(m, effect, unchanged) ==
  /\ stage[m] = "publish"
  /\ \/ effect /\ \/ Advance(m, "log") /\ NoFault
                  \/ Respond(m, "ERROR") /\ Fault
     \/ unchanged /\ Respond(m, "ERROR") /\ Fault
  /\ UNCHANGED <<dedup, rows>>

PublishLog(m) ==
  /\ stage[m] = "log"
  /\ \/ Respond(m, "ACCEPTED") /\ NoFault
     \/ Respond(m, "ERROR") /\ Fault
  /\ UNCHANGED <<dedup, rows>>

\* EX 3600.
Expire(key) ==
  /\ key \in dedup
  /\ dedup' = dedup \ {key}
  /\ UNCHANGED <<stage, reply, rows, faults>>

\* The router dies: requests in progress get no answer.
RouterDies ==
  /\ \E m \in Messages : InProgress(m)
  /\ stage' = [m \in Messages |-> IF InProgress(m) THEN "done" ELSE stage[m]]
  /\ UNCHANGED <<reply, dedup, rows, faults>>

=============================================================================
