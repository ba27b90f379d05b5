------------------------------ MODULE IngressRouter ------------------------------
(***************************************************************************)
(* The task router: MessageController.createMessage with the ingress       *)
(* cache of DeduplicationService (Redis) and MessagePublisher (Kafka).     *)
(*                                                                         *)
(* A request is one POST /messages; a client's retry is another request    *)
(* with the same tenant and idempotency key.  Requests interleave at every *)
(* await.  A call that fails may have taken effect before its answer was   *)
(* lost.                                                                   *)
(*                                                                         *)
(* Tenant and key are strings that may hold colons.  A string is the       *)
(* sequence of what stands between its colons: "a:key" is <<"a", "key">>,  *)
(* and two strings with a colon between them are the two sequences in a    *)
(* row.                                                                    *)
(***************************************************************************)
EXTENDS Naturals, FiniteSets, Sequences

CONSTANTS Requests,        \* also the messageId drawn for the request
          Tenant,          \* request |-> its tenantId
          Key,             \* request |-> its idempotencyKey
          Content,         \* request |-> what validateRequest looks at
          NoId,
          MaxFaults,       \* bound: Redis and Kafka calls that fail
          MaxCrashes       \* bound: crashes of the router process

ASSUME RouterAssumption ==
  /\ Tenant \in [Requests -> Seq(STRING)] /\ Key \in [Requests -> Seq(STRING)]
  /\ Content \in [Requests -> [complete : BOOLEAN, channel : STRING,
                                 mailAddress : BOOLEAN, blank : BOOLEAN]]
  /\ NoId \notin Requests
  /\ MaxFaults \in Nat /\ MaxCrashes \in Nat

VARIABLES stage,    \* the await each request has reached
          reply,    \* the response sent to its client
          cache,    \* Redis keys idem:tenant:<tenantId>:key:<key>
          topic,    \* requests whose message is in messages.<channel>
          overlapped, \* have two requests been in progress at once?
          faults,
          crashes

vars == <<stage, reply, cache, topic, overlapped, faults, crashes>>

Awaits == {"exists", "setNX", "getCached", "logDuplicate", "publish",
           "logAccepted", "publishError"}
NoReply == [status |-> "none", messageId |-> NoId]
Reply == [status : {"none", "ACCEPTED", "DUPLICATE", "ERROR"},
          messageId : Requests \cup {NoId}]

\* Mutation: the key leaves out the tenant.
buildIngressCacheKey_NoTenant(r) == <<"key">> \o Key[r]

\* <tenantId>:key:<idempotencyKey>, behind a constant prefix.
buildIngressCacheKey(r) == Tenant[r] \o <<"key">> \o Key[r]

CacheKeys == {buildIngressCacheKey(r) : r \in Requests}

TypeOK == /\ stage \in [Requests -> {"new", "done"} \cup Awaits]
          /\ reply \in [Requests -> Reply]
          /\ cache \subseteq CacheKeys
          /\ topic \subseteq Requests
          /\ overlapped \in BOOLEAN
          /\ faults \in 0 .. MaxFaults
          /\ crashes \in 0 .. MaxCrashes

Init == /\ stage = [r \in Requests |-> "new"]
        /\ reply = [r \in Requests |-> NoReply]
        /\ cache = {}
        /\ topic = {}
        /\ overlapped = FALSE
        /\ faults = 0
        /\ crashes = 0

-----------------------------------------------------------------------------
Goto(r, next) == stage' = [stage EXCEPT ![r] = next] /\ UNCHANGED reply

Respond(r, status, id) ==
  /\ stage' = [stage EXCEPT ![r] = "done"]
  /\ reply' = [reply EXCEPT ![r] = [status |-> status, messageId |-> id]]

Fault == faults < MaxFaults /\ faults' = faults + 1
NoFault == UNCHANGED faults

InProgress(r) == stage[r] \in Awaits

\* validateRequest: nothing missing, a known channel, an address where mail
\* is to go, and a body with something in it.
ValidateRequest(r) ==
  /\ Content[r].complete
  /\ Content[r].channel \in {"email", "sms", "whatsapp"}
  /\ Content[r].channel = "email" => Content[r].mailAddress
  /\ ~Content[r].blank

Receive(r) ==
  /\ stage[r] = "new"
  /\ overlapped' = (overlapped \/ \E q \in Requests : InProgress(q))
  /\ Goto(r, IF ValidateRequest(r) THEN "exists" ELSE "publishError")
  /\ UNCHANGED <<cache, topic, faults, crashes>>

\* checkAndCacheIngressRequest, first await.  A Redis error answers "new".
Exists(r) ==
  /\ stage[r] = "exists"
  /\ \/ buildIngressCacheKey(r) \in cache /\ Goto(r, "getCached") /\ NoFault
     \/ buildIngressCacheKey(r) \notin cache /\ Goto(r, "setNX") /\ NoFault
     \/ Goto(r, "publish") /\ Fault
  /\ UNCHANGED <<cache, topic, overlapped, crashes>>

\* Mutation: the key is not stored.
SetNX_Skipped(r) ==
  /\ stage[r] = "setNX"
  /\ Goto(r, "publish") /\ NoFault
  /\ UNCHANGED <<cache, topic, overlapped, crashes>>

\* checkAndCacheIngressRequest, second await.  Its result is not looked at:
\* a request that loses the race is "new" as well.
SetNX(r) ==
  /\ stage[r] = "setNX"
  /\ \/ cache' = cache \cup {buildIngressCacheKey(r)} /\ (NoFault \/ Fault)
     \/ UNCHANGED cache /\ Fault
  /\ Goto(r, "publish")
  /\ UNCHANGED <<topic, overlapped, crashes>>

\* getCachedIngressRequest parses the stored "1": the result has no
\* messageId, whether found or not.
GetCached(r) ==
  /\ stage[r] = "getCached"
  /\ Goto(r, "logDuplicate")
  /\ NoFault \/ Fault
  /\ UNCHANGED <<cache, topic, overlapped, crashes>>

\* The log's error is swallowed; messageId falls back to the fresh one.
LogDuplicate(r) ==
  /\ stage[r] = "logDuplicate"
  /\ Respond(r, "DUPLICATE", r)
  /\ NoFault \/ Fault
  /\ UNCHANGED <<cache, topic, overlapped, crashes>>

\* Mutation: an error of the producer is swallowed.
Publish_Swallows(r) ==
  /\ stage[r] = "publish"
  /\ \/ topic' = topic \cup {r} /\ (NoFault \/ Fault)
     \/ UNCHANGED topic /\ Fault
  /\ Goto(r, "logAccepted")
  /\ UNCHANGED <<cache, overlapped, crashes>>

\* publishMessageEvent; an error goes to the catch of createMessage.
Publish(r) ==
  /\ stage[r] = "publish"
  /\ \/ /\ topic' = topic \cup {r}
        /\ \/ Goto(r, "logAccepted") /\ NoFault
           \/ Goto(r, "publishError") /\ Fault
     \/ UNCHANGED topic /\ Goto(r, "publishError") /\ Fault
  /\ UNCHANGED <<cache, overlapped, crashes>>

\* The accepted log is awaited too: its error fails an enqueued request.
LogAccepted(r) ==
  /\ stage[r] = "logAccepted"
  /\ \/ Respond(r, "ACCEPTED", r) /\ NoFault
     \/ Goto(r, "publishError") /\ Fault
  /\ UNCHANGED <<cache, topic, overlapped, crashes>>

\* publishError's own error is swallowed; the response is 400.
PublishError(r) ==
  /\ stage[r] = "publishError"
  /\ Respond(r, "ERROR", NoId)
  /\ NoFault \/ Fault
  /\ UNCHANGED <<cache, topic, overlapped, crashes>>

\* The process dies: requests in progress get no response.
Crash ==
  /\ crashes < MaxCrashes
  /\ \E r \in Requests : InProgress(r)
  /\ crashes' = crashes + 1
  /\ stage' = [r \in Requests |-> IF InProgress(r) THEN "done" ELSE stage[r]]
  /\ UNCHANGED <<reply, cache, topic, overlapped, faults>>

Handle(r) == \/ Exists(r) \/ SetNX(r) \/ GetCached(r) \/ LogDuplicate(r)
             \/ Publish(r) \/ LogAccepted(r) \/ PublishError(r)

Next == (\E r \in Requests : Receive(r) \/ Handle(r)) \/ Crash

Spec == Init /\ [][Next]_vars

-----------------------------------------------------------------------------
SameKey(q, r) == Tenant[q] = Tenant[r] /\ Key[q] = Key[r]

\* 202 ACCEPTED is only sent for a message that is in the topic.
AcceptedIsEnqueued ==
  \A r \in Requests : reply[r].status = "ACCEPTED" => r \in topic

\* A request is turned away as a duplicate only because of an earlier one
\* of the same tenant with the same key that was let through: a valid one
\* that is enqueued or on its way to be, that the client was told failed, or
\* that died with its process.  A request that was rejected does not stand in
\* the way of its correction.  Tenants that have "key" between their colons
\* are excepted: "a:key" with key "k" and "a" with key "key:k" have one cache
\* key (DeduplicationService.ts:139), so that one may be turned away for the
\* other.
LetThrough(q) == /\ ValidateRequest(q)
                 /\ \/ q \in topic
                    \/ stage[q] \in {"publish", "publishError"}
                    \/ reply[q].status = "ERROR"
                    \/ stage[q] = "done" /\ reply[q] = NoReply
Plain(r) == \A i \in DOMAIN Tenant[r] : Tenant[r][i] # "key"
Original(q, r) == LetThrough(q) /\ (Plain(q) /\ Plain(r) => SameKey(q, r))
DuplicateHasOriginal ==
  \A r \in Requests : reply[r].status = "DUPLICATE" =>
    \E q \in Requests \ {r} : Original(q, r)

\* As long as requests come one after the other and no call fails, at most
\* one message per tenant and key is in the topic, whatever crashes.
EnqueuedOnce ==
  ~overlapped /\ faults = 0 =>
    \A q, r \in topic : SameKey(q, r) => q = r

-----------------------------------------------------------------------------
(* The strengthening that makes the three properties inductive. *)

\* A request is in the topic only once it is past the publisher, and has
\* been answered only when it is done; only a valid one gets to an await.
StagesAreTrue ==
  \A r \in Requests :
    /\ stage[r] = "logAccepted" => r \in topic
    /\ stage[r] \in {"new", "exists", "setNX", "getCached", "logDuplicate"} =>
         r \notin topic
    /\ stage[r] # "done" => reply[r] = NoReply
    /\ stage[r] \in {"exists", "setNX", "publish"} => ValidateRequest(r)

\* Whoever set a cache key was let through.
CacheHasOriginal ==
  \A key \in cache :
    \E q \in Requests : buildIngressCacheKey(q) = key /\ LetThrough(q)

\* A request on its way to DUPLICATE has its original already.
HitHasOriginal ==
  \A r \in Requests : stage[r] \in {"getCached", "logDuplicate"} =>
    \E q \in Requests \ {r} : Original(q, r)

\* One request after the other, the cache knows the topic, and a request on
\* its way to the topic is the only one of its key.
OneByOne ==
  ~overlapped /\ faults = 0 =>
    /\ \A q, r \in Requests : InProgress(q) /\ InProgress(r) => q = r
    /\ \A q \in topic : buildIngressCacheKey(q) \in cache
    /\ \A r \in Requests :
         /\ stage[r] = "setNX" => buildIngressCacheKey(r) \notin cache
         /\ stage[r] = "publish" =>
              /\ buildIngressCacheKey(r) \in cache
              /\ \A q \in topic : ~SameKey(q, r)

IInv == /\ TypeOK /\ StagesAreTrue /\ CacheHasOriginal /\ HitHasOriginal
        /\ OneByOne /\ AcceptedIsEnqueued /\ DuplicateHasOriginal
        /\ EnqueuedOnce

-----------------------------------------------------------------------------
(* What the comments say. *)

\* "Warm Redis cache after DB commit (not before)" (MessageController.ts:28)
\* would mean that a duplicate's original is at least enqueued.
DuplicateIsEnqueued ==
  \A r \in Requests : reply[r].status = "DUPLICATE" =>
    \E q \in topic : q # r /\ SameKey(q, r)

=============================================================================
