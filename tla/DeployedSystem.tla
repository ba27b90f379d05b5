----------------------------- MODULE DeployedSystem -----------------------------
(***************************************************************************)
(* Router and aggregator as deployed, from the POST to the provider: what  *)
(* IngressRouter publishes is the log of BatchConsumer's group, and its    *)
(* topic is nothing but that log.  The two share nothing else: the router  *)
(* has its own Redis keys and does not touch the tables.                   *)
(*                                                                         *)
(* The ingress cache is one line of defence against a client that repeats  *)
(* a request, the batch check on the messages table another.  The modules  *)
(* say what each is worth alone; this one says what a client may expect.   *)
(***************************************************************************)
EXTENDS BatchConsumer

CONSTANTS Tenant,            \* request |-> its tenantId
          Key,               \* request |-> its idempotencyKey
          Content,           \* request |-> what validateRequest looks at
          NoId,
          MaxRouterFaults,   \* bound: Redis and Kafka calls of the router that fail
          MaxRouterCrashes   \* bound: crashes of the router process

ASSUME SystemAssumption ==
  /\ Tenant \in [Messages -> Seq(STRING)] /\ Key \in [Messages -> Seq(STRING)]
  /\ Content \in [Messages -> [complete : BOOLEAN, channel : STRING,
                                 mailAddress : BOOLEAN, blank : BOOLEAN]]
  /\ NoId \notin Messages
  /\ MaxRouterFaults \in Nat /\ MaxRouterCrashes \in Nat
  /\ IdempotencyKey = [m \in Messages |-> <<Tenant[m], Key[m]>>]
  /\ MaxCopies >= 1

VARIABLES stage, reply, cache, overlapped, routerFaults, routerCrashes

routerVars == <<stage, reply, cache, overlapped, routerFaults, routerCrashes>>
systemVars == <<vars, routerVars>>

\* What the router has put into messages.<channel>.
Topic == {m \in Messages : Published(m)}

Router == INSTANCE IngressRouter
            WITH Requests <- Messages, topic <- Topic,
                 faults <- routerFaults, crashes <- routerCrashes,
                 MaxFaults <- MaxRouterFaults, MaxCrashes <- MaxRouterCrashes

SystemInit == Init /\ Router!Init

-----------------------------------------------------------------------------
\* createMessage, await by await: the broker appends the record in
\* publishMessageEvent, and nothing else of a request reaches the group.
CreateMessage(m) ==
  /\ \/ stage[m] = "publish" /\ Produce(m)
     \/ UNCHANGED vars
  /\ Router!Receive(m) \/ Router!Handle(m)

\* kafkajs sends again when the answer of a broker is lost, and the router's
\* producer is not idempotent (index.ts:46): a record may come twice.
Resend(m) == Published(m) /\ Produce(m) /\ UNCHANGED routerVars

RouterCrash == UNCHANGED vars /\ Router!Crash

\* A worker's handler, its timer and its death; the coordinator.
Aggregate == /\ \/ \E w \in Workers : Work(w) \/ Crash(w)
                \/ \E t \in Pollers : Timer(t)
                \/ Recover
             /\ UNCHANGED routerVars

SystemNext == \/ \E m \in Messages : CreateMessage(m) \/ Resend(m)
              \/ RouterCrash
              \/ Aggregate

SystemSpec == SystemInit /\ [][SystemNext]_systemVars

\* The event loops of both services run on; no client owes a request.
SystemFairSpec ==
  /\ SystemSpec
  /\ \A m \in Messages :
       WF_systemVars(Router!InProgress(m) /\ CreateMessage(m))
  /\ \A w \in Workers : WF_systemVars(Work(w) /\ UNCHANGED routerVars)
  /\ \A t \in Pollers : WF_systemVars(Timer(t) /\ UNCHANGED routerVars)
  /\ WF_systemVars(/\ \E p \in Partitions : owner[p] = None
                   /\ Recover /\ UNCHANGED routerVars)

-----------------------------------------------------------------------------
\* Is m in its partition where no committed offset has passed it?
Ahead(m) == \E i \in DOMAIN log[HomePartition[m]] :
              /\ log[HomePartition[m]][i] = Fresh(m)
              /\ i >= committed[HomePartition[m]]

\* "202 ACCEPTED - New message queued for delivery" (README.md:177): a request
\* that was answered so is in the database or still to be fetched, whatever
\* failed or died in the router, and whoever died or lost a partition in a
\* group that has committed before - until a call of the aggregator fails or
\* a retry record is published.
AcceptedIsKept ==
  faults = 0 /\ ~FreshGroup /\ NoRetryPublished =>
    \A m \in Messages : reply[m].status = "ACCEPTED" => Recorded(m) \/ Ahead(m)

\* One provider acceptance per tenant and idempotency key, through crashes,
\* and through failed calls of the aggregator unless the message may come
\* twice in one batch, when either line of defence holds: the router's, which
\* asks that requests do not overlap and none of its calls fails, or the
\* batch check's, which asks that no batch holds two messages of the key.
SentOncePerKey ==
  \A m, n \in Messages :
    /\ OwnContent(m)
    /\ (~overlapped /\ routerFaults = 0) \/ KeyApart(m)
    /\ faults = 0 \/ ~Repeated(m)
    => /\ accepted[m] <= 1
       /\ Router!SameKey(m, n) /\ m # n => accepted[m] = 0 \/ accepted[n] = 0

\* A client that was answered has its notification, unless a provider
\* rejects a send, a call of the aggregator fails or a worker dies: one that
\* was told ACCEPTED whatever happens in the router, and one that was told
\* DUPLICATE, of an earlier request, if the router does not fail either and
\* its cache tells the tenants apart.
AnsweredIsSent ==
  [](faults = 0 /\ crashes = 0) => \A m \in Messages :
    /\ (reply[m].status = "ACCEPTED") ~> SentOrRejected(m)
    /\ [](routerFaults = 0 /\ routerCrashes = 0) =>
         (reply[m].status = "DUPLICATE" /\ \A n \in Messages : Router!Plain(n))
           ~> SentOrRejected(m)

=============================================================================
