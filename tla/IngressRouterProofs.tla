-------------------------- MODULE IngressRouterProofs --------------------------
(***************************************************************************)
(* IngressRouter!IInv is inductive: for every set of requests, tenants and *)
(* keys and any number of failed calls and crashes, ACCEPTED is sent only  *)
(* for what is in the topic, DUPLICATE only for a request that has an      *)
(* original (one of its own tenant, when no tenant has "key" between its   *)
(* colons), and requests that neither overlap nor meet a failed call are   *)
(* enqueued once per tenant and key.                                       *)
(***************************************************************************)
EXTENDS IngressRouter, SequenceTheorems, TLAPS

\* The inductive invariant, but for its type part, in two halves: what is
\* always true, and what is true until requests overlap or calls fail.
Always == /\ StagesAreTrue /\ CacheHasOriginal /\ HitHasOriginal
          /\ AcceptedIsEnqueued /\ DuplicateHasOriginal
Sequential == OneByOne /\ EnqueuedOnce

LEMMA Halves == IInv <=> TypeOK /\ Always /\ Sequential
BY DEF IInv, Always, Sequential

\* Requests of one tenant with one key have one cache key.
LEMMA SameKeyIsOne ==
  ASSUME NEW q, NEW r, SameKey(q, r)
  PROVE  buildIngressCacheKey(q) = buildIngressCacheKey(r)
BY DEF buildIngressCacheKey, SameKey

\* The other way round, the first "key" of a cache key ends a plain tenant:
\* two plain tenants share a cache key only when tenant and key are the same.
LEMMA PlainApart ==
  ASSUME NEW q \in Requests, NEW r \in Requests, Plain(q), Plain(r),
         buildIngressCacheKey(q) = buildIngressCacheKey(r)
  PROVE  SameKey(q, r)
<1> DEFINE s == Tenant[q]
           t == Tenant[r]
           k == Key[q]
           l == Key[r]
<1>1. s \in Seq(STRING) /\ t \in Seq(STRING)
      /\ k \in Seq(STRING) /\ l \in Seq(STRING)
  BY RouterAssumption
<1>2. /\ \A i \in 1 .. Len(s) : s[i] # "key"
      /\ \A i \in 1 .. Len(t) : t[i] # "key"
  BY <1>1 DEF Plain
<1>3. s \o <<"key">> \o k = t \o <<"key">> \o l
  BY DEF buildIngressCacheKey
<1> SUFFICES s = t /\ k = l
  BY DEF SameKey
<1> HIDE DEF s, t, k, l
<1>4. ASSUME NEW a \in Seq(STRING), NEW b \in Seq(STRING),
             NEW c \in Seq(STRING), NEW d \in Seq(STRING),
             a \o <<"key">> \o c = b \o <<"key">> \o d,
             \A i \in 1 .. Len(b) : b[i] # "key"
      PROVE  ~(Len(a) < Len(b))
  <2> SUFFICES ASSUME Len(a) < Len(b) PROVE FALSE
    OBVIOUS
  <2>1. (a \o <<"key">> \o c)[Len(a) + 1] = "key"
    OBVIOUS
  <2>2. Len(a) + 1 \in 1 .. Len(b)
    OBVIOUS
  <2>3. (b \o <<"key">> \o d)[Len(a) + 1] = b[Len(a) + 1]
    BY <2>2
  <2> QED
    BY <1>4, <2>1, <2>2, <2>3
<1>5. Len(s) = Len(t)
  <2>1. Len(s) \in Nat /\ Len(t) \in Nat
    BY <1>1
  <2>2. ~(Len(s) < Len(t))
    BY <1>1, <1>2, <1>3, <1>4
  <2>3. ~(Len(t) < Len(s))
    BY <1>1, <1>2, <1>3, <1>4
  <2> QED
    BY <2>1, <2>2, <2>3
<1>6. s = t
  <2>1. \A i \in 1 .. Len(s) : (s \o <<"key">> \o k)[i] = s[i]
    BY <1>1
  <2>2. \A i \in 1 .. Len(t) : (t \o <<"key">> \o l)[i] = t[i]
    BY <1>1
  <2>3. \A i \in 1 .. Len(s) : s[i] = t[i]
    BY <1>3, <1>5, <2>1, <2>2
  <2> QED
    BY <1>1, <1>5, <2>3, SeqEqual
<1>7. k = l
  <2> DEFINE Parts == STRING \cup {"key"}
  <2>1. s \o <<"key">> \in Seq(Parts) /\ k \in Seq(Parts) /\ l \in Seq(Parts)
    BY <1>1
  <2>2. (s \o <<"key">>) \o k = (s \o <<"key">>) \o l
    BY <1>3, <1>6
  <2> HIDE <1>3, <1>6 DEF Parts
  <2> QED
    BY <2>1, <2>2, ConcatSimplifications
<1> QED
  BY <1>6, <1>7

\* The inductive invariant holds initially.
LEMMA InitInv == Init => IInv
<1> SUFFICES ASSUME Init PROVE IInv
  OBVIOUS
<1> USE DEF Init, NoReply
<1>1. TypeOK
  <2>1. NoReply \in Reply BY DEF Reply
  <2>2. 0 \in 0 .. MaxFaults /\ 0 \in 0 .. MaxCrashes BY RouterAssumption
  <2> QED BY <2>1, <2>2 DEF TypeOK
<1>2. StagesAreTrue /\ CacheHasOriginal /\ HitHasOriginal
  BY DEF StagesAreTrue, CacheHasOriginal, HitHasOriginal
<1>3. OneByOne BY DEF OneByOne, InProgress, Awaits
<1>4. AcceptedIsEnqueued /\ DuplicateHasOriginal /\ EnqueuedOnce
  BY DEF AcceptedIsEnqueued, DuplicateHasOriginal, EnqueuedOnce
<1> QED BY <1>1, <1>2, <1>3, <1>4 DEF IInv

\* A fault keeps the counter within its bound and ends the fault-free time.
LEMMA FaultType ==
  ASSUME TypeOK, Fault
  PROVE  faults' \in 0 .. MaxFaults /\ faults' # 0
BY RouterAssumption DEF TypeOK, Fault

\* Every step of a request keeps the types.
LEMMA HandleType ==
  ASSUME TypeOK, NEW r \in Requests, Handle(r) \/ Receive(r)
  PROVE  TypeOK'
<1> DEFINE Moves == \/ \E next \in Awaits : Goto(r, next)
                    \/ \E status \in {"DUPLICATE", "ACCEPTED", "ERROR"},
                          id \in {r, NoId} : Respond(r, status, id)
<1> DEFINE Effects == /\ cache' \subseteq cache \cup {buildIngressCacheKey(r)}
                      /\ topic' \subseteq topic \cup {r}
                      /\ overlapped' \in BOOLEAN
                      /\ faults' = faults \/ Fault
                      /\ crashes' = crashes
<1>1. Moves /\ Effects
  <2> USE DEF TypeOK, Awaits, NoFault
  <2>1. CASE Receive(r) BY <2>1 DEF Receive
  <2>2. CASE Exists(r) BY <2>2 DEF Exists
  <2>3. CASE SetNX(r) BY <2>3 DEF SetNX
  <2>4. CASE GetCached(r) BY <2>4 DEF GetCached
  <2>5. CASE LogDuplicate(r) BY <2>5 DEF LogDuplicate
  <2>6. CASE Publish(r) BY <2>6 DEF Publish
  <2>7. CASE LogAccepted(r) BY <2>7 DEF LogAccepted
  <2>8. CASE PublishError(r) BY <2>8 DEF PublishError
  <2> QED BY <2>1, <2>2, <2>3, <2>4, <2>5, <2>6, <2>7, <2>8 DEF Handle
<1>2. stage' \in [Requests -> {"new", "done"} \cup Awaits]
  BY <1>1 DEF TypeOK, Goto, Respond
<1>3. reply' \in [Requests -> Reply]
  BY <1>1 DEF TypeOK, Goto, Respond, Reply
<1>4. cache' \subseteq CacheKeys BY <1>1 DEF TypeOK, CacheKeys
<1> QED BY <1>1, <1>2, <1>3, <1>4, FaultType DEF TypeOK

\* Once let through, a request stays so, whatever step is taken.
LEMMA LetThroughStays ==
  ASSUME TypeOK, StagesAreTrue, Next, NEW q \in Requests, LetThrough(q)
  PROVE  LetThrough(q)'
<1> USE DEF LetThrough, TypeOK
<1>1. CASE Crash BY <1>1 DEF Crash, InProgress, Awaits, StagesAreTrue
<1>2. ASSUME NEW r \in Requests, Receive(r) \/ Handle(r), r # q
      PROVE  LetThrough(q)'
  BY <1>2 DEF Receive, Handle, Exists, SetNX, GetCached, LogDuplicate,
              Publish, LogAccepted, PublishError, Goto, Respond
<1>3. CASE Receive(q) BY <1>3 DEF Receive, Goto, StagesAreTrue, NoReply
<1>4. CASE Handle(q)
  <2>1. topic \subseteq topic'
    BY <1>4 DEF Handle, Exists, SetNX, GetCached, LogDuplicate, Publish,
                LogAccepted, PublishError
  <2>2. CASE Publish(q) BY <2>1, <2>2 DEF Publish, Goto
  <2>3. CASE PublishError(q) BY <2>3 DEF PublishError, Respond
  <2>4. CASE stage[q] \notin {"publish", "publishError"}
    <3>1. stage[q] # "done" /\ reply[q] = NoReply
      BY <1>4 DEF StagesAreTrue, Handle, Exists, SetNX, GetCached,
                  LogDuplicate, Publish, LogAccepted, PublishError
    <3>2. q \in topic BY <3>1, <2>4 DEF NoReply
    <3> QED BY <2>1, <3>2
  <2> QED BY <1>4, <2>2, <2>3, <2>4
       DEF Handle, Exists, SetNX, GetCached, LogDuplicate, LogAccepted
<1> QED BY <1>1, <1>2, <1>3, <1>4 DEF Next

\* A request that is turned away has an original that is let through.
LEMMA HitInv ==
  ASSUME TypeOK, Always, NEW r \in Requests, Exists(r), stage'[r] = "getCached"
  PROVE  \E q \in Requests \ {r} : Original(q, r)
<1>1. buildIngressCacheKey(r) \in cache
  BY RouterAssumption DEF Exists, Goto, TypeOK
<1>2. PICK q \in Requests : /\ buildIngressCacheKey(q) = buildIngressCacheKey(r)
                            /\ LetThrough(q)
  BY <1>1 DEF Always, CacheHasOriginal
<1>3. ~LetThrough(r)
  BY DEF Always, StagesAreTrue, Exists, LetThrough, NoReply
<1> QED BY <1>2, <1>3, PlainApart DEF Original

\* Every step of a request preserves what is always true.
LEMMA HandleAlways ==
  ASSUME TypeOK, Always, NEW r \in Requests, Receive(r) \/ Handle(r)
  PROVE  Always'
<1> USE DEF Always
<1>1. Next BY DEF Next
<1>2. \A q \in Requests : LetThrough(q) => LetThrough(q)'
  BY <1>1, LetThroughStays
<1>2a. \A p, q \in Requests : Original(p, q) => Original(p, q)'
  BY <1>2 DEF Original, Plain, SameKey
<1>3. /\ stage \in [Requests -> {"new", "done"} \cup Awaits]
      /\ reply \in [Requests -> Reply]
      /\ \A q \in Requests \ {r} : /\ stage'[q] = stage[q]
                                   /\ reply'[q] = reply[q]
                                   /\ q \in topic' <=> q \in topic
  BY DEF TypeOK, Receive, Handle, Exists, SetNX, GetCached, LogDuplicate,
         Publish, LogAccepted, PublishError, Goto, Respond
<1>4. topic \subseteq topic'
  BY DEF Receive, Handle, Exists, SetNX, GetCached, LogDuplicate, Publish,
         LogAccepted, PublishError
<1>5. StagesAreTrue'
  <2> SUFFICES
        /\ stage'[r] = "logAccepted" => r \in topic'
        /\ stage'[r] \in {"new", "exists", "setNX", "getCached",
                          "logDuplicate"} => r \notin topic'
        /\ stage'[r] # "done" => reply'[r] = NoReply
        /\ stage'[r] \in {"exists", "setNX", "publish"} => ValidateRequest(r)
    BY <1>3 DEF StagesAreTrue, ValidateRequest
  <2>1. CASE Receive(r)
    BY <1>3, <2>1 DEF StagesAreTrue, Receive, Goto
  <2>2. CASE Handle(r)
    BY <1>3, <2>2 DEF StagesAreTrue, Handle, Exists, SetNX, GetCached,
                LogDuplicate, Publish, LogAccepted, PublishError, Goto, Respond
  <2> QED
    BY <2>1, <2>2
<1>6. CacheHasOriginal'
  <2>1. CASE SetNX(r)
    <3>1. LetThrough(r)'
      BY <1>3, <2>1
      DEF SetNX, Goto, LetThrough, StagesAreTrue, ValidateRequest
    <3>2. cache' \subseteq cache \cup {buildIngressCacheKey(r)}
      BY <2>1 DEF SetNX
    <3> QED BY <1>2, <3>1, <3>2 DEF CacheHasOriginal, buildIngressCacheKey
  <2>2. CASE ~SetNX(r)
    <3>1. cache' = cache
      BY <2>2 DEF Receive, Handle, Exists, GetCached, LogDuplicate, Publish,
                  LogAccepted, PublishError
    <3> QED BY <1>2, <3>1 DEF CacheHasOriginal, buildIngressCacheKey
  <2> QED BY <2>1, <2>2
<1>7. HitHasOriginal'
  <2>1. stage'[r] \in {"getCached", "logDuplicate"} =>
          \E q \in Requests \ {r} : Original(q, r)
    <3>1. CASE Exists(r)
      BY <1>3, <3>1, HitInv DEF Exists, Goto
    <3>2. CASE GetCached(r)
      BY <1>3, <3>2 DEF HitHasOriginal, GetCached, Goto
    <3>3. CASE ~Exists(r) /\ ~GetCached(r)
      BY <1>3, <3>3 DEF Receive, Handle, SetNX, LogDuplicate, Publish,
                        LogAccepted, PublishError, Goto, Respond
    <3> QED BY <3>1, <3>2, <3>3
  <2> QED BY <1>2a, <1>3, <2>1 DEF HitHasOriginal
<1>8. AcceptedIsEnqueued'
  <2>1. reply'[r].status = "ACCEPTED" => r \in topic'
    BY <1>3, <1>4 DEF AcceptedIsEnqueued, StagesAreTrue, Receive, Handle,
                Exists, SetNX, GetCached, LogDuplicate, Publish, LogAccepted,
                PublishError, Goto, Respond
  <2> QED BY <1>3, <2>1 DEF AcceptedIsEnqueued
<1>9. DuplicateHasOriginal'
  <2>1. reply'[r].status = "DUPLICATE" =>
          \E q \in Requests \ {r} : Original(q, r)
    <3>1. CASE LogDuplicate(r)
      BY <3>1 DEF LogDuplicate, HitHasOriginal
    <3>2. CASE ~LogDuplicate(r)
      <4>1. reply'[r] = reply[r] \/ reply'[r].status \in {"ACCEPTED", "ERROR"}
        BY <1>3, <3>2 DEF Receive, Handle, Exists, SetNX, GetCached, Publish,
                          LogAccepted, PublishError, Goto, Respond
      <4> QED BY <4>1 DEF DuplicateHasOriginal
    <3> QED BY <3>1, <3>2
  <2> QED BY <1>2a, <1>3, <2>1 DEF DuplicateHasOriginal
<1> QED BY <1>5, <1>6, <1>7, <1>8, <1>9

\* A crash of the router preserves the inductive invariant.
LEMMA CrashInv ==
  ASSUME IInv, Crash
  PROVE  IInv'
<1>0. TypeOK /\ Always /\ Sequential BY Halves
<1>1. TypeOK' BY <1>0, RouterAssumption DEF TypeOK, Crash, InProgress
<1>2. \A q \in Requests : LetThrough(q) => LetThrough(q)'
  BY <1>0, LetThroughStays DEF Always, Next
<1>3. \A q \in Requests : /\ reply'[q] = reply[q]
                          /\ stage'[q] = stage[q] \/ stage'[q] = "done"
                          /\ ~InProgress(q)'
  BY DEF Crash, InProgress, Awaits
<1>4. StagesAreTrue' BY <1>0, <1>3 DEF Always, StagesAreTrue, Crash
<1>2a. \A p, q \in Requests : Original(p, q) => Original(p, q)'
  BY <1>2 DEF Original, Plain, SameKey
<1>5. (CacheHasOriginal /\ HitHasOriginal)'
  BY <1>0, <1>2, <1>2a, <1>3 DEF Always, CacheHasOriginal, HitHasOriginal,
                                 buildIngressCacheKey, Crash
<1>6. (AcceptedIsEnqueued /\ DuplicateHasOriginal)'
  BY <1>0, <1>2a, <1>3
  DEF Always, AcceptedIsEnqueued, DuplicateHasOriginal, Crash
<1>7. OneByOne'
  BY <1>0, <1>3 DEF Sequential, OneByOne, Crash, buildIngressCacheKey, SameKey
<1>8. EnqueuedOnce'
  BY <1>0 DEF Sequential, EnqueuedOnce, Crash, SameKey
<1> QED BY <1>1, <1>4, <1>5, <1>6, <1>7, <1>8 DEF IInv

\* Requests that follow one another while no call fails stay one by one,
\* and are enqueued once per key.
LEMMA HandleSequential ==
  ASSUME TypeOK, Always, Sequential, NEW r \in Requests,
         Receive(r) \/ Handle(r)
  PROVE  Sequential'
<1> SUFFICES ASSUME ~overlapped', faults' = 0
             PROVE  Sequential'
  BY DEF Sequential, OneByOne, EnqueuedOnce
<1>1. ~overlapped /\ faults = 0
  BY FaultType DEF TypeOK, Receive, Handle, Exists, SetNX, GetCached,
     LogDuplicate, Publish, LogAccepted, PublishError, NoFault
<1>2. /\ \A p, q \in Requests : InProgress(p) /\ InProgress(q) => p = q
      /\ \A q \in topic : buildIngressCacheKey(q) \in cache
      /\ stage[r] = "setNX" => buildIngressCacheKey(r) \notin cache
      /\ stage[r] = "publish" => /\ buildIngressCacheKey(r) \in cache
                                /\ \A q \in topic : ~SameKey(q, r)
      /\ \A p, q \in topic : SameKey(p, q) => p = q
  BY <1>1 DEF Sequential, OneByOne, EnqueuedOnce
<1>3. \A q \in Requests \ {r} : ~InProgress(q)
  BY <1>2 DEF Receive, Handle, Exists, SetNX, GetCached, LogDuplicate,
              Publish, LogAccepted, PublishError, InProgress, Awaits
<1>4. /\ stage \in [Requests -> {"new", "done"} \cup Awaits]
      /\ topic \subseteq Requests
      /\ \A q \in Requests \ {r} : stage'[q] = stage[q]
  BY DEF TypeOK, Receive, Handle, Exists, SetNX, GetCached, LogDuplicate,
         Publish, LogAccepted, PublishError, Goto, Respond
<1>5. \A q \in Requests \ {r} : ~InProgress(q)'
  BY <1>3, <1>4 DEF InProgress
<1>6. cache \subseteq cache'
  BY DEF Receive, Handle, Exists, SetNX, GetCached, LogDuplicate, Publish,
         LogAccepted, PublishError
<1>7. \A q \in topic' : buildIngressCacheKey(q) \in cache'
  <2>1. CASE Publish(r)
    BY <1>2, <1>6, <2>1 DEF Publish
  <2>2. CASE ~Publish(r)
    <3>1. topic' = topic
      BY <2>2 DEF Receive, Handle, Exists, SetNX, GetCached, LogDuplicate,
                  LogAccepted, PublishError
    <3> QED BY <1>2, <1>6, <3>1
  <2> QED BY <2>1, <2>2
<1>8. stage'[r] = "setNX" => buildIngressCacheKey(r) \notin cache'
  BY <1>1, <1>4 DEF Receive, Handle, Exists, SetNX, GetCached, LogDuplicate,
              Publish, LogAccepted, PublishError, Goto, Respond, Fault
<1>9. stage'[r] = "publish" => /\ buildIngressCacheKey(r) \in cache'
                             /\ \A q \in topic' : ~SameKey(q, r)
  <2> SUFFICES ASSUME stage'[r] = "publish" 
               PROVE  /\ buildIngressCacheKey(r) \in cache'
                      /\ \A q \in topic' : ~SameKey(q, r)
    OBVIOUS
  <2>1. ~Fault BY <1>1 DEF Fault
  <2>2. SetNX(r)
    BY <1>4, <2>1 DEF Receive, Handle, Exists, GetCached, LogDuplicate,
                 Publish, LogAccepted, PublishError, Goto, Respond
  <2>3. buildIngressCacheKey(r) \in cache' /\ topic' = topic
    BY <2>1, <2>2 DEF SetNX
  <2>4. \A q \in topic : buildIngressCacheKey(q) # buildIngressCacheKey(r)
    BY <1>2, <2>2 DEF SetNX
  <2> QED BY <2>3, <2>4, SameKeyIsOne
<1>10. OneByOne'
  <2>1. \A p, q \in Requests : InProgress(p)' /\ InProgress(q)' => p = q
    BY <1>5
  <2>2. \A q \in Requests \ {r} : stage'[q] \notin {"setNX", "publish"}
    BY <1>5 DEF InProgress, Awaits
  <2> QED BY <1>7, <1>8, <1>9, <2>1, <2>2
       DEF OneByOne, buildIngressCacheKey, SameKey
<1>11. EnqueuedOnce'
  <2>1. CASE Publish(r)
    <3>1. topic' \subseteq topic \cup {r} /\ stage[r] = "publish"
      BY <2>1 DEF Publish
    <3> QED BY <1>2, <3>1 DEF EnqueuedOnce, SameKey
  <2>2. CASE ~Publish(r)
    <3>1. topic' = topic
      BY <2>2 DEF Receive, Handle, Exists, SetNX, GetCached, LogDuplicate,
                  LogAccepted, PublishError
    <3> QED BY <1>2, <3>1 DEF EnqueuedOnce, SameKey
  <2> QED BY <2>1, <2>2
<1> QED BY <1>10, <1>11 DEF Sequential

-----------------------------------------------------------------------------
\* Every step preserves the inductive invariant.
LEMMA NextInv == IInv /\ [Next]_vars => IInv'
<1> SUFFICES ASSUME IInv, [Next]_vars PROVE IInv'
  OBVIOUS
<1>0. TypeOK /\ Always /\ Sequential BY Halves
<1>1. ASSUME NEW r \in Requests, Receive(r) \/ Handle(r) PROVE IInv'
  <2>1. TypeOK' BY <1>0, <1>1, HandleType
  <2>2. Always' BY <1>0, <1>1, HandleAlways
  <2>3. Sequential' BY <1>0, <1>1, HandleSequential
  <2> QED BY <2>1, <2>2, <2>3 DEF IInv, Always, Sequential
<1>2. CASE Crash BY <1>2, CrashInv
<1>3. CASE UNCHANGED vars
  <2>1. (TypeOK /\ OneByOne /\ EnqueuedOnce)'
    BY <1>3
    DEF vars, IInv, TypeOK, OneByOne, EnqueuedOnce, InProgress, CacheKeys,
        buildIngressCacheKey, SameKey
  <2>2. \A q \in Requests : LetThrough(q) => LetThrough(q)'
    BY <1>3 DEF vars, LetThrough
  <2>3. \A q, r \in Requests : Original(q, r) => Original(q, r)'
    BY <2>2 DEF Original, Plain, SameKey
  <2>4. (StagesAreTrue /\ CacheHasOriginal /\ AcceptedIsEnqueued)'
    BY <1>3, <2>2
    DEF vars, IInv, StagesAreTrue, CacheHasOriginal, AcceptedIsEnqueued,
        buildIngressCacheKey
  <2>5. (HitHasOriginal /\ DuplicateHasOriginal)'
    BY <1>3, <2>3 DEF vars, IInv, HitHasOriginal, DuplicateHasOriginal
  <2> QED BY <2>1, <2>4, <2>5 DEF IInv
<1> QED BY <1>1, <1>2, <1>3 DEF Next

\* The strengthened invariant holds in every reachable state.
THEOREM Inductive == Spec => []IInv
BY InitInv, NextInv, PTL DEF Spec

\* Types of requests, responses, cache and topic.
THEOREM TypeCorrect == Spec => []TypeOK
BY Inductive, PTL DEF IInv

\* No response says ACCEPTED of a message that is not in the topic.
THEOREM AcceptedIsEnqueuedHolds == Spec => []AcceptedIsEnqueued
BY Inductive, PTL DEF IInv

\* However requests interleave and whatever fails, a duplicate has an
\* original that was let through: one of its own tenant with its own key,
\* unless one of the two tenants has "key" between its colons.
THEOREM DuplicateHasOriginalHolds == Spec => []DuplicateHasOriginal
BY Inductive, PTL DEF IInv

\* Requests that neither overlap nor meet a failed call are enqueued once
\* per tenant and key, whatever crashes.
THEOREM EnqueuedOnceHolds == Spec => []EnqueuedOnce
BY Inductive, PTL DEF IInv

=============================================================================
