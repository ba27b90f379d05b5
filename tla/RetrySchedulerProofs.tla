------------------------- MODULE RetrySchedulerProofs -------------------------
(***************************************************************************)
(* RetryScheduler!IInv is inductive: for every set of retries and pollers, *)
(* every table of delays and every bound, no retry is published early, it  *)
(* is published once until polls overlap, and none is removed unread while *)
(* zAdd is faster than the shortest delay; and until then the two calls of *)
(* a poll are as good as one (RetryQueue).                                 *)
(***************************************************************************)
EXTENDS RetryScheduler, TLAPS

USE DEF limitVars

\* The inductive invariant holds initially.
LEMMA InitInv == Init => IInv
<1> SUFFICES ASSUME Init PROVE IInv
  OBVIOUS
<1> USE DEF Init, Idle
<1>1. TypeOK BY SchedulerAssumption DEF TypeOK
<1>2. UnissuedIsUnknown /\ HeldIsDue BY DEF UnissuedIsUnknown, HeldIsDue, Held
<1>3. OnePlace BY DEF OnePlace, Held
<1>4. AddedInTime /\ ReadIsComplete BY DEF AddedInTime, ReadIsComplete, Due
<1>5. PublishedOnce /\ NothingRemovedUnread
  BY DEF PublishedOnce, NothingRemovedUnread, Held
<1> QED BY <1>1, <1>2, <1>3, <1>4, <1>5 DEF IInv

\* The passing of time preserves the inductive invariant.
LEMMA TickInv ==
  ASSUME IInv, Tick
  PROVE  IInv'
<1> USE SchedulerAssumption DEF IInv, Tick
<1>1. TypeOK' BY DEF TypeOK
<1>2. UnissuedIsUnknown' BY DEF UnissuedIsUnknown, Held
<1>3. HeldIsDue' BY DEF HeldIsDue, TypeOK
<1>4. OnePlace' BY DEF OnePlace, Held
<1>5. AddedInTime' BY DEF AddedInTime, TypeOK
<1>6. ReadIsComplete' BY DEF ReadIsComplete, Due
<1>7. (PublishedOnce /\ NothingRemovedUnread)'
  BY DEF PublishedOnce, NothingRemovedUnread, Held
<1> QED BY <1>1, <1>2, <1>3, <1>4, <1>5, <1>6, <1>7 DEF IInv

\* Drawing a due time preserves the inductive invariant.
LEMMA ScoreInv ==
  ASSUME IInv, NEW r \in Retries, Score(r)
  PROVE  IInv'
<1>0. now \in Nat /\ Delay[r] \in Nat /\ MaxLatency \in Nat
  <2>1. now \in Nat BY SchedulerAssumption DEF IInv, TypeOK
  <2> QED BY <2>1, SchedulerAssumption
<1> USE DEF IInv, Score
<1>1. TypeOK' BY <1>0 DEF TypeOK
<1>2. UnissuedIsUnknown' BY DEF UnissuedIsUnknown, Held, TypeOK
<1>3. HeldIsDue' BY DEF HeldIsDue, UnissuedIsUnknown, Held, TypeOK
<1>4. OnePlace' BY DEF OnePlace, Held
<1>5. AddedInTime'
  <2>1. /\ nextRetryAt'[r] = now + Delay[r]
        /\ \A q \in Retries \ {r} : /\ nextRetryAt'[q] = nextRetryAt[q]
                                    /\ schedule'[q] = schedule[q]
    BY DEF TypeOK
  <2> QED BY <1>0, <2>1 DEF AddedInTime
<1>6. ReadIsComplete'
  BY DEF ReadIsComplete, Due, UnissuedIsUnknown, TypeOK
<1>7. (PublishedOnce /\ NothingRemovedUnread)'
  BY DEF PublishedOnce, NothingRemovedUnread, Held, TypeOK
<1> QED BY <1>1, <1>2, <1>3, <1>4, <1>5, <1>6, <1>7 DEF IInv

\* zAdd preserves the inductive invariant.
LEMMA AddInv ==
  ASSUME IInv, NEW r \in Retries, Add(r)
  PROVE  IInv'
<1> USE SchedulerAssumption DEF IInv, Add, Fault
<1>1. TypeOK' BY DEF TypeOK
<1>2. UnissuedIsUnknown' BY DEF UnissuedIsUnknown, Held, TypeOK
<1>3. HeldIsDue' BY DEF HeldIsDue
<1>4. OnePlace'
  <2>1. \A p \in Pollers : r \notin poll[p].items
    BY DEF UnissuedIsUnknown, Held
  <2>2. published[r] = 0 BY DEF UnissuedIsUnknown
  <2> QED BY <2>1, <2>2 DEF OnePlace, Held
<1>5. AddedInTime' BY DEF AddedInTime, TypeOK
<1>6. ReadIsComplete'
  <2> SUFFICES ASSUME \A q \in Retries : MaxLatency < Delay[q],
                      NEW p \in Pollers, poll[p].stage = "read"
               PROVE  Due(poll[p].cutoff)' \subseteq poll[p].items
    BY DEF ReadIsComplete
  <2>1. poll[p].cutoff < nextRetryAt[r]
    BY DEF AddedInTime, HeldIsDue, TypeOK
  <2> QED BY <2>1 DEF ReadIsComplete, Due, TypeOK
<1>7. PublishedOnce' BY DEF PublishedOnce
<1>8. NothingRemovedUnread'
  BY DEF NothingRemovedUnread, Held, TypeOK
<1> QED BY <1>1, <1>2, <1>3, <1>4, <1>5, <1>6, <1>7, <1>8 DEF IInv

\* The read of a poll preserves the inductive invariant.
LEMMA ReadInv ==
  ASSUME IInv, NEW p \in Pollers, ZRangeByScore(p)
  PROVE  IInv'
<1> USE SchedulerAssumption DEF IInv, ZRangeByScore, Starts
<1>1. TypeOK' BY DEF TypeOK, Due
<1>2. poll'[p] = [stage |-> "read", cutoff |-> now, items |-> Due(now)]
      /\ \A q \in Pollers \ {p} : poll'[q] = poll[q]
  BY DEF TypeOK
<1>3. UnissuedIsUnknown' BY <1>2 DEF UnissuedIsUnknown, Held, Due
<1>4. HeldIsDue' BY <1>2 DEF HeldIsDue, Due, TypeOK
<1>5. OnePlace'
  <2> SUFFICES ASSUME overlaps' = 0 PROVE OnePlace'
    BY DEF OnePlace
  <2>1. overlaps = 0 /\ \A q \in Pollers : poll[q].stage = "idle"
    BY DEF TypeOK
  <2>2. \A q \in Pollers \ {p} : poll'[q].stage = "idle" /\ poll'[q].items = {}
    BY <1>2, <2>1 DEF HeldIsDue
  <2> QED BY <1>2, <2>1, <2>2 DEF OnePlace, Held, Due
<1>6. AddedInTime' BY DEF AddedInTime
<1>7. ReadIsComplete' BY <1>2 DEF ReadIsComplete, Due
<1>8. PublishedOnce' BY DEF PublishedOnce, TypeOK
<1>9. NothingRemovedUnread'
  <2>1. ASSUME NEW r \in Retries, Held(r) PROVE Held(r)'
    BY <1>2, <2>1 DEF Held, HeldIsDue
  <2> QED BY <2>1 DEF NothingRemovedUnread
<1> QED BY <1>1, <1>3, <1>4, <1>5, <1>6, <1>7, <1>8, <1>9 DEF IInv

\* The removal preserves the inductive invariant.
LEMMA RemoveInv ==
  ASSUME IInv, NEW p \in Pollers, ZRemRangeByScore(p)
  PROVE  IInv'
<1> USE SchedulerAssumption DEF IInv, ZRemRangeByScore, Fault
<1>1. TypeOK' BY DEF TypeOK, Due, Idle
<1>2. /\ zset' \subseteq zset
      /\ \A q \in Pollers \ {p} : poll'[q] = poll[q]
      /\ \/ /\ poll'[p] = [poll[p] EXCEPT !.stage = "publish"]
            /\ zset' = zset \ Due(poll[p].cutoff)
            /\ UNCHANGED faults
         \/ poll'[p] = Idle /\ Fault
  BY DEF TypeOK
<1>3. UnissuedIsUnknown'
  <2>1. poll'[p].items \subseteq poll[p].items
    BY <1>2 DEF Idle, TypeOK
  <2> QED BY <1>2, <2>1 DEF UnissuedIsUnknown, Held
<1>4. HeldIsDue' BY <1>2 DEF HeldIsDue, TypeOK, Idle
<1>5. OnePlace'
  <2> SUFFICES ASSUME overlaps = 0 PROVE OnePlace'
    BY DEF OnePlace
  <2>1. \A q, s \in Pollers :
          poll'[q].stage # "idle" /\ poll'[s].stage # "idle" => q = s
    BY <1>2 DEF OnePlace, Idle, TypeOK
  <2>2. \A r \in Retries : r \in zset' \/ Held(r)' => published[r] = 0
    BY <1>2 DEF OnePlace, Held, Idle, TypeOK
  <2>3. \A q \in Pollers :
          poll'[q].stage = "publish" => poll'[q].items \cap zset' = {}
    BY <1>2 DEF OnePlace, Idle, HeldIsDue, Due, TypeOK
  <2>4. \A q \in Pollers :
          poll'[q].stage = "read" => poll'[q].items \subseteq zset'
    <3>1. \A q \in Pollers \ {p} : poll[q].stage = "idle"
      BY DEF OnePlace
    <3>2. poll'[p].stage # "read"
      BY <1>2 DEF Idle, TypeOK
    <3> QED BY <1>2, <3>1, <3>2
  <2> QED BY <2>1, <2>2, <2>3, <2>4 DEF OnePlace
<1>6. AddedInTime' BY DEF AddedInTime
<1>7. ReadIsComplete' BY <1>2 DEF ReadIsComplete, Due, Idle, TypeOK
<1>8. PublishedOnce' BY DEF PublishedOnce
<1>9. NothingRemovedUnread'
  <2> SUFFICES ASSUME faults' = 0, crashes = 0,
                      \A q \in Retries : MaxLatency < Delay[q],
                      NEW r \in Retries, schedule[r] = "added"
               PROVE  r \in zset' \/ Held(r)' \/ published[r] > 0
    BY DEF NothingRemovedUnread
  <2>1. /\ poll'[p].items = poll[p].items
        /\ zset' = zset \ Due(poll[p].cutoff)
        /\ faults = 0
    BY <1>2 DEF TypeOK
  <2>2. r \in zset \/ Held(r) \/ published[r] > 0
    BY <2>1 DEF NothingRemovedUnread
  <2>3. Held(r) => Held(r)' BY <1>2, <2>1 DEF Held
  <2>4. r \in Due(poll[p].cutoff) => Held(r)'
    BY <2>1 DEF ReadIsComplete, Held
  <2> QED BY <2>1, <2>2, <2>3, <2>4
<1> QED BY <1>1, <1>3, <1>4, <1>5, <1>6, <1>7, <1>8, <1>9 DEF IInv

\* The publication of a retry preserves the inductive invariant.
LEMMA PublishInv ==
  ASSUME IInv, NEW p \in Pollers, NEW r \in poll[p].items,
         PublishRetryMessage(p, r)
  PROVE  IInv'
<1>0. r \in Retries BY DEF IInv, TypeOK
<1> USE SchedulerAssumption DEF IInv, PublishRetryMessage, Fault
<1>1. TypeOK' BY <1>0 DEF TypeOK, Idle
<1>2. /\ \A q \in Pollers \ {p} : poll'[q] = poll[q]
      /\ \/ poll'[p] = Idle
         \/ /\ poll'[p] = [poll[p] EXCEPT !.items = @ \ {r}]
            /\ poll[p].items \ {r} # {}
  BY DEF TypeOK
<1>3. /\ poll'[p].items \subseteq poll[p].items \ {r}
      /\ poll'[p].cutoff \in {0, poll[p].cutoff}
      /\ poll'[p].stage \in {"idle", "publish"}
      /\ poll'[p].stage = "idle" <=> poll'[p].items = {}
  BY <1>2 DEF Idle, TypeOK
<1>4. /\ \A q \in Retries \ {r} : published'[q] = published[q]
      /\ published'[r] \in {published[r], published[r] + 1}
  BY <1>0 DEF TypeOK
<1>5. UnissuedIsUnknown'
  <2>1. schedule[r] \notin {"none", "scored"}
    BY <1>0 DEF UnissuedIsUnknown, Held
  <2> QED BY <1>2, <1>3, <1>4, <2>1 DEF UnissuedIsUnknown, Held
<1>6. HeldIsDue'
  <2>1. poll'[p].items # {} => poll'[p].cutoff = poll[p].cutoff
    BY <1>2 DEF Idle, TypeOK
  <2>2. now \in Nat /\ now' = now /\ UNCHANGED nextRetryAt BY DEF TypeOK
  <2>3. poll'[p].cutoff <= now BY <1>3, <2>2 DEF HeldIsDue
  <2>4. \A q \in poll'[p].items : nextRetryAt[q] <= poll'[p].cutoff
    BY <1>3, <2>1 DEF HeldIsDue
  <2> QED BY <1>2, <1>3, <2>2, <2>3, <2>4 DEF HeldIsDue
<1>7. OnePlace'
  <2> SUFFICES ASSUME overlaps = 0 PROVE OnePlace'
    BY DEF OnePlace
  <2>1. r \notin zset /\ \A q \in Pollers \ {p} : poll'[q].items = {}
    BY <1>2 DEF OnePlace, HeldIsDue, TypeOK
  <2>2. \A q \in Retries : q \in zset' \/ Held(q)' => published'[q] = 0
    BY <1>2, <1>3, <1>4, <2>1 DEF OnePlace, Held
  <2>3. \A q, s \in Pollers :
          poll'[q].stage # "idle" /\ poll'[s].stage # "idle" => q = s
    BY <1>2 DEF OnePlace, Idle, TypeOK
  <2>4. \A q \in Pollers :
          poll'[q].stage = "publish" => poll'[q].items \cap zset = {}
    BY <1>2, <1>3, <2>1 DEF OnePlace
  <2>5. \A q \in Pollers : poll'[q].stage # "read"
    <3>1. \A q \in Pollers \ {p} : poll[q].stage = "idle"
      BY DEF OnePlace
    <3> QED BY <1>2, <1>3, <3>1
  <2> QED BY <2>2, <2>3, <2>4, <2>5 DEF OnePlace
<1>8. AddedInTime' BY DEF AddedInTime
<1>9. ReadIsComplete' BY <1>2, <1>3 DEF ReadIsComplete, Due
<1>10. PublishedOnce'
  <2>1. overlaps = 0 => published[r] = 0 BY <1>0 DEF OnePlace, Held
  <2> QED BY <1>4, <2>1 DEF PublishedOnce, TypeOK
<1>11. NothingRemovedUnread'
  <2> SUFFICES ASSUME faults' = 0, crashes = 0,
                      \A q \in Retries : MaxLatency < Delay[q],
                      NEW q \in Retries, schedule[q] = "added"
               PROVE  q \in zset \/ Held(q)' \/ published'[q] > 0
    BY DEF NothingRemovedUnread
  <2>1. /\ faults = 0 /\ published'[r] = published[r] + 1
        /\ poll'[p].items = poll[p].items \ {r}
    BY <1>0 DEF TypeOK, Idle
  <2>2. q \in zset \/ Held(q) \/ published[q] > 0
    BY <2>1 DEF NothingRemovedUnread
  <2>3. q # r /\ Held(q) => Held(q)' BY <1>2, <2>1 DEF Held
  <2> QED BY <1>0, <1>4, <2>1, <2>2, <2>3 DEF TypeOK
<1> QED BY <1>1, <1>5, <1>6, <1>7, <1>8, <1>9, <1>10, <1>11 DEF IInv

\* The death of a poller preserves the inductive invariant.
LEMMA CrashInv ==
  ASSUME IInv, NEW p \in Pollers, Crash(p)
  PROVE  IInv'
<1> USE SchedulerAssumption DEF IInv, Crash
<1>1. TypeOK' BY DEF TypeOK, Idle
<1>2. poll'[p] = Idle /\ \A q \in Pollers \ {p} : poll'[q] = poll[q]
  BY DEF TypeOK
<1>3. UnissuedIsUnknown' BY <1>2 DEF UnissuedIsUnknown, Held, Idle
<1>4. HeldIsDue' BY <1>2 DEF HeldIsDue, Idle, TypeOK
<1>5. OnePlace' BY <1>2 DEF OnePlace, Held, Idle
<1>6. AddedInTime' BY DEF AddedInTime
<1>7. ReadIsComplete' BY <1>2 DEF ReadIsComplete, Due, Idle
<1>8. PublishedOnce' BY DEF PublishedOnce
<1>9. NothingRemovedUnread' BY DEF NothingRemovedUnread, TypeOK
<1> QED BY <1>1, <1>3, <1>4, <1>5, <1>6, <1>7, <1>8, <1>9 DEF IInv

-----------------------------------------------------------------------------
\* Every step preserves the inductive invariant.
LEMMA NextInv == IInv /\ [Next]_vars => IInv'
<1> SUFFICES ASSUME IInv, [Next]_vars PROVE IInv'
  OBVIOUS
<1>1. CASE Tick BY <1>1, TickInv
<1>2. ASSUME NEW r \in Retries, ScheduleRetry(r) PROVE IInv'
  BY <1>2, ScoreInv, AddInv DEF ScheduleRetry
<1>3. ASSUME NEW p \in Pollers, PollStep(p) PROVE IInv'
  BY <1>3, ReadInv, RemoveInv, PublishInv DEF PollStep
<1>4. ASSUME NEW p \in Pollers, Crash(p) PROVE IInv'
  BY <1>4, CrashInv
<1>5. CASE UNCHANGED vars
  BY <1>5
  DEF vars, IInv, TypeOK, UnissuedIsUnknown, Held, HeldIsDue, OnePlace,
      AddedInTime, ReadIsComplete, Due, PublishedOnce, NothingRemovedUnread
<1> QED BY <1>1, <1>2, <1>3, <1>4, <1>5 DEF Next

\* The strengthened invariant holds in every reachable state.
THEOREM Inductive == Spec => []IInv
BY InitInv, NextInv, PTL DEF Spec

\* Types of the ZSET, the pollers and the counters.
THEOREM TypeCorrect == Spec => []TypeOK
BY Inductive, PTL DEF IInv

\* Until two polls overlap no retry is published twice, whatever fails.
THEOREM PublishedOnceHolds == Spec => []PublishedOnce
BY Inductive, PTL DEF IInv

\* However polls overlap, removal by score removes nothing unread while
\* every zAdd takes less time than the shortest delay and no call fails.
THEOREM NothingRemovedUnreadHolds == Spec => []NothingRemovedUnread
BY Inductive, PTL DEF IInv

\* No poll publishes a retry before its backoff delay is over.
THEOREM NeverEarlyHolds == Spec => NeverEarly
<1> DEFINE OnTime == \A r \in Retries :
                       published'[r] > published[r] => now >= nextRetryAt[r]
<1>1. ASSUME IInv, [Next]_vars PROVE OnTime
  <2> SUFFICES ASSUME NEW r \in Retries, published'[r] > published[r]
               PROVE  now >= nextRetryAt[r]
    OBVIOUS
  <2>1. published \in [Retries -> Nat] BY <1>1 DEF IInv, TypeOK
  <2>2. PICK p \in Pollers :
         \E t \in poll[p].items : PublishRetryMessage(p, t)
    <3>1. published' # published BY <2>1
    <3>2. ~Tick /\ ~UNCHANGED vars BY <3>1 DEF Tick, vars
    <3>3. \A q \in Retries : ~ScheduleRetry(q)
      BY <3>1 DEF ScheduleRetry, Score, Add
    <3>4. \A q \in Pollers : ~ZRangeByScore(q) /\ ~Crash(q)
      BY <3>1 DEF ZRangeByScore, Crash
    <3>5. \A q \in Pollers : ~ZRemRangeByScore(q)
      BY <3>1 DEF ZRemRangeByScore
    <3> QED BY <1>1, <3>2, <3>3, <3>4, <3>5 DEF Next, PollStep
  <2>3. PICK t \in poll[p].items : PublishRetryMessage(p, t) BY <2>2
  <2>4. t = r BY <2>1, <2>3 DEF PublishRetryMessage
  <2> QED BY <1>1, <2>4 DEF IInv, HeldIsDue, TypeOK
<1> QED BY <1>1, Inductive, PTL DEF Spec, NeverEarly

-----------------------------------------------------------------------------
(* A poll may be taken for one step. *)

\* What a poller has claimed changes with its stage only.
LEMMA ClaimedChanges ==
  ASSUME TypeOK, NEW p \in Pollers, NEW e, poll' = [poll EXCEPT ![p] = e]
  PROVE  Claimed' = [Claimed EXCEPT ![p] =
                       IF e.stage = "publish" THEN e.items ELSE {}]
<1> DEFINE c == IF e.stage = "publish" THEN e.items ELSE {}
<1>1. \A q \in Pollers : poll'[q] = IF q = p THEN e ELSE poll[q]
  BY DEF TypeOK
<1>2. Claimed' = [q \in Pollers |-> IF q = p THEN c ELSE Claimed[q]]
  <2>1. \A q \in Pollers :
          (IF poll'[q].stage = "publish" THEN poll'[q].items ELSE {})
            = IF q = p THEN c ELSE Claimed[q]
    BY <1>1 DEF Claimed
  <2> HIDE DEF c
  <2> QED
    BY <2>1 DEF Claimed
<1>3. DOMAIN Claimed = Pollers
  BY DEF Claimed
<1>4. [Claimed EXCEPT ![p] = c]
        = [q \in Pollers |-> IF q = p THEN c ELSE Claimed[q]]
  <2> HIDE DEF c
  <2> QED
    BY <1>3
<1> QED
  BY <1>2, <1>4

\* A read claims nothing yet.
LEMMA ReadIsNoStep ==
  ASSUME IInv, NEW p \in Pollers, ZRangeByScore(p)
  PROVE  UNCHANGED <<zset, Claimed, published>>
<1> DEFINE e == [stage |-> "read", cutoff |-> now, items |-> Due(now)]
<1>1. poll' = [poll EXCEPT ![p] = e] /\ poll[p].stage = "idle"
  BY DEF ZRangeByScore
<1>2. Claimed' = [Claimed EXCEPT ![p] = {}]
  <2>1. e.stage # "publish"
    OBVIOUS
  <2> HIDE DEF e
  <2> QED
    BY <1>1, <2>1, ClaimedChanges DEF IInv
<1>3. Claimed[p] = {}
  BY <1>1 DEF Claimed
<1> QED
  BY <1>2, <1>3 DEF ZRangeByScore, Claimed

\* The removal claims what was read, all of it and nothing else.
LEMMA RemovalClaims ==
  ASSUME IInv, NEW p \in Pollers, ZRemRangeByScore(p), overlaps = 0,
         \A r \in Retries : MaxLatency < Delay[r]
  PROVE  \/ UNCHANGED <<zset, Claimed, published>>
         \/ /\ \E due \in SUBSET zset :
                 Queue!Claim(p, due, UNCHANGED faults, Fault)
            /\ UNCHANGED published
<1> DEFINE due == poll[p].items
<1>1. /\ poll[p].stage = "read" /\ UNCHANGED published
      /\ poll[p] \in [stage : {"idle", "read", "publish"}, cutoff : Nat,
                      items : SUBSET Retries]
  BY DEF ZRemRangeByScore, IInv, TypeOK
<1>2. due \subseteq zset /\ due # {}
  BY <1>1 DEF IInv, OnePlace, HeldIsDue
<1>3. due = Due(poll[p].cutoff)
  BY <1>1, <1>2 DEF IInv, ReadIsComplete, HeldIsDue, Due
<1>4. Claimed[p] = {} /\ [Claimed EXCEPT ![p] = {}] = Claimed
  BY <1>1 DEF Claimed
<1>5. CASE /\ poll' = [poll EXCEPT ![p] = Idle] /\ Fault
           /\ zset' = zset \/ zset' = zset \ Due(poll[p].cutoff)
  <2>1. Claimed' = Claimed
    <3>1. Idle.stage # "publish"
      BY DEF Idle
    <3> QED
      BY <1>4, <1>5, <3>1, ClaimedChanges DEF IInv
  <2>2. CASE zset' = zset \ due
    <3>1. Queue!Claim(p, due, UNCHANGED faults, Fault)
      BY <1>2, <1>4, <1>5, <2>1, <2>2 DEF Queue!Claim
    <3> QED
      BY <1>1, <1>2, <3>1
  <2> QED
    BY <1>1, <1>3, <1>5, <2>1, <2>2
<1>6. CASE /\ poll' = [poll EXCEPT ![p].stage = "publish"]
           /\ zset' = zset \ Due(poll[p].cutoff) /\ UNCHANGED faults
  <2> DEFINE e == [poll[p] EXCEPT !.stage = "publish"]
  <2>1. poll' = [poll EXCEPT ![p] = e]
    BY <1>6
  <2>2. e.stage = "publish" /\ e.items = due
    BY <1>1
  <2> HIDE DEF e
  <2>3. Claimed' = [Claimed EXCEPT ![p] = due]
    BY <2>1, <2>2, ClaimedChanges DEF IInv
  <2>4. Queue!Claim(p, due, UNCHANGED faults, Fault)
    BY <1>2, <1>3, <1>4, <1>6, <2>3 DEF Queue!Claim
  <2> QED
    BY <1>1, <1>2, <2>4
<1> QED
  BY <1>5, <1>6 DEF ZRemRangeByScore

\* What is published was claimed.
LEMMA PublishIsOfClaimed ==
  ASSUME IInv, NEW p \in Pollers, NEW r \in poll[p].items,
         PublishRetryMessage(p, r)
  PROVE  r \in Retries /\
         Queue!Publish(p, r, published' = [published EXCEPT ![r] = @ + 1],
                       UNCHANGED published, UNCHANGED faults, Fault)
<1> DEFINE rest == poll[p].items \ {r}
           e == IF rest = {} THEN Idle ELSE [poll[p] EXCEPT !.items = rest]
<1>1. /\ poll[p].stage = "publish" /\ zset' = zset
      /\ poll[p] \in [stage : {"idle", "read", "publish"}, cutoff : Nat,
                      items : SUBSET Retries]
  BY DEF PublishRetryMessage, IInv, TypeOK
<1>2. Claimed[p] = poll[p].items
  BY <1>1 DEF Claimed
<1>3. ASSUME poll' = [poll EXCEPT ![p] = Idle]
      PROVE  Claimed' = [Claimed EXCEPT ![p] = {}]
  <2>1. Idle.stage # "publish"
    BY DEF Idle
  <2> QED
    BY <1>3, <2>1, ClaimedChanges DEF IInv
<1>4. ASSUME poll' = [poll EXCEPT ![p] = e]
      PROVE  Claimed' = [Claimed EXCEPT ![p] = @ \ {r}]
  <2>1. (IF e.stage = "publish" THEN e.items ELSE {}) = Claimed[p] \ {r}
    BY <1>1, <1>2 DEF Idle
  <2> HIDE DEF e
  <2> QED
    BY <1>4, <2>1, ClaimedChanges DEF IInv
<1>5. \/ /\ published' = [published EXCEPT ![r] = @ + 1]
         /\ \/ poll' = [poll EXCEPT ![p] = e] /\ UNCHANGED faults
            \/ poll' = [poll EXCEPT ![p] = Idle] /\ Fault
      \/ poll' = [poll EXCEPT ![p] = Idle] /\ Fault /\ UNCHANGED published
  BY DEF PublishRetryMessage
<1> HIDE DEF e
<1> QED
  BY <1>1, <1>2, <1>3, <1>4, <1>5 DEF Queue!Publish

\* A poller that dies loses what it has claimed.
LEMMA CrashAbandons ==
  ASSUME IInv, NEW p \in Pollers, Crash(p)
  PROVE  Queue!Abandon(p) /\ UNCHANGED published /\ crashes' = crashes + 1
<1>1. poll' = [poll EXCEPT ![p] = Idle] /\ Idle.stage # "publish"
  BY DEF Crash, Idle
<1>2. Claimed' = [Claimed EXCEPT ![p] = {}]
  BY <1>1, ClaimedChanges DEF IInv
<1> QED
  BY <1>2 DEF Crash, Queue!Abandon

\* Until two polls overlap, reading and removing in two calls is as good as one:
\* every step is one of RetryQueue, which RetryLoop takes the timer to be,
\* whatever fails and dies.
THEOREM PollsAreAtomicHolds == Spec => PollsAreAtomic
<1> DEFINE Atomic == overlaps' = 0 /\ (\A r \in Retries : MaxLatency < Delay[r])
                       => [QueueStep]_<<zset, Claimed, published>>
<1>1. ASSUME IInv, [Next]_vars PROVE Atomic
  <2> SUFFICES ASSUME overlaps' = 0, \A r \in Retries : MaxLatency < Delay[r]
               PROVE  QueueStep \/ UNCHANGED <<zset, Claimed, published>>
    OBVIOUS
  <2>1. CASE Tick \/ UNCHANGED vars
    BY <2>1 DEF Tick, vars, Claimed
  <2>2. ASSUME NEW r \in Retries, ScheduleRetry(r)
        PROVE  QueueStep \/ UNCHANGED <<zset, Claimed, published>>
    <3>1. UNCHANGED <<Claimed, published>> /\ (zset' = zset \/ zset' = zset \cup {r})
      BY <2>2 DEF ScheduleRetry, Score, Add, Claimed
    <3> QED
      BY <3>1 DEF QueueStep, Queue!Put
  <2>3. ASSUME NEW p \in Pollers, ZRangeByScore(p)
        PROVE  QueueStep \/ UNCHANGED <<zset, Claimed, published>>
    BY <1>1, <2>3, ReadIsNoStep
  <2>4. ASSUME NEW p \in Pollers, ZRemRangeByScore(p)
        PROVE  QueueStep \/ UNCHANGED <<zset, Claimed, published>>
    <3>1. overlaps = 0
      BY <2>4 DEF ZRemRangeByScore
    <3> QED
      BY <1>1, <2>4, <3>1, RemovalClaims DEF QueueStep
  <2>5. ASSUME NEW p \in Pollers, NEW r \in poll[p].items,
               PublishRetryMessage(p, r)
        PROVE  QueueStep
    BY <1>1, <2>5, PublishIsOfClaimed DEF QueueStep
  <2>6. ASSUME NEW p \in Pollers, Crash(p)
        PROVE  QueueStep
    BY <1>1, <2>6, CrashAbandons DEF QueueStep
  <2> QED
    BY <1>1, <2>1, <2>2, <2>3, <2>4, <2>5, <2>6 DEF Next, PollStep
<1> QED BY <1>1, Inductive, PTL DEF Spec, PollsAreAtomic

=============================================================================
