-------------------------- MODULE BatchCheckProofs --------------------------
(* Proofs about the batch check, for every batch, table, and set of names.  *)
EXTENDS BatchCheck, SequenceTheorems, WellFoundedInduction, TLAPS

\* Joined with ':', two pairs only meet when one tenant's name continues the
\* other's: the key may contain what it will.
LEMMA JoinedApart ==
  ASSUME NEW p \in Pairs, NEW q \in Pairs,
         ~Continues(p.tenant, q.tenant), ~Continues(q.tenant, p.tenant),
         Joined(p) = Joined(q)
  PROVE  p = q
<1> DEFINE s == p.tenant
           t == q.tenant
           k == p.key
           l == q.key
<1>1. s \in Seq(Chars) /\ t \in Seq(Chars) /\ k \in Seq(Chars) /\ l \in Seq(Chars)
  BY StringsAssumption DEF Pairs
<1>2. ~Continues(s, t) /\ ~Continues(t, s)
  OBVIOUS
<1>3. s \o <<":">> \o k = t \o <<":">> \o l
  BY DEF Joined
<1>4. p = [tenant |-> s, key |-> k] /\ q = [tenant |-> t, key |-> l]
  BY DEF Pairs
<1> HIDE DEF s, t, k, l
<1>5. ASSUME NEW a \in Seq(Chars), NEW b \in Seq(Chars),
             NEW c \in Seq(Chars), NEW d \in Seq(Chars),
             a \o <<":">> \o c = b \o <<":">> \o d, Len(a) < Len(b)
      PROVE  Continues(b, a)
  <2> DEFINE x == a \o <<":">> \o c
             y == b \o <<":">> \o d
  <2>1. \A i \in 1 .. Len(a) : x[i] = a[i]
    OBVIOUS
  <2>2. x[Len(a) + 1] = ":"
    OBVIOUS
  <2>3. \A i \in 1 .. Len(b) : y[i] = b[i]
    OBVIOUS
  <2>4. x = y
    BY <1>5
  <2>5. Len(a) \in Nat /\ Len(b) \in Nat
    OBVIOUS
  <2> HIDE DEF x, y
  <2>6. \A i \in 1 .. Len(a) : b[i] = a[i]
    BY <1>5, <2>1, <2>3, <2>4, <2>5
  <2>7. b[Len(a) + 1] = ":"
    BY <1>5, <2>2, <2>3, <2>4, <2>5
  <2> QED
    BY <1>5, <2>6, <2>7 DEF Continues
<1>6. Len(s) = Len(t)
  <2>1. Len(s) \in Nat /\ Len(t) \in Nat
    BY <1>1
  <2>2. ~(Len(s) < Len(t))
    BY <1>1, <1>2, <1>3, <1>5
  <2>3. ~(Len(t) < Len(s))
    BY <1>1, <1>2, <1>3, <1>5
  <2> QED
    BY <2>1, <2>2, <2>3
<1>7. s = t
  <2>1. \A i \in 1 .. Len(s) : (s \o <<":">> \o k)[i] = s[i]
    BY <1>1
  <2>2. \A i \in 1 .. Len(t) : (t \o <<":">> \o l)[i] = t[i]
    BY <1>1
  <2>3. \A i \in 1 .. Len(s) : s[i] = t[i]
    BY <1>3, <1>6, <2>1, <2>2
  <2> QED
    BY <1>1, <1>6, <2>3, SeqEqual
<1>8. k = l
  <2>1. s \o <<":">> \in Seq(Chars)
    BY <1>1, StringsAssumption
  <2>2. (s \o <<":">>) \o k = (s \o <<":">>) \o l
    BY <1>3, <1>7
  <2> HIDE <1>3, <1>7
  <2> QED
    BY <1>1, <2>1, <2>2, ConcatSimplifications
<1> QED
  BY <1>4, <1>7, <1>8

\* A set of natural numbers that is not empty has a least element.
LEMMA LeastNumber ==
  ASSUME NEW S \in SUBSET Nat, S # {}
  PROVE  \E m \in S : \A n \in S : m <= n
<1>1. PICK m \in S : \A n \in S : ~(<<n, m>> \in OpToRel(<, Nat))
  BY NatLessThanWellFounded, WFMin, Zenon
<1>2. \A n \in S : ~(n < m)
  BY <1>1 DEF OpToRel
<1> QED
  BY <1>2

\* The start: batch and table are sequences and sets of pairs.
LEMMA InitIInv == Init => IInv
<1> SUFFICES ASSUME Init PROVE IInv
  OBVIOUS
<1>1. batch \in Seq(Pairs)
  <2>1. PICK n \in 0 .. MaxBatch : batch \in [1 .. n -> Pairs]
    BY DEF Init, Batches
  <2>2. n \in Nat
    BY StringsAssumption
  <2> QED
    BY <2>1, <2>2
<1>2. table \subseteq Pairs
  <2>1. PICK n \in 0 .. MaxTable :
          table \in {{f[i] : i \in 1 .. n} : f \in [1 .. n -> Pairs]}
    BY DEF Init, Tables
  <2>2. PICK f \in [1 .. n -> Pairs] : table = {f[i] : i \in 1 .. n}
    BY <2>1
  <2> QED
    BY <2>2
<1> QED
  BY <1>1, <1>2 DEF Init, IInv, Typed, Past, EveryJoinIsLookedUp,
                    EveryRowIsFound, DuplicatesAreJoins

\* Whatever is joined to a string of the batch, the first one that is has
\* its pair looked up.
LEMMA ExtractStep ==
  ASSUME Typed, ExtractUniqueIdempotencyKeys
  PROVE  EveryJoinIsLookedUp'
<1> SUFFICES ASSUME NEW i \in Positions
             PROVE  \E p \in unique' : Joined(p) = Joined(batch[i])
  BY DEF ExtractUniqueIdempotencyKeys, EveryJoinIsLookedUp, Positions
<1> DEFINE Alike == {j \in Positions : Joined(batch[j]) = Joined(batch[i])}
<1>1. Positions \subseteq Nat /\ Len(batch) \in Nat
  BY DEF Typed, Positions
<1>2. PICK m \in Alike : \A n \in Alike : m <= n
  BY <1>1, LeastNumber
<1>3. ASSUME NEW k \in 1 .. m - 1 PROVE Joined(batch[k]) # Joined(batch[m])
  <2>1. k \in Positions /\ k < m /\ m \in Nat
    BY <1>1 DEF Positions
  <2> QED
    BY <1>1, <1>2, <2>1
<1>4. batch[m] \in unique'
  BY <1>3 DEF ExtractUniqueIdempotencyKeys
<1> QED
  BY <1>4

\* Every step establishes its part and keeps the others.
LEMMA Inductive == IInv /\ [Next]_vars => IInv'
<1> SUFFICES ASSUME IInv, [Next]_vars PROVE IInv'
  OBVIOUS
<1> USE DEF Past, Positions
<1>1. CASE ExtractUniqueIdempotencyKeys
  BY <1>1, ExtractStep DEF ExtractUniqueIdempotencyKeys, IInv, Typed,
                           EveryRowIsFound, DuplicatesAreJoins
<1>2. CASE QueryExistingMessages
  BY <1>2 DEF QueryExistingMessages, IInv, Typed, EveryJoinIsLookedUp,
              EveryRowIsFound, DuplicatesAreJoins
<1>3. CASE Partition
  BY <1>3 DEF Partition, IInv, Typed, EveryJoinIsLookedUp, EveryRowIsFound,
              DuplicatesAreJoins
<1>4. CASE UNCHANGED vars
  BY <1>4 DEF vars, IInv, Typed, EveryJoinIsLookedUp, EveryRowIsFound,
              DuplicatesAreJoins
<1> QED
  BY <1>1, <1>2, <1>3, <1>4 DEF Next

\* The invariant of the check.
THEOREM Invariant == Spec => []IInv
BY InitIInv, Inductive, PTL DEF Spec

\* What is in use are pairs, and pairs in use that are joined alike are one.
LEMMA InUseApart ==
  ASSUME Typed, TenantsApart, NEW p \in InUse, NEW q \in InUse,
         Joined(p) = Joined(q)
  PROVE  p = q
<1>1. p \in Pairs /\ q \in Pairs
  BY DEF Typed, InUse, Positions
<1> QED
  BY <1>1, JoinedApart DEF TenantsApart

\* No message is dropped for another tenant's row
\* (BatchIdempotencyService.ts:90-105): what is skipped has a row of its own.
THEOREM NothingDroppedHolds == Spec => []NothingDropped
<1>1. ASSUME IInv PROVE NothingDropped
  <2> SUFFICES ASSUME stage = "done", TenantsApart, NEW i \in duplicates
               PROVE  batch[i] \in table
    BY DEF NothingDropped
  <2>1. PICK row \in existing : Joined(row) = Joined(batch[i])
    BY <1>1 DEF IInv, DuplicatesAreJoins
  <2>2. i \in Positions
    BY <1>1 DEF IInv, DuplicatesAreJoins
  <2>3. row \in table /\ row \in InUse /\ batch[i] \in InUse
    BY <1>1, <2>2 DEF IInv, Typed, InUse
  <2> QED
    BY <1>1, <2>1, <2>3, InUseApart DEF IInv
<1> QED
  BY <1>1, Invariant, PTL

\* Nothing whose row exists is delivered again, wherever it stands in the
\* batch (BatchIdempotencyService.ts:206-225 looks up the first only).
THEOREM NothingRepeatedHolds == Spec => []NothingRepeated
<1>1. ASSUME IInv PROVE NothingRepeated
  <2> SUFFICES ASSUME stage = "done", TenantsApart, NEW i \in Positions,
                      batch[i] \in table
               PROVE  i \in duplicates
    BY DEF NothingRepeated
  <2>1. PICK p \in unique : Joined(p) = Joined(batch[i])
    BY <1>1 DEF IInv, EveryJoinIsLookedUp, Past
  <2>2. p \in InUse /\ batch[i] \in InUse
    BY <1>1 DEF IInv, Typed, InUse
  <2>3. p = batch[i]
    BY <1>1, <2>1, <2>2, InUseApart DEF IInv
  <2>4. batch[i] \in existing
    BY <1>1, <2>3 DEF IInv, EveryRowIsFound, Past, SameInMySQL
  <2> QED
    BY <1>1, <2>4 DEF IInv, DuplicatesAreJoins
<1> QED
  BY <1>1, Invariant, PTL

=============================================================================
