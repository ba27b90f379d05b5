----------------------------- MODULE BatchCheck -----------------------------
(***************************************************************************)
(* BatchIdempotencyService.checkBatchIdempotency as an algorithm: a batch  *)
(* of Kafka records is split into new messages and duplicates by its       *)
(* (tenantId, idempotencyKey) pairs.  BatchConsumer takes the result for   *)
(* granted, with abstract keys; here tenants and keys are strings, which   *)
(* JavaScript compares joined by ':' and MySQL compares column by column,  *)
(* without regard to case.                                                 *)
(***************************************************************************)
EXTENDS Naturals, Sequences

CONSTANTS Chars,      \* characters
          Tenants,    \* tenantIds, as sequences of characters
          Keys,       \* idempotencyKeys, likewise
          Fold,       \* string |-> what the collation takes it for
          MaxBatch,   \* bound: messages of a batch
          MaxTable    \* bound: rows of the table

ASSUME StringsAssumption ==
  /\ Tenants \subseteq Seq(Chars) /\ Keys \subseteq Seq(Chars)
  /\ ":" \in Chars
  /\ MaxBatch \in Nat /\ MaxTable \in Nat

VARIABLES table,      \* the pairs that have a row
          batch,      \* the pair of each message of the batch
          stage,
          unique,     \* uniqueKeys
          existing,   \* the rows the query returned
          duplicates  \* positions of duplicateMessages; the others are new

vars == <<table, batch, stage, unique, existing, duplicates>>

Pairs == [tenant : Tenants, key : Keys]

\* (tenantId, idempotencyKey) IN (...), and uk_tenant_idempotency.
SameInMySQL(p, q) == /\ Fold[p.tenant] = Fold[q.tenant]
                     /\ Fold[p.key] = Fold[q.key]

\* Mutation: the key alone.
Joined_KeyOnly(p) == p.key

\* `${tenantId}:${idempotencyKey}`
Joined(p) == p.tenant \o <<":">> \o p.key

Positions == 1 .. Len(batch)

Batches == UNION {[1 .. n -> Pairs] : n \in 0 .. MaxBatch}

Tables == {t \in UNION {{{f[i] : i \in 1 .. n} : f \in [1 .. n -> Pairs]} :
                          n \in 0 .. MaxTable} :
             \A p, q \in t : SameInMySQL(p, q) => p = q}

Init == /\ table \in Tables
        /\ batch \in Batches
        /\ stage = "extract"
        /\ unique = {}
        /\ existing = {}
        /\ duplicates = {}

\* Mutation: one pair per tenant is looked up.
ExtractUniqueIdempotencyKeys_ByTenant ==
  /\ stage = "extract"
  /\ unique' = {batch[i] : i \in {j \in Positions :
                  \A k \in 1 .. j - 1 : batch[k].tenant # batch[j].tenant}}
  /\ stage' = "query"
  /\ UNCHANGED <<table, batch, existing, duplicates>>

\* The first of the messages that are joined alike.
ExtractUniqueIdempotencyKeys ==
  /\ stage = "extract"
  /\ unique' = {batch[i] : i \in {j \in Positions :
                  \A k \in 1 .. j - 1 : Joined(batch[k]) # Joined(batch[j])}}
  /\ stage' = "query"
  /\ UNCHANGED <<table, batch, existing, duplicates>>

QueryExistingMessages ==
  /\ stage = "query"
  /\ existing' = {row \in table : \E p \in unique : SameInMySQL(row, p)}
  /\ stage' = "partition"
  /\ UNCHANGED <<table, batch, unique, duplicates>>

Partition ==
  /\ stage = "partition"
  /\ duplicates' = {i \in Positions :
                      \E row \in existing : Joined(row) = Joined(batch[i])}
  /\ stage' = "done"
  /\ UNCHANGED <<table, batch, unique, existing>>

Next == ExtractUniqueIdempotencyKeys \/ QueryExistingMessages \/ Partition

Spec == Init /\ [][Next]_vars

-----------------------------------------------------------------------------
(* When the strings are harmless. *)

\* t is s followed by ':' and perhaps more.
Continues(t, s) == /\ Len(s) < Len(t)
                   /\ \A i \in 1 .. Len(s) : t[i] = s[i]
                   /\ t[Len(s) + 1] = ":"

InUse == table \cup {batch[i] : i \in Positions}

\* No tenant's name continues another's behind a ':'.
TenantsApart == \A p, q \in InUse : ~Continues(p.tenant, q.tenant)

-----------------------------------------------------------------------------
\* A message is only skipped as a duplicate (and never delivered) when the
\* row of its own tenant and key exists (BatchIdempotencyService.ts:90-105),
\* unless one tenant's name continues another's.
NothingDropped ==
  stage = "done" /\ TenantsApart =>
    \A i \in duplicates : batch[i] \in table

\* A message whose row exists is skipped, wherever in the batch it is and
\* whatever else is there.  A row that differs in case only does not count.
NothingRepeated ==
  stage = "done" /\ TenantsApart =>
    \A i \in Positions : batch[i] \in table => i \in duplicates

-----------------------------------------------------------------------------
(* What each step has established: the strengthening that makes the two     *)
(* properties inductive.                                                    *)

Typed == /\ table \subseteq Pairs
         /\ batch \in Seq(Pairs)
         /\ unique \subseteq {batch[i] : i \in Positions}
         /\ existing \subseteq table

Past(steps) == stage \notin steps

EveryJoinIsLookedUp ==
  Past({"extract"}) => \A i \in Positions :
    \E p \in unique : Joined(p) = Joined(batch[i])

EveryRowIsFound ==
  Past({"extract", "query"}) => \A row \in table :
    (\E p \in unique : SameInMySQL(row, p)) => row \in existing

DuplicatesAreJoins ==
  stage = "done" => duplicates =
    {i \in Positions : \E row \in existing : Joined(row) = Joined(batch[i])}

IInv == Typed /\ EveryJoinIsLookedUp /\ EveryRowIsFound /\ DuplicatesAreJoins

-----------------------------------------------------------------------------
(* What the documentation says. *)

\* "Skips duplicates completely, processes only new messages"
\* (BatchIdempotencyService.ts:9), whatever the names.
DuplicatesAreExact ==
  stage = "done" => duplicates = {i \in Positions :
                                    \E p \in table : SameInMySQL(p, batch[i])}

=============================================================================
