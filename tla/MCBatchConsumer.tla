--------------------------- MODULE MCBatchConsumer ---------------------------
(* Small instances of BatchConsumer. *)
EXTENDS BatchConsumer, MCProviders, TLC

CONSTANTS w1, w2, m1, m2, m3, p1, p2

\* Every message has content and an idempotency key of its own.
Own == [m \in Messages |-> m]

\* m2 repeats the idempotency key of m1 with other content.
SharedKey == [m \in Messages |-> IF m = m2 THEN m1 ELSE m]

\* All messages of one user.
OneHome == [m \in Messages |-> p1]

Symmetry == Permutations(Workers)
=============================================================================
