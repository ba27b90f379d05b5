---------------------------- MODULE MCRetryCycle ----------------------------
(* Small instances of RetryCycle. *)
EXTENDS RetryCycle, MCProviders, TLC

CONSTANTS w1, w2, m1, m2

\* Two messages of different content have different content hashes.
OwnKey == [m \in Messages |-> m]

\* Of failed calls, overlaps and crashes no more than three come together.
AtMostThree == Failures <= 3

Symmetry == Permutations(Workers) \cup Permutations(Messages)
=============================================================================
