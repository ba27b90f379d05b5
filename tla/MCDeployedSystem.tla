-------------------------- MODULE MCDeployedSystem --------------------------
(* Small instances of DeployedSystem: valid requests of one tenant and key, *)
(* with different content.                                                  *)
EXTENDS DeployedSystem, MCProviders, TLC

CONSTANTS w1, w2, m1, m2, p1, p2

Own == [m \in Messages |-> m]

TenantOf == [m \in Messages |-> <<"t">>]
KeyOf    == [m \in Messages |-> <<"k">>]
TenantAndKey == [m \in Messages |-> <<TenantOf[m], KeyOf[m]>>]

Valid == [m \in Messages |-> [complete |-> TRUE, channel |-> "email",
                              mailAddress |-> TRUE, blank |-> FALSE]]

\* Both of one user, and m2 of another.
OneHome == [m \in Messages |-> p1]
TwoHomes == [m \in Messages |-> IF m = m2 THEN p2 ELSE p1]

\* Followed up to the first send that a provider rejects.
NoneRejected == \A e \in audit : e.status # "FAILED"

\* One poll at a time: what they bring back is refused, however often.
OnePoll == \A p, q \in Pollers : Polling(p) /\ Polling(q) => p = q

Symmetry == Permutations(Workers) \cup Permutations(Messages)
=============================================================================
