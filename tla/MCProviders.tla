---------------------------- MODULE MCProviders ----------------------------
(* Settings of providers and timers that the instances share. *)
EXTENDS RetryLoop

ByEmail == [m \in Messages |-> "email"]

\* docker-compose.yml leaves the rates at their defaults.
DefaultRates == [c \in Channels |-> CASE c = "email" -> 80
                                      [] c = "sms" -> 85
                                      [] c = "whatsapp" -> 90]
AlwaysSent == [c \in Channels |-> 100]

\* A poll in every worker, under the worker's name.
OwnTimer == [p \in Pollers |-> p]

NothingForced == [c \in Channels |-> FALSE]
=============================================================================
