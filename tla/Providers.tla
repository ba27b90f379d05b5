------------------------------ MODULE Providers ------------------------------
(***************************************************************************)
(* ProviderFactory.ts: the simulated providers of the three channels.      *)
(* Each reads its success rate and its forced failure from the environment *)
(* and throws what it does not send.                                       *)
(***************************************************************************)
EXTENDS Naturals

CONSTANTS SuccessRate,      \* <CHANNEL>_SUCCESS_RATE, per channel
          SimulateFailure   \* <CHANNEL>_SIMULATE_FAILURE, per channel

Channels == {"email", "sms", "whatsapp"}

ASSUME ProvidersAssumption == /\ SuccessRate \in [Channels -> 0 .. 100]
                              /\ SimulateFailure \in [Channels -> BOOLEAN]

\* Math.random() < successRate, where random lies in [0, 1).
MaySend(channel) == ~SimulateFailure[channel] /\ SuccessRate[channel] > 0
MayThrow(channel) == SimulateFailure[channel] \/ SuccessRate[channel] < 100

=============================================================================
