--------------------------- MODULE DeliveryLedger ---------------------------
(***************************************************************************)
(* What the delivery of messages promises while nothing fails but          *)
(* providers: every message is tried, attempt after attempt, until one is  *)
(* accepted or the attempts are used up; it is accepted at most once; and  *)
(* it ends SENT or FAILED, for good.                                       *)
(*                                                                         *)
(* RetryCycle (the deployed processor) and LayeredPipeline (the layered    *)
(* one) implement it.  They differ in how they count: Stride.              *)
(***************************************************************************)
EXTENDS Naturals

CONSTANTS Messages,
          MaxAttempts,  \* an attempt of this number (positive) or more is the last
          Stride        \* what the number grows by from one to the next

VARIABLES tried,     \* numbers of the recorded attempts, per message
          taken,     \* how often a provider accepted it, per message
          outcome

ledger == <<tried, taken, outcome>>

Init == /\ tried = [m \in Messages |-> {}]
        /\ taken = [m \in Messages |-> 0]
        /\ outcome = [m \in Messages |-> "open"]

\* n is the number of the next attempt at m.
IsNext(m, n) ==
  /\ outcome[m] = "open"
  /\ n \notin tried[m]
  /\ \/ tried[m] = {} /\ n = 1
     \/ \E k \in tried[m] : k < MaxAttempts /\ n = k + Stride

Record(m, n) == tried' = [tried EXCEPT ![m] = @ \cup {n}]

\* The provider accepts the attempt that is due.
Accept(m) ==
  /\ taken[m] = 0
  /\ \E n \in 1 .. MaxAttempts + Stride : IsNext(m, n)
  /\ taken' = [taken EXCEPT ![m] = 1]
  /\ UNCHANGED <<tried, outcome>>

Succeed(m) ==
  /\ taken[m] > 0
  /\ \E n \in 1 .. MaxAttempts + Stride : IsNext(m, n) /\ Record(m, n)
  /\ outcome' = [outcome EXCEPT ![m] = "SENT"]
  /\ UNCHANGED taken

Fail(m) ==
  /\ taken[m] = 0
  /\ \E n \in 1 .. MaxAttempts + Stride : IsNext(m, n) /\ Record(m, n)
  /\ UNCHANGED <<taken, outcome>>

\* The attempts are used up.
Bury(m) ==
  /\ outcome[m] = "open" /\ taken[m] = 0
  /\ \E n \in tried[m] : n >= MaxAttempts
  /\ outcome' = [outcome EXCEPT ![m] = "FAILED"]
  /\ UNCHANGED <<tried, taken>>

Step(m) == Accept(m) \/ Succeed(m) \/ Fail(m) \/ Bury(m)

Next == \E m \in Messages : Step(m)

Spec == Init /\ [][Next]_ledger

\* No message is forgotten.
Fairness == \A m \in Messages : WF_ledger(Step(m))

\* What an outcome tells: SENT, that a provider accepted the message, once;
\* FAILED, that none did and that its attempts are used up.
OutcomeIsTrue ==
  \A m \in Messages :
    /\ taken[m] \in {0, 1}
    /\ outcome[m] = "SENT" => taken[m] = 1
    /\ outcome[m] = "FAILED" =>
         taken[m] = 0 /\ \E n \in tried[m] : n >= MaxAttempts

=============================================================================
