------------------------------- MODULE MCRing -------------------------------
(* Budgets and the scheduling constraint of the model-checking runs.       *)
EXTENDS RingPhases

None == [op \in HostOps |-> 0]
\* The host's start-up sequence, two triggers, a reservation and a DIAG.
TriggerBudget == [None EXCEPT !["init"] = 1, !["assign"] = 1, !["trig"] = 2,
                               !["reserve"] = 1, !["diag"] = 1]
\* Two triggers, a reservation and a DIAG of a numbered ring, one board streaming.
TrafficBudget == [None EXCEPT !["init"] = 1, !["assign"] = 1, !["trig"] = 2,
                               !["reserve"] = 1, !["diag"] = 1, !["stream"] = 1]
\* Two enumerations and two triggers, a board reset and a cable that drops at any time.
FaultBudget == [None EXCEPT !["init"] = 2, !["assign"] = 1, !["trig"] = 2,
                             !["reset"] = 1, !["down"] = 1]
\* Start-up and one trigger of a long ring.
WideBudget == [None EXCEPT !["init"] = 1, !["assign"] = 1, !["trig"] = 1]

\* Backward traffic is delivered before forward traffic moves on.
BackwardFirst ==
    (\E b \in Board : bwdPending[b] \/ bLink[b] # <<>>)
        => \A b \in Board : Len(fLink'[b]) >= Len(fLink[b])
=============================================================================
