------------------------------ MODULE MCLinks -------------------------------
(***************************************************************************)
(* The two ends of a link, one at a time: the arbiter of tx1, and the      *)
(* pause requests that keep the FIFOs behind rx0 from overflowing.         *)
(***************************************************************************)
EXTENDS Tx1Arbiter, FlowControl

VARIABLE end     \* "tx1", "rx0"

TwoOfEach == [s \in Source |-> 2]

LinkInit == ArbiterInit /\ FlowInit /\ end \in {"tx1", "rx0"}
AtTx1(A) == end = "tx1" /\ A /\ UNCHANGED <<flowVars, end>>
AtRx0(A) == end = "rx0" /\ A /\ UNCHANGED <<arbiterVars, end>>
LinkNext == AtTx1(ArbiterNext) \/ AtRx0(FlowNext)

\* The clocks run; a source that has begun a frame goes on with it; the sender of the
\* previous board always has data, and what is in the FIFO is drained sooner or later.
LinkSpec ==
    /\ LinkInit /\ [][LinkNext]_<<arbiterVars, flowVars, end>>
    /\ WF_arbiterVars(AtTx1(Clock(TRUE)))
    /\ \A s \in Source : WF_arbiterVars(AtTx1(Resume(s)))
    /\ WF_flowVars(AtRx0(\E drain \in BOOLEAN : FlowClock(TRUE, drain)))
    /\ SF_flowVars(AtRx0(FlowClock(TRUE, TRUE)))
=============================================================================
