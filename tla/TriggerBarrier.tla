--------------------------- MODULE TriggerBarrier ---------------------------
(***************************************************************************)
(* What a trigger of the ring promises, without frames, slots or cables:   *)
(* a barrier.  Each board holds back its own data, the coordinator decides *)
(* a fire when all of them do, and every board then fires exactly once.    *)
(* RingCtrl implements it: see RingBarrier.                                *)
(***************************************************************************)
EXTENDS Integers, Sequences

CONSTANTS Boards,  \* the boards of the ring
          Groups,  \* what a fire may select
          Rounds   \* how many fires are decided, a bound for TLC

VARIABLES paused,  \* the boards that hold back their local data
          decided, \* the groups of the fires decided, in order
          fired    \* per board, the groups it has fired

vars == <<paused, decided, fired>>

Init == paused = {} /\ decided = <<>> /\ fired = [b \in Boards |-> <<>>]

UpToDate(b) == Len(fired[b]) = Len(decided)

Pause(b) == paused' = paused \cup {b} /\ UNCHANGED <<decided, fired>>

\* The coordinator's own lock opens as it decides.
Decide(g) ==
    /\ Len(decided) < Rounds
    /\ paused = Boards /\ \A b \in Boards : UpToDate(b)
    /\ decided' = Append(decided, g)
    /\ \E b \in Boards : paused' = paused \ {b}
    /\ UNCHANGED fired

Fire(b) ==
    /\ ~UpToDate(b)
    /\ fired' = [fired EXCEPT ![b] = Append(@, decided[Len(@) + 1])]
    /\ paused' \in {paused, paused \ {b}}
    /\ UNCHANGED decided

\* A board that owes nothing may open its lock.
Release(b) == UpToDate(b) /\ paused' = paused \ {b} /\ UNCHANGED <<decided, fired>>

Next == \/ \E g \in Groups : Decide(g)
        \/ \E b \in Boards : Pause(b) \/ Fire(b) \/ Release(b)

Spec == Init /\ [][Next]_vars
LiveSpec == Spec /\ \A b \in Boards : WF_vars(Fire(b))
-----------------------------------------------------------------------------
TypeOK == /\ paused \subseteq Boards
          /\ decided \in Seq(Groups)
          /\ fired \in [Boards -> Seq(Groups)]

\* The boards fire in step: none is ever two fires ahead of another, and what
\* two boards have both fired they fired with the same groups.
InStep ==
    \A a, b \in Boards :
        /\ Len(fired[a]) <= Len(fired[b]) + 1
        /\ \A i \in 1..Len(fired[a]) : i <= Len(fired[b]) => fired[a][i] = fired[b][i]
=============================================================================
