---------------------------- MODULE RingBarrier ----------------------------
(***************************************************************************)
(* The control channel implements the barrier: a board is paused when its  *)
(* lock is set, a fire is decided when the master queues its GO, and a     *)
(* board has fired what its output was told to.                            *)
(***************************************************************************)
EXTENDS RingCtrl

Barrier == INSTANCE TriggerBarrier WITH
    Boards <- Board,
    Groups <- GroupSel,
    Rounds <- Budget["trig"],
    paused <- {b \in Board : locked[b]},
    decided <- goLog,
    fired <- fires

\* Every step of the ring is a step of the barrier or leaves it alone: a GO is
\* decided only when all boards are locked and have fired for the one before,
\* a board fires the groups in the order decided, no lock opens on a board that
\* still owes a fire, and, under the ring's fairness, every board fires.
BarrierImplemented == Barrier!LiveSpec
=============================================================================
