------------------------------ MODULE MCCommands ------------------------------
(* Destinations: a slave, a board the ring does not have, everyone.  The payloads 0 and
   0x0000FFFF read as frames of board 0 for itself and for everyone; others are refused. *)
EXTENDS RingCommands
Everyone == 99
SomeDests == {2, 3, Everyone}
Beat(s, d) == [src |-> s, dest |-> d, no |-> 0]
SomeStrays == {Beat(0, 0), Beat(0, Everyone), Beat(7, 7)}
TwoAndOne == [h \in {0, 1} |-> IF h = 0 THEN 2 ELSE 1]
JustOne == [h \in {0} |-> 1]
=============================================================================
