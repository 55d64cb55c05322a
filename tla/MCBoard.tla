------------------------------- MODULE MCBoard --------------------------------
(***************************************************************************)
(* Board 1 is told to be board 2; packets for board 1 that come after that *)
(* go to the ring.  9 is the broadcast.                                    *)
(***************************************************************************)
EXTENDS Board

Hdr(kind, dest, len) == [kind |-> kind, dest |-> dest, len |-> len]
MCMenu == [s \in Sources |->
    IF s = "fp"
    THEN {Hdr("assign", 9, 2), Hdr("wave", 1, 8), Hdr("flash", 1, 3), Hdr("query", 1, 2)}
    ELSE {Hdr("report", 1, 3), Hdr("wave", 1, 4), Hdr("flash", 1, 3), Hdr("enum", 9, 1)}]
MCSends == [s \in Sources |-> IF s = "fp" THEN 2 ELSE 1]
=============================================================================
