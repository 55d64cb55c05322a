------------------------------- MODULE MCData -------------------------------
(* Board 1 of three; total_boards may shrink to two, so that board 2 is unknown. *)
EXTENDS DataChannel
F(k, s, d, n) == [kind |-> k, src |-> s, dest |-> d, len |-> n]
ThenTwo == <<3, 2>>
FromRing == {F("data", 2, 0, 3), F("last", 0, 1, 2), F("other", 0, All, 2), F("ctrl", 0, All, 2)}
FromHere == {F("data", 1, 0, 2)}
Noise == {F("ctrl", 5, 0, 2), F("other", 0, 0, 0)}
=============================================================================
