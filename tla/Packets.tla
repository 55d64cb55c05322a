------------------------------- MODULE Packets --------------------------------
(***************************************************************************)
(* The packets a board's sys_clk modules exchange, beat by beat: a header  *)
(* that says the kind, the destination and the number of beats (pkt_len),  *)
(* and the beats after it.                                                 *)
(***************************************************************************)
EXTENDS Naturals, Sequences

\* T_WAVEFORM_STREAM, T_FLASH_WRITE_DATA, T_BOARD_ID_ASSIGN, T_LIST_WRITE, T_STATUS_REPORT
\* and T_QUERY; the other kinds of two beats; those of one; and zeros that fill a USB block.
Kinds == {"wave", "flash", "assign", "list", "report", "query", "set", "enum", "padding"}
Header == [kind : Kinds, dest : Nat, len : Nat]

\* Beat i of packet number no, with the header h; own says that the dispatcher has put
\* this board's values into it.
Beat == [h : Header, i : Nat, no : Nat, own : BOOLEAN]
NoBeat == [h |-> [kind |-> "padding", dest |-> 0, len |-> 0], i |-> 0, no |-> 0, own |-> FALSE]
Padding == [NoBeat EXCEPT !.i = 1]
=============================================================================
