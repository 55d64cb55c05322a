---------------------------- MODULE FlowControl -----------------------------
(***************************************************************************)
(* aurora_nfc_ctrl.v between a receive FIFO of this board (relay_fifo_0 or *)
(* async_fifo_aurora_rx, whose prog_full it watches) and the previous      *)
(* board.  The FIFOs take whatever rx0 brings: only a pause request stops  *)
(* the sender, for as many beats as it carries, a link latency later.  A   *)
(* step is one cycle of aurora_clk.                                        *)
(***************************************************************************)
EXTENDS Naturals

CONSTANTS
    Pause,      \* PAUSE_COUNT, 255
    Cooldown,   \* COOLDOWN_CYCLES, 160
    Threshold,  \* Full_Threshold_Assert_Value, 128
    Depth,      \* Input_Depth, 256
    Latency,    \* cycles a beat, or a request, is under way (external)
    AckDelay    \* cycles a core may keep nfc_tready low (external)

\* What the margins have to allow for: a request has to be renewed before the pause it
\* renews is over, and the beats that come until the first one bites have to fit.  A request
\* has arrived when the next is made (the code's numbers leave a latency of 62 at most).
ASSUME FlowAssumption ==
    /\ Pause \in Nat /\ Cooldown \in Nat /\ Threshold \in Nat /\ Depth \in Nat
    /\ Latency \in Nat /\ AckDelay \in Nat
    /\ Latency > 0 /\ Threshold > 0 /\ Latency <= Cooldown
    /\ Pause >= Cooldown + AckDelay + 2
    /\ Depth >= Threshold + AckDelay + 2 * Latency + 3

VARIABLES
    pause,     \* nfc_counter_r of the sender (external)
    beats,     \* the beats under way, nearest last
    requests,  \* the pause requests under way, nearest last
    level,     \* words in the FIFO
    progFull,  \* prog_full, a register of the FIFO (external)
    nfcValid,  \* nfc_tvalid
    cooldown,
    waited     \* cycles nfc_tready has been low for a request

flowVars == <<pause, beats, requests, level, progFull, nfcValid, cooldown, waited>>

Empty == [k \in 1..Latency |-> FALSE]

FlowInit ==
    /\ pause = 0 /\ beats = Empty /\ requests = Empty
    /\ level = 0 /\ progFull = FALSE
    /\ nfcValid = FALSE /\ cooldown = 0 /\ waited = 0

Shift(line, new) == [k \in 1..Latency |-> IF k = 1 THEN new ELSE line[k - 1]]

\* The sender: a beat it would send is held back and counted while a pause lasts.
Sender(wants) ==
    /\ beats' = Shift(beats, wants /\ pause = 0)
    /\ pause' = IF requests[Latency] THEN Pause
                ELSE IF wants /\ pause > 0 THEN pause - 1 ELSE pause

\* The FIFO: a word in, a word out, and its almost-full flag a cycle later.
Fifo(drain) ==
    /\ drain => level > 0
    /\ level' = (level + IF beats[Latency] THEN 1 ELSE 0) - (IF drain THEN 1 ELSE 0)
    /\ progFull' = (level >= Threshold)

\* aurora_nfc_ctrl: request, wait for the handshake, keep quiet for the cooldown.
\* (Variant: the quiet time is as long as the pause.)
AcknowledgedLong ==
    /\ nfcValid
    /\ nfcValid' = FALSE /\ cooldown' = Pause + Threshold /\ waited' = 0
    /\ requests' = Shift(requests, TRUE)
Acknowledged ==
    /\ nfcValid
    /\ nfcValid' = FALSE /\ cooldown' = Cooldown /\ waited' = 0
    /\ requests' = Shift(requests, TRUE)
NotAcknowledged ==
    /\ nfcValid /\ waited < AckDelay
    /\ waited' = waited + 1
    /\ UNCHANGED <<nfcValid, cooldown>> /\ requests' = Shift(requests, FALSE)
\* (Variant: requests go on whether or not the FIFO is congested.)
QuietAlways ==
    /\ ~nfcValid
    /\ cooldown' = IF cooldown > 0 THEN cooldown - 1 ELSE 0
    /\ nfcValid' = (cooldown = 0)
    /\ UNCHANGED waited /\ requests' = Shift(requests, FALSE)
Quiet ==
    /\ ~nfcValid
    /\ cooldown' = IF cooldown > 0 THEN cooldown - 1 ELSE 0
    /\ nfcValid' = (cooldown = 0 /\ progFull)
    /\ UNCHANGED waited /\ requests' = Shift(requests, FALSE)

FlowClock(wants, drain) ==
    /\ Sender(wants) /\ Fifo(drain)
    /\ Acknowledged \/ NotAcknowledged \/ Quiet

FlowNext == \E wants, drain \in BOOLEAN : FlowClock(wants, drain)

FlowSpec == FlowInit /\ [][FlowNext]_flowVars

-----------------------------------------------------------------------------
FlowTypeOK ==
    /\ pause \in 0..Pause
    /\ beats \in [1..Latency -> BOOLEAN] /\ requests \in [1..Latency -> BOOLEAN]
    /\ level \in Nat
    /\ progFull \in BOOLEAN /\ nfcValid \in BOOLEAN
    /\ cooldown \in 0..Cooldown /\ waited \in 0..AckDelay

\* No beat is lost to a full FIFO, even one that is never drained: dbg_overflow
\* stays low.
NoOverflow == level <= Depth

\* A sender is not paused for ever once the FIFO is drained.
SenderResumes == []<>(pause = 0)
=============================================================================
