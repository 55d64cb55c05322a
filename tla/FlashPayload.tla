----------------------------- MODULE FlashPayload -----------------------------
(***************************************************************************)
(* flash_payload_cdc.v: T_FLASH_WRITE_DATA packets, cut into the 32-bit    *)
(* words fpga_flash_ctrl.v collects.  It sees no packet boundaries but     *)
(* counts: a header to drop, then FlashBeats beats of two words each.  The *)
(* FIFO to okClk, which is emptied as fast as it fills, keeps the order of *)
(* the words and is left out.                                              *)
(***************************************************************************)
EXTENDS Packets

CONSTANT FlashBeats    \* 32
ASSUME FlashBeatsAssumption == FlashBeats \in Nat \ {0}

VARIABLES
    expectHeader,   \* expect_header
    dataCnt,        \* beat_cnt
    latchedHi,      \* unpack_half and latched_hi: the beat whose upper word is to go
    block,          \* the words that have gone, ok_word_cnt of them
    saved           \* the block at payload_complete

flashVars == <<expectHeader, dataCnt, latchedHi, block, saved>>

FlashInit ==
    expectHeader = TRUE /\ dataCnt = 0 /\ latchedHi = NoBeat /\ block = <<>> /\ saved = <<>>

FlashReady == latchedHi = NoBeat

\* A word goes; the last one of 2 * FlashBeats is payload_complete.
Word(b, half) == [no |-> b.no, i |-> b.i, half |-> half]
Out(w) ==
    LET all == Append(block, w)  complete == Len(all) = 2 * FlashBeats IN
    /\ block' = IF complete THEN <<>> ELSE all
    /\ saved' = IF complete THEN all ELSE saved

DropHeader(b) ==
    /\ b # NoBeat /\ FlashReady /\ expectHeader
    /\ expectHeader' = FALSE
    /\ UNCHANGED <<dataCnt, latchedHi, block, saved>>

\* The lower word of a beat goes at once.
\* (Variant: the header of the next packet is not waited for.)
UnpackNoHeader(b) ==
    /\ b # NoBeat /\ FlashReady /\ ~expectHeader
    /\ latchedHi' = b /\ Out(Word(b, "lo"))
    /\ dataCnt' = (dataCnt + 1) % FlashBeats
    /\ UNCHANGED expectHeader
Unpack(b) ==
    /\ b # NoBeat /\ FlashReady /\ ~expectHeader
    /\ latchedHi' = b /\ Out(Word(b, "lo"))
    /\ dataCnt' = (dataCnt + 1) % FlashBeats
    /\ expectHeader' = (dataCnt = FlashBeats - 1)

\* The upper word goes in the next cycle.
UnpackHi ==
    /\ ~FlashReady
    /\ latchedHi' = NoBeat /\ Out(Word(latchedHi, "hi"))
    /\ UNCHANGED <<expectHeader, dataCnt>>

FlashNothing(b) == b = NoBeat /\ FlashReady /\ UNCHANGED flashVars

TakeFlash(b) == DropHeader(b) \/ Unpack(b) \/ UnpackHi \/ FlashNothing(b)
-----------------------------------------------------------------------------
Words == [no : Nat, i : Nat, half : {"lo", "hi"}]
FlashTypeOK ==
    /\ expectHeader \in BOOLEAN /\ dataCnt \in 0..(FlashBeats - 1) /\ latchedHi \in Beat
    /\ block \in Seq(Words) /\ Len(block) < 2 * FlashBeats /\ saved \in Seq(Words)

\* A block that is complete is the payload of one packet, its words in the order in which
\* the host sent them: no header among them, none of another packet.
BlockWhole == \A k \in 1..Len(saved) :
    /\ saved[k].no = saved[1].no
    /\ saved[k].i = 1 + (k + 1) \div 2
    /\ saved[k].half = IF k % 2 = 1 THEN "lo" ELSE "hi"
=============================================================================
