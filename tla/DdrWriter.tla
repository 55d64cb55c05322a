------------------------------ MODULE DdrWriter -------------------------------
(***************************************************************************)
(* ddr_writer.v: T_WAVEFORM_STREAM packets, two beats to a word of the     *)
(* memory, through pacc_fifo and an AXI master in bursts.  The input side  *)
(* takes beats until the AXI side reports the last response, whatever they *)
(* are; rd_en of the FIFO is a register, so that dout is the old word in   *)
(* the cycle after a word has been fetched.  The slave accepts and answers *)
(* in its own time.                                                        *)
(***************************************************************************)
EXTENDS Packets

CONSTANTS
    PaccDepth,   \* FIFO_WRITE_DEPTH: 256
    BurstMax,    \* 16, and the modulus of beat_cnt_axi
    MemWords     \* words of the memory
ASSUME DdrAssumption == /\ PaccDepth \in Nat \ {0} /\ BurstMax \in Nat \ {0, 1}
                        /\ MemWords \in Nat \ {0}

VARIABLES
    inState,     \* in_state: "idle", "meta" or "stream"
    total,       \* wave_total_bytes, in words
    metaValid,   \* meta_valid
    half,        \* half_valid and half_buf
    pacc,        \* pacc_fifo
    rdEn,        \* pacc_fifo_rd_en
    axi,         \* axi_state: "idle", "fill", "aw", "w" or "resp"
    addr, left,  \* cur_addr, in words from wave_start_addr; remaining_beats
    burst, cnt,  \* burst_beats, beat_cnt_axi
    aw, w,       \* the address and the data channel, driven by the master
    axiDone,     \* axi_done
    slave,       \* the slave: where the next beat goes, how many are due, if it owes a response
    mem,         \* the memory from wave_start_addr on
    wave         \* history: number of the packet being written

inVars == <<inState, total, metaValid, half, pacc, wave>>
axiVars == <<axi, addr, left, burst, cnt, aw, w, rdEn, axiDone>>
ddrVars == <<inVars, axiVars, slave, mem>>

NoWord == <<NoBeat, NoBeat>>

DdrInit ==
    /\ inState = "idle" /\ total = 0 /\ metaValid = FALSE /\ half = NoBeat /\ pacc = <<>>
    /\ rdEn = FALSE /\ axi = "idle" /\ addr = 0 /\ left = 0 /\ burst = 0 /\ cnt = 0
    /\ aw = [valid |-> FALSE, addr |-> 0, len |-> 0]
    /\ w = [valid |-> FALSE, data |-> NoWord, last |-> FALSE]
    /\ axiDone = FALSE /\ slave = [addr |-> 0, due |-> 0, owes |-> FALSE]
    /\ mem = [a \in 0..(MemWords - 1) |-> NoWord] /\ wave = 0
-----------------------------------------------------------------------------
\* wave_in_tready.
DdrReady == inState = "stream" => Len(pacc) < PaccDepth

\* The input side: header, parameters, then beats in pairs.  A packet's last beat does not
\* end it; axi_done does.
TakeBeat(b) ==
    LET takes(s) == inState = s /\ b # NoBeat /\ DdrReady
        rest == IF rdEn /\ pacc # <<>> THEN Tail(pacc) ELSE pacc
    IN /\ inState' = IF takes("idle") THEN "meta" ELSE IF takes("meta") THEN "stream"
                     ELSE IF inState = "stream" /\ axiDone THEN "idle" ELSE inState
       /\ wave' = IF takes("idle") THEN b.no ELSE wave
       /\ metaValid' = takes("meta")
       /\ total' = IF takes("meta") THEN (b.h.len - 2) \div 2 ELSE total
       /\ half' = IF takes("meta") THEN NoBeat
                  ELSE IF takes("stream") THEN IF half = NoBeat THEN b ELSE NoBeat
                  ELSE half
       /\ pacc' = IF takes("stream") /\ half # NoBeat THEN Append(rest, <<half, b>>) ELSE rest

\* ST_IDLE_A, ST_FILL.
AxiIdle ==
    /\ axi = "idle"
    /\ IF metaValid THEN addr' = 0 /\ left' = total /\ axi' = "fill" ELSE UNCHANGED <<addr, left, axi>>
    /\ rdEn' = FALSE /\ axiDone' = FALSE
    /\ UNCHANGED <<burst, cnt, aw, w>>
AxiFill ==
    /\ axi = "fill"
    /\ IF pacc # <<>> THEN axi' = "aw" /\ burst' = IF left >= BurstMax THEN BurstMax ELSE left
                      ELSE UNCHANGED <<axi, burst>>
    /\ rdEn' = FALSE /\ axiDone' = FALSE
    /\ UNCHANGED <<addr, left, cnt, aw, w>>

\* ST_AW: the address, and with its acceptance the first word.
AxiAw(ready) ==
    /\ axi = "aw"
    /\ IF aw.valid /\ "aw" \in ready
       THEN /\ aw' = [aw EXCEPT !.valid = FALSE]
            /\ w' = [valid |-> TRUE, data |-> pacc[1], last |-> burst = 1]
            /\ rdEn' = TRUE /\ cnt' = 1 /\ axi' = "w"
       ELSE /\ aw' = [valid |-> TRUE, addr |-> addr, len |-> burst - 1]
            /\ rdEn' = FALSE
            /\ UNCHANGED <<w, cnt, axi>>
    /\ axiDone' = FALSE
    /\ UNCHANGED <<addr, left, burst>>

\* ST_W: the next word when the last one has been accepted and dout is new.
\* (Variant: dout is taken without waiting for it.)
FreshAtOnce == pacc # <<>>
Fresh == pacc # <<>> /\ ~rdEn
Last == (cnt + 1) % BurstMax = burst % BurstMax
AxiW(ready) ==
    LET accepted == w.valid /\ "w" \in ready IN
    /\ axi = "w"
    /\ IF accepted /\ w.last
       THEN /\ w' = [w EXCEPT !.valid = FALSE, !.last = FALSE] /\ axi' = "resp"
            /\ rdEn' = FALSE /\ UNCHANGED cnt
       ELSE /\ IF (accepted \/ ~w.valid) /\ Fresh
               THEN /\ w' = [valid |-> TRUE, data |-> pacc[1], last |-> Last]
                    /\ rdEn' = TRUE /\ cnt' = (cnt + 1) % BurstMax
               ELSE /\ w' = [w EXCEPT !.valid = @ /\ ~accepted]
                    /\ rdEn' = FALSE /\ UNCHANGED cnt
            /\ UNCHANGED axi
    /\ axiDone' = FALSE
    /\ UNCHANGED <<addr, left, burst, aw>>

\* ST_RESP.
Finished == left <= burst
AxiResp(ready) ==
    /\ axi = "resp"
    /\ IF slave.owes /\ "b" \in ready
       THEN /\ addr' = addr + burst
            /\ left' = left - burst
            /\ axiDone' = Finished
            /\ axi' = IF Finished THEN "idle" ELSE "fill"
       ELSE axiDone' = FALSE /\ UNCHANGED <<addr, left, axi>>
    /\ rdEn' = FALSE
    /\ UNCHANGED <<burst, cnt, aw, w>>

\* The slave, an AXI FIFO before the memory.
Slave(ready) ==
    LET beat == w.valid /\ "w" \in ready IN
    /\ mem' = IF beat THEN [mem EXCEPT ![slave.addr % MemWords] = w.data] ELSE mem
    /\ slave' = IF aw.valid /\ "aw" \in ready
                THEN [addr |-> aw.addr, due |-> aw.len + 1, owes |-> FALSE]
                ELSE IF beat
                THEN [addr |-> slave.addr + 1, due |-> slave.due - 1, owes |-> w.last]
                ELSE [slave EXCEPT !.owes = @ /\ ~(axi = "resp" /\ "b" \in ready)]

TakeDdr(b, ready) ==
    /\ TakeBeat(b)
    /\ AxiIdle \/ AxiFill \/ AxiAw(ready) \/ AxiW(ready) \/ AxiResp(ready)
    /\ Slave(ready)
-----------------------------------------------------------------------------
DdrTypeOK ==
    /\ inState \in {"idle", "meta", "stream"} /\ total \in 0..MemWords
    /\ metaValid \in BOOLEAN /\ half \in Beat
    /\ pacc \in Seq(Beat \X Beat) /\ Len(pacc) <= PaccDepth
    /\ axi \in {"idle", "fill", "aw", "w", "resp"}
    /\ left \in 0..MemWords /\ burst \in 0..BurstMax /\ cnt \in 0..(BurstMax - 1)
    /\ addr \in 0..MemWords
    /\ rdEn \in BOOLEAN /\ axiDone \in BOOLEAN

\* When the last response has come, the memory holds the packet: each word made of its own
\* two beats, in the packet's order, and nothing of the packet is left on the way.
WaveStored == axiDone =>
    /\ \A a \in 0..(total - 1) : \A k \in {1, 2} :
           mem[a][k].no = wave /\ mem[a][k].i = 2 * a + k + 2
    /\ pacc = <<>> /\ half = NoBeat
=============================================================================
