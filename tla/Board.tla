--------------------------------- MODULE Board --------------------------------
(***************************************************************************)
(* The sys_clk side of one board: the dispatcher between the ring, USB and *)
(* the three modules its packets end in.  Packets arrive beat by beat, in  *)
(* any rhythm; the FIFO to the ring takes beats when it has room; the link *)
(* goes down and comes up; and a T_BOARD_ID_ASSIGN changes the board's     *)
(* number while other packets are on the way.                              *)
(***************************************************************************)
EXTENDS Dispatcher, LocalRegs, FlashPayload, DdrWriter, FiniteSets

CONSTANTS
    OldId, NewId,   \* board_id before and after T_BOARD_ID_ASSIGN
    Menu,           \* Menu[s]: the headers of the packets source s may bring, each once
    Sends,          \* Sends[s]: how many of them it brings at most
    FaultBudget     \* how often the link changes or a host pulls ti_debug_reply_trig

ASSUME BoardAssumption ==
    /\ {OldId, NewId} \subseteq Nat \ {All}
    /\ Menu \in [Sources -> SUBSET Header] /\ Sends \in [Sources -> Nat]
    /\ FaultBudget \in Nat

\* The lengths the hosts give their packets.  A waveform has a whole number of the memory's
\* words and at least one, and the memory has room for it.
PacketOk(h) ==
    /\ h.kind # "padding" /\ h.len # 0
    /\ h.kind = "wave" => h.len % 2 = 0 /\ h.len >= 4 /\ h.len <= 2 * MemWords + 2
    /\ h.kind = "flash" => h.len = FlashBeats + 1
    /\ h.kind = "list" => h.len = 4
    /\ h.kind = "report" => h.len >= 2 /\ h.len <= MaxWords + 1
    /\ h.kind \in {"assign", "query", "set"} => h.len = 2
    /\ h.kind = "enum" => h.len = 1
ASSUME PacketAssumption == \A s \in Sources : \A h \in Menu[s] : PacketOk(h)

VARIABLES sent, faults    \* history: the headers that have come; link changes and triggers so far
vars == <<me, up, dispatcherVars, localVars, flashVars, ddrVars, sent, faults>>

Init ==
    /\ me = OldId /\ up = TRUE
    /\ DispatcherInit /\ LocalInit /\ FlashInit /\ DdrInit
    /\ sent = [s \in Sources |-> {}] /\ faults = 0

\* A packet arrives.  Those from USB are filled up with zeros to a whole block.  The next
\* waveform is sent when the last one is in the memory: a call of the USB library takes
\* longer than the writes left when its packet has been handed over.
WaveComing ==
    \/ inState # "idle" \/ (port["ddr"] # NoBeat)
    \/ \E s \in Sources : \E k \in DOMAIN source[s] : source[s][k].h.kind = "wave"
    \/ state = "data" /\ route = {"ddr"}
MaySendWave == ~WaveComing
Send(s) == \E h \in Menu[s] \ sent[s] :
    LET no == Cardinality(sent["rx"]) + Cardinality(sent["fp"]) + 1
        beats == [i \in 1..h.len |-> [h |-> h, i |-> i, no |-> no, own |-> FALSE]]
    IN /\ Cardinality(sent[s]) < Sends[s]
       /\ h.kind = "wave" => MaySendWave
       /\ source' = [source EXCEPT ![s] = @ \o beats \o IF s = "fp" THEN <<Padding>> ELSE <<>>]
       /\ sent' = [sent EXCEPT ![s] = @ \cup {h}]
       /\ UNCHANGED <<me, up, state, remaining, route, from, subst, port, tlast, stall, taken,
                      lossy, localVars, flashVars, ddrVars, faults>>

\* The link goes down or comes back.
Link ==
    /\ faults < FaultBudget /\ faults' = faults + 1 /\ up' = ~up
    /\ UNCHANGED <<me, dispatcherVars, localVars, flashVars, ddrVars, sent>>

\* board_cfg_reg.v: the pulse of a T_BOARD_ID_ASSIGN sets board_id.
BoardCfg ==
    me' = IF pulse # <<>> /\ pulse[1].h.kind = "assign" THEN NewId ELSE me

\* One cycle of sys_clk.  The sources in see show a beat; outside holds "tx" if the FIFO to
\* the ring has room, and the AXI channels on which the slave is ready.  The registers'
\* FIFO is emptied in every cycle and never full; a module takes a beat as it leaves the
\* dispatcher's register.  A host that asks its own board names it as the one to answer to, so
\* the answer is written beside the packets (is_self_query) unless the number has changed since.
Asked == pulse # <<>> /\ pulse[1].h.kind = "query" /\ pulse[1].h.dest = me
Clock(see, outside, debug) ==
    LET ready == {"local"} \cup (outside \cap {"tx"})
                 \cup (IF DdrReady THEN {"ddr"} ELSE {}) \cup (IF FlashReady THEN {"flash"} ELSE {})
        aside == (IF Asked THEN {"own"} ELSE {}) \cup (IF debug THEN {"debug"} ELSE {})
    IN /\ Dispatch(see, ready)
       /\ debug => faults < FaultBudget
       /\ TakeLocal(port["local"], aside) /\ BoardCfg
       /\ TakeFlash(port["flash"])
       /\ TakeDdr(port["ddr"], outside)
       /\ faults' = IF debug THEN faults + 1 ELSE faults
       /\ UNCHANGED <<up, sent>>

Waiting == {s \in Sources : source[s] # <<>>}
Offered == (IF port["tx"] # NoBeat THEN {"tx"} ELSE {}) \cup (IF aw.valid THEN {"aw"} ELSE {})
           \cup (IF w.valid THEN {"w"} ELSE {}) \cup (IF slave.owes THEN {"b"} ELSE {})
Next ==
    \/ \E s \in Sources : Send(s)
    \/ Link
    \/ \E see \in SUBSET Waiting, outside \in SUBSET Offered, debug \in BOOLEAN :
           Clock(see, outside, debug)

Spec == Init /\ [][Next]_vars

\* The clock runs, beats that have arrived are shown, and the memory accepts and answers,
\* again and again, whether or not the FIFO to the ring ever has room.
LiveSpec == Spec /\ WF_vars(Clock(Waiting, Offered \ {"tx"}, FALSE))
-----------------------------------------------------------------------------
TypeOK == DispatcherTypeOK /\ LocalTypeOK /\ FlashTypeOK /\ DdrTypeOK

\* What has been handed to the dispatcher goes through it, even if nothing ever leaves for
\* the ring again: tx_stall_cnt and channel_up_1 see to that.  The waveforms among it are
\* written to their end, and ddr_writer is ready for the next.
HostServed == (source["fp"] # <<>>) ~> (source["fp"] = <<>> /\ inState = "idle")
=============================================================================
